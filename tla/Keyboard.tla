------------------------------ MODULE Keyboard ------------------------------
(***************************************************************************)
(* The PS/2 keyboard driver, drivers/keyboard/keyboard.c, and its reader,  *)
(* the loop of shell_run that polls the ring and halts while it is empty.  *)
(*                                                                         *)
(* The device sends a key as one byte or as the prefix 0xE0 and one byte,  *)
(* and raises IRQ 1 for each; keyboard_irq_handler runs behind an          *)
(* interrupt gate, so it is one step.  keyboard_poll runs with interrupts  *)
(* on: an interrupt may come between its test, its copy of the event and   *)
(* its store to kbd_head.  None of these variables is volatile, so the     *)
(* compiler may order the copy and the store either way.                   *)
(***************************************************************************)
EXTENDS Naturals, Sequences, SequencesExt

CONSTANTS KbdBufferSize,  \* KBD_BUFFER_SIZE
          Strokes         \* what the device sends for a key going down or up

Prefix == 224    \* 0xE0
Released == 128  \* the bit a release adds to the scancode
KeyBytes == 0 .. 255 \ {Prefix}

ASSUME KeyboardAssumption ==
    /\ KbdBufferSize \in Nat \ {0, 1}
    /\ Strokes \subseteq {<<b>> : b \in KeyBytes} \cup {<<Prefix, b>> : b \in KeyBytes}

VARIABLES kbd_buffer, kbd_head, kbd_tail,
          mods,       \* shift_pressed, ctrl_pressed, alt_pressed, caps_lock,
                      \* extended_pending, as a record
          wire,       \* bytes of the current stroke still to be sent
          reader,     \* where the reader is: [pc, todo, slot, ev]
          typed       \* history: strokes accepted and not yet read, with the
                      \* case they were typed in

kbdVars == <<kbd_buffer, kbd_head, kbd_tail, mods, wire, reader, typed>>

KbdSlots == 0 .. KbdBufferSize - 1
NoEvent == <<>>
NUL == "NUL"

\* The tables cover scancodes 0 to 57; the rest of their 128 entries is 0.
scancode_normal ==
    <<NUL, "ESC", "1", "2", "3", "4", "5", "6", "7", "8", "9", "0", "-", "=", "BS",
      "TAB", "q", "w", "e", "r", "t", "y", "u", "i", "o", "p", "[", "]", "LF",
      NUL, "a", "s", "d", "f", "g", "h", "j", "k", "l", ";", "apos", "grave",
      NUL, "bsl", "z", "x", "c", "v", "b", "n", "m", ",", ".", "/", NUL,
      "*", NUL, " ">>
scancode_shift ==
    <<NUL, "ESC", "!", "@", "#", "$", "%", "^", "&", "*", "(", ")", "_", "+", "BS",
      "TAB", "Q", "W", "E", "R", "T", "Y", "U", "I", "O", "P", "{", "}", "LF",
      NUL, "A", "S", "D", "F", "G", "H", "J", "K", "L", ":", "quot", "~",
      NUL, "|", "Z", "X", "C", "V", "B", "N", "M", "<", ">", "?", NUL,
      "*", NUL, " ">>

Ascii(scancode, use_shift) ==
    IF scancode \notin 0 .. 57 THEN NUL
    ELSE (IF use_shift THEN scancode_shift ELSE scancode_normal)[scancode + 1]

KEY_CTRL == 29
KEY_SHIFTS == {42, 54}
KEY_ALT == 56
KEY_CAPS == 58

UseShift == mods.shift # mods.caps

KbdInit ==
    /\ kbd_buffer = [s \in KbdSlots |-> NoEvent]
    /\ kbd_head = 0 /\ kbd_tail = 0
    /\ mods = [shift |-> FALSE, ctrl |-> FALSE, alt |-> FALSE,
               caps |-> FALSE, extended |-> FALSE]
    /\ wire = <<>>
    /\ reader = [pc |-> "poll", todo |-> {}, slot |-> 0, ev |-> NoEvent]
    /\ typed = <<>>

-----------------------------------------------------------------------------
(***************************************************************************)
(* The interrupt.                                                          *)
(***************************************************************************)

\* An interrupt ends a halt.
Awake(r) == IF r.pc = "halted" THEN [r EXCEPT !.pc = "poll"] ELSE r

\* Fault: no test for a full ring.
put_unchecked(event) ==
    /\ kbd_buffer' = [kbd_buffer EXCEPT ![kbd_tail] = event]
    /\ kbd_tail' = (kbd_tail + 1) % KbdBufferSize

\* The end of keyboard_irq_handler: a full ring drops the new event.
put(event) ==
    LET next_tail == (kbd_tail + 1) % KbdBufferSize
    IN  IF next_tail # kbd_head
        THEN /\ kbd_buffer' = [kbd_buffer EXCEPT ![kbd_tail] = event]
             /\ kbd_tail' = next_tail
        ELSE UNCHANGED <<kbd_buffer, kbd_tail>>

\* The modifiers after a byte that is not the prefix.
Modified(extended, released, code) ==
    IF extended THEN [mods EXCEPT !.extended = FALSE]
    ELSE [mods EXCEPT !.extended = FALSE,
                      !.shift = IF code \in KEY_SHIFTS THEN ~released ELSE @,
                      !.ctrl = IF code = KEY_CTRL THEN ~released ELSE @,
                      !.alt = IF code = KEY_ALT THEN ~released ELSE @,
                      !.caps = IF code = KEY_CAPS /\ ~released THEN ~@ ELSE @]

IsModifier(code) == code \in KEY_SHIFTS \cup {KEY_CTRL, KEY_ALT, KEY_CAPS}

\* IRQ 1 with a byte in the data port.
keyboard_irq_handler(byte) ==
    LET released == byte >= Released
        code == byte % Released
    IN  IF byte = Prefix
        THEN /\ mods' = [mods EXCEPT !.extended = TRUE]
             /\ UNCHANGED <<kbd_buffer, kbd_tail>>
        ELSE /\ mods' = Modified(mods.extended, released, code)
             /\ IF released \/ (~mods.extended /\ IsModifier(code))
                THEN UNCHANGED <<kbd_buffer, kbd_tail>>
                ELSE put([scancode |-> code,
                          ascii |-> IF mods.extended THEN NUL
                                    ELSE Ascii(code, UseShift),
                          shift |-> mods.shift, ctrl |-> mods.ctrl,
                          alt |-> mods.alt, extended |-> mods.extended])

\* How many events the ring holds.
Held == (kbd_tail + KbdBufferSize - kbd_head) % KbdBufferSize

\* A stroke that is a key to be read, and not a release or a modifier.
IsKey(s) == Last(s) < Released /\ ~(Len(s) = 1 /\ IsModifier(s[1]))

\* The device begins a stroke or goes on with it (external).  The history
\* takes a whole stroke, if the ring has room for it.
key_byte ==
    \E s \in IF wire = <<>> THEN Strokes ELSE {wire} :
       /\ keyboard_irq_handler(s[1])
       /\ wire' = Tail(s)
       /\ LET stroke == IF wire = <<>> THEN s ELSE <<Prefix>> \o s
          IN  typed' = IF Len(s) = 1 /\ IsKey(stroke) /\ Held < KbdBufferSize - 1
                       THEN Append(typed, [stroke |-> stroke, up |-> UseShift])
                       ELSE typed
       /\ reader' = Awake(reader)
       /\ UNCHANGED kbd_head

\* The timer's interrupt, as the reader sees it.  None may come: see Kernel.
tick ==
    /\ reader.pc = "halted"
    /\ reader' = Awake(reader)
    /\ UNCHANGED <<kbd_buffer, kbd_head, kbd_tail, mods, wire, typed>>

-----------------------------------------------------------------------------
(***************************************************************************)
(* The reader.                                                             *)
(***************************************************************************)

\* keyboard_poll: the test.
poll_test ==
    /\ reader.pc = "poll"
    /\ reader' = IF kbd_head = kbd_tail THEN [reader EXCEPT !.pc = "hlt"]
                 ELSE [reader EXCEPT !.pc = "take", !.todo = {"copy", "advance"},
                                     !.slot = kbd_head]
    /\ UNCHANGED <<kbd_buffer, kbd_head, kbd_tail, mods, wire, typed>>

\* After the copy and the store the event goes to the shell.
Finish(r) == IF r.todo = {} THEN [r EXCEPT !.pc = "handle"] ELSE r

\* keyboard_poll: *event = kbd_buffer[kbd_head].
poll_copy ==
    /\ "copy" \in reader.todo
    /\ reader' = Finish([reader EXCEPT !.todo = @ \ {"copy"},
                                       !.ev = kbd_buffer[reader.slot]])
    /\ UNCHANGED <<kbd_buffer, kbd_head, kbd_tail, mods, wire, typed>>

\* keyboard_poll: kbd_head = (kbd_head + 1) % KBD_BUFFER_SIZE.
poll_advance ==
    /\ "advance" \in reader.todo
    /\ kbd_head' = (reader.slot + 1) % KbdBufferSize
    /\ reader' = Finish([reader EXCEPT !.todo = @ \ {"advance"}])
    /\ UNCHANGED <<kbd_buffer, kbd_tail, mods, wire, typed>>

\* Fault: the shell halts after every key.
handle_then_hlt ==
    /\ reader.pc = "handle"
    /\ reader' = [reader EXCEPT !.pc = "hlt", !.slot = 0, !.ev = NoEvent]
    /\ kbd_buffer' = [kbd_buffer EXCEPT ![reader.slot] = NoEvent]
    /\ typed' = Tail(typed)
    /\ UNCHANGED <<kbd_head, kbd_tail, mods, wire>>

\* The shell handles the event (module Shell) and polls again.  The slot it
\* came from will be written before it is read: the model blanks it.
handle ==
    /\ reader.pc = "handle"
    /\ reader' = [reader EXCEPT !.pc = "poll", !.slot = 0, !.ev = NoEvent]
    /\ kbd_buffer' = [kbd_buffer EXCEPT ![reader.slot] = NoEvent]
    /\ typed' = Tail(typed)
    /\ UNCHANGED <<kbd_head, kbd_tail, mods, wire>>

\* hlt after a poll that found nothing, whatever has come in since.
halt ==
    /\ reader.pc = "hlt"
    /\ reader' = [reader EXCEPT !.pc = "halted"]
    /\ UNCHANGED <<kbd_buffer, kbd_head, kbd_tail, mods, wire, typed>>

read_step == poll_test \/ poll_copy \/ poll_advance \/ handle \/ halt

KbdNext == key_byte \/ tick \/ read_step

-----------------------------------------------------------------------------
(***************************************************************************)
(* Properties.                                                             *)
(***************************************************************************)

\* The event that a stroke typed in a given case must give.
Matches(e, t) ==
    LET code == Last(t.stroke)
    IN  /\ e.scancode = code
        /\ e.extended = (Len(t.stroke) = 2)
        /\ e.ascii = IF e.extended THEN NUL ELSE Ascii(code, t.up)

\* What the reader still has to get: the event it has taken, then the ring.
Unread ==
    (CASE reader.pc = "handle" -> <<reader.ev>>
       [] reader.todo = {"copy"} -> <<kbd_buffer[reader.slot]>>
       [] OTHER -> <<>>)
    \o [i \in 1 .. Held |-> kbd_buffer[(kbd_head + i - 1) % KbdBufferSize]]

\* Keys are read in the order they were typed, each once and as it was typed:
\* the prefix joined to its byte over two interrupts, the case that held at
\* the time; only keys that met a full ring are missing.  Interrupts between
\* the steps of keyboard_poll, in either order of these, change nothing.
KbdFifo ==
    /\ Len(Unread) = Len(typed)
    /\ \A i \in 1 .. Len(typed) : Unread[i] # NoEvent /\ Matches(Unread[i], typed[i])

\* shell_run makes for hlt only when every key accepted so far has been
\* handled: no interleaving makes a full ring look empty, and a burst of keys
\* is worked off before the shell waits.  A key that comes in between that and
\* hlt itself stays in the ring until the next interrupt.
KeysBeforeHalt ==
    [][reader.pc # "hlt" /\ reader'.pc = "hlt" => typed = <<>>]_kbdVars

=============================================================================
