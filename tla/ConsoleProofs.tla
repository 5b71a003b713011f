--------------------------- MODULE ConsoleProofs ----------------------------
(***************************************************************************)
(* Keyboard, shell and framebuffer terminal, for every size of their       *)
(* buffers, every length of a line, every screen and every set of keys.    *)
(* What each does does not depend on the others: its own steps are all that *)
(* moves it.                                                               *)
(***************************************************************************)
EXTENDS IpcProofs, FiniteSetTheorems, WellFoundedInduction

\* A set of naturals has a least element.
LEMMA LeastElement ==
    ASSUME NEW S \in SUBSET Nat, S # {}
    PROVE  \E x \in S : \A y \in S : x <= y
<1>1. \E x \in S : \A y \in S : ~(<<y, x>> \in OpToRel(<, Nat))
  BY NatLessThanWellFounded, WFMin, Zenon
<1>2. PICK x \in S : \A y \in S : ~(<<y, x>> \in OpToRel(<, Nat))
  BY <1>1
<1>3. \A y \in S : ~(y < x)
  <2> SUFFICES ASSUME NEW y \in S, y < x PROVE FALSE
    OBVIOUS
  <2>1. <<y, x>> \in Nat \X Nat
    OBVIOUS
  <2>2. <<y, x>> \in OpToRel(<, Nat)
    BY <2>1, Zenon DEF OpToRel
  <2> QED
    BY <1>2, <2>2, Zenon
<1>4. x \in S /\ \A y \in S : x <= y
  BY <1>3
<1> QED
  BY <1>4

\* A set of naturals with zero that holds what comes after each of its
\* members below m holds every number up to m.
LEMMA UpTo ==
    ASSUME NEW m \in Nat, NEW S, 0 \in S,
           \A n \in 0 .. m : n < m /\ n \in S => n + 1 \in S
    PROVE  \A n \in 0 .. m : n \in S
<1> DEFINE B == {n \in 0 .. m : n \notin S}
<1>1. SUFFICES ASSUME B # {} PROVE FALSE
  OBVIOUS
<1>2. PICK n \in B : \A k \in B : n <= k
  <2>1. B \in SUBSET Nat
    OBVIOUS
  <2> HIDE DEF B
  <2> QED
    BY <1>1, <2>1, LeastElement
<1>3. n \in 0 .. m /\ n # 0 /\ n - 1 \in 0 .. m /\ n - 1 < m
  BY <1>2
<1>4. n - 1 \notin B
  BY <1>2, <1>3
<1>5. n - 1 \in S
  BY <1>3, <1>4
<1>6. (n - 1) + 1 \in S
  BY <1>3, <1>5
<1> QED
  BY <1>2, <1>3, <1>6

-----------------------------------------------------------------------------
(***************************************************************************)
(* The keyboard.                                                           *)
(***************************************************************************)

KbdMods == [shift : BOOLEAN, ctrl : BOOLEAN, alt : BOOLEAN, caps : BOOLEAN,
            extended : BOOLEAN]
TypedKeys == [stroke : Seq(0 .. 255), up : BOOLEAN]
Good(e, t) == e # NoEvent /\ Matches(e, t)

\* The slot of the i-th event of the ring, and how many the reader has out.
SlotOf(i) == (kbd_head + i - 1) % KbdBufferSize
Taking(r) == IF r.pc = "handle" \/ r.todo = {"copy"} THEN 1 ELSE 0

KbdTypes ==
    /\ DOMAIN kbd_buffer = KbdSlots /\ kbd_head \in KbdSlots /\ kbd_tail \in KbdSlots
    /\ mods \in KbdMods /\ typed \in Seq(TypedKeys)
    /\ DOMAIN reader = {"pc", "todo", "slot", "ev"}
    /\ reader.pc \in {"poll", "hlt", "halted", "take", "handle"}
    /\ reader.todo \in SUBSET {"copy", "advance"} /\ reader.slot \in KbdSlots

\* Between the two bytes of a stroke, and only then, the prefix is pending.
WireOK ==
    \/ wire = <<>> /\ ~mods.extended
    \/ (\E b \in KeyBytes : wire = <<b>>) /\ mods.extended

\* Where the reader is in keyboard_poll, and what the ring's head says of it.
ReaderOK ==
    /\ reader.todo # {} <=> reader.pc = "take"
    /\ "advance" \in reader.todo => reader.slot = kbd_head /\ kbd_head # kbd_tail
    /\ reader.todo = {"advance"} => reader.ev = kbd_buffer[reader.slot]
    /\ Taking(reader) = 1 => kbd_head = (reader.slot + 1) % KbdBufferSize

\* Event by event: the one the reader has out, then those of the ring.
EventsMatch ==
    /\ Len(typed) = Taking(reader) + Held
    /\ reader.pc = "handle" => Good(reader.ev, typed[1])
    /\ reader.todo = {"copy"} => Good(kbd_buffer[reader.slot], typed[1])
    /\ \A i \in 1 .. Held : Good(kbd_buffer[SlotOf(i)], typed[Taking(reader) + i])

KbdInv == KbdTypes /\ WireOK /\ ReaderOK /\ EventsMatch

\* Events in a ring of S slots with head h and tail t.
LEMMA KbdSize == KbdBufferSize \in Nat \ {0} /\ KbdBufferSize > 1
  BY KeyboardAssumption

LEMMA RingLength ==
    ASSUME NEW h \in KbdSlots, NEW t \in KbdSlots
    PROVE  /\ (t + KbdBufferSize - h) % KbdBufferSize \in 0 .. KbdBufferSize - 1
           /\ \A n \in 0 .. KbdBufferSize - 1 :
                 (t + KbdBufferSize - h) % KbdBufferSize = n
                    <=> (t = h + n \/ t = h + n - KbdBufferSize)
<1> DEFINE S == KbdBufferSize
           x == t + S - h
           y == x % S
<1>1. S \in Nat \ {0} /\ h \in 0 .. S - 1 /\ t \in 0 .. S - 1
  BY KbdSize DEF KbdSlots
<1> HIDE DEF S
<1>2. x \in Int /\ (x \in 0 .. S - 1 \/ x \in S .. 2 * S - 1)
  BY <1>1
<1> HIDE DEF x
<1>3. y \in 0 .. S - 1 /\ (y = x \/ y = x - S)
  BY <1>1, <1>2, OneTurn
<1> HIDE DEF y
<1>4. \A n \in 0 .. S - 1 : y = n <=> (t = h + n \/ t = h + n - S)
  BY <1>1, <1>3 DEF x
<1> QED
  BY <1>3, <1>4 DEF y, x, S

\* The slots of the ring, one after the other from its head.
LEMMA Places ==
    ASSUME kbd_head \in KbdSlots
    PROVE  /\ \A i \in 1 .. KbdBufferSize :
                 /\ SlotOf(i) \in KbdSlots
                 /\ SlotOf(i) = kbd_head + i - 1 \/ SlotOf(i) = kbd_head + i - 1 - KbdBufferSize
           /\ \A i, j \in 1 .. KbdBufferSize : SlotOf(i) = SlotOf(j) => i = j
<1>1. KbdBufferSize \in Nat \ {0} /\ kbd_head \in 0 .. KbdBufferSize - 1
  BY KbdSize DEF KbdSlots
<1>2. ASSUME NEW i \in 1 .. KbdBufferSize
      PROVE  /\ SlotOf(i) \in KbdSlots
             /\ SlotOf(i) = kbd_head + i - 1 \/ SlotOf(i) = kbd_head + i - 1 - KbdBufferSize
  <2>1. i - 1 \in 0 .. KbdBufferSize /\ kbd_head + i - 1 = kbd_head + (i - 1)
    BY <1>1
  <2>2. /\ (kbd_head + (i - 1)) % KbdBufferSize \in 0 .. KbdBufferSize - 1
        /\ \/ (kbd_head + (i - 1)) % KbdBufferSize = kbd_head + (i - 1)
           \/ (kbd_head + (i - 1)) % KbdBufferSize = kbd_head + (i - 1) - KbdBufferSize
    BY <1>1, <2>1, WrapsOnce
  <2> QED
    BY <2>1, <2>2 DEF SlotOf, KbdSlots
<1>3. ASSUME NEW i \in 1 .. KbdBufferSize, NEW j \in 1 .. KbdBufferSize, SlotOf(i) = SlotOf(j)
      PROVE  i = j
  <2>1. SlotOf(i) = kbd_head + i - 1 \/ SlotOf(i) = kbd_head + i - 1 - KbdBufferSize
    BY <1>2
  <2>2. SlotOf(j) = kbd_head + j - 1 \/ SlotOf(j) = kbd_head + j - 1 - KbdBufferSize
    BY <1>2
  <2> QED
    BY <1>1, <1>3, <2>1, <2>2
<1> QED
  BY <1>2, <1>3

\* The tail is the slot behind the last event; the ring is full, to the
\* handler, when all slots but one are in use.
LEMMA TailPlace ==
    ASSUME kbd_head \in KbdSlots, kbd_tail \in KbdSlots
    PROVE  /\ Held \in 0 .. KbdBufferSize - 1
           /\ Held + 1 \in 1 .. KbdBufferSize /\ SlotOf(Held + 1) = kbd_tail
           /\ (Held = 0) <=> (kbd_head = kbd_tail)
           /\ ((kbd_tail + 1) % KbdBufferSize # kbd_head) <=> (Held < KbdBufferSize - 1)
<1>1. KbdBufferSize \in Nat \ {0} /\ KbdBufferSize > 1
      /\ kbd_head \in 0 .. KbdBufferSize - 1 /\ kbd_tail \in 0 .. KbdBufferSize - 1
  BY KbdSize DEF KbdSlots
<1>2. /\ Held \in 0 .. KbdBufferSize - 1
      /\ kbd_tail = kbd_head + Held \/ kbd_tail = kbd_head + Held - KbdBufferSize
  BY RingLength DEF Held
<1>3. Held + 1 \in 1 .. KbdBufferSize
  BY <1>1, <1>2
<1>4. SlotOf(Held + 1) = kbd_tail
  <2>1. /\ SlotOf(Held + 1) \in 0 .. KbdBufferSize - 1
        /\ \/ SlotOf(Held + 1) = kbd_head + (Held + 1) - 1
           \/ SlotOf(Held + 1) = kbd_head + (Held + 1) - 1 - KbdBufferSize
    BY <1>3, Places DEF KbdSlots
  <2> HIDE DEF Held
  <2> QED
    BY <1>1, <1>2, <2>1
<1>5. /\ (kbd_tail + 1) % KbdBufferSize \in 0 .. KbdBufferSize - 1
      /\ \/ (kbd_tail + 1) % KbdBufferSize = kbd_tail + 1
         \/ (kbd_tail + 1) % KbdBufferSize = kbd_tail + 1 - KbdBufferSize
  <2>1. 1 \in 0 .. KbdBufferSize
    BY <1>1
  <2> QED
    BY <1>1, <2>1, WrapsOnce
<1>6. (Held = 0) <=> (kbd_head = kbd_tail)
  BY <1>1, <1>2
<1>7. ((kbd_tail + 1) % KbdBufferSize # kbd_head) <=> (Held < KbdBufferSize - 1)
  <2> DEFINE u == (kbd_tail + 1) % KbdBufferSize
  <2>1. u \in 0 .. KbdBufferSize - 1 /\ (u = kbd_tail + 1 \/ u = kbd_tail + 1 - KbdBufferSize)
    BY <1>5
  <2> HIDE DEF u
  <2>2. (u # kbd_head) <=> (Held < KbdBufferSize - 1)
    BY <1>1, <1>2, <2>1
  <2> QED
    BY <2>2 DEF u
<1> QED
  BY <1>2, <1>3, <1>4, <1>6, <1>7

\* One more event behind the others.
LEMMA RingGrows ==
    ASSUME kbd_head \in KbdSlots, kbd_tail \in KbdSlots, Held < KbdBufferSize - 1,
           kbd_head' = kbd_head, kbd_tail' = (kbd_tail + 1) % KbdBufferSize
    PROVE  /\ kbd_tail' \in KbdSlots /\ Held' = Held + 1
           /\ \A i \in 1 .. KbdBufferSize : SlotOf(i)' = SlotOf(i)
<1>1. KbdBufferSize \in Nat \ {0} /\ KbdBufferSize > 1
      /\ kbd_head \in 0 .. KbdBufferSize - 1 /\ kbd_tail \in 0 .. KbdBufferSize - 1
  BY KbdSize DEF KbdSlots
<1>2. /\ Held \in 0 .. KbdBufferSize - 1
      /\ kbd_tail = kbd_head + Held \/ kbd_tail = kbd_head + Held - KbdBufferSize
  BY RingLength DEF Held
<1>3. /\ kbd_tail' \in 0 .. KbdBufferSize - 1
      /\ kbd_tail' = kbd_tail + 1 \/ kbd_tail' = kbd_tail + 1 - KbdBufferSize
  <2>1. 1 \in 0 .. KbdBufferSize
    BY <1>1
  <2> QED
    BY <1>1, <2>1, WrapsOnce
<1>4. kbd_tail' \in KbdSlots
  BY <1>3 DEF KbdSlots
<1>5. /\ Held + 1 \in 0 .. KbdBufferSize - 1
      /\ kbd_tail' = kbd_head + (Held + 1) \/ kbd_tail' = kbd_head + (Held + 1) - KbdBufferSize
  BY <1>1, <1>2, <1>3
<1>6. (kbd_tail' + KbdBufferSize - kbd_head) % KbdBufferSize = Held + 1
  BY <1>4, <1>5, RingLength
<1> QED
  BY <1>4, <1>6 DEF Held, SlotOf

\* The oldest event leaves the ring.
LEMMA RingShrinks ==
    ASSUME kbd_head \in KbdSlots, kbd_tail \in KbdSlots, kbd_head # kbd_tail,
           kbd_tail' = kbd_tail, kbd_head' = (kbd_head + 1) % KbdBufferSize
    PROVE  /\ kbd_head' \in KbdSlots /\ Held \in Nat \ {0} /\ Held' = Held - 1
           /\ \A i \in 1 .. KbdBufferSize - 1 : SlotOf(i)' = SlotOf(i + 1)
           /\ SlotOf(1) = kbd_head
<1>1. KbdBufferSize \in Nat \ {0} /\ KbdBufferSize > 1
      /\ kbd_head \in 0 .. KbdBufferSize - 1 /\ kbd_tail \in 0 .. KbdBufferSize - 1
  BY KbdSize DEF KbdSlots
<1>2. /\ Held \in 0 .. KbdBufferSize - 1
      /\ kbd_tail = kbd_head + Held \/ kbd_tail = kbd_head + Held - KbdBufferSize
  BY RingLength DEF Held
<1>3. /\ kbd_head' \in 0 .. KbdBufferSize - 1
      /\ kbd_head' = kbd_head + 1 \/ kbd_head' = kbd_head + 1 - KbdBufferSize
  <2>1. 1 \in 0 .. KbdBufferSize
    BY <1>1
  <2> QED
    BY <1>1, <2>1, WrapsOnce
<1>4. kbd_head' \in KbdSlots
  BY <1>3 DEF KbdSlots
<1>5. /\ Held - 1 \in 0 .. KbdBufferSize - 1
      /\ kbd_tail = kbd_head' + (Held - 1) \/ kbd_tail = kbd_head' + (Held - 1) - KbdBufferSize
  BY <1>1, <1>2, <1>3
<1>6. (kbd_tail + KbdBufferSize - kbd_head') % KbdBufferSize = Held - 1
  BY <1>4, <1>5, RingLength
<1>7. ASSUME NEW i \in 1 .. KbdBufferSize - 1
      PROVE  SlotOf(i)' = SlotOf(i + 1)
  <2>1. i \in 1 .. KbdBufferSize /\ i + 1 \in 1 .. KbdBufferSize
    BY <1>1
  <2>2. /\ SlotOf(i + 1) \in 0 .. KbdBufferSize - 1
        /\ \/ SlotOf(i + 1) = kbd_head + (i + 1) - 1
           \/ SlotOf(i + 1) = kbd_head + (i + 1) - 1 - KbdBufferSize
    BY <2>1, Places DEF KbdSlots
  <2>3. i - 1 \in 0 .. KbdBufferSize /\ kbd_head' + i - 1 = kbd_head' + (i - 1)
    BY <1>1, <1>3
  <2>4. /\ (kbd_head' + (i - 1)) % KbdBufferSize \in 0 .. KbdBufferSize - 1
        /\ \/ (kbd_head' + (i - 1)) % KbdBufferSize = kbd_head' + (i - 1)
           \/ (kbd_head' + (i - 1)) % KbdBufferSize = kbd_head' + (i - 1) - KbdBufferSize
    BY <1>1, <1>3, <2>3, WrapsOnce
  <2>5. SlotOf(i)' = (kbd_head' + (i - 1)) % KbdBufferSize
    BY <2>3 DEF SlotOf
  <2> DEFINE u == SlotOf(i)'
             v == SlotOf(i + 1)
  <2>6. /\ u \in 0 .. KbdBufferSize - 1 /\ v \in 0 .. KbdBufferSize - 1
        /\ u = kbd_head' + (i - 1) \/ u = kbd_head' + (i - 1) - KbdBufferSize
        /\ v = kbd_head + (i + 1) - 1 \/ v = kbd_head + (i + 1) - 1 - KbdBufferSize
    BY <2>2, <2>4, <2>5
  <2> HIDE DEF u, v
  <2>7. u = v
    BY <1>1, <1>3, <2>6
  <2> QED
    BY <2>7 DEF u, v
<1>8. SlotOf(1) = kbd_head
  <2>1. 1 \in 1 .. KbdBufferSize
    BY <1>1
  <2>2. /\ SlotOf(1) \in 0 .. KbdBufferSize - 1
        /\ SlotOf(1) = kbd_head + 1 - 1 \/ SlotOf(1) = kbd_head + 1 - 1 - KbdBufferSize
    BY <2>1, Places DEF KbdSlots
  <2> QED
    BY <1>1, <2>2
<1>9. Held \in Nat \ {0}
  BY <1>1, <1>2
<1> QED
  BY <1>4, <1>6, <1>7, <1>8, <1>9 DEF Held

\* A sequence behind a single element.
LEMMA AfterOne ==
    ASSUME NEW S, NEW f \in Seq(S), NEW g \in Seq(S), NEW n \in Nat,
           Len(f) = 1, Len(g) = n
    PROVE  /\ Len(f \o g) = 1 + n
           /\ \A i \in 1 .. 1 + n : (f \o g)[i] = IF i = 1 THEN f[1] ELSE g[i - 1]
<1>1. /\ Len(f \o g) = Len(f) + Len(g)
      /\ \A i \in 1 .. Len(f) + Len(g) :
            (f \o g)[i] = IF i <= Len(f) THEN f[i] ELSE g[i - Len(f)]
  BY ConcatProperties
<1> QED
  BY <1>1

\* The invariant says what the property does.
LEMMA KbdInvFifo == KbdInv => KbdFifo
<1> SUFFICES ASSUME KbdInv PROVE KbdFifo
  OBVIOUS
<1> DEFINE inRing == [i \in 1 .. Held |-> kbd_buffer[SlotOf(i)]]
           first == CASE reader.pc = "handle" -> <<reader.ev>>
                      [] reader.todo = {"copy"} -> <<kbd_buffer[reader.slot]>>
                      [] OTHER -> <<>>
<1>1. Unread = first \o inRing
  BY DEF Unread, SlotOf
<1>2. Held \in Nat /\ Len(typed) = Taking(reader) + Held
  BY TailPlace DEF KbdInv, KbdTypes, EventsMatch
<1>3. \A i \in 1 .. Held : inRing[i] = kbd_buffer[SlotOf(i)]
  OBVIOUS
<1>4. DOMAIN inRing = 1 .. Held /\ Len(inRing) = Held
  BY <1>2
<1>5. PICK V : \A i \in 1 .. Held : inRing[i] \in V
  <2>1. \A i \in 1 .. Held : inRing[i] \in {inRing[j] : j \in 1 .. Held}
    OBVIOUS
  <2> QED
    BY <2>1
<1>6. inRing \in Seq(V)
  BY <1>2, <1>5
<1>7. \A i \in 1 .. Held : Good(inRing[i], typed[Taking(reader) + i])
  BY <1>3 DEF KbdInv, EventsMatch
<1> HIDE DEF inRing
<1>8. ASSUME NEW x, first = <<x>>, Taking(reader) = 1, Good(x, typed[1])
      PROVE  KbdFifo
  <2> DEFINE W == V \cup {x}
  <2> HIDE DEF first
  <2>1. <<x>> \in Seq(W) /\ Len(<<x>>) = 1 /\ inRing \in Seq(W)
    <3>1. x \in W /\ V \subseteq W
      OBVIOUS
    <3> HIDE DEF W
    <3>2. <<x>> \in Seq(W) /\ Len(<<x>>) = 1
      BY <3>1
    <3> QED
      BY <1>6, <3>1, <3>2
  <2> HIDE DEF W
  <2>2. first \in Seq(W) /\ Len(first) = 1 /\ first[1] = x
    BY <1>8, <2>1
  <2>3. /\ Len(first \o inRing) = 1 + Held
        /\ \A i \in 1 .. 1 + Held :
              (first \o inRing)[i] = IF i = 1 THEN first[1] ELSE inRing[i - 1]
    BY <1>2, <1>4, <2>1, <2>2, AfterOne
  <2>5. ASSUME NEW i \in 1 .. Len(typed)
        PROVE  Good(Unread[i], typed[i])
    <3>1. i \in 1 .. 1 + Held
      BY <1>2, <1>8
    <3>2. CASE i = 1
      BY <1>1, <1>8, <2>2, <2>3, <3>1, <3>2
    <3>3. CASE i # 1
      <4>1. i - 1 \in 1 .. Held /\ i = 1 + (i - 1)
        BY <1>2, <3>1, <3>3
      <4>2. Good(inRing[i - 1], typed[i])
        BY <1>7, <1>8, <4>1
      <4> QED
        BY <1>1, <2>3, <3>1, <3>3, <4>2
    <3> QED
      BY <3>2, <3>3
  <2> QED
    BY <1>1, <1>2, <1>8, <2>3, <2>5 DEF KbdFifo, Good
<1>9. ASSUME first = <<>>, Taking(reader) = 0
      PROVE  KbdFifo
  <2>1. <<>> \o inRing = inRing
    BY <1>6
  <2>2. \A i \in 1 .. Held : 0 + i = i
    BY <1>2
  <2>3. \A i \in 1 .. Held : Good(inRing[i], typed[i])
    BY <1>7, <1>9, <2>2
  <2> QED
    BY <1>1, <1>2, <1>4, <1>9, <2>1, <2>3 DEF KbdFifo, Good
<1>10. CASE reader.pc = "handle"
  <2>1. first = <<reader.ev>> /\ Taking(reader) = 1
    <3>1. reader.todo # {"copy"}
      BY <1>10 DEF KbdInv, ReaderOK
    <3> QED
      BY <1>10, <3>1 DEF Taking
  <2>2. Good(reader.ev, typed[1])
    BY <1>10 DEF KbdInv, EventsMatch
  <2> QED
    BY <1>8, <2>1, <2>2
<1>11. CASE reader.pc # "handle" /\ reader.todo = {"copy"}
  <2>1. first = <<kbd_buffer[reader.slot]>> /\ Taking(reader) = 1
    BY <1>11 DEF Taking
  <2>2. Good(kbd_buffer[reader.slot], typed[1])
    BY <1>11 DEF KbdInv, EventsMatch
  <2> QED
    BY <1>8, <2>1, <2>2
<1>12. CASE reader.pc # "handle" /\ reader.todo # {"copy"}
  <2>1. first = <<>> /\ Taking(reader) = 0
    BY <1>12 DEF Taking
  <2> QED
    BY <1>9, <2>1
<1> QED
  BY <1>10, <1>11, <1>12

\* What an interrupt with a byte other than the prefix does.
LEMMA ByteHandled ==
    ASSUME mods \in KbdMods, NEW byte \in KeyBytes, keyboard_irq_handler(byte)
    PROVE  /\ mods' \in KbdMods /\ ~mods'.extended
           /\ byte >= Released \/ (~mods.extended /\ IsModifier(byte))
                 => UNCHANGED <<kbd_buffer, kbd_tail>>
           /\ byte < Released /\ ~(~mods.extended /\ IsModifier(byte)) =>
                 \E e : /\ e # NoEvent /\ put(e)
                        /\ e.scancode = byte /\ e.extended = mods.extended
                        /\ e.ascii = IF mods.extended THEN NUL ELSE Ascii(byte, UseShift)
<1> DEFINE code == byte % Released
           e == [scancode |-> code,
                 ascii |-> IF mods.extended THEN NUL ELSE Ascii(code, UseShift),
                 shift |-> mods.shift, ctrl |-> mods.ctrl,
                 alt |-> mods.alt, extended |-> mods.extended]
<1>1. byte \in Nat /\ byte \in 0 .. 255 /\ byte # Prefix
  BY DEF KeyBytes
<1>2. byte < Released => code = byte
  BY <1>1 DEF Released
<1>3. /\ mods' = Modified(mods.extended, byte >= Released, code)
      /\ IF byte >= Released \/ (~mods.extended /\ IsModifier(code))
         THEN UNCHANGED <<kbd_buffer, kbd_tail>>
         ELSE put(e)
  BY <1>1 DEF keyboard_irq_handler
<1> HIDE DEF code
<1>4. mods' \in KbdMods /\ ~mods'.extended
  <2>1. CASE mods.extended
    <3>1. mods' = [mods EXCEPT !.extended = FALSE]
      BY <1>3, <2>1 DEF Modified
    <3> QED
      BY <3>1 DEF KbdMods
  <2>2. CASE ~mods.extended
    <3>1. PICK s \in BOOLEAN, c \in BOOLEAN, a \in BOOLEAN, l \in BOOLEAN :
             mods' = [mods EXCEPT !.extended = FALSE, !.shift = s, !.ctrl = c,
                                  !.alt = a, !.caps = l]
      <4> DEFINE released == byte >= Released
                 s == IF code \in KEY_SHIFTS THEN ~released ELSE mods.shift
                 c == IF code = KEY_CTRL THEN ~released ELSE mods.ctrl
                 a == IF code = KEY_ALT THEN ~released ELSE mods.alt
                 l == IF code = KEY_CAPS /\ ~released THEN ~mods.caps ELSE mods.caps
      <4>0. released \in BOOLEAN
        BY <1>1 DEF Released
      <4> HIDE DEF released
      <4>1. s \in BOOLEAN /\ c \in BOOLEAN /\ a \in BOOLEAN /\ l \in BOOLEAN
        BY <4>0 DEF KbdMods
      <4>2. mods' = [mods EXCEPT !.extended = FALSE, !.shift = s, !.ctrl = c,
                                 !.alt = a, !.caps = l]
        BY <1>3, <2>2, Zenon DEF Modified, released
      <4> HIDE DEF s, c, a, l
      <4> QED
        BY <4>1, <4>2
    <3> QED
      BY <3>1, ZenonT(60) DEF KbdMods
  <2> QED
    BY <2>1, <2>2
<1>5. byte < Released /\ ~(~mods.extended /\ IsModifier(byte)) =>
         \E x : /\ x # NoEvent /\ put(x)
                /\ x.scancode = byte /\ x.extended = mods.extended
                /\ x.ascii = IF mods.extended THEN NUL ELSE Ascii(byte, UseShift)
  <2> SUFFICES ASSUME byte < Released, ~(~mods.extended /\ IsModifier(byte))
               PROVE  \E x : /\ x # NoEvent /\ put(x)
                             /\ x.scancode = byte /\ x.extended = mods.extended
                             /\ x.ascii = IF mods.extended THEN NUL ELSE Ascii(byte, UseShift)
    OBVIOUS
  <2>1. ~(byte >= Released) /\ code = byte
    BY <1>1, <1>2 DEF Released
  <2>2. put(e)
    BY <1>3, <2>1
  <2>3. e # NoEvent
    BY DEF NoEvent
  <2>4. /\ e.scancode = byte /\ e.extended = mods.extended
        /\ e.ascii = IF mods.extended THEN NUL ELSE Ascii(byte, UseShift)
    BY <2>1
  <2> HIDE DEF e
  <2> QED
    BY <2>2, <2>3, <2>4
<1>6. byte >= Released \/ (~mods.extended /\ IsModifier(byte))
         => UNCHANGED <<kbd_buffer, kbd_tail>>
  <2>1. CASE byte >= Released
    BY <1>3, <2>1
  <2>2. CASE ~(byte >= Released)
    <3>1. code = byte
      BY <1>1, <1>2, <2>2 DEF Released
    <3> QED
      BY <1>3, <2>2, <3>1
  <2> QED
    BY <2>1, <2>2
<1> QED
  BY <1>4, <1>5, <1>6

\* What is left of a stroke after a byte.
StrokeDone == wire' = <<>> /\ mods' \in KbdMods /\ ~mods'.extended

\* A byte of the device begins a stroke, or ends one that is nothing to read
\* or meets a full ring, or ends one whose event joins the ring.
PrefixTaken ==
    /\ \E b \in KeyBytes : wire' = <<b>>
    /\ mods' \in KbdMods /\ mods'.extended
    /\ UNCHANGED <<kbd_buffer, kbd_tail, typed>>
KeyDropped == StrokeDone /\ UNCHANGED <<kbd_buffer, kbd_tail, typed>>
KeyAdded ==
    /\ StrokeDone /\ Held < KbdBufferSize - 1
    /\ kbd_tail' = (kbd_tail + 1) % KbdBufferSize
    /\ \E e, t : /\ Good(e, t) /\ t \in TypedKeys
                 /\ kbd_buffer' = [kbd_buffer EXCEPT ![kbd_tail] = e]
                 /\ typed' = Append(typed, t)

\* The handler's test for room is the history's.
LEMMA StrokeEnds ==
    ASSUME KbdTypes, NEW byte \in KeyBytes, NEW stroke \in Seq(0 .. 255),
           keyboard_irq_handler(byte), wire' = <<>>,
           Last(stroke) = byte, Len(stroke) \in {1, 2},
           mods.extended <=> Len(stroke) = 2,
           Len(stroke) = 1 => stroke[1] = byte,
           typed' = IF IsKey(stroke) /\ Held < KbdBufferSize - 1
                    THEN Append(typed, [stroke |-> stroke, up |-> UseShift])
                    ELSE typed
    PROVE  KeyDropped \/ KeyAdded
<1>1. mods \in KbdMods /\ kbd_head \in KbdSlots /\ kbd_tail \in KbdSlots
  BY DEF KbdTypes
<1>2. mods.extended \in BOOLEAN /\ mods.shift \in BOOLEAN /\ mods.caps \in BOOLEAN
  BY <1>1 DEF KbdMods
<1>3. StrokeDone
  BY <1>1, ByteHandled DEF StrokeDone
<1>4. byte \in Nat
  BY DEF KeyBytes
<1>5. IsKey(stroke) <=> (byte < Released /\ ~(~mods.extended /\ IsModifier(byte)))
  <2>1. CASE Len(stroke) = 1
    BY <2>1 DEF IsKey
  <2>2. CASE Len(stroke) = 2
    BY <2>2 DEF IsKey
  <2> QED
    BY <2>1, <2>2
<1>6. ((kbd_tail + 1) % KbdBufferSize # kbd_head) <=> (Held < KbdBufferSize - 1)
  BY <1>1, TailPlace
<1>7. CASE ~IsKey(stroke)
  <2>1. byte >= Released \/ (~mods.extended /\ IsModifier(byte))
    BY <1>4, <1>5, <1>7 DEF Released
  <2>2. UNCHANGED <<kbd_buffer, kbd_tail>>
    BY <1>1, <2>1, ByteHandled
  <2> QED
    BY <1>3, <1>7, <2>2 DEF KeyDropped
<1>8. CASE IsKey(stroke)
  <2>1. PICK e : /\ e # NoEvent /\ put(e)
                 /\ e.scancode = byte /\ e.extended = mods.extended
                 /\ e.ascii = IF mods.extended THEN NUL ELSE Ascii(byte, UseShift)
    BY <1>1, <1>5, <1>8, ByteHandled
  <2>2. CASE ~(Held < KbdBufferSize - 1)
    <3>1. UNCHANGED <<kbd_buffer, kbd_tail>>
      BY <1>6, <2>1, <2>2 DEF put
    <3> QED
      BY <1>3, <2>2, <3>1 DEF KeyDropped
  <2>3. CASE Held < KbdBufferSize - 1
    <3> DEFINE t == [stroke |-> stroke, up |-> UseShift]
    <3>1. /\ kbd_buffer' = [kbd_buffer EXCEPT ![kbd_tail] = e]
          /\ kbd_tail' = (kbd_tail + 1) % KbdBufferSize
      BY <1>6, <2>1, <2>3 DEF put
    <3>2. typed' = Append(typed, t)
      BY <1>8, <2>3
    <3>3. UseShift \in BOOLEAN
      BY <1>2 DEF UseShift
    <3>4. t \in TypedKeys /\ t.stroke = stroke /\ t.up = UseShift
      BY <3>3 DEF TypedKeys
    <3> HIDE DEF t
    <3>5. e.extended = (Len(stroke) = 2)
      BY <1>2, <2>1
    <3>6. Good(e, t)
      BY <2>1, <3>4, <3>5 DEF Good, Matches
    <3> QED
      BY <1>3, <2>3, <3>1, <3>2, <3>4, <3>6 DEF KeyAdded
  <2> QED
    BY <2>2, <2>3
<1> QED
  BY <1>7, <1>8

\* The three outcomes of a byte.
LEMMA ByteOutcomes ==
    ASSUME KbdInv, key_byte
    PROVE  /\ PrefixTaken \/ KeyDropped \/ KeyAdded
           /\ reader' = Awake(reader) /\ kbd_head' = kbd_head
<1>0. KbdTypes /\ WireOK /\ mods \in KbdMods
  BY DEF KbdInv, KbdTypes
<1>1. reader' = Awake(reader) /\ kbd_head' = kbd_head
  BY DEF key_byte
<1>2. PICK s \in IF wire = <<>> THEN Strokes ELSE {wire} :
         /\ keyboard_irq_handler(s[1])
         /\ wire' = Tail(s)
         /\ LET stroke == IF wire = <<>> THEN s ELSE <<Prefix>> \o s
            IN  typed' = IF Len(s) = 1 /\ IsKey(stroke) /\ Held < KbdBufferSize - 1
                         THEN Append(typed, [stroke |-> stroke, up |-> UseShift])
                         ELSE typed
  BY DEF key_byte
<1>3. ASSUME wire = <<>>
      PROVE  PrefixTaken \/ KeyDropped \/ KeyAdded
  <2>1. s \in Strokes /\ ~mods.extended
    BY <1>0, <1>2, <1>3 DEF WireOK
  <2>2. PICK b \in KeyBytes : s = <<b>> \/ s = <<Prefix, b>>
    BY <2>1, KeyboardAssumption
  <2>3. b \in 0 .. 255 /\ Prefix \in 0 .. 255
    BY DEF KeyBytes, Prefix
  <2>4. CASE s = <<b>>
    <3>1. s \in Seq(0 .. 255) /\ Len(s) = 1 /\ s[1] = b /\ Last(s) = b /\ Tail(s) = <<>>
      BY <2>3, <2>4 DEF Last
    <3>2. typed' = IF IsKey(s) /\ Held < KbdBufferSize - 1
                   THEN Append(typed, [stroke |-> s, up |-> UseShift]) ELSE typed
      BY <1>2, <1>3, <3>1
    <3>3. keyboard_irq_handler(b) /\ wire' = <<>>
      BY <1>2, <3>1
    <3>4. Len(s) \in {1, 2} /\ (mods.extended <=> Len(s) = 2)
      BY <2>1, <3>1
    <3>5. s \in Seq(0 .. 255)
      BY <3>1
    <3>6. Last(s) = b /\ (Len(s) = 1 => s[1] = b)
      BY <3>1
    <3> QED
      BY <1>0, <3>2, <3>3, <3>4, <3>5, <3>6, StrokeEnds
  <2>5. CASE s = <<Prefix, b>>
    <3>1. Len(s) = 2 /\ s[1] = Prefix /\ Tail(s) = <<b>>
      BY <2>3, <2>5
    <3>2. /\ mods' = [mods EXCEPT !.extended = TRUE]
          /\ UNCHANGED <<kbd_buffer, kbd_tail>>
      BY <1>2, <3>1 DEF keyboard_irq_handler
    <3>3. mods' \in KbdMods /\ mods'.extended
      BY <1>0, <3>2 DEF KbdMods
    <3>4. typed' = typed /\ wire' = <<b>>
      BY <1>2, <3>1
    <3> QED
      BY <3>2, <3>3, <3>4 DEF PrefixTaken
  <2> QED
    BY <2>2, <2>4, <2>5
<1>4. ASSUME wire # <<>>
      PROVE  PrefixTaken \/ KeyDropped \/ KeyAdded
  <2>1. PICK b \in KeyBytes : wire = <<b>> /\ mods.extended
    BY <1>0, <1>4 DEF WireOK
  <2>2. s = <<b>> /\ b \in 0 .. 255 /\ Prefix \in 0 .. 255
    BY <1>2, <1>4, <2>1 DEF KeyBytes, Prefix
  <2>3. Len(s) = 1 /\ s[1] = b /\ Tail(s) = <<>>
    BY <2>2
  <2> DEFINE stroke == <<Prefix>> \o s
  <2>4. stroke \in Seq(0 .. 255) /\ Len(stroke) = 2 /\ stroke[2] = b
    <3>1. <<Prefix>> \in Seq(0 .. 255) /\ s \in Seq(0 .. 255) /\ Len(<<Prefix>>) = 1
      BY <2>2
    <3>2. /\ stroke \in Seq(0 .. 255) /\ Len(stroke) = Len(<<Prefix>>) + Len(s)
          /\ \A i \in 1 .. Len(<<Prefix>>) + Len(s) :
                stroke[i] = IF i <= Len(<<Prefix>>) THEN <<Prefix>>[i]
                            ELSE s[i - Len(<<Prefix>>)]
      BY <3>1, ConcatProperties
    <3> HIDE DEF stroke
    <3> QED
      BY <2>3, <3>1, <3>2
  <2>5. typed' = IF IsKey(stroke) /\ Held < KbdBufferSize - 1
                 THEN Append(typed, [stroke |-> stroke, up |-> UseShift]) ELSE typed
    BY <1>2, <1>4, <2>3
  <2>6. keyboard_irq_handler(b) /\ wire' = <<>>
    BY <1>2, <2>3
  <2> HIDE DEF stroke
  <2>7. Last(stroke) = b
    BY <2>4 DEF Last
  <2> QED
    BY <1>0, <2>1, <2>4, <2>5, <2>6, <2>7, StrokeEnds
<1> QED
  BY <1>1, <1>3, <1>4

\* A reader that is woken does what it was doing.
LEMMA Awakened ==
    ASSUME KbdTypes, ReaderOK, NEW r, r = Awake(reader)
    PROVE  /\ DOMAIN r = {"pc", "todo", "slot", "ev"}
           /\ r.pc \in {"poll", "hlt", "halted", "take", "handle"}
           /\ r.todo = reader.todo /\ r.slot = reader.slot /\ r.ev = reader.ev
           /\ r.pc = "handle" <=> reader.pc = "handle"
           /\ r.pc = "take" <=> reader.pc = "take"
           /\ Taking(r) = Taking(reader)
<1>1. DOMAIN reader = {"pc", "todo", "slot", "ev"}
  BY DEF KbdTypes
<1>2. CASE reader.pc = "halted"
  <2>1. r = [reader EXCEPT !.pc = "poll"]
    BY <1>2 DEF Awake
  <2>2. /\ DOMAIN r = {"pc", "todo", "slot", "ev"} /\ r.pc = "poll"
        /\ r.todo = reader.todo /\ r.slot = reader.slot /\ r.ev = reader.ev
    BY <1>1, <2>1
  <2> QED
    BY <1>2, <2>2 DEF Taking
<1>3. CASE reader.pc # "halted"
  BY <1>3 DEF Awake, KbdTypes
<1> QED
  BY <1>2, <1>3

\* The handler never writes to a slot the reader has yet to copy.
LEMMA SlotIsSafe ==
    ASSUME KbdTypes, ReaderOK, Held < KbdBufferSize - 1,
           reader.todo # {}
    PROVE  reader.slot # kbd_tail
<1>1. /\ kbd_head \in KbdSlots /\ kbd_tail \in KbdSlots
      /\ reader.todo \in SUBSET {"copy", "advance"}
  BY DEF KbdTypes
<1>2. CASE "advance" \in reader.todo
  BY <1>2 DEF ReaderOK
<1>3. CASE "advance" \notin reader.todo
  <2>1. reader.todo = {"copy"}
    BY <1>1, <1>3
  <2>2. kbd_head = (reader.slot + 1) % KbdBufferSize
    BY <2>1 DEF ReaderOK, Taking
  <2>3. (kbd_tail + 1) % KbdBufferSize # kbd_head
    BY <1>1, TailPlace
  <2> QED
    BY <2>2, <2>3
<1> QED
  BY <1>2, <1>3

\* An interrupt that adds nothing to the ring.
LEMMA QuietByte ==
    ASSUME KbdInv, reader' = Awake(reader), kbd_head' = kbd_head,
           UNCHANGED <<kbd_buffer, kbd_tail, typed>>
    PROVE  ReaderOK' /\ EventsMatch'
<1>1. /\ reader'.todo = reader.todo /\ reader'.slot = reader.slot /\ reader'.ev = reader.ev
      /\ reader'.pc = "handle" <=> reader.pc = "handle"
      /\ reader'.pc = "take" <=> reader.pc = "take"
      /\ Taking(reader') = Taking(reader)
  BY Awakened DEF KbdInv
<1>2. Held' = Held /\ \A i \in 1 .. Held : SlotOf(i)' = SlotOf(i)
  BY DEF Held, SlotOf
<1>3. ReaderOK'
  BY <1>1 DEF KbdInv, ReaderOK
<1>4. EventsMatch'
  BY <1>1, <1>2 DEF KbdInv, EventsMatch
<1> QED
  BY <1>3, <1>4

\* An interrupt that adds an event.
LEMMA LoudByte ==
    ASSUME KbdInv, reader' = Awake(reader), kbd_head' = kbd_head, KeyAdded
    PROVE  KbdInv'
<1>1. /\ DOMAIN reader' = {"pc", "todo", "slot", "ev"}
      /\ reader'.pc \in {"poll", "hlt", "halted", "take", "handle"}
      /\ reader'.todo = reader.todo /\ reader'.slot = reader.slot /\ reader'.ev = reader.ev
      /\ reader'.pc = "handle" <=> reader.pc = "handle"
      /\ reader'.pc = "take" <=> reader.pc = "take"
      /\ Taking(reader') = Taking(reader)
  BY Awakened DEF KbdInv
<1>2. PICK e, t : /\ Good(e, t) /\ t \in TypedKeys
                  /\ kbd_buffer' = [kbd_buffer EXCEPT ![kbd_tail] = e]
                  /\ typed' = Append(typed, t)
  BY DEF KeyAdded
<1>3. /\ kbd_head \in KbdSlots /\ kbd_tail \in KbdSlots /\ Held < KbdBufferSize - 1
      /\ DOMAIN kbd_buffer = KbdSlots /\ typed \in Seq(TypedKeys)
  BY DEF KbdInv, KbdTypes, KeyAdded
<1>4. /\ Held \in 0 .. KbdBufferSize - 1 /\ Held + 1 \in 1 .. KbdBufferSize
      /\ SlotOf(Held + 1) = kbd_tail
      /\ (Held = 0) <=> (kbd_head = kbd_tail)
  BY <1>3, TailPlace
<1>5. /\ kbd_tail' \in KbdSlots /\ Held' = Held + 1
      /\ \A i \in 1 .. KbdBufferSize : SlotOf(i)' = SlotOf(i)
  BY <1>3, RingGrows DEF KeyAdded
<1>6. /\ DOMAIN kbd_buffer' = KbdSlots /\ kbd_buffer'[kbd_tail] = e
      /\ \A s \in KbdSlots : s # kbd_tail => kbd_buffer'[s] = kbd_buffer[s]
  BY <1>2, <1>3
<1>7. /\ typed' \in Seq(TypedKeys) /\ Len(typed') = Len(typed) + 1
      /\ \A i \in 1 .. Len(typed) : typed'[i] = typed[i]
      /\ typed'[Len(typed) + 1] = t
  BY <1>2, <1>3, AppendProperties
<1>8. KbdTypes'
  BY <1>1, <1>3, <1>5, <1>6, <1>7, Zenon DEF KbdInv, KbdTypes, KeyAdded, StrokeDone
<1>9. WireOK'
  BY DEF WireOK, KeyAdded, StrokeDone
<1>10. /\ Taking(reader) \in {0, 1} /\ Len(typed) = Taking(reader) + Held
       /\ Held \in Nat /\ Len(typed) \in Nat
  BY <1>3, <1>4 DEF KbdInv, EventsMatch, Taking
<1>11. reader.slot \in KbdSlots /\ (reader.todo # {} => reader.slot # kbd_tail)
  BY <1>3, SlotIsSafe DEF KbdInv, KbdTypes
<1>12. ReaderOK'
  <2>1. "advance" \in reader.todo => reader.slot = kbd_head /\ kbd_head # kbd_tail'
    <3>1. Held' # 0
      BY <1>5, <1>10
    <3>2. (Held' = 0) <=> (kbd_head = kbd_tail')
      <4>1. kbd_head' \in KbdSlots /\ kbd_tail' \in KbdSlots
        BY <1>3, <1>5
      <4>2. /\ (kbd_tail' + KbdBufferSize - kbd_head) % KbdBufferSize = Held'
        BY DEF Held
      <4>3. 0 \in 0 .. KbdBufferSize - 1 /\ kbd_tail' \in 0 .. KbdBufferSize - 1
            /\ kbd_head \in 0 .. KbdBufferSize - 1 /\ KbdBufferSize \in Nat
        BY <1>3, <1>5, KbdSize DEF KbdSlots
      <4>4. \A n \in 0 .. KbdBufferSize - 1 :
               (kbd_tail' + KbdBufferSize - kbd_head) % KbdBufferSize = n
                  <=> (kbd_tail' = kbd_head + n \/ kbd_tail' = kbd_head + n - KbdBufferSize)
        BY <1>3, <4>1, RingLength
      <4>5. (Held' = 0) <=> (kbd_tail' = kbd_head + 0 \/ kbd_tail' = kbd_head + 0 - KbdBufferSize)
        BY <4>2, <4>3, <4>4
      <4> QED
        BY <4>3, <4>5
    <3> QED
      BY <3>1, <3>2 DEF KbdInv, ReaderOK
  <2>2. reader.todo = {"advance"} => reader.ev = kbd_buffer'[reader.slot]
    <3>1. reader.todo = {"advance"} => reader.todo # {}
      OBVIOUS
    <3> QED
      BY <1>6, <1>11, <3>1 DEF KbdInv, ReaderOK
  <2> QED
    BY <1>1, <2>1, <2>2 DEF KbdInv, ReaderOK
<1>13. EventsMatch'
  <2>1. Len(typed') = Taking(reader') + Held'
    BY <1>1, <1>5, <1>7, <1>10
  <2>2. reader.pc = "handle" => Good(reader.ev, typed'[1])
    <3> SUFFICES ASSUME reader.pc = "handle" PROVE Good(reader.ev, typed'[1])
      OBVIOUS
    <3>1. Taking(reader) = 1
      BY DEF Taking
    <3>2. 1 \in 1 .. Len(typed)
      BY <1>10, <3>1
    <3> QED
      BY <1>7, <3>2 DEF KbdInv, EventsMatch
  <2>3. reader.todo = {"copy"} => Good(kbd_buffer'[reader.slot], typed'[1])
    <3> SUFFICES ASSUME reader.todo = {"copy"}
                 PROVE  Good(kbd_buffer'[reader.slot], typed'[1])
      OBVIOUS
    <3>1. Taking(reader) = 1
      BY DEF Taking
    <3>2. 1 \in 1 .. Len(typed)
      BY <1>10, <3>1
    <3>3. kbd_buffer'[reader.slot] = kbd_buffer[reader.slot]
      BY <1>6, <1>11
    <3> QED
      BY <1>7, <3>2, <3>3 DEF KbdInv, EventsMatch
  <2>4. ASSUME NEW i \in 1 .. Held + 1
        PROVE  Good(kbd_buffer'[SlotOf(i)], typed'[Taking(reader) + i])
    <3>0. i \in 1 .. KbdBufferSize
      <4>1. KbdBufferSize \in Nat /\ Held \in Nat /\ Held + 1 <= KbdBufferSize
        BY <1>4, <1>10, KbdSize
      <4> HIDE DEF Held
      <4> QED
        BY <4>1
    <3>1. CASE i \in 1 .. Held
      <4>1. Taking(reader) + i \in 1 .. Len(typed)
        BY <1>10, <3>1
      <4>2. i # Held + 1
        BY <1>10, <3>1
      <4>3. SlotOf(i) \in KbdSlots /\ SlotOf(i) # kbd_tail
        BY <1>3, <1>4, <3>0, <4>2, Places
      <4>4. Good(kbd_buffer[SlotOf(i)], typed[Taking(reader) + i])
        BY <3>1 DEF KbdInv, EventsMatch
      <4> QED
        BY <1>6, <1>7, <4>1, <4>3, <4>4
    <3>2. CASE i = Held + 1
      <4>1. Taking(reader) + i = Len(typed) + 1
        BY <1>10, <3>2
      <4> QED
        BY <1>2, <1>4, <1>6, <1>7, <3>2, <4>1
    <3> QED
      BY <1>10, <3>1, <3>2
  <2>5. ASSUME NEW i \in 1 .. Held + 1
        PROVE  SlotOf(i)' = SlotOf(i)
    <3>0. i \in 1 .. KbdBufferSize
      <4>1. KbdBufferSize \in Nat /\ Held \in Nat /\ Held + 1 <= KbdBufferSize
        BY <1>4, <1>10, KbdSize
      <4> HIDE DEF Held
      <4> QED
        BY <4>1
    <3> QED
      BY <1>5, <3>0
  <2> QED
    BY <1>1, <1>5, <2>1, <2>2, <2>3, <2>4, <2>5 DEF EventsMatch
<1> QED
  BY <1>8, <1>9, <1>12, <1>13 DEF KbdInv

\* The steps of the reader that touch no event: the test, the halt, the tick.
LEMMA IdleReader ==
    ASSUME KbdInv, poll_test \/ halt \/ tick
    PROVE  KbdInv'
<1>1. /\ DOMAIN reader = {"pc", "todo", "slot", "ev"} /\ reader.slot \in KbdSlots
      /\ kbd_head \in KbdSlots /\ reader.todo = {} /\ Taking(reader) = 0
  <2>1. reader.pc \in {"poll", "hlt", "halted"}
    BY DEF poll_test, halt, tick
  <2> QED
    BY <2>1 DEF KbdInv, KbdTypes, ReaderOK, Taking
<1>2. UNCHANGED <<kbd_buffer, kbd_head, kbd_tail, mods, wire, typed>>
  BY DEF poll_test, halt, tick
<1>3. /\ DOMAIN reader' = {"pc", "todo", "slot", "ev"} /\ reader'.slot \in KbdSlots
      /\ \/ reader'.pc \in {"poll", "hlt", "halted"} /\ reader'.todo = {}
         \/ /\ reader'.pc = "take" /\ reader'.todo = {"copy", "advance"}
            /\ reader'.slot = kbd_head /\ kbd_head # kbd_tail
  <2>1. CASE poll_test
    <3>1. CASE kbd_head = kbd_tail
      <4>1. reader' = [reader EXCEPT !.pc = "hlt"]
        BY <2>1, <3>1 DEF poll_test
      <4> QED
        BY <1>1, <4>1
    <3>2. CASE kbd_head # kbd_tail
      <4>1. reader' = [reader EXCEPT !.pc = "take", !.todo = {"copy", "advance"},
                                     !.slot = kbd_head]
        BY <2>1, <3>2 DEF poll_test
      <4>2. /\ DOMAIN reader' = {"pc", "todo", "slot", "ev"} /\ reader'.pc = "take"
            /\ reader'.todo = {"copy", "advance"} /\ reader'.slot = kbd_head
        BY <1>1, <4>1
      <4> QED
        BY <1>1, <3>2, <4>2
    <3> QED
      BY <3>1, <3>2
  <2>2. CASE halt
    <3>1. reader' = [reader EXCEPT !.pc = "halted"]
      BY <2>2 DEF halt
    <3> QED
      BY <1>1, <3>1
  <2>3. CASE tick
    <3>1. reader' = [reader EXCEPT !.pc = "poll"]
      BY <2>3 DEF tick, Awake
    <3> QED
      BY <1>1, <3>1
  <2> QED
    BY <2>1, <2>2, <2>3
<1>4. /\ reader'.pc \in {"poll", "hlt", "halted", "take", "handle"}
      /\ reader'.todo \in SUBSET {"copy", "advance"} /\ reader'.pc # "handle"
      /\ reader'.todo # {"copy"} /\ reader'.todo # {"advance"}
      /\ reader'.todo # {} <=> reader'.pc = "take"
      /\ "advance" \in reader'.todo => reader'.slot = kbd_head /\ kbd_head # kbd_tail
  <2>1. CASE reader'.pc \in {"poll", "hlt", "halted"} /\ reader'.todo = {}
    BY <2>1
  <2>2. CASE /\ reader'.pc = "take" /\ reader'.todo = {"copy", "advance"}
             /\ reader'.slot = kbd_head /\ kbd_head # kbd_tail
    <3>1. reader'.todo # {"copy"} /\ reader'.todo # {"advance"} /\ reader'.todo # {}
      BY <2>2
    <3> QED
      BY <2>2, <3>1
  <2> QED
    BY <1>3, <2>1, <2>2
<1>5. Taking(reader') = 0
  BY <1>4 DEF Taking
<1>6. KbdTypes'
  BY <1>2, <1>3, <1>4, Zenon DEF KbdInv, KbdTypes
<1>7. WireOK'
  BY <1>2 DEF KbdInv, WireOK
<1>8. ReaderOK'
  BY <1>2, <1>4, <1>5 DEF ReaderOK
<1>9. EventsMatch'
  <2>1. Held' = Held /\ \A i \in 1 .. Held : SlotOf(i)' = SlotOf(i)
    BY <1>2 DEF Held, SlotOf
  <2> QED
    BY <1>1, <1>2, <1>4, <1>5, <2>1 DEF KbdInv, EventsMatch
<1> QED
  BY <1>6, <1>7, <1>8, <1>9 DEF KbdInv

\* The event is copied before or after the head moves.
LEMMA ReaderCopies ==
    ASSUME KbdInv, poll_copy
    PROVE  KbdInv'
<1>1. /\ DOMAIN reader = {"pc", "todo", "slot", "ev"} /\ reader.slot \in KbdSlots
      /\ reader.todo \in SUBSET {"copy", "advance"} /\ reader.pc = "take"
      /\ "copy" \in reader.todo
  BY DEF KbdInv, KbdTypes, ReaderOK, poll_copy
<1>2. UNCHANGED <<kbd_buffer, kbd_head, kbd_tail, mods, wire, typed>>
  BY DEF poll_copy
<1>3. Held' = Held /\ \A i \in 1 .. Held : SlotOf(i)' = SlotOf(i)
  BY <1>2 DEF Held, SlotOf
<1> DEFINE r == [reader EXCEPT !.todo = @ \ {"copy"}, !.ev = kbd_buffer[reader.slot]]
<1>4. /\ DOMAIN r = {"pc", "todo", "slot", "ev"} /\ r.pc = reader.pc
      /\ r.todo = reader.todo \ {"copy"} /\ r.slot = reader.slot
      /\ r.ev = kbd_buffer[reader.slot]
  BY <1>1
<1>5. reader' = Finish(r)
  BY DEF poll_copy
<1> HIDE DEF r
<1>6. CASE reader.todo = {"copy"}
  <2>1. r.todo = {}
    BY <1>4, <1>6
  <2>2. reader' = [r EXCEPT !.pc = "handle"]
    BY <1>5, <2>1 DEF Finish
  <2>3. /\ DOMAIN reader' = {"pc", "todo", "slot", "ev"} /\ reader'.pc = "handle"
        /\ reader'.todo = {} /\ reader'.slot = reader.slot
        /\ reader'.ev = kbd_buffer[reader.slot]
    BY <1>4, <2>1, <2>2
  <2>4. Taking(reader) = 1 /\ Taking(reader') = 1
    BY <1>6, <2>3 DEF Taking
  <2>5. KbdTypes'
    BY <1>1, <1>2, <2>3 DEF KbdInv, KbdTypes
  <2>6. ReaderOK'
    BY <1>2, <2>3, <2>4 DEF KbdInv, ReaderOK
  <2>7. EventsMatch'
    BY <1>2, <1>3, <1>6, <2>3, <2>4 DEF KbdInv, EventsMatch
  <2> QED
    BY <1>2, <2>5, <2>6, <2>7 DEF KbdInv, WireOK
<1>7. CASE reader.todo = {"copy", "advance"}
  <2>1. r.todo = {"advance"} /\ r.todo # {}
    BY <1>4, <1>7
  <2>2. reader' = r
    BY <1>5, <2>1 DEF Finish
  <2>3. reader.todo # {"copy"} /\ reader.todo # {"advance"} /\ reader'.todo # {"copy"}
    BY <1>7, <2>1, <2>2
  <2>4. Taking(reader) = 0 /\ Taking(reader') = 0
    BY <1>1, <1>4, <2>2, <2>3 DEF Taking
  <2>5. KbdTypes'
    BY <1>1, <1>2, <1>4, <2>1, <2>2 DEF KbdInv, KbdTypes
  <2>6. ReaderOK'
    BY <1>1, <1>2, <1>4, <1>7, <2>1, <2>2, <2>4 DEF KbdInv, ReaderOK
  <2>7. EventsMatch'
    BY <1>1, <1>2, <1>3, <1>4, <2>2, <2>3, <2>4 DEF KbdInv, EventsMatch
  <2> QED
    BY <1>2, <2>5, <2>6, <2>7 DEF KbdInv, WireOK
<1>8. reader.todo = {"copy"} \/ reader.todo = {"copy", "advance"}
  BY <1>1
<1> QED
  BY <1>6, <1>7, <1>8

\* The head moves on.
LEMMA ReaderAdvances ==
    ASSUME KbdInv, poll_advance
    PROVE  KbdInv'
<1>1. /\ DOMAIN reader = {"pc", "todo", "slot", "ev"} /\ reader.slot \in KbdSlots
      /\ reader.todo \in SUBSET {"copy", "advance"} /\ reader.pc = "take"
      /\ "advance" \in reader.todo /\ reader.slot = kbd_head /\ kbd_head # kbd_tail
      /\ kbd_head \in KbdSlots /\ kbd_tail \in KbdSlots
  BY DEF KbdInv, KbdTypes, ReaderOK, poll_advance
<1>2. /\ UNCHANGED <<kbd_buffer, kbd_tail, mods, wire, typed>>
      /\ kbd_head' = (kbd_head + 1) % KbdBufferSize
  BY <1>1 DEF poll_advance
<1>3. /\ kbd_head' \in KbdSlots /\ Held \in Nat \ {0} /\ Held' = Held - 1
      /\ \A i \in 1 .. KbdBufferSize - 1 : SlotOf(i)' = SlotOf(i + 1)
      /\ SlotOf(1) = kbd_head
  BY <1>1, <1>2, RingShrinks
<1>4. Held \in 0 .. KbdBufferSize - 1
  BY <1>1, TailPlace
<1> DEFINE r == [reader EXCEPT !.todo = @ \ {"advance"}]
<1>5. /\ DOMAIN r = {"pc", "todo", "slot", "ev"} /\ r.pc = reader.pc
      /\ r.todo = reader.todo \ {"advance"} /\ r.slot = reader.slot /\ r.ev = reader.ev
  BY <1>1
<1>6. reader' = Finish(r)
  BY DEF poll_advance
<1> HIDE DEF r
<1>7. reader.todo # {"copy"} /\ Taking(reader) = 0
  BY <1>1 DEF Taking
<1>8. Len(typed) = Held /\ \A i \in 1 .. Held : Good(kbd_buffer[SlotOf(i)], typed[i])
  <2>1. \A i \in 1 .. Held : 0 + i = i
    BY <1>3
  <2> QED
    BY <1>3, <1>7, <2>1 DEF KbdInv, EventsMatch
<1>9. Good(kbd_buffer[reader.slot], typed[1])
  <2>1. 1 \in 1 .. Held
    BY <1>3
  <2> QED
    BY <1>1, <1>3, <1>8, <2>1
<1>10. \A i \in 1 .. Held - 1 : Good(kbd_buffer[SlotOf(i)'], typed[1 + i])
  <2>1. ASSUME NEW i \in 1 .. Held - 1
        PROVE  Good(kbd_buffer[SlotOf(i)'], typed[1 + i])
    <3>1. i + 1 \in 1 .. Held /\ i \in 1 .. KbdBufferSize - 1 /\ 1 + i = i + 1
      <4>1. KbdBufferSize \in Nat
        BY KbdSize
      <4> HIDE DEF Held
      <4> QED
        BY <1>3, <1>4, <4>1
    <3> QED
      BY <1>3, <1>8, <3>1
  <2> QED
    BY <2>1
<1>11. Len(typed) = 1 + (Held - 1)
  BY <1>3, <1>8
<1>12. CASE reader.todo = {"advance"}
  <2>1. r.todo = {}
    BY <1>5, <1>12
  <2>2. reader' = [r EXCEPT !.pc = "handle"]
    BY <1>6, <2>1 DEF Finish
  <2>3. /\ DOMAIN reader' = {"pc", "todo", "slot", "ev"} /\ reader'.pc = "handle"
        /\ reader'.todo = {} /\ reader'.slot = reader.slot /\ reader'.ev = reader.ev
    BY <1>5, <2>1, <2>2
  <2>4. Taking(reader') = 1 /\ reader.ev = kbd_buffer[reader.slot]
    BY <1>12, <2>3 DEF Taking, KbdInv, ReaderOK
  <2>5. KbdTypes'
    BY <1>1, <1>2, <1>3, <2>3 DEF KbdInv, KbdTypes
  <2>6. ReaderOK'
    BY <1>1, <1>2, <2>3, <2>4 DEF ReaderOK
  <2>7. EventsMatch'
    BY <1>2, <1>3, <1>9, <1>10, <1>11, <2>3, <2>4 DEF EventsMatch
  <2> QED
    BY <1>2, <2>5, <2>6, <2>7 DEF KbdInv, WireOK
<1>13. CASE reader.todo = {"copy", "advance"}
  <2>1. r.todo = {"copy"} /\ r.todo # {} /\ r.todo # {"advance"}
    BY <1>5, <1>13
  <2>2. reader' = r
    BY <1>6, <2>1 DEF Finish
  <2>4. Taking(reader') = 1
    BY <2>1, <2>2 DEF Taking
  <2>5. KbdTypes'
    BY <1>1, <1>2, <1>3, <1>5, <2>1, <2>2 DEF KbdInv, KbdTypes
  <2>6. ReaderOK'
    <3>1. "advance" \notin reader'.todo
      BY <2>1, <2>2
    <3> QED
      BY <1>1, <1>2, <1>5, <2>1, <2>2, <2>4, <3>1 DEF ReaderOK
  <2>7. EventsMatch'
    BY <1>1, <1>2, <1>3, <1>5, <1>9, <1>10, <1>11, <2>1, <2>2, <2>4 DEF EventsMatch
  <2> QED
    BY <1>2, <2>5, <2>6, <2>7 DEF KbdInv, WireOK
<1>14. reader.todo = {"advance"} \/ reader.todo = {"copy", "advance"}
  BY <1>1
<1> QED
  BY <1>12, <1>13, <1>14

\* The event goes to the shell; its slot is the one before the head, which
\* holds none of the others.
LEMMA ReaderHandles ==
    ASSUME KbdInv, handle
    PROVE  KbdInv'
<1>1. /\ DOMAIN reader = {"pc", "todo", "slot", "ev"} /\ reader.slot \in KbdSlots
      /\ reader.pc = "handle" /\ reader.todo = {} /\ Taking(reader) = 1
      /\ kbd_head \in KbdSlots /\ kbd_tail \in KbdSlots /\ DOMAIN kbd_buffer = KbdSlots
      /\ typed \in Seq(TypedKeys)
      /\ kbd_head = (reader.slot + 1) % KbdBufferSize
  BY DEF KbdInv, KbdTypes, ReaderOK, handle, Taking
<1>2. /\ UNCHANGED <<kbd_head, kbd_tail, mods, wire>> /\ typed' = Tail(typed)
      /\ kbd_buffer' = [kbd_buffer EXCEPT ![reader.slot] = NoEvent]
      /\ reader' = [reader EXCEPT !.pc = "poll", !.slot = 0, !.ev = NoEvent]
  BY DEF handle
<1>3. Held' = Held /\ \A i \in 1 .. KbdBufferSize : SlotOf(i)' = SlotOf(i)
  BY <1>2 DEF Held, SlotOf
<1>4. Held \in 0 .. KbdBufferSize - 1 /\ KbdBufferSize \in Nat \ {0}
  BY <1>1, TailPlace, KbdSize
<1>5. /\ DOMAIN reader' = {"pc", "todo", "slot", "ev"} /\ reader'.pc = "poll"
      /\ reader'.todo = {} /\ reader'.slot = 0 /\ Taking(reader') = 0
  <2>1. /\ DOMAIN reader' = {"pc", "todo", "slot", "ev"} /\ reader'.pc = "poll"
        /\ reader'.todo = {} /\ reader'.slot = 0
    BY <1>1, <1>2
  <2> QED
    BY <2>1 DEF Taking
<1>6. /\ Len(typed) = 1 + Held
      /\ \A i \in 1 .. Held : Good(kbd_buffer[SlotOf(i)], typed[1 + i])
  BY <1>1 DEF KbdInv, EventsMatch
<1>7. /\ typed' \in Seq(TypedKeys) /\ Len(typed') = Held
      /\ \A i \in 1 .. Held : typed'[i] = typed[i + 1]
  <2>1. typed # <<>> /\ Held \in Nat
    BY <1>1, <1>4, <1>6
  <2>2. /\ Tail(typed) \in Seq(TypedKeys) /\ Len(Tail(typed)) = Len(typed) - 1
        /\ \A i \in 1 .. Len(Tail(typed)) : Tail(typed)[i] = typed[i + 1]
    BY <1>1, <2>1, HeadTailProperties
  <2>3. Len(Tail(typed)) = Held
    BY <1>6, <2>1, <2>2
  <2> QED
    BY <1>2, <2>2, <2>3
<1>8. reader.slot = SlotOf(KbdBufferSize)
  <2>1. KbdBufferSize \in 1 .. KbdBufferSize /\ 1 \in 0 .. KbdBufferSize
    BY <1>4
  <2>2. /\ SlotOf(KbdBufferSize) \in 0 .. KbdBufferSize - 1
        /\ \/ SlotOf(KbdBufferSize) = kbd_head + KbdBufferSize - 1
           \/ SlotOf(KbdBufferSize) = kbd_head + KbdBufferSize - 1 - KbdBufferSize
    BY <1>1, <2>1, Places DEF KbdSlots
  <2>3. reader.slot \in 0 .. KbdBufferSize - 1 /\ kbd_head \in 0 .. KbdBufferSize - 1
    BY <1>1 DEF KbdSlots
  <2>4. kbd_head = reader.slot + 1 \/ kbd_head = reader.slot + 1 - KbdBufferSize
    BY <1>1, <1>4, <2>1, <2>3, WrapsOnce
  <2> QED
    BY <1>4, <2>2, <2>3, <2>4
<1>9. ASSUME NEW i \in 1 .. Held
      PROVE  Good(kbd_buffer'[SlotOf(i)'], typed'[i])
  <2>1. /\ i \in 1 .. KbdBufferSize /\ KbdBufferSize \in 1 .. KbdBufferSize
        /\ i # KbdBufferSize /\ i + 1 = 1 + i
    <3> HIDE DEF Held
    <3> QED
      BY <1>4
  <2>2. SlotOf(i) \in KbdSlots /\ SlotOf(i) # reader.slot
    BY <1>1, <1>8, <2>1, Places
  <2>3. kbd_buffer'[SlotOf(i)] = kbd_buffer[SlotOf(i)]
    BY <1>1, <1>2, <2>2
  <2>4. SlotOf(i)' = SlotOf(i)
    BY <1>3, <2>1
  <2>5. Good(kbd_buffer[SlotOf(i)], typed[1 + i]) /\ typed'[i] = typed[i + 1]
    BY <1>6, <1>7
  <2> QED
    BY <2>1, <2>3, <2>4, <2>5
<1>10. DOMAIN kbd_buffer' = KbdSlots /\ 0 \in KbdSlots
  BY <1>1, <1>2, <1>4 DEF KbdSlots
<1>11. KbdTypes'
  BY <1>2, <1>5, <1>7, <1>10 DEF KbdInv, KbdTypes
<1>12. ReaderOK'
  BY <1>5 DEF ReaderOK
<1>13. EventsMatch'
  <2>1. Len(typed') = Taking(reader') + Held'
    BY <1>3, <1>4, <1>5, <1>7
  <2>2. \A i \in 1 .. Held' : 0 + i = i
    BY <1>3, <1>4
  <2> QED
    BY <1>3, <1>5, <1>9, <2>1, <2>2 DEF EventsMatch
<1> QED
  BY <1>2, <1>11, <1>12, <1>13 DEF KbdInv, WireOK

\* Every step of the keyboard keeps the invariant.
LEMMA KbdStep == KbdInv /\ [KbdNext]_kbdVars => KbdInv'
<1> SUFFICES ASSUME KbdInv, [KbdNext]_kbdVars PROVE KbdInv'
  OBVIOUS
<1>1. CASE key_byte
  <2>1. /\ PrefixTaken \/ KeyDropped \/ KeyAdded
        /\ reader' = Awake(reader) /\ kbd_head' = kbd_head
    BY <1>1, ByteOutcomes
  <2>2. CASE KeyAdded
    BY <2>1, <2>2, LoudByte
  <2>3. CASE PrefixTaken \/ KeyDropped
    <3>1. UNCHANGED <<kbd_buffer, kbd_tail, typed>> /\ mods' \in KbdMods
      BY <2>3 DEF PrefixTaken, KeyDropped, StrokeDone
    <3>2. ReaderOK' /\ EventsMatch'
      BY <2>1, <3>1, QuietByte
    <3>3. WireOK'
      BY <2>3 DEF PrefixTaken, KeyDropped, StrokeDone, WireOK
    <3>4. KbdTypes'
      <4>1. /\ DOMAIN reader' = {"pc", "todo", "slot", "ev"}
            /\ reader'.pc \in {"poll", "hlt", "halted", "take", "handle"}
            /\ reader'.todo = reader.todo /\ reader'.slot = reader.slot
        BY <2>1, Awakened DEF KbdInv
      <4> QED
        BY <2>1, <3>1, <4>1, Zenon DEF KbdInv, KbdTypes
    <3> QED
      BY <3>2, <3>3, <3>4 DEF KbdInv
  <2> QED
    BY <2>1, <2>2, <2>3
<1>2. CASE tick \/ poll_test \/ halt
  BY <1>2, IdleReader
<1>3. CASE poll_copy
  BY <1>3, ReaderCopies
<1>4. CASE poll_advance
  BY <1>4, ReaderAdvances
<1>5. CASE handle
  BY <1>5, ReaderHandles
<1>6. CASE UNCHANGED kbdVars
  <2>1. Held' = Held /\ \A i \in 1 .. Held : SlotOf(i)' = SlotOf(i)
    BY <1>6 DEF kbdVars, Held, SlotOf
  <2>2. EventsMatch'
    BY <1>6, <2>1 DEF kbdVars, KbdInv, EventsMatch
  <2>3. KbdTypes'
    BY <1>6, Zenon DEF kbdVars, KbdInv, KbdTypes
  <2>4. WireOK' /\ ReaderOK'
    BY <1>6, Zenon DEF kbdVars, KbdInv, WireOK, ReaderOK
  <2> QED
    BY <2>2, <2>3, <2>4 DEF KbdInv
<1> QED
  BY <1>1, <1>2, <1>3, <1>4, <1>5, <1>6 DEF KbdNext, read_step

\* An empty ring and an idle reader.
LEMMA KbdInitInv == KbdInit => KbdInv
<1> SUFFICES ASSUME KbdInit PROVE KbdInv
  OBVIOUS
<1>1. 0 \in KbdSlots /\ kbd_head = 0 /\ kbd_tail = 0 /\ typed = <<>> /\ wire = <<>>
  BY KbdSize DEF KbdInit, KbdSlots
<1>2. /\ DOMAIN reader = {"pc", "todo", "slot", "ev"} /\ reader.pc = "poll"
      /\ reader.todo = {} /\ reader.slot = 0
  BY DEF KbdInit
<1>3. DOMAIN kbd_buffer = KbdSlots /\ mods \in KbdMods /\ ~mods.extended
  BY DEF KbdInit, KbdMods
<1>4. Held = 0 /\ Taking(reader) = 0
  <2>1. Held = 0
    BY <1>1, TailPlace
  <2> QED
    BY <1>2, <2>1 DEF Taking
<1>5. KbdTypes
  BY <1>1, <1>2, <1>3 DEF KbdTypes
<1>6. WireOK /\ ReaderOK
  BY <1>1, <1>2, <1>3, <1>4 DEF WireOK, ReaderOK
<1>7. EventsMatch
  BY <1>1, <1>2, <1>4 DEF EventsMatch
<1> QED
  BY <1>5, <1>6, <1>7 DEF KbdInv

\* The keyboard moves only by its own steps.
LEMMA OnlyKbdMovesKbd == [ipc_step \/ console_step]_svars => [KbdNext]_kbdVars
  BY DEF ipc_step, console_step, svars, consoleVars

\* Whatever the keys, the size of the ring and the interleaving of interrupts
\* with the steps of keyboard_poll, in either order of its copy and its store:
\* keys are read in the order typed, once and as typed, and only those that
\* met a full ring are missing.
THEOREM KeysAreFifo == ServicesSpec => []KbdFifo
<1>1. ServicesInit => KbdInv
  BY KbdInitInv DEF ServicesInit, ConsoleInit
<1> QED
  BY <1>1, KbdStep, KbdInvFifo, OnlyKbdMovesKbd, PTL DEF ServicesSpec

\* Whatever the keys and the interleaving: the shell halts on an empty ring
\* only, with every key accepted so far handled.
THEOREM HaltsWhenAllRead == ServicesSpec => KeysBeforeHalt
<1>1. ServicesInit => KbdInv
  BY KbdInitInv DEF ServicesInit, ConsoleInit
<1>2. KbdInv /\ [KbdNext]_kbdVars
         => [reader.pc # "hlt" /\ reader'.pc = "hlt" => typed = <<>>]_kbdVars
  <2> SUFFICES ASSUME KbdInv, KbdNext, reader.pc # "hlt", reader'.pc = "hlt"
               PROVE  typed = <<>>
    OBVIOUS
  <2>1. /\ DOMAIN reader = {"pc", "todo", "slot", "ev"} /\ typed \in Seq(TypedKeys)
        /\ kbd_head \in KbdSlots /\ kbd_tail \in KbdSlots
    BY DEF KbdInv, KbdTypes
  <2>2. poll_test /\ kbd_head = kbd_tail /\ reader.pc = "poll"
    <3>1. key_byte \/ tick => reader' = Awake(reader)
      BY DEF key_byte, tick
    <3>2. reader' = Awake(reader) => reader'.pc # "hlt"
      <4>1. Awake(reader).pc \in {reader.pc, "poll"}
        BY <2>1 DEF Awake
      <4> QED
        BY <4>1
    <3>3. poll_copy => reader'.pc \in {reader.pc, "handle"}
      BY <2>1 DEF poll_copy, Finish
    <3>4. poll_advance => reader'.pc \in {reader.pc, "handle"}
      BY <2>1 DEF poll_advance, Finish
    <3>5. handle => reader'.pc = "poll"
      BY <2>1 DEF handle
    <3>6. ~halt
      BY DEF halt
    <3>7. poll_test
      BY <3>1, <3>2, <3>3, <3>4, <3>5, <3>6 DEF KbdNext, read_step
    <3> QED
      BY <2>1, <3>7 DEF poll_test
  <2>3. Held = 0
    BY <2>1, <2>2, KeyboardAssumption DEF Held, KbdSlots
  <2>4. Taking(reader) = 0
    BY <2>2 DEF KbdInv, ReaderOK, Taking
  <2>5. Len(typed) = 0
    BY <2>3, <2>4 DEF KbdInv, EventsMatch
  <2> QED
    BY <2>1, <2>5
<1> QED
  BY <1>1, <1>2, KbdStep, OnlyKbdMovesKbd, PTL DEF ServicesSpec, KeysBeforeHalt

-----------------------------------------------------------------------------
(***************************************************************************)
(* The line editor of the shell.                                           *)
(***************************************************************************)

Chars == Letters \cup {Nul}
Lines == [Index -> Chars]

\* The string in s is n characters long; strlen finds it without a search
\* past the array.
Ends(s, n) == n \in Index /\ s[n] = Nul /\ \A i \in 0 .. n - 1 : s[i] # Nul
IsString(s) == s \in Lines /\ \E n \in Index : Ends(s, n)

\* The last line of the console with the first n characters of l on it.
Console(l, n) == <<SHELL_PROMPT>> \o [i \in 1 .. n |-> l[i - 1]]

\* The last cell of both buffers is never used for a character: strncpy of
\* SHELL_LINE_MAX - 1 characters leaves it alone and may store no terminator.
ShellInv ==
    /\ line \in Lines /\ Ends(line, pos) /\ line[LineMax - 1] = Nul
    /\ IsString(saved_line) /\ saved_line[LineMax - 1] = Nul
    /\ hist_nav \in Int /\ hist_count \in Int /\ hist_head \in Int
    /\ DOMAIN hist_buf = 0 .. HistSize - 1
    /\ \A k \in 0 .. HistSize - 1 : IsString(hist_buf[k])
    /\ phase = "read" => shown = Console(line, pos)

LEMMA ShellSizes ==
    /\ LineMax \in Nat /\ LineMax > 1 /\ HistSize \in Nat \ {0}
    /\ 0 \in Index /\ LineMax - 1 \in Index /\ Nul \notin Letters
    /\ \A n \in Index : n \in Nat /\ n <= LineMax - 1
<1>1. LineMax \in Nat /\ LineMax > 1 /\ HistSize \in Nat \ {0} /\ Nul \notin Letters
  BY ShellAssumption DEF Nul
<1> QED
  BY <1>1 DEF Index

\* A string has one length, and strlen is it.
LEMMA StrlenIs ==
    ASSUME NEW s \in Lines, NEW n, Ends(s, n)
    PROVE  strlen(s) = n
<1>1. n \in Index
  BY DEF Ends
<1>2. ASSUME NEW m \in Index, s[m] = Nul, \A i \in 0 .. m - 1 : s[i] # Nul
      PROVE  m = n
  <2>1. m \in Nat /\ n \in Nat
    BY <1>1, ShellSizes
  <2>2. ~(m < n)
    <3>1. m < n => m \in 0 .. n - 1
      BY <2>1
    <3> QED
      BY <1>2, <3>1 DEF Ends
  <2>3. ~(n < m)
    <3>1. n < m => n \in 0 .. m - 1
      BY <2>1
    <3> QED
      BY <1>2, <3>1 DEF Ends
  <2> QED
    BY <2>1, <2>2, <2>3
<1> QED
  BY <1>1, <1>2 DEF strlen, Ends

\* A copy of at most LineMax - 1 characters over a buffer whose last cell is
\* the terminator, cell by cell.
LEMMA CopyIsString ==
    ASSUME NEW dst \in Lines, NEW src \in Lines, NEW n, Ends(src, n), NEW d,
           \/ d = strncpy(dst, src, LineMax - 1) /\ dst[LineMax - 1] = Nul
           \/ d = CopyLine(dst, src)
    PROVE  /\ d \in Lines /\ Ends(d, n) /\ d[LineMax - 1] = Nul
           /\ strlen(d) = n /\ Text(d) = Text(src)
<1>1. /\ LineMax \in Nat /\ LineMax > 1 /\ n \in Index /\ n \in Nat /\ n <= LineMax - 1
      /\ LineMax - 1 \in Index
  BY ShellSizes DEF Ends
<1> DEFINE c == strncpy(dst, src, LineMax - 1)
<1>2. \A i \in Index : c[i] = IF i >= LineMax - 1 THEN dst[i]
                              ELSE IF \A j \in 0 .. i : src[j] # Nul THEN src[i] ELSE Nul
  BY DEF strncpy
<1>3. c \in Lines
  <2>1. \A i \in Index : c[i] \in Chars
    BY <1>2 DEF Lines, Chars
  <2>2. c = [i \in Index |-> c[i]]
    BY DEF strncpy
  <2> QED
    BY <2>1, <2>2 DEF Lines
<1>4. ASSUME NEW i \in 0 .. n - 1
      PROVE  i \in Index /\ i < LineMax - 1 /\ c[i] = src[i] /\ src[i] # Nul
  <2>1. i \in Index /\ ~(i >= LineMax - 1) /\ i < LineMax - 1
    BY <1>1 DEF Index
  <2>2. \A j \in 0 .. i : j \in 0 .. n - 1
    BY <1>1
  <2>3. \A j \in 0 .. i : src[j] # Nul
    BY <2>2 DEF Ends
  <2>4. src[i] # Nul
    BY DEF Ends
  <2> QED
    BY <1>2, <2>1, <2>3, <2>4
<1>5. n < LineMax - 1 => c[n] = Nul
  <2> SUFFICES ASSUME n < LineMax - 1 PROVE c[n] = Nul
    OBVIOUS
  <2>1. ~(n >= LineMax - 1) /\ n \in 0 .. n
    BY <1>1
  <2>2. src[n] = Nul
    BY DEF Ends
  <2> QED
    BY <1>1, <1>2, <2>1, <2>2
<1> HIDE DEF c
<1>6. d \in Lines /\ d[LineMax - 1] = Nul
      /\ \A i \in Index : i # LineMax - 1 => d[i] = c[i]
  <2>1. CASE d = c /\ dst[LineMax - 1] = Nul
    <3>1. c[LineMax - 1] = dst[LineMax - 1]
      BY <1>1, <1>2
    <3> QED
      BY <1>3, <2>1, <3>1
  <2>2. CASE d = [c EXCEPT ![LineMax - 1] = Nul]
    BY <1>1, <1>3, <2>2 DEF Lines, Chars
  <2> QED
    BY <2>1, <2>2 DEF CopyLine, c
<1>7. Ends(d, n)
  <2>1. \A i \in 0 .. n - 1 : i \in Index /\ i # LineMax - 1 /\ d[i] # Nul
    BY <1>1, <1>4, <1>6
  <2>2. d[n] = Nul
    <3>1. CASE n = LineMax - 1
      BY <1>6, <3>1
    <3>2. CASE n < LineMax - 1
      BY <1>1, <1>5, <1>6, <3>2
    <3> QED
      BY <1>1, <3>1, <3>2
  <2> QED
    BY <1>1, <2>1, <2>2 DEF Ends
<1>8. strlen(d) = n /\ strlen(src) = n
  BY <1>6, <1>7, StrlenIs
<1>9. Text(d) = Text(src)
  <2>1. \A i \in 1 .. n : i - 1 \in 0 .. n - 1
    BY <1>1
  <2>2. \A i \in 1 .. n : d[i - 1] = src[i - 1]
    BY <1>1, <1>4, <1>6, <2>1
  <2> QED
    BY <1>8, <2>2 DEF Text
<1> QED
  BY <1>6, <1>7, <1>8, <1>9

\* The console as a sequence.
LEMMA ConsoleSeq ==
    ASSUME NEW l \in Lines, NEW n \in Index
    PROVE  /\ Console(l, n) \in Seq(Chars \cup {SHELL_PROMPT})
           /\ Len(Console(l, n)) = 1 + n
           /\ \A i \in 1 .. 1 + n :
                 Console(l, n)[i] = IF i = 1 THEN SHELL_PROMPT ELSE l[i - 2]
<1> DEFINE S == Chars \cup {SHELL_PROMPT}
           f == <<SHELL_PROMPT>>
           g == [i \in 1 .. n |-> l[i - 1]]
<1>1. n \in Nat /\ n <= LineMax - 1 /\ LineMax \in Nat
  BY ShellSizes
<1>2. \A i \in 1 .. n : l[i - 1] \in S
  <2>1. \A i \in 1 .. n : i - 1 \in Index
    BY <1>1 DEF Index
  <2> QED
    BY <2>1 DEF Lines
<1>3. f \in Seq(S) /\ Len(f) = 1 /\ f[1] = SHELL_PROMPT
  OBVIOUS
<1>4. g \in Seq(S) /\ Len(g) = n /\ \A i \in 1 .. n : g[i] = l[i - 1]
  BY <1>1, <1>2
<1>5. Console(l, n) = f \o g
  BY DEF Console
<1> HIDE DEF f, g, S
<1>6. f \o g \in Seq(S)
  BY <1>3, <1>4
<1>7. /\ Len(f \o g) = 1 + n
      /\ \A i \in 1 .. 1 + n : (f \o g)[i] = IF i = 1 THEN f[1] ELSE g[i - 1]
  BY <1>1, <1>3, <1>4, AfterOne
<1>8. ASSUME NEW i \in 1 .. 1 + n, i # 1
      PROVE  g[i - 1] = l[i - 2]
  <2>1. i - 1 \in 1 .. n /\ (i - 1) - 1 = i - 2
    BY <1>1, <1>8
  <2> QED
    BY <1>4, <2>1
<1> QED
  BY <1>3, <1>5, <1>6, <1>7, <1>8 DEF S

\* Erasing k of n characters leaves the first n - k.
LEMMA EraseSome ==
    ASSUME NEW l \in Lines, NEW n \in Index, NEW k \in 0 .. n, shown = Console(l, n)
    PROVE  /\ n - k \in Index /\ term_erase(k) = Console(l, n - k)
<1>1. n \in Nat /\ n <= LineMax - 1 /\ LineMax \in Nat
  BY ShellSizes
<1>2. n - k \in Index
  BY <1>1 DEF Index
<1> DEFINE S == Chars \cup {SHELL_PROMPT}
           c == Console(l, n)
           e == Console(l, n - k)
<1>3. /\ c \in Seq(S) /\ Len(c) = 1 + n
      /\ \A i \in 1 .. 1 + n : c[i] = IF i = 1 THEN SHELL_PROMPT ELSE l[i - 2]
  BY ConsoleSeq
<1>4. /\ e \in Seq(S) /\ Len(e) = 1 + (n - k)
      /\ \A i \in 1 .. 1 + (n - k) : e[i] = IF i = 1 THEN SHELL_PROMPT ELSE l[i - 2]
  BY <1>2, ConsoleSeq
<1>5. term_erase(k) = SubSeq(c, 1, 1 + (n - k))
  <2>1. (1 + n) - k = 1 + (n - k)
    BY <1>1
  <2> QED
    BY <1>3, <2>1 DEF term_erase
<1> HIDE DEF c, e, S
<1>6. \A i \in 1 .. 1 + (n - k) : i \in 1 .. 1 + n
  BY <1>1
<1>7. /\ SubSeq(c, 1, 1 + (n - k)) \in Seq(S)
      /\ Len(SubSeq(c, 1, 1 + (n - k))) = 1 + (n - k)
      /\ \A i \in 1 .. 1 + (n - k) : SubSeq(c, 1, 1 + (n - k))[i] = c[i]
  BY <1>1, <1>3, <1>6
<1>8. \A i \in 1 .. 1 + (n - k) : SubSeq(c, 1, 1 + (n - k))[i] = e[i]
  BY <1>3, <1>4, <1>6, <1>7
<1>9. SubSeq(c, 1, 1 + (n - k)) = e
  BY <1>4, <1>7, <1>8, SeqEqual
<1> QED
  BY <1>2, <1>5, <1>9 DEF e

\* The prompt, and a line behind it.
LEMMA PromptAndText ==
    ASSUME NEW l \in Lines, NEW m \in Lines, NEW n, Ends(m, n)
    PROVE  Console(l, 0) \o Text(m) = Console(m, n) /\ Console(l, 0) = <<SHELL_PROMPT>>
<1>1. Console(l, 0) = <<SHELL_PROMPT>>
  <2>1. [i \in 1 .. 0 |-> l[i - 1]] = <<>>
    OBVIOUS
  <2> QED
    BY <2>1 DEF Console
<1>2. strlen(m) = n
  BY StrlenIs
<1> QED
  BY <1>1, <1>2 DEF Console, Text

\* A cleared buffer is the empty string.
LEMMA ZerosString ==
    /\ Zeros \in Lines /\ Ends(Zeros, 0) /\ Zeros[LineMax - 1] = Nul /\ IsString(Zeros)
    /\ Console(Zeros, 0) = <<SHELL_PROMPT>>
<1>1. Zeros \in Lines /\ 0 \in Index /\ LineMax - 1 \in Index
  BY ShellSizes DEF Zeros, Lines, Chars
<1>2. Zeros[0] = Nul /\ Zeros[LineMax - 1] = Nul
  BY <1>1 DEF Zeros
<1>3. Ends(Zeros, 0)
  BY <1>1, <1>2 DEF Ends
<1> QED
  BY <1>1, <1>2, <1>3, PromptAndText DEF IsString

\* The entry hist_get returns is a string.
LEMMA HistIsString ==
    ASSUME ShellInv, NEW o \in Int
    PROVE  hist_get(o) \in Lines /\ \E n \in Index : Ends(hist_get(o), n)
<1>1. hist_head + hist_count - 1 - o \in Int /\ HistSize \in Nat \ {0}
  BY ShellSizes DEF ShellInv
<1>2. (hist_head + hist_count - 1 - o) % HistSize \in 0 .. HistSize - 1
  BY <1>1, OneTurn
<1> QED
  BY <1>2 DEF ShellInv, IsString, hist_get

\* A line that replaces the one on the console.
LEMMA LineReplaced ==
    ASSUME ShellInv, phase = "read", NEW src \in Lines, NEW m \in Index, Ends(src, m),
           \/ line' = CopyLine(line, src)
           \/ line' = strncpy(line, src, LineMax - 1),
           pos' = strlen(line'), shown' = term_erase(pos) \o Text(line')
    PROVE  /\ line' \in Lines /\ Ends(line', pos') /\ line'[LineMax - 1] = Nul
           /\ shown' = Console(line', pos')
<1>1. /\ line \in Lines /\ Ends(line, pos) /\ line[LineMax - 1] = Nul
      /\ shown = Console(line, pos)
  BY DEF ShellInv
<1>2. line' \in Lines /\ Ends(line', m) /\ line'[LineMax - 1] = Nul /\ strlen(line') = m
  BY <1>1, CopyIsString
<1>3. pos \in Index /\ pos \in 0 .. pos /\ pos - pos = 0
  BY <1>1, ShellSizes DEF Ends
<1>4. term_erase(pos) = Console(line, 0)
  BY <1>1, <1>3, EraseSome
<1>5. Console(line, 0) \o Text(line') = Console(line', m)
  BY <1>1, <1>2, PromptAndText
<1> QED
  BY <1>2, <1>4, <1>5

\* Keys that come while a line is edited.
LEMMA KeysKeepLine ==
    ASSUME ShellInv, NEW ev \in Events, handle_key(ev)
    PROVE  ShellInv'
<1>1. /\ line \in Lines /\ Ends(line, pos) /\ line[LineMax - 1] = Nul
      /\ IsString(saved_line) /\ saved_line[LineMax - 1] = Nul
      /\ hist_nav \in Int /\ hist_count \in Int /\ hist_head \in Int
      /\ DOMAIN hist_buf = 0 .. HistSize - 1
      /\ \A k \in 0 .. HistSize - 1 : IsString(hist_buf[k])
      /\ phase = "read" => shown = Console(line, pos)
  BY DEF ShellInv
<1>2. /\ pos \in Index /\ pos \in Nat /\ pos <= LineMax - 1 /\ LineMax \in Nat
      /\ LineMax > 1 /\ 0 \in Index /\ LineMax - 1 \in Index /\ Nul \notin Letters
  BY <1>1, ShellSizes DEF Ends
<1>3. phase = "read" /\ UNCHANGED <<hist_buf, hist_count, hist_head>>
  BY DEF handle_key, key_up, key_down, key_enter, key_backspace, key_escape, key_char,
         Reading
<1>4. ASSUME line' \in Lines, Ends(line', pos'), line'[LineMax - 1] = Nul,
             IsString(saved_line'), saved_line'[LineMax - 1] = Nul, hist_nav' \in Int,
             phase' = "read" => shown' = Console(line', pos')
      PROVE  ShellInv'
  <2>1. /\ hist_count' \in Int /\ hist_head' \in Int
        /\ DOMAIN hist_buf' = 0 .. HistSize - 1
        /\ \A k \in 0 .. HistSize - 1 : IsString(hist_buf'[k])
    BY <1>1, <1>3
  <2> QED
    BY <1>4, <2>1 DEF ShellInv, Ends, IsString, Index, Nul, Console, SHELL_PROMPT, Lines,
                      Chars
<1>5. ASSUME key_up PROVE ShellInv'
  <2>1. /\ saved_line' = IF hist_nav < 0 THEN strncpy(saved_line, line, LineMax - 1)
                         ELSE saved_line
        /\ hist_nav' = hist_nav + 1
        /\ line' = CopyLine(line, hist_get(hist_nav + 1))
        /\ pos' = strlen(line') /\ shown' = term_erase(pos) \o Text(line')
    BY <1>5 DEF key_up
  <2>2. hist_nav + 1 \in Int
    BY <1>1
  <2>3. PICK m \in Index : hist_get(hist_nav + 1) \in Lines /\ Ends(hist_get(hist_nav + 1), m)
    BY <2>2, HistIsString
  <2>4. /\ line' \in Lines /\ Ends(line', pos') /\ line'[LineMax - 1] = Nul
        /\ shown' = Console(line', pos')
    BY <1>3, <2>1, <2>3, LineReplaced
  <2>5. IsString(saved_line') /\ saved_line'[LineMax - 1] = Nul
    <3>1. CASE hist_nav < 0
      <4>1. saved_line' = strncpy(saved_line, line, LineMax - 1) /\ saved_line \in Lines
        BY <1>1, <2>1, <3>1 DEF IsString
      <4>2. saved_line' \in Lines /\ Ends(saved_line', pos) /\ saved_line'[LineMax - 1] = Nul
        BY <1>1, <4>1, CopyIsString
      <4> QED
        BY <1>2, <4>2 DEF IsString
    <3>2. CASE ~(hist_nav < 0)
      <4>1. saved_line' = saved_line
        BY <2>1, <3>2
      <4> QED
        BY <1>1, <4>1
    <3> QED
      BY <3>1, <3>2
  <2> QED
    BY <1>4, <2>1, <2>2, <2>4, <2>5
<1>6. ASSUME key_down PROVE ShellInv'
  <2>1. /\ saved_line' = saved_line /\ hist_nav' = hist_nav - 1
        /\ line' = IF hist_nav > 0 THEN CopyLine(line, hist_get(hist_nav - 1))
                   ELSE strncpy(line, saved_line, LineMax - 1)
        /\ pos' = strlen(line') /\ shown' = term_erase(pos) \o Text(line')
    BY <1>6 DEF key_down
  <2>2. hist_nav - 1 \in Int
    BY <1>1
  <2>3. /\ line' \in Lines /\ Ends(line', pos') /\ line'[LineMax - 1] = Nul
        /\ shown' = Console(line', pos')
    <3>1. CASE hist_nav > 0
      <4>1. PICK m \in Index : /\ hist_get(hist_nav - 1) \in Lines
                               /\ Ends(hist_get(hist_nav - 1), m)
        BY <2>2, HistIsString
      <4>2. line' = CopyLine(line, hist_get(hist_nav - 1))
        BY <2>1, <3>1
      <4> QED
        BY <1>3, <2>1, <4>1, <4>2, LineReplaced
    <3>2. CASE ~(hist_nav > 0)
      <4>1. PICK m \in Index : saved_line \in Lines /\ Ends(saved_line, m)
        BY <1>1 DEF IsString
      <4>2. line' = strncpy(line, saved_line, LineMax - 1)
        BY <2>1, <3>2
      <4> QED
        BY <1>3, <2>1, <4>1, <4>2, LineReplaced
    <3> QED
      BY <3>1, <3>2
  <2> QED
    BY <1>1, <1>4, <2>1, <2>2, <2>3
<1>7. ASSUME key_enter PROVE ShellInv'
  <2>1. /\ line' = [line EXCEPT ![pos] = Nul] /\ pos' = pos /\ phase' = "exec"
        /\ saved_line' = saved_line /\ hist_nav' = hist_nav
    BY <1>7 DEF key_enter
  <2>2. line' = line
    BY <1>1, <1>2, <2>1 DEF Lines, Ends
  <2> QED
    BY <1>1, <1>4, <2>1, <2>2
<1>8. ASSUME key_backspace PROVE ShellInv'
  <2>1. /\ pos > 0 /\ pos' = pos - 1 /\ line' = [line EXCEPT ![pos - 1] = Nul]
        /\ shown' = term_erase(1) /\ saved_line' = saved_line /\ hist_nav' = hist_nav
    BY <1>8 DEF key_backspace
  <2>2. pos - 1 \in Index /\ 1 \in 0 .. pos
    BY <1>2, <2>1 DEF Index
  <2>3. /\ line' \in Lines /\ line'[pos - 1] = Nul
        /\ \A i \in Index : i # pos - 1 => line'[i] = line[i]
    BY <1>1, <2>1, <2>2 DEF Lines, Chars
  <2>4. line'[LineMax - 1] = Nul
    BY <1>1, <1>2, <2>3
  <2>5. \A i \in 0 .. (pos - 1) - 1 : i \in Index /\ i # pos - 1 /\ i \in 0 .. pos - 1
    BY <1>2, <2>1 DEF Index
  <2>6. Ends(line', pos - 1)
    BY <1>1, <2>2, <2>3, <2>5 DEF Ends
  <2>7. shown' = Console(line, pos - 1)
    BY <1>1, <1>2, <1>3, <2>1, <2>2, EraseSome
  <2>8. Console(line, pos - 1) = Console(line', pos - 1)
    <3>1. \A i \in 1 .. pos - 1 : line'[i - 1] = line[i - 1]
      <4>1. \A i \in 1 .. pos - 1 : i - 1 \in 0 .. (pos - 1) - 1
        BY <1>2, <2>1
      <4> QED
        BY <2>3, <2>5, <4>1
    <3>2. [i \in 1 .. pos - 1 |-> line[i - 1]] = [i \in 1 .. pos - 1 |-> line'[i - 1]]
      BY <3>1
    <3> QED
      BY <3>2 DEF Console
  <2> QED
    BY <1>1, <1>4, <2>1, <2>3, <2>4, <2>6, <2>7, <2>8
<1>9. ASSUME key_escape PROVE ShellInv'
  <2>1. /\ shown' = term_erase(pos) /\ pos' = 0 /\ line' = [line EXCEPT ![0] = Nul]
        /\ hist_nav' = -1 /\ saved_line' = saved_line
    BY <1>9 DEF key_escape
  <2>2. /\ line' \in Lines /\ line'[0] = Nul
        /\ \A i \in Index : i # 0 => line'[i] = line[i]
    BY <1>1, <1>2, <2>1 DEF Lines, Chars
  <2>3. line'[LineMax - 1] = Nul
    BY <1>1, <1>2, <2>2
  <2>4. Ends(line', 0)
    BY <1>2, <2>2 DEF Ends
  <2>5. pos \in 0 .. pos /\ pos - pos = 0
    BY <1>2
  <2>6. shown' = Console(line, 0)
    BY <1>1, <1>2, <1>3, <2>1, <2>5, EraseSome
  <2>7. Console(line, 0) = Console(line', 0)
    BY <1>1, <2>2, <2>4, PromptAndText
  <2> QED
    BY <1>1, <1>4, <2>1, <2>2, <2>3, <2>4, <2>6, <2>7
<1>10. ASSUME NEW c \in Letters, key_char(c) PROVE ShellInv'
  <2>1. /\ pos < LineMax - 1 /\ pos' = pos + 1
        /\ line' = [line EXCEPT ![pos] = c, ![pos + 1] = Nul]
        /\ shown' = Append(shown, c) /\ saved_line' = saved_line /\ hist_nav' = hist_nav
    BY <1>10 DEF key_char
  <2>2. pos + 1 \in Index /\ pos # pos + 1
    BY <1>2, <2>1 DEF Index
  <2>3. /\ line' \in Lines /\ line'[pos] = c /\ line'[pos + 1] = Nul
        /\ \A i \in Index : i # pos /\ i # pos + 1 => line'[i] = line[i]
    BY <1>1, <1>2, <2>1, <2>2 DEF Lines, Chars
  <2>4. line'[LineMax - 1] = Nul
    <3>1. LineMax - 1 # pos
      BY <1>2, <2>1
    <3> QED
      BY <1>1, <1>2, <2>3, <3>1
  <2>5. ASSUME NEW i \in 0 .. (pos + 1) - 1
        PROVE  /\ i = pos => line'[i] = c
               /\ i # pos => i \in 0 .. pos - 1 /\ line'[i] = line[i]
    <3>1. i \in Index /\ i # pos + 1 /\ (i # pos => i \in 0 .. pos - 1)
      BY <1>2 DEF Index
    <3> QED
      BY <2>3, <3>1
  <2>6. Ends(line', pos + 1)
    BY <1>1, <1>2, <1>10, <2>2, <2>3, <2>5 DEF Ends
  <2>7. shown' = Console(line', pos + 1)
    <3> DEFINE S == Chars \cup {SHELL_PROMPT}
               old == Console(line, pos)
               new == Console(line', pos + 1)
    <3>1. /\ old \in Seq(S) /\ Len(old) = 1 + pos
          /\ \A i \in 1 .. 1 + pos : old[i] = IF i = 1 THEN SHELL_PROMPT ELSE line[i - 2]
      BY <1>1, <1>2, ConsoleSeq
    <3>2. /\ new \in Seq(S) /\ Len(new) = 1 + (pos + 1)
          /\ \A i \in 1 .. 1 + (pos + 1) :
                new[i] = IF i = 1 THEN SHELL_PROMPT ELSE line'[i - 2]
      BY <2>2, <2>3, ConsoleSeq
    <3>3. c \in S /\ shown' = Append(old, c)
      BY <1>1, <1>3, <1>10, <2>1 DEF Chars
    <3> HIDE DEF S, old, new
    <3>4. /\ Append(old, c) \in Seq(S) /\ Len(Append(old, c)) = Len(old) + 1
          /\ \A i \in 1 .. Len(old) : Append(old, c)[i] = old[i]
          /\ Append(old, c)[Len(old) + 1] = c
      BY <3>1, <3>3, AppendProperties
    <3>5. Len(Append(old, c)) = Len(new)
      BY <1>2, <3>1, <3>2, <3>4
    <3>6. ASSUME NEW i \in 1 .. Len(Append(old, c))
          PROVE  Append(old, c)[i] = new[i]
      <4>1. i \in 1 .. 1 + (pos + 1)
        BY <1>2, <3>1, <3>4
      <4>2. CASE i = 1
        <5>1. 1 \in 1 .. Len(old) /\ 1 \in 1 .. 1 + pos
          BY <1>2, <3>1
        <5> QED
          BY <3>1, <3>2, <3>4, <4>1, <4>2, <5>1
      <4>3. CASE i # 1 /\ i # Len(old) + 1
        <5>1. /\ i \in 1 .. Len(old) /\ i \in 1 .. 1 + pos
              /\ i - 2 \in 0 .. (pos + 1) - 1 /\ i - 2 # pos
          BY <1>2, <3>1, <4>1, <4>3
        <5>2. line'[i - 2] = line[i - 2]
          BY <2>5, <5>1
        <5> QED
          BY <3>1, <3>2, <3>4, <4>1, <4>3, <5>1, <5>2
      <4>4. CASE i = Len(old) + 1
        <5>1. i # 1 /\ i - 2 = pos
          BY <1>2, <3>1, <4>4
        <5> QED
          BY <2>3, <3>2, <3>4, <4>1, <4>4, <5>1
      <4> QED
        BY <4>2, <4>3, <4>4
    <3>7. Append(old, c) = new
      BY <3>2, <3>4, <3>5, <3>6, SeqEqual
    <3> QED
      BY <3>3, <3>7 DEF new
  <2> QED
    BY <1>1, <1>4, <2>1, <2>3, <2>4, <2>6, <2>7
<1> QED
  BY <1>5, <1>6, <1>7, <1>8, <1>9, <1>10 DEF handle_key

\* Every step of the shell keeps the invariant.
LEMMA ShellStep == ShellInv /\ [ShellNext]_shellVars => ShellInv'
<1> SUFFICES ASSUME ShellInv, [ShellNext]_shellVars PROVE ShellInv'
  OBVIOUS
<1>1. CASE \E ev \in Events : handle_key(ev)
  BY <1>1, KeysKeepLine
<1>2. CASE run_line
  <2>1. /\ UNCHANGED <<line, saved_line, pos, hist_nav, shown>> /\ phase' = "ran"
        /\ hist_add(line) \/ UNCHANGED <<hist_buf, hist_count, hist_head>>
    BY <1>2 DEF run_line
  <2>2. /\ hist_count' \in Int /\ hist_head' \in Int
        /\ DOMAIN hist_buf' = 0 .. HistSize - 1
        /\ \A k \in 0 .. HistSize - 1 : IsString(hist_buf'[k])
    <3>1. CASE UNCHANGED <<hist_buf, hist_count, hist_head>>
      BY <3>1 DEF ShellInv
    <3>2. CASE hist_add(line)
      <4> DEFINE idx == (hist_head + hist_count) % HistSize
      <4>1. /\ hist_buf' = [hist_buf EXCEPT ![idx] = CopyLine(@, line)]
            /\ hist_count' = hist_count + 1 \/ hist_count' = hist_count
            /\ hist_head' = hist_head \/ hist_head' = (hist_head + 1) % HistSize
        BY <3>2 DEF hist_add
      <4>2. HistSize \in Nat \ {0} /\ hist_head \in Int /\ hist_count \in Int
        BY ShellSizes DEF ShellInv
      <4>3. idx \in 0 .. HistSize - 1 /\ (hist_head + 1) % HistSize \in Int
        <5>1. hist_head + hist_count \in Int /\ hist_head + 1 \in Int
          BY <4>2
        <5> QED
          BY <4>2, <5>1, OneTurn
      <4> HIDE DEF idx
      <4>4. hist_buf[idx] \in Lines /\ DOMAIN hist_buf = 0 .. HistSize - 1
        BY <4>3 DEF ShellInv, IsString
      <4>5. IsString(CopyLine(hist_buf[idx], line))
        <5>1. line \in Lines /\ Ends(line, pos) /\ pos \in Index
          BY DEF ShellInv, Ends
        <5> QED
          BY <4>4, <5>1, CopyIsString DEF IsString
      <4>6. hist_buf' = [hist_buf EXCEPT ![idx] = CopyLine(hist_buf[idx], line)]
        BY <4>1
      <4>7. DOMAIN hist_buf' = 0 .. HistSize - 1
        BY <4>4, <4>6
      <4>8. \A k \in 0 .. HistSize - 1 : IsString(hist_buf'[k])
        <5>1. ASSUME NEW k \in 0 .. HistSize - 1
              PROVE  IsString(hist_buf'[k])
          <6>1. CASE k = idx
            <7>1. hist_buf'[k] = CopyLine(hist_buf[idx], line)
              BY <4>4, <4>6, <6>1
            <7> QED
              BY <4>5, <7>1
          <6>2. CASE k # idx
            <7>1. hist_buf'[k] = hist_buf[k]
              BY <4>4, <4>6, <6>2
            <7> QED
              BY <7>1 DEF ShellInv
          <6> QED
            BY <6>1, <6>2
        <5> QED
          BY <5>1
      <4>9. hist_count' \in Int /\ hist_head' \in Int
        BY <4>1, <4>2, <4>3
      <4> QED
        BY <4>7, <4>8, <4>9
    <3> QED
      BY <2>1, <3>1, <3>2
  <2> QED
    BY <2>1, <2>2 DEF ShellInv, Ends, IsString, Index, Nul, Lines, Chars
<1>3. CASE next_prompt
  <2>1. /\ pos' = 0 /\ hist_nav' = -1 /\ line' = Zeros /\ saved_line' = Zeros
        /\ shown' = <<SHELL_PROMPT>> /\ UNCHANGED <<hist_buf, hist_count, hist_head>>
    BY <1>3 DEF next_prompt
  <2>2. /\ Zeros \in Lines /\ Ends(Zeros, 0) /\ Zeros[LineMax - 1] = Nul /\ IsString(Zeros)
        /\ Console(Zeros, 0) = <<SHELL_PROMPT>>
    BY ZerosString
  <2> QED
    BY <2>1, <2>2 DEF ShellInv, Ends, IsString, Index, Nul, Lines, Chars, Console,
                      SHELL_PROMPT, Zeros
<1>4. CASE heroshell_main \/ UNCHANGED shellVars
  <2>1. UNCHANGED shellVars
    BY <1>4 DEF heroshell_main
  <2> QED
    BY <2>1 DEF shellVars, ShellInv, Ends, IsString, Index, Nul, Lines, Chars, Console,
                SHELL_PROMPT
<1> QED
  BY <1>1, <1>2, <1>3, <1>4 DEF ShellNext

LEMMA ShellInitInv == ShellInit => ShellInv
  BY ZerosString DEF ShellInit, ShellInv

\* The shell moves only by its own steps.
LEMMA OnlyShellMovesShell == [ipc_step \/ console_step]_svars => [ShellNext]_shellVars
  BY DEF ipc_step, console_step, svars, consoleVars

\* For every length of a line, every depth of the history and any sequence of
\* keys, the line is terminated inside its array and is what the console
\* shows: no editing leaves the terminator out.
THEOREM ConsoleShowsLine == ServicesSpec => []ShownIsLine
<1>1. ServicesInit => ShellInv
  BY ShellInitInv DEF ServicesInit, ConsoleInit
<1>2. ShellInv => ShownIsLine
  <2> SUFFICES ASSUME ShellInv PROVE ShownIsLine
    OBVIOUS
  <2>1. strlen(line) = pos
    BY StrlenIs DEF ShellInv
  <2> QED
    BY <2>1 DEF ShellInv, Ends, Console, ShownIsLine
<1> QED
  BY <1>1, <1>2, ShellStep, OnlyShellMovesShell, PTL DEF ServicesSpec

-----------------------------------------------------------------------------
(***************************************************************************)
(* The tokenizer.                                                          *)
(***************************************************************************)

\* Both scans stop, and where they should.
LEMMA BlanksSkipped ==
    ASSUME NEW s, Len(s) \in Nat, NEW p \in 1 .. Len(s) + 1
    PROVE  /\ SkipBlanks(s, p) \in p .. Len(s) + 1
           /\ SkipBlanks(s, p) = Len(s) + 1 \/ s[SkipBlanks(s, p)] # SpaceChar
           /\ \A i \in p .. SkipBlanks(s, p) - 1 : s[i] = SpaceChar
<1> DEFINE S == {q \in p .. Len(s) + 1 : q = Len(s) + 1 \/ s[q] # SpaceChar}
<1>1. S \in SUBSET Nat /\ Len(s) + 1 \in S
  OBVIOUS
<1>2. PICK q \in S : \A y \in S : q <= y
  BY <1>1, LeastElement
<1>3. q \in p .. Len(s) + 1 /\ (q = Len(s) + 1 \/ s[q] # SpaceChar)
  BY <1>2
<1>4. ASSUME NEW i \in p .. q - 1 PROVE s[i] = SpaceChar
  <2>1. i \in p .. Len(s) + 1 /\ ~(q <= i)
    BY <1>3
  <2>2. i \notin S
    BY <1>2, <2>1
  <2> QED
    BY <2>1, <2>2
<1>5. \E x \in p .. Len(s) + 1 : /\ x = Len(s) + 1 \/ s[x] # SpaceChar
                                 /\ \A i \in p .. x - 1 : s[i] = SpaceChar
  BY <1>3, <1>4
<1> QED
  BY <1>5, Zenon DEF SkipBlanks

LEMMA WordSkipped ==
    ASSUME NEW s, Len(s) \in Nat, NEW p \in 1 .. Len(s) + 1
    PROVE  /\ SkipWord(s, p) \in p .. Len(s) + 1
           /\ SkipWord(s, p) = Len(s) + 1 \/ s[SkipWord(s, p)] = SpaceChar
           /\ \A i \in p .. SkipWord(s, p) - 1 : s[i] # SpaceChar
<1> DEFINE S == {q \in p .. Len(s) + 1 : q = Len(s) + 1 \/ s[q] = SpaceChar}
<1>1. S \in SUBSET Nat /\ Len(s) + 1 \in S
  OBVIOUS
<1>2. PICK q \in S : \A y \in S : q <= y
  BY <1>1, LeastElement
<1>3. q \in p .. Len(s) + 1 /\ (q = Len(s) + 1 \/ s[q] = SpaceChar)
  BY <1>2
<1>4. ASSUME NEW i \in p .. q - 1 PROVE s[i] # SpaceChar
  <2>1. i \in p .. Len(s) + 1 /\ ~(q <= i)
    BY <1>3
  <2>2. i \notin S
    BY <1>2, <2>1
  <2> QED
    BY <2>1, <2>2
<1>5. \E x \in p .. Len(s) + 1 : /\ x = Len(s) + 1 \/ s[x] = SpaceChar
                                 /\ \A i \in p .. x - 1 : s[i] # SpaceChar
  BY <1>3, <1>4
<1> QED
  BY <1>5, Zenon DEF SkipWord

\* A word that begins at i ends where SkipWord stops.
LEMMA WordAtIs ==
    ASSUME NEW s, Len(s) \in Nat, NEW i \in 1 .. Len(s), s[i] # SpaceChar
    PROVE  /\ SkipWord(s, i) > i
           /\ WordAt(s, i) = SubSeq(s, i, SkipWord(s, i) - 1)
<1> DEFINE e == SkipWord(s, i)
<1>1. /\ e \in i .. Len(s) + 1 /\ (e = Len(s) + 1 \/ s[e] = SpaceChar)
      /\ \A k \in i .. e - 1 : s[k] # SpaceChar
  <2>1. i \in 1 .. Len(s) + 1
    OBVIOUS
  <2> QED
    BY <2>1, WordSkipped
<1> HIDE DEF e
<1>2. e > i /\ e - 1 \in i .. Len(s) /\ (e - 1) + 1 = e
  BY <1>1
<1> DEFINE Run(j) == /\ \A k \in i .. j : s[k] # SpaceChar
                     /\ j = Len(s) \/ s[j + 1] = SpaceChar
<1>3. Run(e - 1)
  BY <1>1, <1>2
<1>4. ASSUME NEW j \in i .. Len(s), Run(j) PROVE j = e - 1
  <2>1. ~(j < e - 1)
    <3>1. j < e - 1 => j + 1 \in i .. e - 1 /\ j # Len(s)
      BY <1>1
    <3> QED
      BY <1>1, <1>4, <3>1
  <2>2. ~(j > e - 1)
    <3>1. j > e - 1 => e \in i .. j /\ e # Len(s) + 1
      BY <1>1
    <3> QED
      BY <1>1, <1>4, <3>1
  <2> QED
    BY <1>2, <2>1, <2>2
<1> HIDE DEF Run
<1>5. (CHOOSE j \in i .. Len(s) : Run(j)) = e - 1
  BY <1>2, <1>3, <1>4
<1>6. WordAt(s, i) = SubSeq(s, i, e - 1)
  BY <1>5, Zenon DEF WordAt, Run
<1> QED
  BY <1>2, <1>6 DEF e

\* The words that begin before p.
Below(s, p) == {j \in Starts(s) : j < p}

LEMMA StartsFinite ==
    ASSUME NEW s, Len(s) \in Nat
    PROVE  /\ IsFiniteSet(Starts(s)) /\ Cardinality(Starts(s)) \in Nat
           /\ \A T \in SUBSET Starts(s) :
                 /\ IsFiniteSet(T) /\ Cardinality(T) \in Nat
                 /\ Cardinality(T) <= Cardinality(Starts(s))
                 /\ Cardinality(T) = Cardinality(Starts(s)) => T = Starts(s)
<1>1. IsFiniteSet(1 .. Len(s))
  BY FS_Interval
<1>2. Starts(s) \subseteq 1 .. Len(s)
  BY DEF Starts
<1>3. IsFiniteSet(Starts(s))
  BY <1>1, <1>2, FS_Subset
<1> QED
  BY <1>3, FS_Subset, FS_CardinalityType

\* The word after the n words that begin before b.
LEMMA NthWord ==
    ASSUME NEW s, Len(s) \in Nat, NEW b \in Starts(s), NEW n \in Nat,
           Cardinality({j \in Starts(s) : j <= b}) = n + 1
    PROVE  n + 1 \in 1 .. Cardinality(Starts(s)) /\ Words(s)[n + 1] = WordAt(s, b)
<1> DEFINE T(i) == {j \in Starts(s) : j <= i}
<1>1. \A i \in Starts(s) : i \in Nat
  BY DEF Starts
<1>2. \A i \in Starts(s) : /\ T(i) \in SUBSET Starts(s) /\ IsFiniteSet(T(i))
                            /\ Cardinality(T(i)) \in Nat
                            /\ Cardinality(T(i)) <= Cardinality(Starts(s))
  BY StartsFinite
<1>3. ASSUME NEW i \in Starts(s), NEW k \in Starts(s), i < k
      PROVE  Cardinality(T(i)) # Cardinality(T(k))
  <2>1. T(i) \in SUBSET T(k)
    BY <1>1, <1>3
  <2>2. k \in T(k) /\ k \notin T(i)
    BY <1>1, <1>3
  <2>3. T(i) # T(k)
    BY <2>2
  <2> HIDE DEF T
  <2> QED
    BY <1>2, <2>1, <2>3, FS_Subset
<1>4. Cardinality(T(b)) = n + 1
  OBVIOUS
<1>5. ASSUME NEW i \in Starts(s), Cardinality(T(i)) = n + 1 PROVE i = b
  <2> HIDE DEF T
  <2>1. ~(i < b) /\ ~(b < i)
    BY <1>3, <1>4, <1>5
  <2> QED
    BY <1>1, <2>1
<1>6. n + 1 \in 1 .. Cardinality(Starts(s))
  <2>1. Cardinality(Starts(s)) \in Nat
    BY StartsFinite
  <2> HIDE DEF T
  <2> QED
    BY <1>2, <1>4, <2>1
<1> DEFINE c == CHOOSE i \in Starts(s) : Cardinality(T(i)) = n + 1
<1>7. c = b
  <2> HIDE DEF T
  <2> QED
    BY <1>4, <1>5
<1>8. Words(s)[n + 1] = WordAt(s, c)
  BY <1>6, Zenon DEF Words
<1> QED
  BY <1>6, <1>7, <1>8

\* Where the loop is after n turns: at the beginning or after a blank or at the
\* end, with the words that begin before in argv, n of them or all.
Tokens(s, t, n) ==
    /\ t.p \in 1 .. Len(s) + 1
    /\ t.p = 1 \/ t.p = Len(s) + 1 \/ s[t.p - 1] = SpaceChar
    /\ t.argv \in Seq(Seq(Letters)) /\ Len(t.argv) = Cardinality(Below(s, t.p))
    /\ Len(t.argv) <= n
    /\ Len(t.argv) < n => Len(t.argv) = Cardinality(Starts(s))
    /\ \A k \in 1 .. Len(t.argv) : t.argv[k] = Words(s)[k]

LEMMA OneTokenMore ==
    ASSUME NEW s \in Seq(Letters), NEW t, NEW n \in Nat, Tokens(s, t, n)
    PROVE  Tokens(s, TakeWord(s, t), n + 1)
<1> DEFINE p == t.p
           b == SkipBlanks(s, p)
           e == SkipWord(s, b)
           m == Len(t.argv)
           C == Cardinality(Starts(s))
<1>1. /\ Len(s) \in Nat /\ p \in 1 .. Len(s) + 1
      /\ p = 1 \/ p = Len(s) + 1 \/ s[p - 1] = SpaceChar
      /\ t.argv \in Seq(Seq(Letters)) /\ m = Cardinality(Below(s, p)) /\ m <= n /\ m \in Nat
      /\ m < n => m = C
      /\ \A k \in 1 .. m : t.argv[k] = Words(s)[k]
  BY DEF Tokens
<1>2. /\ b \in p .. Len(s) + 1 /\ (b = Len(s) + 1 \/ s[b] # SpaceChar)
      /\ \A i \in p .. b - 1 : s[i] = SpaceChar
  BY <1>1, BlanksSkipped
<1>3. TakeWord(s, t) = IF b > Len(s) THEN t
                       ELSE [p |-> IF e > Len(s) THEN e ELSE e + 1,
                             argv |-> Append(t.argv, SubSeq(s, b, e - 1))]
  BY Zenon DEF TakeWord
<1>4. \A j : j \in Starts(s) <=> /\ j \in 1 .. Len(s) /\ s[j] # SpaceChar
                                 /\ j = 1 \/ s[j - 1] = SpaceChar
  BY Zenon DEF Starts
<1>5. C \in Nat
  BY <1>1, StartsFinite
<1> HIDE DEF p, b, e, m, C
<1>6. CASE b > Len(s)
  <2>1. ASSUME NEW j \in Starts(s) PROVE j < p
    <3>1. j \in 1 .. Len(s) /\ s[j] # SpaceChar
      BY <1>4
    <3>2. ~(j < p) => j \in p .. b - 1
      BY <1>1, <1>2, <1>6, <3>1
    <3> QED
      BY <1>1, <1>2, <3>1, <3>2
  <2>2. Below(s, p) = Starts(s)
    BY <2>1 DEF Below
  <2>3. m = C
    BY <1>1, <2>2 DEF C
  <2>4. m <= n + 1
    BY <1>1
  <2> QED
    BY <1>1, <1>3, <1>6, <2>3, <2>4 DEF Tokens, p, m, C
<1>7. ASSUME ~(b > Len(s)) PROVE Tokens(s, TakeWord(s, t), n + 1)
  <2>1. b \in 1 .. Len(s) /\ b \in 1 .. Len(s) + 1 /\ s[b] # SpaceChar
    BY <1>1, <1>2, <1>7
  <2>2. b = 1 \/ s[b - 1] = SpaceChar
    <3>1. CASE b = p
      BY <1>1, <2>1, <3>1
    <3>2. CASE b # p
      <4>1. b - 1 \in p .. b - 1
        BY <1>1, <1>2, <3>2
      <4> QED
        BY <1>2, <4>1
    <3> QED
      BY <3>1, <3>2
  <2>3. b \in Starts(s)
    BY <1>4, <2>1, <2>2
  <2>4. e > b /\ WordAt(s, b) = SubSeq(s, b, e - 1)
    BY <1>1, <2>1, WordAtIs DEF e
  <2>5. /\ e \in b .. Len(s) + 1 /\ (e = Len(s) + 1 \/ s[e] = SpaceChar)
        /\ \A i \in b .. e - 1 : s[i] # SpaceChar
    BY <1>1, <2>1, WordSkipped DEF e
  <2> DEFINE w == SubSeq(s, b, e - 1)
             x == IF e > Len(s) THEN e ELSE e + 1
             u == [p |-> x, argv |-> Append(t.argv, w)]
  <2>6. TakeWord(s, t) = u
    BY <1>3, <1>7
  <2>7. w \in Seq(Letters)
    <3>1. b \in Int /\ e - 1 \in Int /\ \A i \in b .. e - 1 : s[i] \in Letters
      BY <1>1, <2>1, <2>5
    <3> QED
      BY <3>1, SubSeqProperties
  <2>8. x \in 1 .. Len(s) + 1 /\ (x = Len(s) + 1 \/ s[x - 1] = SpaceChar) /\ x > b
    <3>1. CASE e > Len(s)
      <4>1. x = e
        BY <3>1
      <4>2. Len(s) \in Nat /\ b \in Nat /\ e \in Nat /\ e > b /\ b >= 1 /\ e <= Len(s) + 1
        BY <1>1, <2>1, <2>4, <2>5
      <4>3. e = Len(s) + 1 /\ e \in 1 .. Len(s) + 1
        BY <3>1, <4>2
      <4> QED
        BY <2>4, <4>1, <4>3
    <3>2. CASE ~(e > Len(s))
      <4>1. x = e + 1 /\ x - 1 = e /\ s[e] = SpaceChar
        BY <1>1, <2>1, <2>5, <3>2
      <4> QED
        BY <1>1, <2>1, <2>4, <2>5, <3>2, <4>1
    <3> QED
      BY <3>1, <3>2
  <2>9. ASSUME NEW j \in Starts(s) PROVE j < x <=> j < p \/ j = b
    <3>1. /\ j \in 1 .. Len(s) /\ s[j] # SpaceChar /\ (j = 1 \/ s[j - 1] = SpaceChar)
      BY <1>4
    <3>2. ~(j \in p .. b - 1)
      BY <1>2, <3>1
    <3>3. ~(j \in b + 1 .. e - 1)
      <4>1. j \in b + 1 .. e - 1 => j - 1 \in b .. e - 1 /\ j # 1
        BY <1>1, <2>1, <2>5
      <4> QED
        BY <2>5, <3>1, <4>1
    <3>4. j # e
      BY <1>1, <2>5, <3>1
    <3>5. x = e \/ x = e + 1
      BY Zenon
    <3> HIDE DEF x
    <3>6. j < x => j < p \/ j = b
      BY <1>1, <1>2, <2>1, <2>5, <3>1, <3>2, <3>3, <3>4, <3>5
    <3>7. j < p \/ j = b => j < x
      BY <1>1, <1>2, <2>1, <2>4, <2>5, <2>8, <3>1
    <3> QED
      BY <3>6, <3>7
  <2> HIDE DEF w, x
  <2>10. /\ Below(s, x) = Below(s, p) \cup {b} /\ b \notin Below(s, p)
         /\ {j \in Starts(s) : j <= b} = Below(s, x)
    <3>1. Below(s, x) = Below(s, p) \cup {b}
      BY <2>3, <2>9 DEF Below
    <3>2. ~(b < p)
      BY <1>1, <1>2
    <3>3. ASSUME NEW j \in Starts(s) PROVE j <= b <=> j < x
      <4>1. j \in 1 .. Len(s) /\ s[j] # SpaceChar
        BY <1>4
      <4>2. ~(j \in p .. b - 1)
        BY <1>2, <4>1
      <4>3. j <= b <=> j < p \/ j = b
        BY <1>1, <1>2, <2>1, <4>1, <4>2
      <4> QED
        BY <2>9, <4>3
    <3> QED
      BY <3>1, <3>2, <3>3 DEF Below
  <2>11. Cardinality(Below(s, x)) = m + 1 /\ m < C /\ m + 1 <= C
    <3>1. /\ Below(s, p) \in SUBSET Starts(s) /\ Below(s, x) \in SUBSET Starts(s)
      BY DEF Below
    <3>2. IsFiniteSet(Below(s, p)) /\ Cardinality(Below(s, x)) <= C
          /\ Cardinality(Below(s, x)) \in Nat
      BY <1>1, <3>1, StartsFinite DEF C
    <3>3. Cardinality(Below(s, x)) = m + 1
      BY <1>1, <2>10, <3>2, FS_AddElement
    <3> QED
      BY <1>1, <1>5, <3>2, <3>3
  <2>12. Words(s)[m + 1] = w
    BY <1>1, <2>3, <2>4, <2>10, <2>11, NthWord, ZenonT(60) DEF w
  <2>13. m = n
    BY <1>1, <2>11
  <2>14. /\ Append(t.argv, w) \in Seq(Seq(Letters)) /\ Len(Append(t.argv, w)) = m + 1
         /\ Append(t.argv, w)[m + 1] = w
         /\ \A k \in 1 .. m : Append(t.argv, w)[k] = t.argv[k]
    BY <1>1, <2>7 DEF m
  <2>15. \A k \in 1 .. m + 1 : Append(t.argv, w)[k] = Words(s)[k]
    <3>1. \A k \in 1 .. m + 1 : k \in 1 .. m \/ k = m + 1
      BY <1>1
    <3> QED
      BY <1>1, <2>12, <2>14, <3>1
  <2>16. u.p = x /\ u.argv = Append(t.argv, w)
    OBVIOUS
  <2> HIDE DEF u
  <2>17. m + 1 <= n + 1 /\ ~(m + 1 < n + 1)
    BY <1>1, <2>13
  <2>18. Tokens(s, u, n + 1)
    BY <2>8, <2>11, <2>14, <2>15, <2>16, <2>17 DEF Tokens
  <2> QED
    BY <2>6, <2>18
<1> QED
  BY <1>6, <1>7

\* The turns of the loop.
FirstTurn == [p |-> 1, argv |-> <<>>]
AreTurns(g, s, m) ==
    g = [n \in 0 .. m |-> IF n = 0 THEN FirstTurn ELSE TakeWord(s, g[n - 1])]

LEMMA TurnSteps ==
    ASSUME NEW g, NEW s, NEW m \in Nat, AreTurns(g, s, m)
    PROVE  /\ g[0] = FirstTurn
           /\ \A n \in 1 .. m : g[n] = TakeWord(s, g[n - 1])
<1>1. \A n \in 0 .. m : g[n] = IF n = 0 THEN FirstTurn ELSE TakeWord(s, g[n - 1])
  BY Zenon DEF AreTurns
<1> QED
  BY <1>1

LEMMA TurnsExist ==
    ASSUME NEW s, NEW m \in Nat
    PROVE  \E g : AreTurns(g, s, m)
<1> DEFINE S == {n \in Nat : \E g : AreTurns(g, s, n)}
<1>1. 0 \in S
  <2> DEFINE g == [n \in 0 .. 0 |-> FirstTurn]
  <2>1. AreTurns(g, s, 0)
    BY DEF AreTurns
  <2> QED
    BY <2>1
<1>2. ASSUME NEW n \in 0 .. m, n < m, n \in S
      PROVE  n + 1 \in S
  <2>1. PICK g : AreTurns(g, s, n)
    BY <1>2
  <2> DEFINE h == [k \in 0 .. n + 1 |-> IF k = n + 1 THEN TakeWord(s, g[n]) ELSE g[k]]
  <2>2. g[0] = FirstTurn /\ \A k \in 1 .. n : g[k] = TakeWord(s, g[k - 1])
    BY <2>1, TurnSteps
  <2>3. \A k \in 0 .. n + 1 : h[k] = IF k = 0 THEN FirstTurn ELSE TakeWord(s, h[k - 1])
    <3> SUFFICES ASSUME NEW k \in 0 .. n + 1
                 PROVE  h[k] = IF k = 0 THEN FirstTurn ELSE TakeWord(s, h[k - 1])
      OBVIOUS
    <3>1. k = n + 1 \/ k = 0 \/ k \in 1 .. n
      OBVIOUS
    <3>2. k # 0 => k - 1 \in 0 .. n + 1 /\ h[k - 1] = g[k - 1]
      OBVIOUS
    <3>3. 0 # n + 1 /\ (k \in 1 .. n => k # 0 /\ k # n + 1)
      OBVIOUS
    <3>4. CASE k = n + 1
      BY <3>2, <3>3, <3>4
    <3>5. CASE k = 0
      BY <2>2, <3>3, <3>5
    <3>6. CASE k \in 1 .. n
      BY <2>2, <3>2, <3>3, <3>6
    <3> QED
      BY <3>1, <3>4, <3>5, <3>6
  <2>4. AreTurns(h, s, n + 1)
    <3>1. h = [k \in 0 .. n + 1 |-> h[k]]
      BY Zenon
    <3> HIDE DEF h
    <3> QED
      BY <2>3, <3>1 DEF AreTurns
  <2> QED
    BY <2>4
<1> HIDE DEF S
<1>3. m \in S
  BY <1>1, <1>2, UpTo
<1> QED
  BY <1>3 DEF S

\* tokenize gives the first max_args - 1 words, or all of them.
LEMMA TokenizeGives ==
    ASSUME NEW s \in Seq(Letters), NEW a \in Nat \ {0}
    PROVE  \E t : Tokens(s, t, a - 1) /\ tokenize(s, a) = t.argv
<1> DEFINE m == a - 1
           g == CHOOSE g : AreTurns(g, s, m)
<1>1. m \in Nat
  OBVIOUS
<1>2. AreTurns(g, s, m)
  BY <1>1, TurnsExist, Zenon
<1>3. tokenize(s, a) = g[m].argv
  BY Zenon DEF tokenize, AreTurns, FirstTurn
<1> HIDE DEF g, m
<1>4. g[0] = FirstTurn /\ \A n \in 1 .. m : g[n] = TakeWord(s, g[n - 1])
  BY <1>1, <1>2, TurnSteps
<1> DEFINE S == {n \in Nat : Tokens(s, g[n], n)}
<1>5. 0 \in S
  <2>1. Len(s) \in Nat /\ 1 \in 1 .. Len(s) + 1
    OBVIOUS
  <2>2. Below(s, 1) = {}
    <3>1. \A j \in Starts(s) : ~(j < 1)
      BY <2>1 DEF Starts
    <3> QED
      BY <3>1 DEF Below
  <2>3. Cardinality(Below(s, 1)) = 0
    BY <2>2, FS_EmptySet
  <2>4. FirstTurn.p = 1 /\ FirstTurn.argv = <<>> /\ <<>> \in Seq(Seq(Letters)) /\ Len(<<>>) = 0
    BY DEF FirstTurn
  <2>5. Tokens(s, FirstTurn, 0)
    BY <2>1, <2>3, <2>4 DEF Tokens
  <2> QED
    BY <1>4, <2>5
<1>6. ASSUME NEW n \in 0 .. m, n < m, n \in S
      PROVE  n + 1 \in S
  <2>1. n + 1 \in 1 .. m /\ (n + 1) - 1 = n /\ n \in Nat /\ n + 1 \in Nat
    BY <1>1, <1>6
  <2>2. g[n + 1] = TakeWord(s, g[n])
    BY <1>4, <2>1
  <2>3. Tokens(s, g[n + 1], n + 1)
    BY <1>6, <2>1, <2>2, OneTokenMore
  <2> QED
    BY <2>1, <2>3
<1> HIDE DEF S
<1>9. \A n \in 0 .. m : n < m /\ n \in S => n + 1 \in S
  BY <1>6
<1>7. m \in S
  <2>1. m \in 0 .. m
    BY <1>1
  <2>2. \A n \in 0 .. m : n \in S
    BY <1>1, <1>5, <1>9, UpTo
  <2> QED
    BY <2>1, <2>2
<1>8. Tokens(s, g[m], m)
  BY <1>7 DEF S
<1> QED
  BY <1>3, <1>8 DEF m

\* The first word, if there is one, is that of the text.
LEMMA FirstToken ==
    ASSUME NEW s \in Seq(Letters), NEW a \in Nat \ {0, 1}
    PROVE  (tokenize(s, a) # <<>> /\ tokenize(s, a)[1] = Exit) <=> AsksToExit(s)
<1>1. PICK t : Tokens(s, t, a - 1) /\ tokenize(s, a) = t.argv
  BY TokenizeGives
<1> DEFINE m == Len(t.argv)
           C == Cardinality(Starts(s))
<1>2. /\ m \in Nat /\ C \in Nat /\ m <= C /\ t.argv \in Seq(Seq(Letters))
      /\ m < a - 1 => m = C
      /\ \A k \in 1 .. m : t.argv[k] = Words(s)[k]
  <2>1. Len(s) \in Nat
    OBVIOUS
  <2>2. Below(s, t.p) \in SUBSET Starts(s)
    BY DEF Below
  <2> QED
    BY <1>1, <2>1, <2>2, StartsFinite DEF Tokens
<1>3. t.argv # <<>> <=> m # 0
  BY <1>2
<1>4. Words(s) # <<>> <=> C # 0
  <2>1. DOMAIN Words(s) = 1 .. C
    BY DEF Words
  <2>2. C = 0 => Words(s) = <<>>
    <3>1. ASSUME C = 0 PROVE Words(s) = <<>>
      <4>1. 1 .. C = {}
        BY <3>1
      <4> QED
        BY <4>1 DEF Words
    <3> QED
      BY <3>1
  <2>3. C # 0 => 1 \in DOMAIN Words(s)
    BY <1>2, <2>1
  <2>4. 1 \notin DOMAIN <<>>
    OBVIOUS
  <2> QED
    BY <2>2, <2>3, <2>4
<1>5. m # 0 <=> C # 0
  BY <1>2
<1>6. m # 0 => t.argv[1] = Words(s)[1]
  BY <1>2
<1> QED
  BY <1>1, <1>3, <1>4, <1>5, <1>6 DEF AsksToExit

LEMMA TokensAreWords ==
    ASSUME NEW s \in Seq(Letters), NEW a \in Nat \ {0}
    PROVE  tokenize(s, a) = SubSeq(Words(s), 1, Min({Len(Words(s)), a - 1}))
<1>1. PICK t : Tokens(s, t, a - 1) /\ tokenize(s, a) = t.argv
  BY TokenizeGives
<1> DEFINE m == Len(t.argv)
           C == Cardinality(Starts(s))
           W == Words(s)
<1>2. /\ m \in Nat /\ C \in Nat /\ m <= C /\ m <= a - 1 /\ t.argv \in Seq(Seq(Letters))
      /\ m < a - 1 => m = C
      /\ \A k \in 1 .. m : t.argv[k] = W[k]
  <2>1. Len(s) \in Nat
    OBVIOUS
  <2>2. Below(s, t.p) \in SUBSET Starts(s)
    BY DEF Below
  <2> QED
    BY <1>1, <2>1, <2>2, StartsFinite DEF Tokens
<1>3. DOMAIN W = 1 .. C /\ Len(W) = C /\ W = [n \in 1 .. C |-> W[n]]
  <2>1. W = [n \in 1 .. C |-> W[n]]
    BY DEF Words
  <2> HIDE DEF W, C
  <2> QED
    BY <1>2, <2>1
<1> HIDE DEF m, C, W
<1>4. Min({C, a - 1}) = m
  <2>1. m \in {C, a - 1} /\ \A y \in {C, a - 1} : m <= y
    BY <1>2
  <2>2. \A x \in {C, a - 1} : (\A y \in {C, a - 1} : x <= y) => x = m
    BY <1>2, <2>1
  <2> QED
    BY <2>1, <2>2 DEF Min
<1>5. t.argv = [k \in 1 .. m |-> t.argv[k]] /\ m = Len(t.argv)
  BY <1>2 DEF m
<1>6. SubSeq(W, 1, m) = [k \in 1 .. m |-> W[k]]
  <2> DEFINE S == {W[k] : k \in 1 .. C}
  <2>1. \A k \in 1 .. C : W[k] \in S
    BY Zenon
  <2> HIDE DEF S
  <2>2. W \in Seq(S)
    BY <1>2, <1>3, <2>1
  <2>3. \A k \in 1 .. m : k \in 1 .. C
    BY <1>2
  <2>4. /\ SubSeq(W, 1, m) \in Seq(S) /\ Len(SubSeq(W, 1, m)) = m
        /\ \A k \in 1 .. m : SubSeq(W, 1, m)[k] = W[k]
    <3>1. 1 \in 1 .. Len(W) + 1 /\ m \in 1 - 1 .. Len(W) /\ m - 1 + 1 = m
      BY <1>2, <1>3
    <3>2. \A k \in 1 .. m : 1 + k - 1 = k
      BY <1>2
    <3> QED
      BY <2>2, <3>1, <3>2, SubSeqProperties
  <2>5. SubSeq(W, 1, m) = [k \in 1 .. m |-> SubSeq(W, 1, m)[k]]
    <3> DEFINE v == SubSeq(W, 1, m)
    <3> HIDE DEF v
    <3>1. v \in Seq(S) /\ Len(v) = m
      BY <2>4 DEF v
    <3>2. v = [k \in 1 .. m |-> v[k]]
      BY <3>1
    <3> QED
      BY <3>2 DEF v
  <2> QED
    BY <2>4, <2>5, Zenon
<1>7. t.argv = SubSeq(W, 1, m)
  BY <1>2, <1>5, <1>6
<1> QED
  BY <1>1, <1>3, <1>4, <1>7 DEF W

-----------------------------------------------------------------------------
(***************************************************************************)
(* The shell implements the editor of module LineEditor.                   *)
(***************************************************************************)

\* The text of a string.
LEMMA TextIs ==
    ASSUME NEW s \in Lines, NEW n, Ends(s, n)
    PROVE  /\ Text(s) = [i \in 1 .. n |-> s[i - 1]]
           /\ Text(s) \in Seq(Letters) /\ Len(Text(s)) = n
           /\ Text(s) = <<>> <=> n = 0
<1>1. n \in Nat /\ n <= LineMax - 1 /\ LineMax \in Nat
  BY ShellSizes DEF Ends
<1>2. Text(s) = [i \in 1 .. n |-> s[i - 1]]
  BY StrlenIs DEF Text
<1>3. \A i \in 1 .. n : s[i - 1] \in Letters
  <2>1. \A i \in 1 .. n : i - 1 \in Index /\ i - 1 \in 0 .. n - 1
    BY <1>1 DEF Index
  <2>2. \A j \in 0 .. n - 1 : s[j] # Nul
    BY DEF Ends
  <2>3. \A j \in Index : s[j] \in Letters \cup {Nul}
    BY DEF Lines, Chars
  <2> QED
    BY <2>1, <2>2, <2>3
<1>4. Text(s) \in Seq(Letters) /\ Len(Text(s)) = n
  BY <1>1, <1>2, <1>3
<1>5. Text(s) = <<>> <=> n = 0
  BY <1>4
<1> QED
  BY <1>2, <1>4, <1>5

\* The lines of the history, newest first.
Recent == [k \in 1 .. hist_count |-> Text(hist_get(k - 1))]

\* What the refinement needs beyond the line: the ring is in its bounds, the
\* user is in it or before it, and the shell leaves when it was asked to.
EditInv ==
    /\ ShellInv
    /\ hist_count \in 0 .. HistSize /\ hist_head \in 0 .. HistSize - 1
    /\ hist_nav \in -1 .. hist_count - 1
    /\ phase \in {"read", "exec"} => shell_should_exit = FALSE
    /\ phase = "ran" => shell_should_exit = AsksToExit(Text(line))

LEMMA PrimedText ==
    /\ Text(line)' = Text(line') /\ Text(saved_line)' = Text(saved_line')
    /\ Recent' = [k \in 1 .. hist_count' |->
                     Text(hist_buf'[(hist_head' + hist_count' - 1 - (k - 1)) % HistSize])]
  BY DEF Text, strlen, Index, Nul, Recent, hist_get

LEMMA RecentKept ==
    ASSUME UNCHANGED <<hist_buf, hist_count, hist_head>>
    PROVE  Recent' = Recent
  BY PrimedText DEF Recent, hist_get

\* The history as a sequence.
LEMMA RecentSeq ==
    ASSUME EditInv
    PROVE  /\ Recent \in Seq(Seq(Letters)) /\ Len(Recent) = hist_count
           /\ \A k \in 1 .. hist_count : Recent[k] = Text(hist_get(k - 1))
<1>1. hist_count \in Nat
  BY ShellSizes DEF EditInv
<1>2. ASSUME NEW k \in 1 .. hist_count PROVE Text(hist_get(k - 1)) \in Seq(Letters)
  <2>1. k - 1 \in Int
    BY <1>1
  <2>2. hist_get(k - 1) \in Lines /\ \E n \in Index : Ends(hist_get(k - 1), n)
    BY <2>1, HistIsString DEF EditInv
  <2> QED
    BY <2>2, TextIs
<1> QED
  BY <1>1, <1>2 DEF Recent

\* hist_add: the line comes first, the others move on, the oldest of a full
\* ring goes.
LEMMA HistAdded ==
    ASSUME EditInv, hist_add(line)
    PROVE  /\ hist_count' \in 0 .. HistSize /\ hist_head' \in 0 .. HistSize - 1
           /\ hist_count <= hist_count'
           /\ Recent' = <<Text(line)>> \o SubSeq(Recent, 1, Min({Len(Recent), HistSize - 1}))
<1> DEFINE c == hist_count
           h == hist_head
           H == HistSize
           idx == (h + c) % H
           m == IF c < H THEN c ELSE H - 1
<1>1. H \in Nat \ {0} /\ c \in 0 .. H /\ h \in 0 .. H - 1 /\ c \in Nat
  BY ShellSizes DEF EditInv
<1>2. /\ hist_buf' = [hist_buf EXCEPT ![idx] = CopyLine(hist_buf[idx], line)]
      /\ IF c < H THEN hist_count' = c + 1 /\ hist_head' = h
         ELSE hist_head' = (h + 1) % H /\ hist_count' = c
  BY DEF hist_add
<1>3. idx \in 0 .. H - 1
  BY <1>1, OneTurn
<1>4. DOMAIN hist_buf = 0 .. H - 1 /\ \A k \in 0 .. H - 1 : IsString(hist_buf[k])
  BY DEF EditInv, ShellInv
<1>5. Text(CopyLine(hist_buf[idx], line)) = Text(line)
  BY <1>3, <1>4, CopyIsString DEF EditInv, ShellInv, IsString
<1> HIDE DEF c, h, H, idx
<1>6. /\ hist_count' = m + 1 /\ m \in Nat /\ m <= c /\ m < H
      /\ hist_head' \in 0 .. H - 1 /\ hist_count' \in 0 .. H /\ c <= hist_count'
  <2>1. CASE c < H
    BY <1>1, <1>2, <2>1
  <2>2. CASE ~(c < H)
    <3>1. (h + 1) % H \in 0 .. H - 1
      BY <1>1, OneTurn
    <3> QED
      BY <1>1, <1>2, <2>2, <3>1
  <2> QED
    BY <2>1, <2>2
<1>7. ASSUME NEW k \in 1 .. m + 1
      PROVE  (hist_head' + hist_count' - 1 - (k - 1)) % H = (h + c - (k - 1)) % H
  <2>1. CASE c < H
    <3>1. hist_head' + hist_count' - 1 - (k - 1) = h + c - (k - 1)
      BY <1>1, <1>2, <2>1
    <3> QED
      BY <3>1
  <2>2. CASE ~(c < H)
    <3> DEFINE a == (h + 1) % H
               b == h + c - (k - 1)
    <3>1. c = H /\ hist_head' = a /\ hist_count' = H
      BY <1>1, <1>2, <2>2
    <3>2. a = h + 1 \/ a = h + 1 - H
      <4>1. 1 \in 0 .. H
        BY <1>1
      <4> QED
        BY <1>1, <4>1, WrapsOnce
    <3>3. b \in Int /\ a \in Int
      BY <1>1, <1>6, <3>1, <3>2
    <3>4. a = h + 1 => a + H - 1 - (k - 1) = b
      BY <1>1, <1>6, <3>1
    <3>5. a = h + 1 - H => (a + H - 1 - (k - 1)) + H = b /\ a + H - 1 - (k - 1) \in Int
      BY <1>1, <1>6, <3>1
    <3>6. H \in Nat /\ H % H = 0
      BY <1>1, OneTurn
    <3> HIDE DEF a, b
    <3>7. (a + H - 1 - (k - 1)) % H = b % H
      BY <1>1, <3>2, <3>4, <3>5, <3>6, WholeTurns, ZenonT(60)
    <3> QED
      BY <3>1, <3>7 DEF b
  <2> QED
    BY <2>1, <2>2
<1> DEFINE new(k) == Text(hist_buf'[(hist_head' + hist_count' - 1 - (k - 1)) % H])
<1>8. new(1) = Text(line)
  <2>1. 1 \in 1 .. m + 1 /\ h + c - (1 - 1) = h + c
    BY <1>1, <1>6
  <2>2. (hist_head' + hist_count' - 1 - (1 - 1)) % H = idx
    BY <1>7, <2>1 DEF idx
  <2>3. hist_buf'[idx] = CopyLine(hist_buf[idx], line)
    BY <1>2, <1>3, <1>4
  <2> QED
    BY <1>5, <2>2, <2>3
<1>9. ASSUME NEW k \in 2 .. m + 1
      PROVE  new(k) = Recent[k - 1]
  <2> DEFINE j == h + c - (k - 1)
  <2>1. /\ k \in 1 .. m + 1 /\ j \in Int /\ h + c \in Int /\ k - 1 \in 1 .. c
        /\ h + c - 1 - ((k - 1) - 1) = j
        /\ j # h + c /\ (h + c) - j < H /\ j - (h + c) < H
    BY <1>1, <1>6
  <2>2. j % H \in 0 .. H - 1 /\ j % H # idx
    <3>1. j % H \in 0 .. H - 1
      BY <1>1, <2>1, OneTurn
    <3>2. ASSUME j % H = (h + c) % H PROVE FALSE
      <4> HIDE DEF j
      <4> QED
        BY <1>1, <2>1, <3>2, SamePlace
    <3> QED
      BY <3>1, <3>2 DEF idx
  <2>3. (hist_head' + hist_count' - 1 - (k - 1)) % H = j % H
    BY <1>7, <2>1
  <2>4. Recent[k - 1] = Text(hist_buf[j % H])
    <3>1. Recent[k - 1] = Text(hist_get((k - 1) - 1))
      BY <2>1, RecentSeq DEF c
    <3>2. hist_get((k - 1) - 1) = hist_buf[(h + c - 1 - ((k - 1) - 1)) % H]
      BY DEF hist_get, h, c, H
    <3> QED
      BY <2>1, <3>1, <3>2
  <2> HIDE DEF j
  <2>5. hist_buf'[j % H] = hist_buf[j % H]
    BY <1>2, <1>4, <2>2
  <2> QED
    BY <2>3, <2>4, <2>5
<1>10. Recent' = [k \in 1 .. m + 1 |-> new(k)]
  BY <1>6, PrimedText, Zenon DEF H
<1> DEFINE s == SubSeq(Recent, 1, m)
<1>11. /\ Recent \in Seq(Seq(Letters)) /\ Len(Recent) = c
  BY RecentSeq DEF c
<1>12. Min({Len(Recent), H - 1}) = m
  <2>1. m \in {c, H - 1} /\ \A y \in {c, H - 1} : m <= y
    BY <1>1
  <2>2. \A x \in {c, H - 1} : (\A y \in {c, H - 1} : x <= y) => x = m
    BY <1>1, <1>6, <2>1
  <2> QED
    BY <1>11, <2>1, <2>2 DEF Min
<1>13. s \in Seq(Seq(Letters)) /\ Len(s) = m /\ \A k \in 1 .. m : s[k] = Recent[k]
  <2>1. \A k \in 1 .. m : k \in 1 .. c /\ 1 + k - 1 = k
    BY <1>1, <1>6
  <2>2. \A k \in 1 .. m : Recent[k] \in Seq(Letters)
    BY <1>11, <2>1
  <2> HIDE DEF m
  <2>3. 1 <= m \/ m = 0
    BY <1>6
  <2> QED
    BY <1>6, <2>1, <2>2, <2>3, SubSeqProperties
<1> HIDE DEF m, s, new
<1>14. Text(line) \in Seq(Letters)
  BY TextIs DEF EditInv, ShellInv
<1> DEFINE t == Text(line)
           u == <<t>> \o s
<1>15. u = [k \in 1 .. m + 1 |-> new(k)]
  <2> HIDE DEF t
  <2>1. <<t>> \in Seq(Seq(Letters)) /\ Len(<<t>>) = 1 /\ <<t>>[1] = t
    BY <1>14 DEF t
  <2>2. u \in Seq(Seq(Letters)) /\ Len(u) = m + 1
    BY <1>6, <1>13, <2>1
  <2>3. \A k \in 1 .. m + 1 : u[k] = IF k = 1 THEN t ELSE s[k - 1]
    BY <1>6, <1>13, <2>1
  <2> HIDE DEF u
  <2>4. \A k \in 1 .. m + 1 : u[k] = new(k)
    <3>1. \A k \in 1 .. m + 1 : k # 1 => k \in 2 .. m + 1 /\ k - 1 \in 1 .. m
      BY <1>6
    <3> QED
      BY <1>8, <1>9, <1>13, <2>3, <3>1 DEF t
  <2>5. u = [k \in 1 .. m + 1 |-> u[k]]
    BY <2>2
  <2> QED
    BY <2>4, <2>5
<1> QED
  BY <1>6, <1>10, <1>12, <1>15 DEF H, c, s, t, u

\* A line that is copied or edited, and its text.
LEMMA TextEdited ==
    ASSUME NEW l \in Lines, NEW n, Ends(l, n), NEW d \in Lines
    PROVE  /\ Ends(d, 0) => Text(d) = <<>>
           /\ (n > 0 /\ Ends(d, n - 1) /\ \A i \in 0 .. n - 2 : d[i] = l[i])
                 => Text(d) = Front(Text(l))
           /\ \A c \in Letters :
                 (Ends(d, n + 1) /\ d[n] = c /\ \A i \in 0 .. n - 1 : d[i] = l[i])
                    => Text(d) = Append(Text(l), c)
<1>1. n \in Nat /\ Text(l) = [i \in 1 .. n |-> l[i - 1]] /\ Text(l) \in Seq(Letters)
      /\ Len(Text(l)) = n
  BY TextIs, ShellSizes DEF Ends
<1>2. ASSUME Ends(d, 0) PROVE Text(d) = <<>>
  BY <1>2, TextIs
<1>3. ASSUME n > 0, Ends(d, n - 1), \A i \in 0 .. n - 2 : d[i] = l[i]
      PROVE  Text(d) = Front(Text(l))
  <2>1. Text(d) = [i \in 1 .. n - 1 |-> d[i - 1]]
    BY <1>3, TextIs
  <2>2. \A i \in 1 .. n - 1 : i - 1 \in 0 .. n - 2 /\ i \in 1 .. n
    BY <1>1
  <2>3. Front(Text(l)) = SubSeq(Text(l), 1, n - 1)
    BY <1>1 DEF Front
  <2> DEFINE t == Text(l)
  <2> HIDE DEF t
  <2>4. /\ SubSeq(t, 1, n - 1) \in Seq(Letters) /\ Len(SubSeq(t, 1, n - 1)) = n - 1
        /\ \A i \in 1 .. n - 1 : SubSeq(t, 1, n - 1)[i] = t[i]
    BY <1>1, <1>3, <2>2 DEF t
  <2>5. SubSeq(t, 1, n - 1) = [i \in 1 .. n - 1 |-> t[i]]
    BY <1>1, <1>3, <2>4
  <2>6. \A i \in 1 .. n - 1 : t[i] = d[i - 1]
    BY <1>1, <1>3, <2>2 DEF t
  <2> QED
    BY <2>1, <2>3, <2>5, <2>6 DEF t
<1>4. ASSUME NEW c \in Letters, Ends(d, n + 1), d[n] = c, \A i \in 0 .. n - 1 : d[i] = l[i]
      PROVE  Text(d) = Append(Text(l), c)
  <2>1. Text(d) = [i \in 1 .. n + 1 |-> d[i - 1]]
    BY <1>4, TextIs
  <2> DEFINE t == Text(l)
             a == Append(t, c)
  <2> HIDE DEF t
  <2>2. t \in Seq(Letters) /\ Len(t) = n /\ \A i \in 1 .. n : t[i] = l[i - 1]
    BY <1>1 DEF t
  <2>3. a \in Seq(Letters) /\ Len(a) = n + 1 /\ a[n + 1] = c /\ \A i \in 1 .. n : a[i] = t[i]
    BY <2>2
  <2> HIDE DEF a
  <2>4. \A i \in 1 .. n + 1 :
           \/ i = n + 1 /\ i - 1 = n
           \/ i \in 1 .. n /\ i - 1 \in 0 .. n - 1
    BY <1>1
  <2>5. \A i \in 1 .. n + 1 : a[i] = d[i - 1]
    BY <1>4, <2>2, <2>3, <2>4
  <2>6. a = [i \in 1 .. n + 1 |-> a[i]]
    BY <1>1, <2>3
  <2>7. a = Text(d)
    BY <2>1, <2>5, <2>6
  <2> QED
    BY <2>7 DEF a, t
<1> QED
  BY <1>2, <1>3, <1>4

\* Each key is a step of the editor.
LEMMA UpIsOlder ==
    ASSUME EditInv, key_up
    PROVE  Editor!Older
<1>1. /\ phase = "read" /\ UNCHANGED <<phase, hist_buf, hist_count, hist_head>>
      /\ hist_nav + 1 < hist_count /\ hist_nav' = hist_nav + 1
      /\ saved_line' = IF hist_nav < 0 THEN strncpy(saved_line, line, LineMax - 1)
                       ELSE saved_line
      /\ line' = CopyLine(line, hist_get(hist_nav + 1))
  BY Zenon DEF key_up, Reading
<1>2. /\ hist_count \in Nat /\ hist_nav \in -1 .. hist_count - 1
      /\ line \in Lines /\ Ends(line, pos) /\ IsString(saved_line)
      /\ saved_line[LineMax - 1] = Nul
  BY ShellSizes DEF EditInv, ShellInv
<1>3. hist_nav + 1 \in Int /\ (hist_nav + 1) + 1 \in 1 .. hist_count
      /\ ((hist_nav + 1) + 1) - 1 = hist_nav + 1
  BY <1>1, <1>2
<1>4. Text(line') = Recent[(hist_nav + 1) + 1]
  <2>1. PICK n \in Index : hist_get(hist_nav + 1) \in Lines /\ Ends(hist_get(hist_nav + 1), n)
    BY <1>3, HistIsString DEF EditInv
  <2>2. Text(line') = Text(hist_get(hist_nav + 1))
    BY <1>1, <1>2, <2>1, CopyIsString
  <2>3. Recent[(hist_nav + 1) + 1] = Text(hist_get(((hist_nav + 1) + 1) - 1))
    BY <1>3, RecentSeq
  <2> QED
    BY <1>3, <2>2, <2>3
<1>5. Text(saved_line') = IF hist_nav + 1 = 0 THEN Text(line) ELSE Text(saved_line)
  <2>1. hist_nav < 0 <=> hist_nav + 1 = 0
    BY <1>2
  <2>2. Text(strncpy(saved_line, line, LineMax - 1)) = Text(line)
    BY <1>2, CopyIsString DEF IsString
  <2> QED
    BY <1>1, <2>1, <2>2
<1>6. Recent' = Recent /\ Len(Recent) = hist_count
  BY <1>1, RecentKept, RecentSeq
<1>7. hist_nav + 1 < Len(Recent) /\ (hist_nav + 1)' = (hist_nav + 1) + 1
  BY <1>1, <1>6
<1> QED
  BY <1>1, <1>4, <1>5, <1>6, <1>7, PrimedText, Zenon DEF Editor!Older, Recent

LEMMA DownIsNewer ==
    ASSUME EditInv, key_down
    PROVE  Editor!Newer
<1>1. /\ phase = "read" /\ UNCHANGED <<phase, hist_buf, hist_count, hist_head, saved_line>>
      /\ hist_nav >= 0 /\ hist_nav' = hist_nav - 1
      /\ line' = IF hist_nav > 0 THEN CopyLine(line, hist_get(hist_nav - 1))
                 ELSE strncpy(line, saved_line, LineMax - 1)
  BY Zenon DEF key_down, Reading
<1>2. /\ hist_count \in Nat /\ hist_nav \in -1 .. hist_count - 1
      /\ line \in Lines /\ Ends(line, pos) /\ IsString(saved_line)
      /\ line[LineMax - 1] = Nul
  BY ShellSizes DEF EditInv, ShellInv
<1>3. Text(line') = IF hist_nav + 1 = 1 THEN Text(saved_line) ELSE Recent[(hist_nav + 1) - 1]
  <2>1. CASE hist_nav > 0
    <3>1. /\ hist_nav - 1 \in Int /\ (hist_nav + 1) - 1 \in 1 .. hist_count
          /\ ((hist_nav + 1) - 1) - 1 = hist_nav - 1 /\ hist_nav + 1 # 1
      BY <1>2, <2>1
    <3>2. PICK n \in Index : hist_get(hist_nav - 1) \in Lines /\ Ends(hist_get(hist_nav - 1), n)
      BY <3>1, HistIsString DEF EditInv
    <3>3. Text(CopyLine(line, hist_get(hist_nav - 1))) = Text(hist_get(hist_nav - 1))
      BY <1>2, <3>2, CopyIsString
    <3>4. Recent[(hist_nav + 1) - 1] = Text(hist_get(((hist_nav + 1) - 1) - 1))
      BY <3>1, RecentSeq
    <3> QED
      BY <1>1, <2>1, <3>1, <3>3, <3>4
  <2>2. CASE ~(hist_nav > 0)
    <3>1. hist_nav + 1 = 1
      BY <1>1, <1>2, <2>2
    <3>2. Text(strncpy(line, saved_line, LineMax - 1)) = Text(saved_line)
      BY <1>2, CopyIsString DEF IsString
    <3> QED
      BY <1>1, <2>2, <3>1, <3>2
  <2> QED
    BY <2>1, <2>2
<1>4. Recent' = Recent
  BY <1>1, RecentKept
<1>5. hist_nav + 1 > 0 /\ (hist_nav + 1)' = (hist_nav + 1) - 1
  BY <1>1, <1>2
<1>6. Text(saved_line') = Text(saved_line)
  BY <1>1
<1> QED
  BY <1>1, <1>3, <1>4, <1>5, <1>6, PrimedText, Zenon DEF Editor!Newer, Recent

LEMMA EnterIsEnter ==
    ASSUME EditInv, key_enter
    PROVE  Editor!Enter /\ line' = line
<1>1. /\ phase = "read" /\ phase' = "exec" /\ line' = [line EXCEPT ![pos] = Nul]
      /\ UNCHANGED <<hist_buf, hist_count, hist_head, saved_line, hist_nav>>
  BY Zenon DEF key_enter
<1>2. line \in Lines /\ pos \in Index /\ line[pos] = Nul
  BY DEF EditInv, ShellInv, Ends
<1>3. line' = line
  BY <1>1, <1>2 DEF Lines
<1>4. Recent' = Recent
  BY <1>1, RecentKept
<1>5. (hist_nav + 1)' = hist_nav + 1 /\ Text(saved_line') = Text(saved_line)
      /\ Text(line') = Text(line)
  BY <1>1, <1>3
<1> QED
  BY <1>1, <1>3, <1>4, <1>5, PrimedText, Zenon DEF Editor!Enter, Recent

LEMMA BackspaceIsRub ==
    ASSUME EditInv, key_backspace
    PROVE  Editor!Rub
<1>1. /\ phase = "read" /\ UNCHANGED <<phase, hist_buf, hist_count, hist_head, saved_line, hist_nav>>
      /\ pos > 0 /\ pos' = pos - 1 /\ line' = [line EXCEPT ![pos'] = Nul]
  BY Zenon DEF key_backspace, Reading
<1>2. /\ line \in Lines /\ Ends(line, pos) /\ pos \in Index /\ pos \in Nat /\ pos <= LineMax - 1
      /\ LineMax \in Nat /\ \A i \in 0 .. pos - 1 : line[i] # Nul
  BY ShellSizes DEF EditInv, ShellInv, Ends
<1>3. pos - 1 \in Index /\ \A i \in 0 .. pos - 2 : i \in Index /\ i # pos - 1 /\ i \in 0 .. pos - 1
  BY <1>1, <1>2 DEF Index
<1>4. /\ line' \in Lines /\ line'[pos - 1] = Nul
      /\ \A i \in 0 .. pos - 2 : line'[i] = line[i]
  <2>1. line' = [line EXCEPT ![pos - 1] = Nul] /\ Nul \in Chars
    BY <1>1 DEF Chars
  <2> QED
    BY <1>2, <1>3, <2>1 DEF Lines
<1>5. Ends(line', pos - 1)
  <2>1. (pos - 1) - 1 = pos - 2
    BY <1>2
  <2> QED
    BY <1>2, <1>3, <1>4, <2>1 DEF Ends
<1>6. Text(line') = Front(Text(line)) /\ Text(line) # <<>>
  <2>1. Text(line) # <<>>
    BY <1>1, <1>2, TextIs
  <2>2. Text(line') = Front(Text(line))
    BY <1>1, <1>2, <1>4, <1>5, TextEdited
  <2> QED
    BY <2>1, <2>2
<1>7. Recent' = Recent
  BY <1>1, RecentKept
<1>8. (hist_nav + 1)' = hist_nav + 1 /\ Text(saved_line') = Text(saved_line)
  BY <1>1
<1> QED
  BY <1>1, <1>6, <1>7, <1>8, PrimedText, Zenon DEF Editor!Rub, Editor!Front, Front, Recent

LEMMA EscapeIsDiscard ==
    ASSUME EditInv, key_escape
    PROVE  Editor!Discard
<1>1. /\ phase = "read" /\ UNCHANGED <<phase, hist_buf, hist_count, hist_head, saved_line>>
      /\ hist_nav' = -1 /\ line' = [line EXCEPT ![0] = Nul]
  BY Zenon DEF key_escape, Reading
<1>2. line \in Lines /\ Ends(line, pos) /\ 0 \in Index
  BY ShellSizes DEF EditInv, ShellInv
<1>3. line' \in Lines /\ line'[0] = Nul
  <2>1. Nul \in Chars
    BY DEF Chars
  <2> QED
    BY <1>1, <1>2, <2>1 DEF Lines
<1>4. Ends(line', 0)
  BY <1>2, <1>3 DEF Ends
<1>5. Text(line') = <<>>
  BY <1>2, <1>3, <1>4, TextEdited
<1>6. Recent' = Recent
  BY <1>1, RecentKept
<1>7. (hist_nav + 1)' = 0 /\ Text(saved_line') = Text(saved_line)
  BY <1>1
<1> QED
  BY <1>1, <1>5, <1>6, <1>7, PrimedText, Zenon DEF Editor!Discard, Recent

LEMMA CharIsType ==
    ASSUME EditInv, NEW c \in Letters, key_char(c)
    PROVE  Editor!Type
<1>1. /\ phase = "read" /\ UNCHANGED <<phase, hist_buf, hist_count, hist_head, saved_line, hist_nav>>
      /\ pos < LineMax - 1 /\ line' = [line EXCEPT ![pos] = c, ![pos + 1] = Nul]
  BY Zenon DEF key_char, Reading
<1>2. /\ line \in Lines /\ Ends(line, pos) /\ pos \in Index /\ pos \in Nat
      /\ LineMax \in Nat /\ \A i \in 0 .. pos - 1 : line[i] # Nul
  BY ShellSizes DEF EditInv, ShellInv, Ends
<1>3. /\ pos + 1 \in Index /\ pos # pos + 1
      /\ \A i \in 0 .. pos - 1 : i \in Index /\ i # pos /\ i # pos + 1
      /\ \A i \in 0 .. (pos + 1) - 1 : i = pos \/ i \in 0 .. pos - 1
  BY <1>1, <1>2 DEF Index
<1>4. /\ line' \in Lines /\ line'[pos] = c /\ line'[pos + 1] = Nul
      /\ \A i \in 0 .. pos - 1 : line'[i] = line[i]
  <2>1. Nul \in Chars /\ c \in Chars
    BY DEF Chars
  <2> QED
    BY <1>1, <1>2, <1>3, <2>1 DEF Lines
<1>5. Ends(line', pos + 1)
  <2>1. c # Nul
    BY ShellSizes
  <2> QED
    BY <1>2, <1>3, <1>4, <2>1 DEF Ends
<1>6. Text(line') = Append(Text(line), c) /\ Len(Text(line)) = pos
  BY <1>2, <1>4, <1>5, TextIs, TextEdited
<1>7. Recent' = Recent
  BY <1>1, RecentKept
<1>8. (hist_nav + 1)' = hist_nav + 1 /\ Text(saved_line') = Text(saved_line)
  BY <1>1
<1> QED
  BY <1>1, <1>6, <1>7, <1>8, PrimedText, Zenon DEF Editor!Type, Recent

\* Running a line, and whether the shell was asked to leave.
LEMMA ExecLine ==
    ASSUME EditInv, phase = "exec", shell_exec_line(line)
    PROVE  shell_should_exit' = AsksToExit(Text(line))
<1> DEFINE s == Text(CopyLine(Zeros, line))
           argv == tokenize(s, MaxArgs)
<1>1. shell_should_exit' = (shell_should_exit \/ (argv # <<>> /\ argv[1] = Exit))
  BY Zenon DEF shell_exec_line
<1>2. shell_should_exit = FALSE
  BY DEF EditInv
<1>3. s = Text(line) /\ s \in Seq(Letters)
  <2>1. line \in Lines /\ Ends(line, pos) /\ Zeros \in Lines
    BY ZerosString DEF EditInv, ShellInv
  <2> QED
    BY <2>1, CopyIsString, TextIs
<1>4. MaxArgs \in Nat \ {0, 1}
  BY ShellAssumption
<1> HIDE DEF s
<1>5. (argv # <<>> /\ argv[1] = Exit) <=> AsksToExit(s)
  BY <1>3, <1>4, FirstToken
<1>6. AsksToExit(s) \in BOOLEAN
  BY DEF AsksToExit
<1> QED
  BY <1>1, <1>2, <1>3, <1>5, <1>6, Zenon

\* An empty line asks for nothing.
LEMMA NothingAsked == AsksToExit(<<>>) = FALSE
<1>1. Starts(<<>>) = {}
  BY DEF Starts
<1>2. Cardinality({}) = 0
  BY FS_EmptySet
<1>3. Words(<<>>) = <<>>
  <2>1. 1 .. 0 = {}
    OBVIOUS
  <2> QED
    BY <1>1, <1>2, <2>1 DEF Words
<1> QED
  BY <1>3 DEF AsksToExit

LEMMA RunIsRun ==
    ASSUME EditInv, run_line
    PROVE  /\ Editor!Run
           /\ hist_count' \in 0 .. HistSize /\ hist_head' \in 0 .. HistSize - 1
           /\ hist_count <= hist_count' /\ shell_should_exit' = AsksToExit(Text(line))
<1>1. /\ phase = "exec" /\ phase' = "ran" /\ UNCHANGED <<line, saved_line, hist_nav>>
      /\ IF pos > 0 THEN hist_add(line) /\ shell_exec_line(line)
         ELSE UNCHANGED <<hist_buf, hist_count, hist_head, shell_should_exit>>
  BY Zenon DEF run_line
<1>2. line \in Lines /\ Ends(line, pos) /\ pos \in Nat
  BY ShellSizes DEF EditInv, ShellInv, Ends
<1>3. Text(line) = <<>> <=> ~(pos > 0)
  BY <1>2, TextIs
<1>4. /\ hist_count' \in 0 .. HistSize /\ hist_head' \in 0 .. HistSize - 1
      /\ hist_count <= hist_count' /\ shell_should_exit' = AsksToExit(Text(line))
      /\ Recent' = IF Text(line) = <<>> THEN Recent
                   ELSE <<Text(line)>>
                        \o SubSeq(Recent, 1, Min({Len(Recent), HistSize - 1}))
  <2>1. CASE pos > 0
    <3>1. hist_add(line) /\ shell_exec_line(line) /\ Text(line) # <<>>
      BY <1>1, <1>3, <2>1, Zenon
    <3>2. shell_should_exit' = AsksToExit(Text(line))
      BY <1>1, <3>1, ExecLine
    <3> QED
      BY <3>1, <3>2, HistAdded
  <2>2. CASE ~(pos > 0)
    <3>1. UNCHANGED <<hist_buf, hist_count, hist_head>> /\ shell_should_exit' = shell_should_exit
          /\ Text(line) = <<>>
      BY <1>1, <1>3, <2>2, Zenon
    <3>2. Recent' = Recent
      BY <3>1, RecentKept
    <3>3. shell_should_exit' = FALSE
      BY <1>1, <3>1 DEF EditInv
    <3>4. /\ hist_count' \in 0 .. HistSize /\ hist_head' \in 0 .. HistSize - 1
          /\ hist_count <= hist_count'
      BY <3>1, ShellSizes DEF EditInv
    <3> QED
      BY <3>1, <3>2, <3>3, <3>4, NothingAsked
  <2> QED
    BY <2>1, <2>2
<1>5. (hist_nav + 1)' = hist_nav + 1 /\ Text(saved_line') = Text(saved_line)
      /\ Text(line') = Text(line)
  BY <1>1
<1>6. Editor!Run
  BY <1>1, <1>4, <1>5, PrimedText, Zenon DEF Editor!Run, Editor!Min, Min, Recent
<1> QED
  BY <1>4, <1>6

LEMMA PromptIsPrompt ==
    ASSUME EditInv, next_prompt
    PROVE  Editor!Prompt
<1>1. /\ phase = "ran" /\ phase' = IF shell_should_exit THEN "done" ELSE "read"
      /\ hist_nav' = -1 /\ line' = Zeros /\ saved_line' = Zeros
      /\ UNCHANGED <<hist_buf, hist_count, hist_head>>
  BY Zenon DEF next_prompt
<1>2. shell_should_exit = AsksToExit(Text(line))
  BY <1>1 DEF EditInv
<1>3. Text(Zeros) = <<>>
  BY ZerosString, TextIs
<1>4. Recent' = Recent
  BY <1>1, RecentKept
<1>5. (hist_nav + 1)' = 0
  BY <1>1
<1> QED
  BY <1>1, <1>2, <1>3, <1>4, <1>5, PrimedText, Zenon DEF Editor!Prompt, Recent

LEMMA EditStep == EditInv /\ [ShellNext]_shellVars => EditInv' /\ [Editor!Next]_Editor!lvars
<1> SUFFICES ASSUME EditInv, [ShellNext]_shellVars
             PROVE  EditInv' /\ [Editor!Next]_Editor!lvars
  OBVIOUS
<1>1. ShellInv'
  BY ShellStep DEF EditInv
<1>2. /\ hist_count \in 0 .. HistSize /\ hist_head \in 0 .. HistSize - 1
      /\ hist_nav \in -1 .. hist_count - 1 /\ HistSize \in Nat
      /\ phase \in {"read", "exec"} => shell_should_exit = FALSE
      /\ phase = "ran" => shell_should_exit = AsksToExit(Text(line))
  BY ShellSizes DEF EditInv
<1>3. AsksToExit(Text(line))' = AsksToExit(Text(line'))
  BY PrimedText DEF AsksToExit, Words, WordAt, Starts, SpaceChar
<1>4. ASSUME NEW ev \in Events, handle_key(ev)
      PROVE  EditInv' /\ Editor!Next
  <2>1. /\ phase = "read" /\ phase' \in {"read", "exec"}
        /\ UNCHANGED <<hist_count, hist_head, shell_should_exit>>
    BY <1>4 DEF handle_key, key_up, key_down, key_enter, key_backspace, key_escape, key_char,
                Reading
  <2>2. ASSUME hist_nav' \in -1 .. hist_count - 1 PROVE EditInv'
    BY <1>1, <1>2, <2>1, <2>2 DEF EditInv
  <2>3. CASE key_up
    <3>1. hist_nav' \in -1 .. hist_count - 1
      BY <1>2, <2>3 DEF key_up
    <3> QED
      BY <2>2, <2>3, <3>1, UpIsOlder, Zenon DEF Editor!Next
  <2>4. CASE key_down
    <3>1. hist_nav' \in -1 .. hist_count - 1
      BY <1>2, <2>4 DEF key_down
    <3> QED
      BY <2>2, <2>4, <3>1, DownIsNewer, Zenon DEF Editor!Next
  <2>5. CASE key_enter
    <3>1. hist_nav' \in -1 .. hist_count - 1
      BY <1>2, <2>5 DEF key_enter
    <3> QED
      BY <2>2, <2>5, <3>1, EnterIsEnter, Zenon DEF Editor!Next
  <2>6. CASE key_backspace
    <3>1. hist_nav' \in -1 .. hist_count - 1
      BY <1>2, <2>6 DEF key_backspace
    <3> QED
      BY <2>2, <2>6, <3>1, BackspaceIsRub, Zenon DEF Editor!Next
  <2>7. CASE key_escape
    <3>1. hist_nav' \in -1 .. hist_count - 1
      BY <1>2, <2>7 DEF key_escape
    <3> QED
      BY <2>2, <2>7, <3>1, EscapeIsDiscard, Zenon DEF Editor!Next
  <2>8. CASE ev.ascii \in Letters /\ key_char(ev.ascii)
    <3>1. hist_nav' \in -1 .. hist_count - 1
      BY <1>2, <2>8 DEF key_char
    <3> QED
      BY <2>2, <2>8, <3>1, CharIsType, Zenon DEF Editor!Next
  <2> QED
    BY <1>4, <2>3, <2>4, <2>5, <2>6, <2>7, <2>8, Zenon DEF handle_key
<1>5. CASE run_line
  <2>1. /\ Editor!Run
        /\ hist_count' \in 0 .. HistSize /\ hist_head' \in 0 .. HistSize - 1
        /\ hist_count <= hist_count' /\ shell_should_exit' = AsksToExit(Text(line))
    BY <1>5, RunIsRun
  <2>2. phase' = "ran" /\ line' = line /\ hist_nav' = hist_nav
    BY <1>5, Zenon DEF run_line
  <2>3. hist_nav' \in -1 .. hist_count' - 1
    <3> DEFINE a == hist_nav
               c == hist_count
               d == hist_count'
    <3>1. a \in -1 .. c - 1 /\ c \in 0 .. HistSize /\ HistSize \in Nat
      BY <1>2
    <3>2. d \in 0 .. HistSize /\ c <= d
      BY <2>1
    <3>3. hist_nav' = a
      BY <2>2
    <3> HIDE DEF a, c, d
    <3>4. a \in -1 .. d - 1
      BY <3>1, <3>2
    <3> QED
      BY <3>3, <3>4 DEF d
  <2>4. shell_should_exit' = AsksToExit(Text(line))'
    BY <1>3, <2>1, <2>2
  <2>5. EditInv'
    BY <1>1, <2>1, <2>2, <2>3, <2>4 DEF EditInv
  <2> QED
    BY <2>1, <2>5, Zenon DEF Editor!Next
<1>6. CASE next_prompt
  <2>1. /\ phase = "ran" /\ phase' = IF shell_should_exit THEN "done" ELSE "read"
        /\ hist_nav' = -1 /\ UNCHANGED <<hist_count, hist_head, shell_should_exit>>
    BY <1>6, Zenon DEF next_prompt
  <2>2. hist_nav' \in -1 .. hist_count' - 1
    BY <1>2, <2>1
  <2>3. phase' = "read" => shell_should_exit' = FALSE
    <3>1. shell_should_exit \in BOOLEAN
      BY <1>2, <2>1 DEF AsksToExit
    <3> QED
      BY <2>1, <3>1
  <2>4. EditInv'
    <3>1. phase' = "read" \/ phase' = "done"
      BY <2>1
    <3> QED
      BY <1>1, <1>2, <2>1, <2>2, <2>3, <3>1 DEF EditInv
  <2> QED
    BY <1>6, <2>4, PromptIsPrompt, Zenon DEF Editor!Next
<1>7. CASE heroshell_main \/ UNCHANGED shellVars
  <2>1. UNCHANGED shellVars
    BY <1>7 DEF heroshell_main
  <2>2. UNCHANGED <<line, saved_line, hist_nav, hist_buf, hist_count, hist_head,
                    shell_should_exit, phase>>
    BY <2>1 DEF shellVars
  <2>3. Recent' = Recent
    BY <2>2, RecentKept
  <2>4. UNCHANGED Editor!lvars
    BY <2>2, <2>3, PrimedText DEF Editor!lvars, Recent
  <2>5. EditInv'
    BY <1>1, <1>2, <1>3, <2>2 DEF EditInv
  <2> QED
    BY <2>4, <2>5
<1> QED
  BY <1>4, <1>5, <1>6, <1>7, Zenon DEF ShellNext

LEMMA EditInitInv == ShellInit => EditInv /\ Editor!Init
<1> SUFFICES ASSUME ShellInit PROVE EditInv /\ Editor!Init
  OBVIOUS
<1>1. /\ line = Zeros /\ saved_line = Zeros /\ hist_nav = -1 /\ hist_count = 0 /\ hist_head = 0
      /\ shell_should_exit = FALSE /\ phase = "read"
  BY DEF ShellInit
<1>2. EditInv
  BY <1>1, ShellInitInv, ShellSizes DEF EditInv
<1>3. Text(Zeros) = <<>>
  BY ZerosString, TextIs
<1>4. Recent = <<>>
  <2>1. 1 .. hist_count = {}
    BY <1>1
  <2> QED
    BY <2>1 DEF Recent
<1>5. hist_nav + 1 = 0
  BY <1>1
<1> QED
  BY <1>1, <1>2, <1>3, <1>4, <1>5, Zenon DEF Editor!Init, Recent

\* heroshell.c implements module LineEditor, for every length of a line, every
\* depth of the history and any sequence of keys: shell_run's arrays and the
\* ring of hist_add give back the lines that were run, newest first and as
\* they were typed, and the draft as it was left, and the shell goes when the
\* first word of a line is exit and at no other line.
THEOREM ShellIsLineEditor == ServicesSpec => EditorSpec
<1>1. ServicesInit => EditInv /\ Editor!Init
  BY EditInitInv DEF ServicesInit, ConsoleInit
<1> QED
  BY <1>1, EditStep, OnlyShellMovesShell, PTL DEF ServicesSpec, EditorSpec, Editor!Spec

\* tokenize, at every line shell_run has run, finds the words of the line and
\* keeps the first max_args - 1 of them.
THEOREM TokensAreTheWords == ServicesSpec => []TokenizeIsWords
<1>1. ServicesInit => ShellInv
  BY ShellInitInv DEF ServicesInit, ConsoleInit
<1>2. ShellInv => TokenizeIsWords
  <2> SUFFICES ASSUME ShellInv PROVE TokenizeIsWords
    OBVIOUS
  <2>1. Text(line) \in Seq(Letters)
    BY TextIs DEF ShellInv
  <2> SUFFICES ASSUME NEW m \in 2 .. 4
               PROVE  LET words == Words(Text(line))
                      IN  tokenize(Text(line), m) = SubSeq(words, 1, Min({Len(words), m - 1}))
    BY Zenon DEF TokenizeIsWords
  <2>2. m \in Nat \ {0}
    OBVIOUS
  <2> QED
    BY <2>1, <2>2, TokensAreWords, Zenon
<1> QED
  BY <1>1, <1>2, ShellStep, OnlyShellMovesShell, PTL DEF ServicesSpec

-----------------------------------------------------------------------------
(***************************************************************************)
(* The terminal.                                                           *)
(***************************************************************************)

FreshPaper == [rows |-> <<Unwritten>>, at |-> 1]

\* The papers after each of the first m characters of a text.
IsTyping(g, t, m) ==
    g = [n \in 0 .. m |-> IF n = 0 THEN FreshPaper ELSE Type(g[n - 1], t[n])]

LEMMA TypingSteps ==
    ASSUME NEW g, NEW t, NEW m \in Nat, IsTyping(g, t, m)
    PROVE  /\ g[0] = FreshPaper
           /\ \A n \in 1 .. m : g[n] = Type(g[n - 1], t[n])
<1>1. \A n \in 0 .. m : g[n] = IF n = 0 THEN FreshPaper ELSE Type(g[n - 1], t[n])
  BY Zenon DEF IsTyping
<1> QED
  BY <1>1

\* There is such a sequence for every text, and one only.
LEMMA TypingExists ==
    ASSUME NEW t, NEW m \in Nat
    PROVE  \E g : IsTyping(g, t, m)
<1> DEFINE S == {n \in Nat : \E g : IsTyping(g, t, n)}
<1>1. 0 \in S
  <2> DEFINE g == [n \in 0 .. 0 |-> FreshPaper]
  <2>1. IsTyping(g, t, 0)
    BY DEF IsTyping
  <2> QED
    BY <2>1
<1>2. ASSUME NEW n \in 0 .. m, n < m, n \in S
      PROVE  n + 1 \in S
  <2>1. PICK g : IsTyping(g, t, n)
    BY <1>2
  <2> DEFINE h == [k \in 0 .. n + 1 |->
                      IF k = n + 1 THEN Type(g[n], t[n + 1]) ELSE g[k]]
  <2>2. g[0] = FreshPaper /\ \A k \in 1 .. n : g[k] = Type(g[k - 1], t[k])
    BY <2>1, TypingSteps
  <2>3. \A k \in 0 .. n + 1 :
            h[k] = IF k = 0 THEN FreshPaper ELSE Type(h[k - 1], t[k])
    <3> SUFFICES ASSUME NEW k \in 0 .. n + 1
                 PROVE  h[k] = IF k = 0 THEN FreshPaper ELSE Type(h[k - 1], t[k])
      OBVIOUS
    <3>1. k = n + 1 \/ k = 0 \/ k \in 1 .. n
      OBVIOUS
    <3>2. k # 0 => k - 1 \in 0 .. n + 1 /\ h[k - 1] = g[k - 1]
      OBVIOUS
    <3>3. 0 # n + 1 /\ (k \in 1 .. n => k # 0 /\ k # n + 1)
      OBVIOUS
    <3>4. CASE k = n + 1
      BY <3>2, <3>3, <3>4
    <3>5. CASE k = 0
      BY <2>2, <3>3, <3>5
    <3>6. CASE k \in 1 .. n
      BY <2>2, <3>2, <3>3, <3>6
    <3> QED
      BY <3>1, <3>4, <3>5, <3>6
  <2>4. IsTyping(h, t, n + 1)
    <3>1. h = [k \in 0 .. n + 1 |-> h[k]]
      BY Zenon
    <3> HIDE DEF h
    <3> QED
      BY <2>3, <3>1 DEF IsTyping
  <2> QED
    BY <2>4
<1> HIDE DEF S
<1>3. m \in S
  BY <1>1, <1>2, UpTo
<1> QED
  BY <1>3 DEF S

LEMMA TypingAgrees ==
    ASSUME NEW s, NEW t, NEW m \in Nat, NEW l \in Nat, m <= l,
           \A n \in 1 .. m : s[n] = t[n],
           NEW g, IsTyping(g, s, m), NEW h, IsTyping(h, t, l)
    PROVE  g[m] = h[m]
<1> DEFINE S == {n \in Nat : g[n] = h[n]}
<1>1. g[0] = FreshPaper /\ \A n \in 1 .. m : g[n] = Type(g[n - 1], s[n])
  BY TypingSteps
<1>2. h[0] = FreshPaper /\ \A n \in 1 .. l : h[n] = Type(h[n - 1], t[n])
  BY TypingSteps
<1>3. 0 \in S
  BY <1>1, <1>2
<1>4. ASSUME NEW n \in 0 .. m, n < m, n \in S
      PROVE  n + 1 \in S
  <2>1. n + 1 \in 1 .. m /\ n + 1 \in 1 .. l /\ (n + 1) - 1 = n /\ n + 1 \in Nat
    BY <1>4
  <2>2. g[n + 1] = Type(g[n], s[n + 1]) /\ h[n + 1] = Type(h[n], t[n + 1])
    BY <1>1, <1>2, <2>1
  <2> QED
    BY <1>4, <2>1, <2>2
<1> HIDE DEF S
<1>5. m \in S
  BY <1>3, <1>4, UpTo
<1> QED
  BY <1>5 DEF S

LEMMA PaperIs ==
    ASSUME NEW t, Len(t) \in Nat
    PROVE  \E g : IsTyping(g, t, Len(t)) /\ Paper(t) = g[Len(t)]
<1> DEFINE g == CHOOSE g : IsTyping(g, t, Len(t))
<1>1. IsTyping(g, t, Len(t))
  BY TypingExists, Zenon
<1>2. Paper(t) = g[Len(t)]
  BY Zenon DEF Paper, IsTyping, FreshPaper
<1> QED
  BY <1>1, <1>2

\* A blank sheet, and one character more.
LEMMA PaperGrows ==
    /\ Paper(<<>>) = FreshPaper
    /\ \A t \in Seq(Glyphs \cup {"LF", "CR", "BS"}), c \in Glyphs \cup {"LF", "CR", "BS"} :
          Paper(Append(t, c)) = Type(Paper(t), c)
<1>1. Paper(<<>>) = FreshPaper
  <2>1. Len(<<>>) = 0
    OBVIOUS
  <2>2. PICK g : IsTyping(g, <<>>, 0) /\ Paper(<<>>) = g[0]
    BY <2>1, PaperIs
  <2> QED
    BY <2>2, TypingSteps
<1>2. ASSUME NEW t \in Seq(Glyphs \cup {"LF", "CR", "BS"}),
             NEW c \in Glyphs \cup {"LF", "CR", "BS"}
      PROVE  Paper(Append(t, c)) = Type(Paper(t), c)
  <2> DEFINE n == Len(t)
             u == Append(t, c)
  <2>1. /\ n \in Nat /\ Len(u) = n + 1 /\ u[n + 1] = c
        /\ \A k \in 1 .. n : t[k] = u[k]
    OBVIOUS
  <2> HIDE DEF n, u
  <2>2. PICK g : IsTyping(g, t, n) /\ Paper(t) = g[n]
    BY <2>1, PaperIs DEF n
  <2>3. PICK h : IsTyping(h, u, n + 1) /\ Paper(u) = h[n + 1]
    BY <2>1, PaperIs
  <2>4. n + 1 \in Nat /\ n <= n + 1 /\ n + 1 \in 1 .. n + 1 /\ (n + 1) - 1 = n
    BY <2>1
  <2>5. g[n] = h[n]
    BY <2>1, <2>2, <2>3, <2>4, TypingAgrees
  <2>6. h[n + 1] = Type(h[n], u[n + 1])
    BY <2>3, <2>4, TypingSteps
  <2> QED
    BY <2>1, <2>2, <2>3, <2>5, <2>6 DEF u
<1> QED
  BY <1>1, <1>2

\* Characters of a line of paper; a paper that has been typed on.
Marks == Glyphs \cup {NoInk}
Papers == [rows : Seq([1 .. Cols -> Marks]), at : 1 .. Cols]

LEMMA TerminalSizes ==
    /\ FontH \in Nat \ {0} /\ Cols \in Nat \ {0} /\ Height \in Nat
    /\ Rows \in Nat \ {0}
    /\ Unwritten \in [1 .. Cols -> Marks]
<1>1. FontH \in Nat \ {0} /\ Cols \in Nat \ {0} /\ Height \in Nat /\ Height >= FontH
  BY TerminalAssumption
<1>2. Rows \in Nat \ {0}
  BY <1>1 DEF Rows
<1> QED
  BY <1>1, <1>2 DEF Unwritten, Marks

\* The character cell of a pixel row, and of the one that is drawn over it
\* when the screen scrolls.
LEMMA RowsOfPixels ==
    ASSUME NEW y \in 0 .. Height - 1
    PROVE  /\ y \div FontH \in Nat /\ y % FontH \in 0 .. FontH - 1
           /\ (y + FontH) \div FontH = (y \div FontH) + 1
           /\ (y + FontH) % FontH = y % FontH
           /\ y + FontH >= Height => (y \div FontH) + 1 >= Rows
<1>1. FontH \in Nat \ {0} /\ Height \in Nat /\ y \in Nat
  BY TerminalSizes
<1> DEFINE q == y \div FontH
           r == y % FontH
           h == Height \div FontH
           e == Height % FontH
           z == (y + FontH) \div FontH
           x == (y + FontH) % FontH
<1>2. q \in Nat /\ r \in 0 .. FontH - 1 /\ y = FontH * q + r
  BY <1>1
<1>3. h \in Nat /\ e \in 0 .. FontH - 1 /\ Height = FontH * h + e
  BY <1>1
<1>4. z \in Nat /\ x \in 0 .. FontH - 1 /\ y + FontH = FontH * z + x
  BY <1>1
<1>5. Rows = h
  BY DEF Rows
<1> HIDE DEF q, r, h, e, z, x
<1>6. z = q + 1 /\ x = r
  <2>1. FontH * (z - (q + 1)) = r - x /\ z - (q + 1) \in Int
    BY <1>1, <1>2, <1>4
  <2>2. z - (q + 1) = 0
    BY <1>1, <1>2, <1>4, <2>1, Multiples
  <2>3. z = q + 1
    BY <2>2, <1>2, <1>4
  <2>4. FontH * 0 = 0
    BY <1>1
  <2> QED
    BY <2>1, <2>2, <2>3, <2>4, <1>2, <1>4
<1>7. ASSUME y + FontH >= Height PROVE z >= h
  <2>1. FontH * (z - h) = (y + FontH - Height) + (e - x) /\ z - h \in Int
    BY <1>1, <1>3, <1>4
  <2> QED
    BY <1>1, <1>3, <1>4, <1>7, <2>1, Multiples
<1>8. y + FontH >= Height => q + 1 >= Rows
  BY <1>5, <1>6, <1>7
<1>9. q \in Nat /\ r \in 0 .. FontH - 1
  BY <1>2
<1> QED
  BY <1>6, <1>8, <1>9 DEF q, r, x, z

\* The characters of the paper that row and col of a screen show, whose top
\* line is the one after the first top lines; and that frame f shows them.
CharAt(p, top, row, col) ==
    IF top + row + 1 <= Len(p.rows) THEN p.rows[top + row + 1][col + 1] ELSE NoInk
Dots == {Pixel(c, i) : c \in Marks, i \in Nat}
Frames == [0 .. Height - 1 -> [0 .. Cols - 1 -> Dots]]
Shows(f, p, top) ==
    \A y \in 0 .. Height - 1, col \in 0 .. Cols - 1 :
       f[y][col] = IF y \div FontH < Rows
                   THEN Pixel(CharAt(p, top, y \div FontH, col), y % FontH)
                   ELSE Background

\* A line feed on paper brings an unwritten line, which shows as what was
\* below the last one.
LEMMA NewLineShows ==
    ASSUME NEW f, NEW p \in Papers, NEW top \in Nat, NEW q, Shows(f, p, top),
           q.rows = Append(p.rows, Unwritten)
    PROVE  Shows(f, q, top)
<1>1. /\ Len(p.rows) \in Nat /\ Len(q.rows) = Len(p.rows) + 1
      /\ q.rows[Len(p.rows) + 1] = Unwritten
      /\ \A i \in 1 .. Len(p.rows) : q.rows[i] = p.rows[i]
  BY TerminalSizes DEF Papers
<1>2. ASSUME NEW row \in Nat, NEW col \in 0 .. Cols - 1
      PROVE  CharAt(q, top, row, col) = CharAt(p, top, row, col)
  <2> DEFINE i == top + row + 1
  <2>1. i \in Nat \ {0} /\ col + 1 \in 1 .. Cols
    BY TerminalSizes
  <2>2. Unwritten[col + 1] = NoInk
    BY <2>1 DEF Unwritten
  <2> HIDE DEF i
  <2>3. CASE i <= Len(p.rows)
    <3>1. i \in 1 .. Len(p.rows) /\ i <= Len(q.rows)
      BY <1>1, <2>1, <2>3
    <3> QED
      BY <1>1, <2>3, <3>1 DEF CharAt, i
  <2>4. CASE i = Len(p.rows) + 1
    <3>1. i <= Len(q.rows) /\ ~(i <= Len(p.rows))
      BY <1>1, <2>4
    <3> QED
      BY <1>1, <2>2, <2>4, <3>1 DEF CharAt, i
  <2>5. CASE i > Len(p.rows) + 1
    <3>1. ~(i <= Len(q.rows)) /\ ~(i <= Len(p.rows))
      BY <1>1, <2>1, <2>5
    <3> QED
      BY <3>1 DEF CharAt, i
  <2> QED
    BY <1>1, <2>1, <2>3, <2>4, <2>5
<1>3. \A y \in 0 .. Height - 1 : y \div FontH \in Nat
  BY RowsOfPixels
<1> QED
  BY <1>2, <1>3 DEF Shows

\* A character drawn where the typewriter strikes.
LEMMA DrawShows ==
    ASSUME NEW f \in Frames, NEW p \in Papers, NEW top \in Nat, Shows(f, p, top),
           NEW row \in 0 .. Rows - 1, row = Len(p.rows) - top - 1,
           NEW at \in 1 .. Cols, NEW c \in Marks, NEW q, q.rows = Strike(p, at, c)
    PROVE  /\ fb_draw_char(f, at - 1, row, c) \in Frames
           /\ Shows(fb_draw_char(f, at - 1, row, c), q, top)
           /\ q.rows \in Seq([1 .. Cols -> Marks]) /\ Len(q.rows) = Len(p.rows)
<1> DEFINE n == Len(p.rows)
           w == [p.rows[n] EXCEPT ![at] = c]
           d == fb_draw_char(f, at - 1, row, c)
<1>1. /\ n \in Nat /\ Rows \in Nat /\ Cols \in Nat /\ FontH \in Nat \ {0}
      /\ p.rows \in Seq([1 .. Cols -> Marks])
  BY TerminalSizes DEF Papers
<1>2. n \in 1 .. n /\ n = top + row + 1
  BY <1>1
<1>3. p.rows[n] \in [1 .. Cols -> Marks]
  BY <1>1, <1>2
<1>4. /\ w \in [1 .. Cols -> Marks] /\ w[at] = c
      /\ \A i \in 1 .. Cols : i # at => w[i] = p.rows[n][i]
  BY <1>3
<1>5. /\ q.rows \in Seq([1 .. Cols -> Marks]) /\ Len(q.rows) = n /\ q.rows[n] = w
      /\ \A i \in 1 .. n : i # n => q.rows[i] = p.rows[i]
  <2>1. q.rows = [p.rows EXCEPT ![n] = w]
    BY DEF Strike
  <2> HIDE DEF w
  <2> QED
    BY <1>1, <1>2, <1>4, <2>1, ExceptSeq
<1>6. \A y \in 0 .. Height - 1 :
         d[y] = IF y \div FontH = row THEN [f[y] EXCEPT ![at - 1] = Pixel(c, y % FontH)]
                ELSE f[y]
  BY DEF fb_draw_char
<1>7. \A y \in 0 .. Height - 1 : y \div FontH \in Nat /\ y % FontH \in Nat
  BY <1>1, RowsOfPixels
<1>8. \A y \in 0 .. Height - 1 : f[y] \in [0 .. Cols - 1 -> Dots]
  BY DEF Frames
<1>9. at - 1 \in 0 .. Cols - 1
  BY <1>1
<1>13. \A i \in Nat : Pixel(c, i) \in Dots
  BY DEF Dots
<1>10. d \in Frames
  <2>1. \A y \in 0 .. Height - 1 : d[y] \in [0 .. Cols - 1 -> Dots]
    <3> SUFFICES ASSUME NEW y \in 0 .. Height - 1 PROVE d[y] \in [0 .. Cols - 1 -> Dots]
      OBVIOUS
    <3>1. Pixel(c, y % FontH) \in Dots /\ f[y] \in [0 .. Cols - 1 -> Dots]
      BY <1>7, <1>8, <1>13
    <3>2. [f[y] EXCEPT ![at - 1] = Pixel(c, y % FontH)] \in [0 .. Cols - 1 -> Dots]
      BY <3>1
    <3> HIDE DEF d
    <3> QED
      BY <1>6, <3>1, <3>2
  <2>2. d = [y \in 0 .. Height - 1 |-> d[y]]
    BY Zenon DEF fb_draw_char
  <2> HIDE DEF d
  <2> QED
    BY <2>1, <2>2 DEF Frames
<1> HIDE DEF n, w, d
<1>11. ASSUME NEW y \in 0 .. Height - 1, NEW col \in 0 .. Cols - 1
       PROVE  d[y][col] = IF y \div FontH < Rows
                          THEN Pixel(CharAt(q, top, y \div FontH, col), y % FontH)
                          ELSE Background
  <2> DEFINE r == y \div FontH
             i == top + r + 1
  <2>1. r \in Nat /\ i \in Nat \ {0} /\ col + 1 \in 1 .. Cols
    BY <1>1, <1>7
  <2>2. f[y][col] = IF r < Rows THEN Pixel(CharAt(p, top, r, col), y % FontH)
                    ELSE Background
    BY DEF Shows
  <2>3. d[y] = IF r = row THEN [f[y] EXCEPT ![at - 1] = Pixel(c, y % FontH)] ELSE f[y]
    BY <1>6
  <2>4. CharAt(q, top, r, col) = IF i <= n THEN q.rows[i][col + 1] ELSE NoInk
    BY <1>5 DEF CharAt
  <2>5. CharAt(p, top, r, col) = IF i <= n THEN p.rows[i][col + 1] ELSE NoInk
    BY DEF CharAt, n
  <2>6. r # row => i # n
    BY <1>2, <2>1
  <2>7. r = row => i = n /\ r < Rows
    <3>1. row < Rows
      BY <1>1
    <3> QED
      BY <1>2, <3>1
  <2>8. i <= n => i \in 1 .. n
    BY <1>1, <2>1
  <2>9. col # at - 1 <=> col + 1 # at
    BY <1>1
  <2> HIDE DEF r, i
  <2>10. CASE r # row
    <3>1. CharAt(q, top, r, col) = CharAt(p, top, r, col)
      <4>1. i <= n => q.rows[i] = p.rows[i]
        BY <1>5, <2>6, <2>8, <2>10
      <4> QED
        BY <2>4, <2>5, <4>1
    <3> QED
      BY <2>2, <2>3, <2>10, <3>1 DEF r
  <2>11. CASE r = row /\ col # at - 1
    <3>1. d[y][col] = f[y][col]
      BY <1>8, <1>9, <2>3, <2>11
    <3>2. w[col + 1] = p.rows[n][col + 1]
      BY <1>4, <2>1, <2>9, <2>11
    <3>3. CharAt(q, top, r, col) = CharAt(p, top, r, col)
      BY <1>1, <1>5, <2>4, <2>5, <2>7, <2>11, <3>2
    <3> QED
      BY <2>2, <3>1, <3>3 DEF r
  <2>12. CASE r = row /\ col = at - 1
    <3>1. d[y][col] = Pixel(c, y % FontH)
      BY <1>8, <1>9, <2>3, <2>12
    <3>2. CharAt(q, top, r, col) = c
      <4>1. col + 1 = at /\ n <= n
        BY <1>1, <2>9, <2>12
      <4>2. q.rows[i][col + 1] = c /\ i <= n
        BY <1>4, <1>5, <2>7, <2>12, <4>1
      <4> QED
        BY <2>4, <4>2
    <3> QED
      BY <2>7, <2>12, <3>1, <3>2 DEF r
  <2> QED
    BY <2>10, <2>11, <2>12
<1>12. Shows(d, q, top)
  BY <1>11 DEF Shows
<1> QED
  BY <1>5, <1>10, <1>12 DEF d, n

\* Scrolling by one line, when the line that comes into sight is unwritten.
LEMMA ScrollShows ==
    ASSUME NEW f \in Frames, NEW p, NEW top \in Nat, Shows(f, p, top),
           \A col \in 0 .. Cols - 1 : CharAt(p, top + 1, Rows - 1, col) = NoInk
    PROVE  fb_scroll_up(f) \in Frames /\ Shows(fb_scroll_up(f), p, top + 1)
<1> DEFINE g == fb_scroll_up(f)
<1>1. /\ Rows \in Nat \ {0} /\ Cols \in Nat \ {0} /\ FontH \in Nat \ {0}
      /\ Height \in Nat
  BY TerminalSizes
<1>2. \A y \in 0 .. Height - 1 :
         g[y] = IF y + FontH < Height THEN f[y + FontH] ELSE BlankRow
  BY DEF fb_scroll_up
<1>3. BlankRow \in [0 .. Cols - 1 -> Dots]
  <2>1. Pixel(NoInk, 0) = Background
    BY DEF Pixel
  <2>2. Pixel(NoInk, 0) \in Dots
    BY DEF Dots, Marks
  <2> QED
    BY <2>1, <2>2 DEF BlankRow
<1>4. g \in Frames
  <2>1. \A y \in 0 .. Height - 1 : y + FontH < Height => y + FontH \in 0 .. Height - 1
    BY <1>1
  <2>2. \A y \in 0 .. Height - 1 : g[y] \in [0 .. Cols - 1 -> Dots]
    BY <1>2, <1>3, <2>1 DEF Frames
  <2>3. g = [y \in 0 .. Height - 1 |-> g[y]]
    BY Zenon DEF fb_scroll_up
  <2> HIDE DEF g
  <2> QED
    BY <2>2, <2>3 DEF Frames
<1> HIDE DEF g
<1>5. ASSUME NEW y \in 0 .. Height - 1, NEW col \in 0 .. Cols - 1
      PROVE  g[y][col] = IF y \div FontH < Rows
                         THEN Pixel(CharAt(p, top + 1, y \div FontH, col), y % FontH)
                         ELSE Background
  <2> DEFINE r == y \div FontH
             z == y + FontH
  <2>1. /\ r \in Nat /\ z \div FontH = r + 1 /\ z % FontH = y % FontH
        /\ z >= Height => r + 1 >= Rows
    BY RowsOfPixels
  <2>2. z \in Nat /\ g[y] = IF z < Height THEN f[z] ELSE BlankRow
    BY <1>1, <1>2
  <2>3. Pixel(NoInk, y % FontH) = Background
    BY DEF Pixel
  <2> HIDE DEF r, z
  <2>4. ASSUME r + 1 < Rows
        PROVE  g[y][col] = Pixel(CharAt(p, top + 1, r, col), y % FontH) /\ r < Rows
    <3>1. z < Height /\ z \in 0 .. Height - 1 /\ r < Rows
      BY <1>1, <2>1, <2>2, <2>4
    <3>2. f[z][col] = Pixel(CharAt(p, top, r + 1, col), y % FontH)
      BY <2>1, <2>4, <3>1 DEF Shows
    <3>3. top + (r + 1) + 1 = (top + 1) + r + 1
      BY <2>1
    <3>4. CharAt(p, top, r + 1, col) = CharAt(p, top + 1, r, col)
      BY <3>3, Zenon DEF CharAt
    <3> QED
      BY <2>2, <3>1, <3>2, <3>4
  <2>5. ASSUME ~(r + 1 < Rows) PROVE g[y][col] = Background
    <3>1. CASE z < Height
      <4>1. z \in 0 .. Height - 1
        BY <1>1, <2>2, <3>1
      <4>2. f[z][col] = Background
        BY <2>1, <2>5, <4>1 DEF Shows
      <4> QED
        BY <2>2, <3>1, <4>2
    <3>2. CASE ~(z < Height)
      BY <2>2, <3>2 DEF BlankRow
    <3> QED
      BY <3>1, <3>2
  <2>6. CASE r + 1 < Rows
    BY <2>4, <2>6 DEF r
  <2>7. CASE ~(r + 1 < Rows) /\ r < Rows
    <3>1. r = Rows - 1
      BY <1>1, <2>1, <2>7
    <3>2. CharAt(p, top + 1, r, col) = NoInk
      BY <3>1
    <3> QED
      BY <2>3, <2>5, <2>7, <3>2 DEF r
  <2>8. CASE ~(r < Rows)
    <3>1. ~(r + 1 < Rows)
      BY <1>1, <2>1, <2>8
    <3> QED
      BY <2>5, <2>8, <3>1 DEF r
  <2> QED
    BY <2>6, <2>7, <2>8
<1> QED
  BY <1>4, <1>5 DEF Shows, g

\* The lines of a paper that have gone off the screen, and that a frame and a
\* cursor show the rest.
Gone(p) == IF Len(p.rows) > Rows THEN Len(p.rows) - Rows ELSE 0
OnScreen(f, r, c, p) ==
    /\ f \in Frames /\ p \in Papers /\ Len(p.rows) >= 1
    /\ Shows(f, p, Gone(p))
    /\ r = Len(p.rows) - Gone(p) - 1 /\ c = p.at - 1

LEMMA CursorOnScreen ==
    ASSUME NEW f, NEW r, NEW c, NEW p, OnScreen(f, r, c, p)
    PROVE  /\ Len(p.rows) \in Nat /\ p.rows \in Seq([1 .. Cols -> Marks])
           /\ p.at \in 1 .. Cols /\ Gone(p) \in Nat
           /\ r \in 0 .. Rows - 1 /\ c \in 0 .. Cols - 1
<1>1. Rows \in Nat \ {0} /\ Cols \in Nat \ {0}
  BY TerminalSizes
<1>2. p.rows \in Seq([1 .. Cols -> Marks]) /\ p.at \in 1 .. Cols
  BY DEF OnScreen, Papers
<1>3. Len(p.rows) \in Nat
  BY <1>2
<1> QED
  BY <1>1, <1>2, <1>3 DEF OnScreen, Gone

\* A character that does not end its line.
LEMMA PlacedInLine ==
    ASSUME NEW f, NEW r, NEW c, NEW p, OnScreen(f, r, c, p), Place(f, r, c)
    PROVE  OnScreen(frame', term_row', term_col', p)
<1>1. ~(r >= Rows)
  <2>1. r \in 0 .. Rows - 1 /\ Rows \in Nat
    BY CursorOnScreen, TerminalSizes
  <2> QED
    BY <2>1
<1>2. frame' = f /\ term_row' = r /\ term_col' = c
  BY <1>1, Zenon DEF Place
<1> QED
  BY <1>2

\* One that does, with the scroll that may follow.
LEMMA PlacedOnNewLine ==
    ASSUME NEW f, NEW r, NEW c, NEW p, OnScreen(f, r, c, p), Place(f, r + 1, 0),
           NEW q, q = [rows |-> Append(p.rows, Unwritten), at |-> 1]
    PROVE  OnScreen(frame', term_row', term_col', q)
<1> DEFINE n == Len(p.rows)
           top == Gone(p)
<1>1. Rows \in Nat \ {0} /\ Cols \in Nat \ {0} /\ Unwritten \in [1 .. Cols -> Marks]
  BY TerminalSizes
<1>2. /\ n \in Nat /\ p.rows \in Seq([1 .. Cols -> Marks]) /\ top \in Nat
      /\ r \in 0 .. Rows - 1
  BY CursorOnScreen
<1>3. /\ f \in Frames /\ p \in Papers /\ n >= 1 /\ Shows(f, p, top) /\ r = n - top - 1
  BY DEF OnScreen
<1>4. q.rows = Append(p.rows, Unwritten) /\ q.at = 1
  OBVIOUS
<1>5. /\ q.rows \in Seq([1 .. Cols -> Marks]) /\ Len(q.rows) = n + 1
      /\ q.rows[n + 1] = Unwritten
  BY <1>1, <1>2, <1>4
<1>6. q \in Papers
  <2>1. 1 \in 1 .. Cols
    BY <1>1
  <2> QED
    BY <1>4, <1>5, <2>1 DEF Papers
<1>7. Shows(f, q, top)
  BY <1>2, <1>3, <1>4, NewLineShows
<1>8. Gone(p) = IF n > Rows THEN n - Rows ELSE 0
  BY DEF Gone
<1> HIDE DEF n, top
<1>9. Gone(q) = IF n + 1 > Rows THEN n + 1 - Rows ELSE 0
  <2> DEFINE l == Len(q.rows)
             g == Gone(q)
  <2>1. g = IF l > Rows THEN l - Rows ELSE 0
    BY DEF Gone
  <2>2. l = n + 1
    BY <1>5
  <2> HIDE DEF l, g
  <2>3. g = IF n + 1 > Rows THEN n + 1 - Rows ELSE 0
    BY <1>1, <1>2, <2>1, <2>2
  <2> QED
    BY <2>3 DEF g
<1>10. ASSUME ~(r + 1 >= Rows)
       PROVE  /\ Gone(q) = top /\ r + 1 = (n + 1) - top - 1
              /\ frame' = f /\ term_row' = r + 1 /\ term_col' = 0
  <2>1. frame' = f /\ term_row' = r + 1 /\ term_col' = 0
    BY <1>10, Zenon DEF Place
  <2>2. Gone(q) = top /\ r + 1 = (n + 1) - top - 1
    BY <1>1, <1>2, <1>3, <1>8, <1>9, <1>10 DEF top
  <2> QED
    BY <2>1, <2>2
<1>11. ASSUME r + 1 >= Rows
       PROVE  /\ Gone(q) = top + 1 /\ Rows - 1 = (n + 1) - (top + 1) - 1
              /\ frame' = fb_scroll_up(f) /\ term_row' = Rows - 1 /\ term_col' = 0
              /\ (top + 1) + (Rows - 1) + 1 = n + 1
  <2>1. frame' = fb_scroll_up(f) /\ term_row' = Rows - 1 /\ term_col' = 0
    BY <1>11, Zenon DEF Place
  <2>2. r = Rows - 1
    BY <1>1, <1>2, <1>11
  <2>3. Gone(q) = top + 1 /\ Rows - 1 = (n + 1) - (top + 1) - 1
        /\ (top + 1) + (Rows - 1) + 1 = n + 1
    BY <1>1, <1>2, <1>3, <1>8, <1>9, <2>2 DEF top
  <2> QED
    BY <2>1, <2>3
<1>12. 0 = q.at - 1 /\ Len(q.rows) >= 1
  BY <1>2, <1>4, <1>5
<1>13. CASE ~(r + 1 >= Rows)
  BY <1>3, <1>5, <1>6, <1>7, <1>10, <1>12, <1>13 DEF OnScreen
<1>14. CASE r + 1 >= Rows
  <2>1. ASSUME NEW col \in 0 .. Cols - 1
        PROVE  CharAt(q, top + 1, Rows - 1, col) = NoInk
    <3>1. n + 1 <= Len(q.rows) /\ col + 1 \in 1 .. Cols
      BY <1>1, <1>2, <1>5
    <3>2. CharAt(q, top + 1, Rows - 1, col) = q.rows[n + 1][col + 1]
      BY <1>11, <1>14, <3>1, Zenon DEF CharAt
    <3> QED
      BY <1>5, <3>1, <3>2 DEF Unwritten
  <2>2. fb_scroll_up(f) \in Frames /\ Shows(fb_scroll_up(f), q, top + 1)
    BY <1>2, <1>3, <1>7, <2>1, ScrollShows
  <2> QED
    BY <1>5, <1>6, <1>11, <1>12, <1>14, <2>2 DEF OnScreen
<1> QED
  BY <1>13, <1>14

\* A character struck at one of the places of the last line.
LEMMA StruckOnScreen ==
    ASSUME NEW f, NEW r, NEW c, NEW p, OnScreen(f, r, c, p), NEW at \in 1 .. Cols,
           NEW mark \in Marks, NEW to \in 1 .. Cols,
           NEW q, q = [rows |-> Strike(p, at, mark), at |-> to]
    PROVE  OnScreen(fb_draw_char(f, at - 1, r, mark), r, to - 1, q)
<1> DEFINE d == fb_draw_char(f, at - 1, r, mark)
<1>1. /\ f \in Frames /\ p \in Papers /\ Shows(f, p, Gone(p)) /\ Len(p.rows) >= 1
      /\ r = Len(p.rows) - Gone(p) - 1
  BY DEF OnScreen
<1>2. Gone(p) \in Nat /\ r \in 0 .. Rows - 1
  BY CursorOnScreen
<1>3. q.rows = Strike(p, at, mark) /\ q.at = to
  OBVIOUS
<1>4. /\ d \in Frames /\ Shows(d, q, Gone(p))
      /\ q.rows \in Seq([1 .. Cols -> Marks]) /\ Len(q.rows) = Len(p.rows)
  BY <1>1, <1>2, <1>3, DrawShows
<1>5. q \in Papers
  BY <1>3, <1>4 DEF Papers
<1>6. Gone(q) = Gone(p)
  BY <1>4 DEF Gone
<1> HIDE DEF d
<1>7. OnScreen(d, r, to - 1, q)
  BY <1>1, <1>3, <1>4, <1>5, <1>6 DEF OnScreen
<1> QED
  BY <1>7 DEF d

Keys == Glyphs \cup {"LF", "CR", "BS"}

\* What each character does to the frame and to the paper.
LEMMA PutcCases ==
    ASSUME NEW c, fb_term_putc(c)
    PROVE  /\ c = "LF" => Place(frame, term_row + 1, 0)
           /\ c = "CR" => Place(frame, term_row, 0)
           /\ c = "BS" => IF term_col > 0
                          THEN Place(fb_draw_char(frame, term_col - 1, term_row, NoInk),
                                     term_row, term_col - 1)
                          ELSE Place(frame, term_row, term_col)
           /\ c \notin {"LF", "CR", "BS"} =>
                 IF term_col + 1 >= Cols
                 THEN Place(fb_draw_char(frame, term_col, term_row, c), term_row + 1, 0)
                 ELSE Place(fb_draw_char(frame, term_col, term_row, c),
                            term_row, term_col + 1)
<1>1. "LF" # "CR" /\ "LF" # "BS" /\ "CR" # "BS"
  OBVIOUS
<1>2. c = "LF" => Place(frame, term_row + 1, 0)
  BY <1>1, Zenon DEF fb_term_putc
<1>3. c = "CR" => Place(frame, term_row, 0)
  BY <1>1, Zenon DEF fb_term_putc
<1>4. c = "BS" => IF term_col > 0
                  THEN Place(fb_draw_char(frame, term_col - 1, term_row, NoInk),
                             term_row, term_col - 1)
                  ELSE Place(frame, term_row, term_col)
  BY <1>1, Zenon DEF fb_term_putc
<1>5. c \notin {"LF", "CR", "BS"} =>
         IF term_col + 1 >= Cols
         THEN Place(fb_draw_char(frame, term_col, term_row, c), term_row + 1, 0)
         ELSE Place(fb_draw_char(frame, term_col, term_row, c), term_row, term_col + 1)
  BY <1>1, Zenon DEF fb_term_putc
<1> QED
  BY <1>2, <1>3, <1>4, <1>5

LEMMA TypeCases ==
    ASSUME NEW c, NEW p
    PROVE  /\ c = "LF" => Type(p, c) = [rows |-> Append(p.rows, Unwritten), at |-> 1]
           /\ c = "CR" => Type(p, c) = [p EXCEPT !.at = 1]
           /\ c = "BS" => Type(p, c) = IF p.at = 1 THEN p
                                       ELSE [rows |-> Strike(p, p.at - 1, NoInk),
                                             at |-> p.at - 1]
           /\ c \notin {"LF", "CR", "BS"} =>
                 Type(p, c) = IF p.at = Cols
                              THEN [rows |-> Append(Strike(p, Cols, c), Unwritten), at |-> 1]
                              ELSE [rows |-> Strike(p, p.at, c), at |-> p.at + 1]
<1>1. "LF" # "CR" /\ "LF" # "BS" /\ "CR" # "BS"
  OBVIOUS
<1>2. c = "LF" => Type(p, c) = [rows |-> Append(p.rows, Unwritten), at |-> 1]
  BY <1>1, Zenon DEF Type
<1>3. c = "CR" => Type(p, c) = [p EXCEPT !.at = 1]
  BY <1>1, Zenon DEF Type
<1>4. c = "BS" => Type(p, c) = IF p.at = 1 THEN p
                               ELSE [rows |-> Strike(p, p.at - 1, NoInk), at |-> p.at - 1]
  BY <1>1, Zenon DEF Type
<1>5. c \notin {"LF", "CR", "BS"} =>
         Type(p, c) = IF p.at = Cols
                      THEN [rows |-> Append(Strike(p, Cols, c), Unwritten), at |-> 1]
                      ELSE [rows |-> Strike(p, p.at, c), at |-> p.at + 1]
  BY <1>1, Zenon DEF Type
<1> QED
  BY <1>2, <1>3, <1>4, <1>5

\* fb_term_putc does on the screen what the typewriter does on paper.
LEMMA PutcTypes ==
    ASSUME NEW p, OnScreen(frame, term_row, term_col, p), NEW c \in Keys, fb_term_putc(c)
    PROVE  OnScreen(frame', term_row', term_col', Type(p, c))
<1> DEFINE q == Type(p, c)
           r == term_row
           k == p.at
<1>1. /\ p.rows \in Seq([1 .. Cols -> Marks]) /\ k \in 1 .. Cols
      /\ Cols \in Nat \ {0} /\ term_col = k - 1 /\ p \in Papers
  BY CursorOnScreen, TerminalSizes DEF OnScreen
<1>2. ASSUME c = "LF" PROVE OnScreen(frame', term_row', term_col', q)
  <2>1. q = [rows |-> Append(p.rows, Unwritten), at |-> 1]
    BY <1>2, TypeCases, Zenon
  <2>2. Place(frame, r + 1, 0)
    BY <1>2, PutcCases, Zenon
  <2> HIDE DEF q, r
  <2> QED
    BY <2>1, <2>2, PlacedOnNewLine DEF r
<1>3. ASSUME c = "CR" PROVE OnScreen(frame', term_row', term_col', q)
  <2>1. q = [p EXCEPT !.at = 1]
    BY <1>3, TypeCases, Zenon
  <2>2. Place(frame, r, 0)
    BY <1>3, PutcCases, Zenon
  <2>3. q.rows = p.rows /\ q.at = 1 /\ q \in Papers
    BY <1>1, <2>1 DEF Papers
  <2> HIDE DEF q
  <2>4. Gone(q) = Gone(p)
    BY <2>3 DEF Gone
  <2>5. Shows(frame, q, Gone(q)) <=> Shows(frame, p, Gone(p))
    BY <2>3, <2>4, Zenon DEF Shows, CharAt
  <2>6. OnScreen(frame, r, 0, q)
    BY <2>3, <2>4, <2>5 DEF OnScreen
  <2> QED
    BY <2>2, <2>6, PlacedInLine
<1>4. ASSUME c = "BS" PROVE OnScreen(frame', term_row', term_col', q)
  <2>1. q = IF k = 1 THEN p ELSE [rows |-> Strike(p, k - 1, NoInk), at |-> k - 1]
    BY <1>4, TypeCases, Zenon
  <2>2. IF term_col > 0
        THEN Place(fb_draw_char(frame, term_col - 1, term_row, NoInk), term_row, term_col - 1)
        ELSE Place(frame, term_row, term_col)
    BY <1>4, PutcCases, Zenon
  <2> HIDE DEF q, k
  <2>3. CASE k = 1
    <3>1. ~(term_col > 0) /\ q = p
      BY <1>1, <2>1, <2>3
    <3>2. Place(frame, term_row, term_col)
      BY <2>2, <3>1, Zenon
    <3> QED
      BY <3>1, <3>2, PlacedInLine
  <2>4. CASE k # 1
    <3>1. /\ term_col > 0 /\ term_col - 1 = (k - 1) - 1 /\ k - 1 \in 1 .. Cols
          /\ q = [rows |-> Strike(p, k - 1, NoInk), at |-> k - 1]
      BY <1>1, <2>1, <2>4
    <3>2. Place(fb_draw_char(frame, (k - 1) - 1, term_row, NoInk), term_row, (k - 1) - 1)
      BY <2>2, <3>1, Zenon
    <3>3. NoInk \in Marks
      BY DEF Marks
    <3>4. OnScreen(fb_draw_char(frame, (k - 1) - 1, term_row, NoInk), term_row,
                   (k - 1) - 1, q)
      BY <3>1, <3>3, StruckOnScreen
    <3> QED
      BY <3>2, <3>4, PlacedInLine
  <2> QED
    BY <2>3, <2>4
<1>5. ASSUME c \notin {"LF", "CR", "BS"} PROVE OnScreen(frame', term_row', term_col', q)
  <2>1. q = IF k = Cols THEN [rows |-> Append(Strike(p, Cols, c), Unwritten), at |-> 1]
            ELSE [rows |-> Strike(p, k, c), at |-> k + 1]
    BY <1>5, TypeCases, Zenon
  <2>2. IF term_col + 1 >= Cols
        THEN Place(fb_draw_char(frame, term_col, term_row, c), term_row + 1, 0)
        ELSE Place(fb_draw_char(frame, term_col, term_row, c), term_row, term_col + 1)
    BY <1>5, PutcCases, Zenon
  <2>3. c \in Marks
    BY <1>5 DEF Keys, Marks
  <2> HIDE DEF q, k
  <2> DEFINE d == fb_draw_char(frame, k - 1, term_row, c)
  <2>4. CASE k = Cols
    <3> DEFINE m == [rows |-> Strike(p, Cols, c), at |-> Cols]
    <3>1. term_col + 1 >= Cols /\ Cols \in 1 .. Cols /\ term_col = Cols - 1
      BY <1>1, <2>4
    <3>2. Place(d, term_row + 1, 0)
      BY <1>1, <2>2, <3>1, Zenon
    <3>3. OnScreen(d, term_row, Cols - 1, m)
      BY <2>3, <2>4, <3>1, StruckOnScreen
    <3>4. q = [rows |-> Append(m.rows, Unwritten), at |-> 1]
      BY <2>1, <2>4
    <3> HIDE DEF m, d
    <3> QED
      BY <3>2, <3>3, <3>4, PlacedOnNewLine
  <2>5. CASE k # Cols
    <3>1. ~(term_col + 1 >= Cols) /\ term_col + 1 = (k + 1) - 1 /\ k + 1 \in 1 .. Cols
      BY <1>1, <2>5
    <3>2. Place(d, term_row, (k + 1) - 1)
      BY <1>1, <2>2, <3>1, Zenon
    <3>3. q = [rows |-> Strike(p, k, c), at |-> k + 1]
      BY <2>1, <2>5
    <3>4. OnScreen(d, term_row, (k + 1) - 1, q)
      BY <1>1, <2>3, <3>1, <3>3, StruckOnScreen
    <3> HIDE DEF d
    <3> QED
      BY <3>2, <3>4, PlacedInLine
  <2> QED
    BY <2>4, <2>5
<1> QED
  BY <1>2, <1>3, <1>4, <1>5

TermInv ==
    /\ written \in Seq(Keys)
    /\ OnScreen(frame, term_row, term_col, Paper(written))

\* A clear screen is a blank sheet.
LEMMA ClearScreen ==
    OnScreen([y \in 0 .. Height - 1 |-> BlankRow], 0, 0, FreshPaper)
<1> DEFINE f == [y \in 0 .. Height - 1 |-> BlankRow]
           p == FreshPaper
<1>1. Rows \in Nat \ {0} /\ Cols \in Nat \ {0} /\ Unwritten \in [1 .. Cols -> Marks]
  BY TerminalSizes
<1>2. /\ p \in Papers /\ Len(p.rows) = 1 /\ p.at = 1 /\ p.rows[1] = Unwritten
  BY <1>1 DEF FreshPaper, Papers
<1>3. Gone(p) = 0
  BY <1>1, <1>2 DEF Gone
<1>4. Pixel(NoInk, 0) = Background /\ Pixel(NoInk, 0) \in Dots
  BY DEF Pixel, Dots, Marks
<1>5. f \in Frames
  BY <1>4 DEF Frames, BlankRow
<1>6. ASSUME NEW y \in 0 .. Height - 1, NEW col \in 0 .. Cols - 1
      PROVE  f[y][col] = IF y \div FontH < Rows
                         THEN Pixel(CharAt(p, 0, y \div FontH, col), y % FontH)
                         ELSE Background
  <2>1. y \div FontH \in Nat /\ col + 1 \in 1 .. Cols
    BY <1>1, RowsOfPixels
  <2>2. CharAt(p, 0, y \div FontH, col) = NoInk
    <3> DEFINE r == y \div FontH
    <3> HIDE DEF r
    <3>1. r \in Nat
      BY <2>1 DEF r
    <3>2. Unwritten[col + 1] = NoInk
      BY <2>1 DEF Unwritten
    <3>3. 0 + r + 1 <= 1 => 0 + r + 1 = 1
      BY <3>1
    <3>4. CharAt(p, 0, r, col) = NoInk
      BY <1>2, <3>2, <3>3 DEF CharAt
    <3> QED
      BY <3>4 DEF r
  <2>3. f[y][col] = Background /\ Pixel(NoInk, y % FontH) = Background
    BY DEF BlankRow, Pixel
  <2> QED
    BY <2>2, <2>3
<1> HIDE DEF f, p
<1>7. OnScreen(f, 0, 0, p)
  BY <1>2, <1>3, <1>5, <1>6 DEF OnScreen, Shows
<1> QED
  BY <1>7 DEF f, p

LEMMA TermInitInv == TermInit => TermInv
  BY ClearScreen, PaperGrows DEF TermInit, fb_clear, TermInv

LEMMA TermStep == TermInv /\ [TermNext]_termVars => TermInv'
<1> SUFFICES ASSUME TermInv, [TermNext]_termVars PROVE TermInv'
  OBVIOUS
<1>1. CASE term_start
  BY <1>1, ClearScreen, PaperGrows DEF term_start, fb_clear, TermInv
<1>2. ASSUME NEW c \in Keys, term_write(c) PROVE TermInv'
  <2>1. written' = Append(written, c) /\ fb_term_putc(c)
    BY <1>2, Zenon DEF term_write
  <2>2. written \in Seq(Keys) /\ OnScreen(frame, term_row, term_col, Paper(written))
    BY DEF TermInv
  <2>3. OnScreen(frame', term_row', term_col', Type(Paper(written), c))
    BY <2>1, <2>2, PutcTypes
  <2>4. Paper(Append(written, c)) = Type(Paper(written), c)
    BY <2>2, PaperGrows DEF Keys
  <2>5. written' \in Seq(Keys)
    BY <2>1, <2>2
  <2>6. OnScreen(frame', term_row', term_col', Paper(written'))
    BY <2>1, <2>3, <2>4
  <2> QED
    BY <2>5, <2>6 DEF TermInv
<1>3. CASE UNCHANGED termVars
  <2>1. UNCHANGED <<frame, term_row, term_col, written>>
    BY <1>3 DEF termVars
  <2>2. OnScreen(frame', term_row', term_col', Paper(written'))
    BY <2>1 DEF TermInv
  <2> QED
    BY <2>1, <2>2 DEF TermInv
<1> QED
  BY <1>1, <1>2, <1>3 DEF TermNext, Keys

LEMMA TermInvScreen == TermInv => ScreenIsText
<1> SUFFICES ASSUME TermInv PROVE ScreenIsText
  OBVIOUS
<1> DEFINE p == Paper(written)
<1>1. OnScreen(frame, term_row, term_col, p)
  BY DEF TermInv
<1> HIDE DEF p
<1>2. /\ \A y \in 0 .. Height - 1, col \in 0 .. Cols - 1 :
            frame[y][col] = IF y \div FontH < Rows
                            THEN Pixel(IF Gone(p) + (y \div FontH) + 1 <= Len(p.rows)
                                       THEN p.rows[Gone(p) + (y \div FontH) + 1][col + 1]
                                       ELSE NoInk, y % FontH)
                            ELSE Background
      /\ term_row = Len(p.rows) - Gone(p) - 1 /\ term_col = p.at - 1
  BY <1>1, Zenon DEF OnScreen, Shows, CharAt
<1> QED
  BY <1>2, Zenon DEF ScreenIsText, p, Gone

\* The terminal moves only by its own steps.
LEMMA OnlyTerminalMovesTerminal == [ipc_step \/ console_step]_svars => [TermNext]_termVars
  BY DEF ipc_step, console_step, svars, consoleVars

\* For every height, font and number of columns, and whatever is written with
\* fb_term_putc, newlines, carriage returns and backspaces included: after
\* every scroll of fb_scroll_up the screen shows the last lines of the text,
\* each character whole, and the rows left over by the height stay empty.
THEOREM ScreenShowsText == ServicesSpec => []ScreenIsText
<1>1. ServicesInit => TermInv
  BY TermInitInv DEF ServicesInit, ConsoleInit
<1> QED
  BY <1>1, TermStep, TermInvScreen, OnlyTerminalMovesTerminal, PTL DEF ServicesSpec

-----------------------------------------------------------------------------
(***************************************************************************)
(* Numbers as text.                                                        *)
(***************************************************************************)

\* A loop has a run: the values its turns go through.
IsRun(g, T, a, m, f) ==
    g \in [0 .. m -> T] /\ g[0] = a /\ \A n \in 1 .. m : g[n] = f[n][g[n - 1]]

LEMMA Iteration ==
    ASSUME NEW T, NEW a \in T, NEW m \in Nat, NEW f \in [1 .. m -> [T -> T]]
    PROVE  \E g : IsRun(g, T, a, m, f)
<1> DEFINE Run(g, k) == IsRun(g, T, a, k, f)
           S == {k \in Nat : \E g : Run(g, k)}
<1>1. 0 \in S
  <2>1. Run([n \in 0 .. 0 |-> a], 0)
    BY DEF IsRun
  <2> QED
    BY <2>1
<1>2. ASSUME NEW n \in 0 .. m, n < m, n \in S
      PROVE  n + 1 \in S
  <2>1. PICK g : Run(g, n)
    BY <1>2
  <2> DEFINE h == [k \in 0 .. n + 1 |-> IF k = n + 1 THEN f[n + 1][g[n]] ELSE g[k]]
  <2>2. n + 1 \in 1 .. m /\ n \in 0 .. n
    BY <1>2
  <2>3. f[n + 1] \in [T -> T] /\ g[n] \in T
    BY <2>1, <2>2 DEF IsRun
  <2>4. h \in [0 .. n + 1 -> T]
    BY <2>1, <2>3 DEF IsRun
  <2>5. h[0] = a
    BY <2>1, <1>2 DEF IsRun
  <2>6. ASSUME NEW k \in 1 .. n + 1 PROVE h[k] = f[k][h[k - 1]]
    <3>1. k - 1 \in 0 .. n + 1 /\ h[k - 1] = g[k - 1]
      BY <1>2, <2>6
    <3>2. CASE k = n + 1
      BY <3>1, <3>2
    <3>3. CASE k # n + 1
      <4>1. k \in 1 .. n /\ h[k] = g[k]
        BY <1>2, <2>6, <3>3
      <4> QED
        BY <2>1, <3>1, <4>1 DEF IsRun
    <3> QED
      BY <3>2, <3>3
  <2> HIDE DEF h
  <2>7. Run(h, n + 1)
    BY <2>4, <2>5, <2>6 DEF IsRun
  <2> HIDE DEF Run
  <2> QED
    BY <2>7, <1>2
<1> HIDE DEF S, Run
<1>3. m \in S
  <2>1. m \in 0 .. m
    OBVIOUS
  <2>2. \A n \in 0 .. m : n < m /\ n \in S => n + 1 \in S
    BY <1>2, Zenon
  <2> QED
    BY <1>1, <2>1, <2>2, UpTo, Zenon
<1> QED
  BY <1>3 DEF S, Run

\* The powers of two up to m.
Doubling(g, m) == g \in [0 .. m -> Nat] /\ g[0] = 1 /\ \A n \in 1 .. m : g[n] = 2 * g[n - 1]

LEMMA DoublingExists ==
    ASSUME NEW m \in Nat
    PROVE  \E g : Doubling(g, m)
<1> DEFINE f == [n \in 1 .. m |-> [x \in Nat |-> 2 * x]]
<1>1. f \in [1 .. m -> [Nat -> Nat]]
  OBVIOUS
<1>2. \A n \in 1 .. m, x \in Nat : f[n][x] = 2 * x
  OBVIOUS
<1> HIDE DEF f
<1>3. PICK g : IsRun(g, Nat, 1, m, f)
  BY <1>1, Iteration
<1>4. \A n \in 1 .. m : g[n - 1] \in Nat
  BY <1>3 DEF IsRun
<1>5. Doubling(g, m)
  BY <1>2, <1>3, <1>4 DEF Doubling, IsRun
<1> QED
  BY <1>5

LEMMA DoublingAgrees ==
    ASSUME NEW m \in Nat, NEW l \in Nat, m <= l, NEW g, Doubling(g, m), NEW h, Doubling(h, l)
    PROVE  g[m] = h[m]
<1> DEFINE S == {n \in Nat : g[n] = h[n]}
<1>1. 0 \in S
  BY DEF Doubling
<1>2. ASSUME NEW n \in 0 .. m, n < m, n \in S
      PROVE  n + 1 \in S
  <2>1. n + 1 \in 1 .. m /\ n + 1 \in 1 .. l /\ (n + 1) - 1 = n /\ n + 1 \in Nat
    BY <1>2
  <2>2. g[n + 1] = 2 * g[n] /\ h[n + 1] = 2 * h[n]
    BY <2>1 DEF Doubling
  <2> QED
    BY <1>2, <2>1, <2>2
<1> HIDE DEF S
<1>3. m \in S
  BY <1>1, <1>2, UpTo
<1> QED
  BY <1>3 DEF S

LEMMA Pow2Is ==
    ASSUME NEW m \in Nat
    PROVE  \E g : Doubling(g, m) /\ Pow2(m) = g[m]
<1> DEFINE Rec(p) == p = [i \in 0 .. m |-> IF i = 0 THEN 1 ELSE 2 * p[i - 1]]
           c == CHOOSE p : Rec(p)
<1>1. Pow2(m) = c[m]
  BY Zenon DEF Pow2
<1>2. \E p : Rec(p)
  <2>1. PICK g : Doubling(g, m)
    BY DoublingExists
  <2>2. g = [i \in 0 .. m |-> g[i]]
    BY <2>1 DEF Doubling
  <2>3. \A i \in 0 .. m : g[i] = IF i = 0 THEN 1 ELSE 2 * g[i - 1]
    BY <2>1 DEF Doubling
  <2>4. Rec(g)
    BY <2>2, <2>3
  <2> QED
    BY <2>4
<1>3. Rec(c)
  BY <1>2, Zenon
<1> HIDE DEF c
<1>4. \A i \in 0 .. m : c[i] = IF i = 0 THEN 1 ELSE 2 * c[i - 1]
  BY <1>3, Zenon
<1>5. c = [i \in 0 .. m |-> c[i]]
  BY <1>3, <1>4
<1>6. c[0] = 1 /\ \A n \in 1 .. m : c[n] = 2 * c[n - 1]
  BY <1>4
<1>7. \A n \in 0 .. m : c[n] \in Nat
  <2> DEFINE S == {n \in Nat : c[n] \in Nat}
  <2>1. 0 \in S
    BY <1>6
  <2>2. ASSUME NEW n \in 0 .. m, n < m, n \in S
        PROVE  n + 1 \in S
    <3>1. n + 1 \in 1 .. m /\ (n + 1) - 1 = n /\ n + 1 \in Nat
      BY <2>2
    <3>2. c[n + 1] = 2 * c[n]
      BY <1>6, <3>1
    <3> QED
      BY <2>2, <3>1, <3>2
  <2>3. \A n \in 0 .. m : n \in S
    <3> HIDE DEF S
    <3> QED
      BY <2>1, <2>2, UpTo
  <2> QED
    BY <2>3
<1>8. Doubling(c, m)
  BY <1>5, <1>6, <1>7 DEF Doubling
<1> QED
  BY <1>1, <1>8

\* What makes Pow2 the powers of two.
LEMMA Powers ==
    /\ Pow2(0) = 1
    /\ \A n \in Nat : Pow2(n) \in Nat \ {0} /\ Pow2(n + 1) = 2 * Pow2(n)
<1>1. Pow2(0) = 1
  BY Pow2Is DEF Doubling
<1>2. ASSUME NEW n \in Nat PROVE Pow2(n) \in Nat /\ Pow2(n + 1) = 2 * Pow2(n)
  <2>1. PICK g : Doubling(g, n) /\ Pow2(n) = g[n]
    BY Pow2Is
  <2>2. PICK h : Doubling(h, n + 1) /\ Pow2(n + 1) = h[n + 1]
    BY Pow2Is
  <2>3. g[n] = h[n]
    <3>1. Doubling(h, n + 1) /\ n + 1 \in Nat /\ n <= n + 1
      BY <2>2
    <3>2. \A i \in 1 .. n : i \in 1 .. n + 1
      OBVIOUS
    <3> QED
      BY <2>1, <3>1, DoublingAgrees
  <2>4. h[n + 1] = 2 * h[n] /\ g[n] \in Nat
    BY <2>1, <2>2 DEF Doubling
  <2> QED
    BY <2>1, <2>2, <2>3, <2>4
<1>3. ASSUME NEW m \in Nat PROVE Pow2(m) # 0
  <2> DEFINE S == {n \in Nat : Pow2(n) # 0}
  <2>1. 0 \in S
    BY <1>1
  <2>2. ASSUME NEW n \in 0 .. m, n < m, n \in S
        PROVE  n + 1 \in S
    BY <1>2, <2>2
  <2> HIDE DEF S
  <2>3. m \in S
    BY <2>1, <2>2, UpTo
  <2> QED
    BY <2>3 DEF S
<1> QED
  BY <1>1, <1>2, <1>3

LEMMA PowersGrow ==
    ASSUME NEW n \in Nat, NEW m \in Nat, n <= m
    PROVE  Pow2(n) <= Pow2(m)
<1> DEFINE S == {d \in Nat : Pow2(n) <= Pow2(n + d)}
<1>1. 0 \in S
  BY Powers
<1>2. ASSUME NEW d \in 0 .. m - n, d < m - n, d \in S
      PROVE  d + 1 \in S
  <2>1. n + d \in Nat /\ n + (d + 1) = (n + d) + 1 /\ d + 1 \in Nat
    OBVIOUS
  <2>2. Pow2((n + d) + 1) = 2 * Pow2(n + d) /\ Pow2(n + d) \in Nat /\ Pow2(n) \in Nat
    BY <2>1, Powers
  <2> QED
    BY <1>2, <2>1, <2>2
<1> HIDE DEF S
<1>3. m - n \in S
  <2>1. m - n \in Nat /\ m - n \in 0 .. m - n
    OBVIOUS
  <2> QED
    BY <1>1, <1>2, <2>1, UpTo
<1> QED
  BY <1>3 DEF S

Numerals == {"0", "1", "2", "3", "4", "5", "6", "7", "8", "9",
             "a", "b", "c", "d", "e", "f", "A", "B", "C", "D", "E", "F"}

\* A digit in either case stands for one value, and is no sign.
LEMMA HexFacts ==
    /\ \A i, j \in 1 .. 16 : hex_lo[i] = hex_lo[j] => i = j
    /\ \A i, j \in 1 .. 16 : hex_lo[i] = hex_up[j] => i = j
    /\ \A i, j \in 1 .. 16 : hex_up[i] = hex_up[j] => i = j
    /\ \A i \in 1 .. 16 : hex_lo[i] \in Numerals /\ hex_up[i] \in Numerals
    /\ hex_lo[1] = "0" /\ hex_up[1] = "0"
<1>1. \A i, j \in 1 .. 16 : hex_lo[i] = hex_lo[j] => i = j
  BY DEF hex_lo
<1>2. \A i, j \in 1 .. 16 : hex_lo[i] = hex_up[j] => i = j
  BY DEF hex_lo, hex_up
<1>3. \A i, j \in 1 .. 16 : hex_up[i] = hex_up[j] => i = j
  BY DEF hex_up
<1>4. \A i \in 1 .. 16 : hex_lo[i] \in Numerals /\ hex_up[i] \in Numerals
  BY DEF hex_lo, hex_up, Numerals
<1>5. hex_lo[1] = "0" /\ hex_up[1] = "0"
  BY DEF hex_lo, hex_up
<1> QED
  BY <1>1, <1>2, <1>3, <1>4, <1>5

LEMMA NumeralsAreNoSigns ==
    /\ Numerals \cap Signs = {}
    /\ "0" \in Numerals /\ "0" # "-" /\ "-" \in Signs /\ "x" \in Signs
    /\ PadSpace \in Signs /\ PadSpace # "-" /\ PadSpace # "0"
  BY Zenon DEF Numerals, Signs, PadSpace

LEMMA DigitIs ==
    ASSUME NEW hex \in {hex_lo, hex_up}, NEW i \in 0 .. 15
    PROVE  /\ hex[i + 1] \in Numerals /\ Digit(hex[i + 1]) = i
           /\ hex[i + 1] = "0" => i = 0
<1> DEFINE c == hex[i + 1]
           P(k) == k \in 0 .. 15 /\ c \in {hex_lo[k + 1], hex_up[k + 1]}
           d == CHOOSE k \in 0 .. 15 : c \in {hex_lo[k + 1], hex_up[k + 1]}
<1>1. i + 1 \in 1 .. 16
  OBVIOUS
<1>2. P(i)
  OBVIOUS
<1>3. P(d)
  BY <1>2, Zenon
<1>4. Digit(c) = d
  BY Zenon DEF Digit
<1> HIDE DEF d
<1>5. d + 1 \in 1 .. 16 /\ d \in Int
  BY <1>3
<1>6. d + 1 = i + 1
  <2>1. hex = hex_lo \/ hex = hex_up
    OBVIOUS
  <2>2. c = hex_lo[d + 1] \/ c = hex_up[d + 1]
    BY <1>3
  <2> QED
    BY <1>1, <1>5, <2>1, <2>2, HexFacts
<1>7. d = i
  BY <1>5, <1>6
<1>8. c \in Numerals
  BY <1>1, HexFacts
<1>9. c = "0" => i + 1 = 1
  <2>1. 1 \in 1 .. 16
    OBVIOUS
  <2> QED
    BY <1>1, <2>1, HexFacts
<1> QED
  BY <1>4, <1>7, <1>8, <1>9

\* One division by a base that is used.
LEMMA Division ==
    ASSUME NEW v \in Nat, NEW base \in {2, 8, 10, 16}
    PROVE  /\ v \div base \in Nat /\ v % base \in 0 .. 15 /\ v % base < base
           /\ v = (v \div base) * base + (v % base)
           /\ 2 * (v \div base) <= v /\ (base = 16 => 16 * (v \div base) <= v)
           /\ v # 0 /\ v \div base = 0 => v % base # 0
<1>1. CASE base = 2
  BY <1>1
<1>2. CASE base = 8
  BY <1>2
<1>3. CASE base = 10
  BY <1>3
<1>4. CASE base = 16
  BY <1>4
<1> QED
  BY <1>1, <1>2, <1>3, <1>4

\* The states the loop of print_uint goes through.
Turning(g, val, base, hex) ==
    /\ DOMAIN g = 0 .. LongBits
    /\ \A n \in 0 .. LongBits : g[n].val \in Nat /\ g[n].tmp \in Seq(Numerals)
    /\ g[0].val = val /\ g[0].tmp = <<>>
    /\ \A n \in 1 .. LongBits : g[n] = TakeDigit(g[n - 1], base, hex)

LEMMA TakeDigitType ==
    ASSUME NEW base \in {2, 8, 10, 16}, NEW hex \in {hex_lo, hex_up},
           NEW t \in [val : Nat, tmp : Seq(Numerals)]
    PROVE  /\ TakeDigit(t, base, hex) \in [val : Nat, tmp : Seq(Numerals)]
           /\ t.val = 0 => TakeDigit(t, base, hex) = t
           /\ t.val # 0 => /\ TakeDigit(t, base, hex).val = t.val \div base
                           /\ TakeDigit(t, base, hex).tmp = Append(t.tmp, hex[(t.val % base) + 1])
<1>1. t.val \in Nat /\ t.tmp \in Seq(Numerals)
  OBVIOUS
<1>2. t.val \div base \in Nat /\ t.val % base \in 0 .. 15
  BY <1>1, Division
<1>3. hex[(t.val % base) + 1] \in Numerals
  BY <1>2, DigitIs
<1> QED
  BY <1>1, <1>2, <1>3 DEF TakeDigit

LEMMA TurningIs ==
    ASSUME NEW val \in Nat, NEW base \in {2, 8, 10, 16}, NEW hex \in {hex_lo, hex_up}
    PROVE  \E g : Turning(g, val, base, hex) /\ Digits(val, base, hex) = g[LongBits].tmp
<1> DEFINE T == [val : Nat, tmp : Seq(Numerals)]
           a == [val |-> val, tmp |-> <<>>]
           m == LongBits
           Rec(p) == p = [n \in 0 .. m |-> IF n = 0 THEN a ELSE TakeDigit(p[n - 1], base, hex)]
           c == CHOOSE p : Rec(p)
           f == [n \in 1 .. m |-> [t \in T |-> TakeDigit(t, base, hex)]]
<1>1. m \in Nat
  BY FormatAssumption
<1>2. a \in T /\ a.val = val /\ a.tmp = <<>>
  OBVIOUS
<1>3. \A t \in T : TakeDigit(t, base, hex) \in T
  BY TakeDigitType
<1>4. Digits(val, base, hex) = c[m].tmp
  BY Zenon DEF Digits
<1> HIDE DEF T, a, m
<1>5. f \in [1 .. m -> [T -> T]] /\ \A n \in 1 .. m, t \in T : f[n][t] = TakeDigit(t, base, hex)
  BY <1>3
<1> HIDE DEF f
<1>6. \E p : Rec(p)
  <2>1. PICK g : IsRun(g, T, a, m, f)
    BY <1>1, <1>2, <1>5, Iteration
  <2>2. g \in [0 .. m -> T] /\ g[0] = a /\ \A n \in 1 .. m : g[n] = f[n][g[n - 1]]
    BY <2>1 DEF IsRun
  <2>3. \A n \in 1 .. m : g[n] = TakeDigit(g[n - 1], base, hex)
    <3>1. \A n \in 1 .. m : g[n - 1] \in T
      BY <1>1, <2>2
    <3> QED
      BY <1>5, <2>2, <3>1
  <2>4. \A n \in 0 .. m : g[n] = IF n = 0 THEN a ELSE TakeDigit(g[n - 1], base, hex)
    BY <1>1, <2>2, <2>3
  <2>5. g = [n \in 0 .. m |-> g[n]]
    BY <2>2
  <2>6. Rec(g)
    BY <2>4, <2>5
  <2> QED
    BY <2>6
<1>7. Rec(c)
  BY <1>6, Zenon
<1> HIDE DEF c
<1>8. DOMAIN c = 0 .. m /\ \A n \in 0 .. m : c[n] = IF n = 0 THEN a ELSE TakeDigit(c[n - 1], base, hex)
  BY <1>7, Zenon
<1>9. c[0] = a /\ \A n \in 1 .. m : c[n] = TakeDigit(c[n - 1], base, hex)
  BY <1>1, <1>8
<1>10. \A n \in 0 .. m : c[n] \in T
  <2> DEFINE S == {n \in Nat : c[n] \in T}
  <2>1. 0 \in S
    BY <1>2, <1>9
  <2>2. ASSUME NEW n \in 0 .. m, n < m, n \in S
        PROVE  n + 1 \in S
    <3>1. n + 1 \in 1 .. m /\ (n + 1) - 1 = n /\ n + 1 \in Nat
      BY <1>1, <2>2
    <3>2. c[n + 1] = TakeDigit(c[n], base, hex)
      BY <1>9, <3>1
    <3> QED
      BY <1>3, <2>2, <3>1, <3>2
  <2>3. \A n \in 0 .. m : n \in S
    <3> HIDE DEF S
    <3> QED
      BY <1>1, <2>1, <2>2, UpTo
  <2> QED
    BY <2>3
<1>11. Turning(c, val, base, hex)
  <2>1. \A n \in 0 .. m : c[n].val \in Nat /\ c[n].tmp \in Seq(Numerals)
    BY <1>10 DEF T
  <2> QED
    BY <1>2, <1>8, <1>9, <2>1 DEF Turning, m
<1> QED
  BY <1>4, <1>11 DEF m

\* One turn of the loop, in terms of the states before and after it.
Turned(g, n, base, hex) ==
    /\ g[n].val = 0 => g[n + 1].val = 0 /\ g[n + 1].tmp = g[n].tmp
    /\ g[n].val # 0 => /\ g[n + 1].val = g[n].val \div base
                       /\ g[n + 1].tmp = Append(g[n].tmp, hex[(g[n].val % base) + 1])
    /\ g[n].val \in Nat /\ g[n + 1].val \in Nat
    /\ g[n].tmp \in Seq(Numerals) /\ g[n + 1].tmp \in Seq(Numerals)

LEMMA OneTurning ==
    ASSUME NEW val \in Nat, NEW base \in {2, 8, 10, 16}, NEW hex \in {hex_lo, hex_up},
           NEW g, Turning(g, val, base, hex), NEW n \in 0 .. LongBits, n < LongBits
    PROVE  Turned(g, n, base, hex)
<1>1. LongBits \in Nat /\ n + 1 \in 1 .. LongBits /\ n + 1 \in 0 .. LongBits /\ (n + 1) - 1 = n
  BY FormatAssumption
<1>2. g[n + 1] = TakeDigit(g[n], base, hex)
  BY <1>1 DEF Turning
<1>3. /\ g[n].val \in Nat /\ g[n + 1].val \in Nat
      /\ g[n].tmp \in Seq(Numerals) /\ g[n + 1].tmp \in Seq(Numerals)
  BY <1>1 DEF Turning
<1>4. CASE g[n].val = 0
  BY <1>2, <1>3, <1>4 DEF TakeDigit, Turned
<1>5. CASE g[n].val # 0
  <2>1. g[n + 1] = [val |-> g[n].val \div base,
                    tmp |-> Append(g[n].tmp, hex[(g[n].val % base) + 1])]
    BY <1>2, <1>5, Zenon DEF TakeDigit
  <2> QED
    BY <1>3, <1>5, <2>1 DEF Turned
<1> QED
  BY <1>4, <1>5

LEMMA LoopShrinks ==
    ASSUME NEW val \in Nat, val < LongMod, NEW base \in {2, 8, 10, 16},
           NEW hex \in {hex_lo, hex_up}, NEW g, Turning(g, val, base, hex)
    PROVE  /\ \A n \in 0 .. LongBits : g[n].val < Pow2(LongBits - n)
           /\ base = 16 => \A n \in 0 .. LongBits :
                              4 * n <= LongBits => g[n].val < Pow2(LongBits - 4 * n)
<1>1. LongBits \in Nat
  BY FormatAssumption
<1>2. \A n \in 0 .. LongBits : g[n].val < Pow2(LongBits - n)
  <2> DEFINE S == {n \in Nat : g[n].val < Pow2(LongBits - n)}
  <2>1. 0 \in S
    BY <1>1 DEF Turning, LongMod
  <2>2. ASSUME NEW n \in 0 .. LongBits, n < LongBits, n \in S
        PROVE  n + 1 \in S
    <3> DEFINE r == LongBits - (n + 1)
               v == g[n].val
               w == g[n + 1].val
    <3>1. r \in Nat /\ LongBits - n = r + 1 /\ n + 1 \in Nat
      BY <1>1, <2>2
    <3>2. v \in Nat /\ (v = 0 => w = 0) /\ (v # 0 => w = v \div base)
      <4>1. n \in 0 .. LongBits /\ n < LongBits
        BY <2>2
      <4>2. Turned(g, n, base, hex)
        BY <4>1, OneTurning, Zenon
      <4> QED
        BY <4>2 DEF Turned
    <3>3. v < Pow2(r + 1)
      BY <2>2, <3>1
    <3> HIDE DEF r, v, w
    <3>4. Pow2(r + 1) = 2 * Pow2(r) /\ Pow2(r) \in Nat \ {0}
      BY <3>1, Powers
    <3>5. w < Pow2(r)
      <4>1. CASE v = 0
        BY <3>2, <3>4, <4>1
      <4>2. CASE v # 0
        <5>1. w \in Nat /\ 2 * w <= v
          BY <3>2, <4>2, Division
        <5> QED
          BY <3>2, <3>3, <3>4, <5>1
      <4> QED
        BY <4>1, <4>2
    <3> QED
      BY <3>1, <3>5 DEF r, w
  <2> HIDE DEF S
  <2>3. \A n \in 0 .. LongBits : n \in S
    BY <1>1, <2>1, <2>2, UpTo
  <2> QED
    BY <2>3 DEF S
<1>3. ASSUME base = 16, NEW k \in 0 .. LongBits, 4 * k <= LongBits
      PROVE  g[k].val < Pow2(LongBits - 4 * k)
  <2> DEFINE S == {n \in Nat : g[n].val < Pow2(LongBits - 4 * n)}
  <2>1. 0 \in S
    BY <1>1 DEF Turning, LongMod
  <2>2. ASSUME NEW n \in 0 .. k, n < k, n \in S
        PROVE  n + 1 \in S
    <3> DEFINE r == LongBits - 4 * (n + 1)
               v == g[n].val
               w == g[n + 1].val
    <3>1. r \in Nat /\ LongBits - 4 * n = r + 4 /\ n + 1 \in Nat
      BY <1>1, <1>3, <2>2
    <3>2. v \in Nat /\ (v = 0 => w = 0) /\ (v # 0 => w = v \div base)
      <4>1. n \in 0 .. LongBits /\ n < LongBits
        BY <1>1, <1>3, <2>2
      <4>2. Turned(g, n, base, hex)
        BY <4>1, OneTurning, Zenon
      <4> QED
        BY <4>2 DEF Turned
    <3>3. v < Pow2(r + 4)
      BY <2>2, <3>1
    <3> HIDE DEF r, v, w
    <3>4. Pow2(r + 4) = 16 * Pow2(r) /\ Pow2(r) \in Nat \ {0}
      <4>1. /\ r + 1 \in Nat /\ r + 2 \in Nat /\ r + 3 \in Nat
            /\ (r + 1) + 1 = r + 2 /\ (r + 2) + 1 = r + 3 /\ (r + 3) + 1 = r + 4
        BY <3>1
      <4>2. /\ Pow2(r) \in Nat \ {0} /\ Pow2(r + 1) = 2 * Pow2(r)
            /\ Pow2(r + 2) = 2 * Pow2(r + 1) /\ Pow2(r + 3) = 2 * Pow2(r + 2)
            /\ Pow2(r + 4) = 2 * Pow2(r + 3)
        BY <3>1, <4>1, Powers
      <4> QED
        BY <4>2
    <3>5. w < Pow2(r)
      <4>1. CASE v = 0
        BY <3>2, <3>4, <4>1
      <4>2. CASE v # 0
        <5>1. w \in Nat /\ 16 * w <= v
          BY <1>3, <3>2, <4>2, Division
        <5> QED
          BY <3>2, <3>3, <3>4, <5>1
      <4> QED
        BY <4>1, <4>2
    <3> QED
      BY <3>1, <3>5 DEF r, w
  <2> HIDE DEF S
  <2>3. k \in S
    BY <1>1, <1>3, <2>1, <2>2, UpTo
  <2> QED
    BY <2>3 DEF S
<1> QED
  BY <1>2, <1>3

\* What the loop has written after n turns: one digit for each, until nothing
\* is left of the value.
Wrote(g, t, n, base, hex) ==
    /\ t \in Seq(Numerals) /\ Len(t) \in 0 .. n
    /\ (g[n].val # 0 => Len(t) = n) /\ g[Len(t)].val = g[n].val
    /\ \A i \in 1 .. Len(t) :
          g[i - 1].val # 0 /\ t[i] = hex[(g[i - 1].val % base) + 1]

LEMMA LoopWrites ==
    ASSUME NEW val \in Nat, NEW base \in {2, 8, 10, 16},
           NEW hex \in {hex_lo, hex_up}, NEW g, Turning(g, val, base, hex),
           NEW m \in 0 .. LongBits
    PROVE  Wrote(g, g[m].tmp, m, base, hex)
<1> DEFINE P(t, n) == Wrote(g, t, n, base, hex)
           S == {n \in Nat : P(g[n].tmp, n)}
<1>1. LongBits \in Nat
  BY FormatAssumption
<1>2. 0 \in S
  BY <1>1 DEF Turning, Wrote
<1>3. ASSUME NEW n \in 0 .. m, n < m, n \in S
      PROVE  n + 1 \in S
  <2> DEFINE t == g[n].tmp
             u == g[n + 1].tmp
             c == hex[(g[n].val % base) + 1]
  <2>1. n \in 0 .. LongBits /\ n < LongBits /\ n + 1 \in Nat /\ n \in Nat
    BY <1>1, <1>3
  <2>2. /\ g[n].val = 0 => g[n + 1].val = 0 /\ u = t
        /\ g[n].val # 0 => g[n + 1].val = g[n].val \div base /\ u = Append(t, c)
        /\ t \in Seq(Numerals) /\ u \in Seq(Numerals)
    <3>1. Turned(g, n, base, hex)
      BY <2>1, OneTurning, Zenon
    <3> QED
      BY <3>1 DEF Turned
  <2>3. P(t, n)
    BY <1>3
  <2> HIDE DEF t, u, c
  <2>4. CASE g[n].val = 0
    <3>1. u = t /\ g[n + 1].val = 0
      BY <2>2, <2>4
    <3>2. Len(t) \in 0 .. n + 1 /\ g[Len(t)].val = 0
      BY <2>1, <2>3, <2>4 DEF Wrote
    <3>3. P(u, n + 1)
      BY <2>3, <3>1, <3>2 DEF Wrote
    <3> QED
      BY <2>1, <3>3 DEF u
  <2>5. CASE g[n].val # 0
    <3>1. Len(t) = n /\ u = Append(t, c)
      BY <2>2, <2>3, <2>5 DEF Wrote
    <3>2. Len(u) = n + 1
      BY <2>1, <2>2, <3>1
    <3>3. ASSUME NEW i \in 1 .. n + 1
          PROVE  g[i - 1].val # 0 /\ u[i] = hex[(g[i - 1].val % base) + 1]
      <4>1. CASE i = n + 1
        <5>1. i - 1 = n /\ u[i] = c
          BY <2>1, <2>2, <3>1, <4>1
        <5> QED
          BY <2>5, <5>1 DEF c
      <4>2. CASE i # n + 1
        <5>1. i \in 1 .. Len(t) /\ u[i] = t[i]
          BY <2>1, <2>2, <3>1, <4>2
        <5> QED
          BY <2>3, <5>1 DEF Wrote
      <4> QED
        BY <4>1, <4>2
    <3>4. P(u, n + 1)
      BY <2>1, <2>2, <3>2, <3>3 DEF Wrote
    <3> QED
      BY <2>1, <3>4 DEF u
  <2> QED
    BY <2>4, <2>5
<1> HIDE DEF S
<1>4. m \in S
  BY <1>1, <1>2, <1>3, UpTo
<1> QED
  BY <1>4 DEF S

\* The digits t, least first, are those of v: what is left of v after each.
Spells(t, v, base) ==
    /\ t \in Seq(Numerals) /\ Len(t) >= 1 /\ (Len(t) > 1 => t[Len(t)] # "0")
    /\ \A i \in 1 .. Len(t) : Digit(t[i]) \in Nat /\ Digit(t[i]) < base
    /\ \E q \in [0 .. Len(t) -> Nat] :
          /\ q[0] = v /\ q[Len(t)] = 0
          /\ \A i \in 1 .. Len(t) : q[i - 1] = q[i] * base + Digit(t[i])

LEMMA DigitsSpell ==
    ASSUME NEW v \in Nat \ {0}, v < LongMod, NEW base \in {2, 8, 10, 16},
           NEW hex \in {hex_lo, hex_up}
    PROVE  /\ Spells(Digits(v, base, hex), v, base)
           /\ base = 16 => Len(Digits(v, base, hex)) <= LongBits \div 4
<1>1. LongBits \in Nat /\ LongBits \in 0 .. LongBits /\ LongBits - LongBits = 0 /\ LongBits % 4 = 0
  BY FormatAssumption
<1>2. PICK g : Turning(g, v, base, hex) /\ Digits(v, base, hex) = g[LongBits].tmp
  BY TurningIs
<1> DEFINE t == g[LongBits].tmp
           k == Len(t)
           q == [i \in 0 .. k |-> g[i].val]
<1>3. /\ t \in Seq(Numerals) /\ k \in 0 .. LongBits /\ g[k].val = g[LongBits].val
      /\ \A i \in 1 .. k : g[i - 1].val # 0 /\ t[i] = hex[(g[i - 1].val % base) + 1]
  <2>1. v \in Nat
    OBVIOUS
  <2>2. Wrote(g, t, LongBits, base, hex)
    BY <1>1, <1>2, <2>1, LoopWrites
  <2> QED
    BY <2>2 DEF Wrote
<1>4. g[LongBits].val = 0
  <2>1. g[LongBits].val \in Nat
    BY <1>1, <1>2 DEF Turning
  <2>2. \A n \in 0 .. LongBits : g[n].val < Pow2(LongBits - n)
    <3>1. v \in Nat
      OBVIOUS
    <3> QED
      BY <1>2, <3>1, LoopShrinks, Zenon
  <2>3. g[LongBits].val < Pow2(0)
    BY <1>1, <2>2
  <2> QED
    BY <2>1, <2>3, Powers
<1> HIDE DEF t
<1>5. \A i \in 0 .. k : g[i].val \in Nat
  BY <1>1, <1>2, <1>3 DEF Turning
<1>6. ASSUME NEW i \in 1 .. k
      PROVE  LET x == g[i - 1].val
             IN  /\ x \in Nat \ {0} /\ g[i].val = x \div base /\ t[i] = hex[(x % base) + 1]
                 /\ Digit(t[i]) = x % base /\ (t[i] = "0" => x % base = 0)
  <2>1. i - 1 \in 0 .. LongBits /\ i - 1 < LongBits /\ (i - 1) + 1 = i /\ i - 1 \in 0 .. k
    <3>1. k \in 0 .. LongBits /\ i \in 1 .. k
      BY <1>3
    <3> HIDE DEF k
    <3> QED
      BY <1>1, <3>1
  <2> DEFINE x == g[i - 1].val
  <2>2. x \in Nat \ {0} /\ t[i] = hex[(x % base) + 1]
    BY <1>3, <1>5, <2>1
  <2>3. g[(i - 1) + 1].val = x \div base
    <3>1. Turned(g, i - 1, base, hex)
      <4>1. v \in Nat
        OBVIOUS
      <4> QED
        BY <1>2, <2>1, <4>1, OneTurning, Zenon
    <3> QED
      BY <2>2, <3>1 DEF Turned
  <2> HIDE DEF x
  <2>4. x % base \in 0 .. 15
    BY <2>2, Division
  <2>5. Digit(t[i]) = x % base /\ (t[i] = "0" => x % base = 0)
    BY <2>2, <2>4, DigitIs
  <2> QED
    BY <2>1, <2>2, <2>3, <2>5 DEF x
<1>7. k >= 1
  BY <1>2, <1>3, <1>4 DEF Turning
<1>8. ASSUME k > 1 PROVE t[k] # "0"
  <2> DEFINE x == g[k - 1].val
  <2>1. k \in 1 .. k
    BY <1>3, <1>7
  <2>2. x \in Nat \ {0} /\ x \div base = 0 /\ (t[k] = "0" => x % base = 0)
    BY <1>3, <1>4, <1>6, <2>1
  <2> HIDE DEF x
  <2> QED
    BY <2>2, Division
<1>9. \A i \in 1 .. k : Digit(t[i]) \in Nat /\ Digit(t[i]) < base
  <2> SUFFICES ASSUME NEW i \in 1 .. k
               PROVE  Digit(t[i]) \in Nat /\ Digit(t[i]) < base
    OBVIOUS
  <2> DEFINE x == g[i - 1].val
  <2>1. x \in Nat /\ Digit(t[i]) = x % base
    BY <1>6
  <2> HIDE DEF x
  <2> QED
    BY <2>1, Division
<1>10. q \in [0 .. k -> Nat] /\ q[0] = v /\ q[k] = 0
  BY <1>2, <1>3, <1>4, <1>5 DEF Turning
<1>11. \A i \in 1 .. k : q[i - 1] = q[i] * base + Digit(t[i])
  <2> SUFFICES ASSUME NEW i \in 1 .. k
               PROVE  q[i - 1] = q[i] * base + Digit(t[i])
    OBVIOUS
  <2> DEFINE x == g[i - 1].val
  <2>1. q[i - 1] = x /\ q[i] = g[i].val
    BY <1>3
  <2>2. x \in Nat /\ g[i].val = x \div base /\ Digit(t[i]) = x % base
    BY <1>6
  <2> HIDE DEF x, q
  <2>3. x = (x \div base) * base + (x % base)
    BY <2>2, Division
  <2> QED
    BY <2>1, <2>2, <2>3
<1> HIDE DEF q
<1>12. Spells(t, v, base)
  BY <1>3, <1>7, <1>8, <1>9, <1>10, <1>11 DEF Spells
<1>13. ASSUME base = 16 PROVE k <= LongBits \div 4
  <2> DEFINE m == LongBits \div 4
  <2>1. m \in 0 .. LongBits /\ 4 * m = LongBits /\ LongBits - 4 * m = 0 /\ 4 * m <= LongBits
    BY <1>1
  <2> HIDE DEF m
  <2>2. g[m].val < Pow2(0)
    BY <1>2, <1>13, <2>1, LoopShrinks
  <2>3. SUFFICES ASSUME m < k PROVE FALSE
    BY <1>3, <2>1 DEF m
  <2>4. m + 1 \in 1 .. k /\ (m + 1) - 1 = m
    BY <1>3, <2>1, <2>3
  <2>5. g[m].val \in Nat \ {0}
    BY <1>6, <2>4
  <2> QED
    BY <2>2, <2>5, Powers
<1> QED
  BY <1>2, <1>12, <1>13 DEF t

LEMMA ZeroSpells ==
    ASSUME NEW base \in {2, 8, 10, 16}
    PROVE  Spells(<<"0">>, 0, base)
<1>1. Digit("0") = 0
  <2>1. 0 \in 0 .. 15 /\ hex_lo \in {hex_lo, hex_up} /\ 0 + 1 = 1
    OBVIOUS
  <2>2. Digit(hex_lo[0 + 1]) = 0
    BY <2>1, DigitIs
  <2> QED
    BY <2>1, <2>2, HexFacts
<1> DEFINE t == <<"0">>
           q == [i \in 0 .. 1 |-> 0]
<1>2. t \in Seq(Numerals) /\ Len(t) = 1 /\ t[1] = "0"
  BY NumeralsAreNoSigns
<1>3. q \in [0 .. Len(t) -> Nat] /\ q[0] = 0 /\ q[Len(t)] = 0 /\ q[1] = 0
  BY <1>2
<1> HIDE DEF t, q
<1>4. \A i \in 1 .. Len(t) : i = 1 /\ i - 1 = 0
  BY <1>2
<1>5. \A i \in 1 .. Len(t) : q[i - 1] = q[i] * base + Digit(t[i])
  BY <1>1, <1>2, <1>3, <1>4
<1>6. \A i \in 1 .. Len(t) : Digit(t[i]) \in Nat /\ Digit(t[i]) < base
  BY <1>1, <1>2, <1>4
<1>7. Spells(t, 0, base)
  <2>1. \E r \in [0 .. Len(t) -> Nat] :
            /\ r[0] = 0 /\ r[Len(t)] = 0
            /\ \A i \in 1 .. Len(t) : r[i - 1] = r[i] * base + Digit(t[i])
    BY <1>3, <1>5, Zenon
  <2>2. Len(t) >= 1 /\ ~(Len(t) > 1)
    BY <1>2
  <2> QED
    BY <1>2, <1>6, <2>1, <2>2, Zenon DEF Spells
<1> QED
  BY <1>7 DEF t

\* What a reader has after each character of s, and makes of it.
ReadsAlong(h, s, base) ==
    /\ h[0] = 0
    /\ \A n \in 1 .. Len(s) :
          /\ s[n] \in Signs => h[n] = h[n - 1]
          /\ s[n] \notin Signs => h[n] = h[n - 1] * base + Digit(s[n])
    /\ ReadBack(s, base) = IF s[1] = "-" THEN -h[Len(s)] ELSE h[Len(s)]

Readable(s, base) ==
    /\ Len(s) \in Nat
    /\ \A n \in 1 .. Len(s) : s[n] \notin Signs => Digit(s[n]) \in Nat /\ Digit(s[n]) < base
    /\ \E n \in 1 .. Len(s) : s[n] \notin Signs

LEMMA ReadIs ==
    ASSUME NEW s, NEW base \in Nat, Readable(s, base)
    PROVE  \E h : ReadsAlong(h, s, base)
<1> DEFINE m == Len(s)
           Turn(x, n) == IF s[n] \in Signs THEN x ELSE x * base + Digit(s[n])
           Rec(p) == p = [n \in 0 .. m |->
                            IF n = 0 THEN 0
                            ELSE IF s[n] \in Signs THEN p[n - 1]
                            ELSE p[n - 1] * base + Digit(s[n])]
           c == CHOOSE p : Rec(p)
           D == {n \in 1 .. m : s[n] \notin Signs}
           f == [n \in 1 .. m |-> [x \in Nat |-> Turn(x, n)]]
<1>0. /\ m \in Nat
      /\ \A n \in 1 .. m : s[n] \notin Signs => Digit(s[n]) \in Nat /\ Digit(s[n]) < base
      /\ \E n \in 1 .. m : s[n] \notin Signs
  BY DEF Readable
<1>1. ReadBack(s, base) = IF D # {} /\ \A n \in D : Digit(s[n]) < base
                          THEN IF s[1] = "-" THEN -c[m] ELSE c[m]
                          ELSE LongMod
  BY Zenon DEF ReadBack
<1>2. D # {} /\ \A n \in D : Digit(s[n]) < base
  BY <1>0
<1>3. ReadBack(s, base) = IF s[1] = "-" THEN -c[m] ELSE c[m]
  BY <1>1, <1>2, Zenon
<1>4. \A n \in 1 .. m, x \in Nat : Turn(x, n) \in Nat
  <2> SUFFICES ASSUME NEW n \in 1 .. m, NEW x \in Nat PROVE Turn(x, n) \in Nat
    OBVIOUS
  <2>1. CASE s[n] \in Signs
    BY <2>1
  <2>2. CASE s[n] \notin Signs
    <3>1. Digit(s[n]) \in Nat /\ x * base \in Nat
      BY <1>0, <2>2
    <3> QED
      BY <2>2, <3>1
  <2> QED
    BY <2>1, <2>2
<1>5. f \in [1 .. m -> [Nat -> Nat]] /\ \A n \in 1 .. m, x \in Nat : f[n][x] = Turn(x, n)
  <2> HIDE DEF Turn
  <2> QED
    BY <1>4
<1> HIDE DEF f
<1>6. \E p : Rec(p)
  <2>1. PICK g : IsRun(g, Nat, 0, m, f)
    BY <1>0, <1>5, Iteration
  <2>2. g \in [0 .. m -> Nat] /\ g[0] = 0 /\ \A n \in 1 .. m : g[n] = f[n][g[n - 1]]
    BY <2>1 DEF IsRun
  <2>3. \A n \in 1 .. m : g[n] = Turn(g[n - 1], n)
    <3>1. \A n \in 1 .. m : g[n - 1] \in Nat
      BY <1>0, <2>2
    <3> HIDE DEF Turn
    <3> QED
      BY <1>5, <2>2, <3>1
  <2>4. \A n \in 0 .. m : g[n] = IF n = 0 THEN 0 ELSE Turn(g[n - 1], n)
    <3> HIDE DEF Turn
    <3> QED
      BY <1>0, <2>2, <2>3
  <2>5. g = [n \in 0 .. m |-> g[n]]
    BY <2>2
  <2>6. Rec(g)
    BY <2>4, <2>5
  <2> QED
    BY <2>6
<1>7. Rec(c)
  BY <1>6, Zenon
<1> HIDE DEF c
<1>8. \A n \in 0 .. m : c[n] = IF n = 0 THEN 0 ELSE Turn(c[n - 1], n)
  BY <1>7, Zenon
<1>9. c[0] = 0 /\ \A n \in 1 .. m : c[n] = Turn(c[n - 1], n)
  <2> HIDE DEF Turn
  <2> QED
    BY <1>0, <1>8
<1>10. ReadsAlong(c, s, base)
  BY <1>3, <1>9, Zenon DEF ReadsAlong
<1> QED
  BY <1>10

\* Signs and zeros, then the digits of v, most significant first: v, or -v
\* after a minus.
Fronts == Seq(Signs \cup {"0"})
Says(s, v, base, front, t) ==
    /\ ReadBack(s, base) = IF s[1] = "-" THEN -v ELSE v
    /\ Len(s) = Len(front) + Len(t)
    /\ \A n \in 1 .. Len(front) : s[n] = front[n]
    /\ s[Len(front) + 1] = t[Len(t)]

LEMMA SpelledReads ==
    ASSUME NEW v \in Nat, NEW base \in {2, 8, 10, 16}, NEW t, Spells(t, v, base),
           NEW front \in Fronts
    PROVE  Says(front \o Reverse(t), v, base, front, t)
<1> DEFINE k == Len(t)
           l == Len(front)
           r == Reverse(t)
           s == front \o r
<1>0. front \in Seq(Signs \cup {"0"})
  BY DEF Fronts
<1>1. /\ t \in Seq(Numerals) /\ k >= 1 /\ k \in Nat /\ l \in Nat
      /\ \A i \in 1 .. k : t[i] \in Numerals /\ Digit(t[i]) \in Nat /\ Digit(t[i]) < base
  BY <1>0 DEF Spells
<1>2. PICK q \in [0 .. k -> Nat] : /\ q[0] = v /\ q[k] = 0
                                   /\ \A i \in 1 .. k : q[i - 1] = q[i] * base + Digit(t[i])
  BY Zenon DEF Spells
<1>3. r = [i \in 1 .. k |-> t[(k - i) + 1]]
  BY Zenon DEF Reverse
<1>4. r \in Seq(Numerals) /\ Len(r) = k /\ \A i \in 1 .. k : r[i] = t[(k - i) + 1]
  BY <1>1, <1>3
<1> HIDE DEF r
<1>5. /\ Len(s) = l + k /\ Len(s) \in Nat
      /\ \A n \in 1 .. l : s[n] = front[n] /\ s[n] \in Signs \cup {"0"}
      /\ \A n \in l + 1 .. l + k : s[n] = r[n - l]
  <2> DEFINE A == Signs \cup {"0"} \cup Numerals
  <2>1. front \in Seq(A) /\ r \in Seq(A)
    BY <1>0, <1>4
  <2> HIDE DEF A
  <2>2. /\ Len(s) = l + Len(r)
        /\ \A n \in 1 .. l + Len(r) : s[n] = IF n <= l THEN front[n] ELSE r[n - l]
    BY <2>1, ConcatProperties, Zenon
  <2> HIDE DEF s
  <2>3. /\ Len(s) = l + k /\ Len(s) \in Nat
        /\ \A n \in 1 .. Len(s) : s[n] = IF n <= l THEN front[n] ELSE r[n - l]
    BY <1>1, <1>4, <2>2
  <2>4. \A n \in 1 .. l : n \in 1 .. Len(s) /\ n <= l /\ front[n] \in Signs \cup {"0"}
    BY <1>0, <1>1, <2>3
  <2>5. \A n \in l + 1 .. l + k : n \in 1 .. Len(s) /\ ~(n <= l)
    BY <1>1, <2>3
  <2> QED
    BY <2>3, <2>4, <2>5
<1> HIDE DEF s
<1>6. \A n \in l + 1 .. l + k : /\ (k - (n - l)) + 1 \in 1 .. k
                                /\ s[n] = t[(k - (n - l)) + 1] /\ s[n] \notin Signs
  <2> SUFFICES ASSUME NEW n \in l + 1 .. l + k
               PROVE  /\ (k - (n - l)) + 1 \in 1 .. k
                      /\ s[n] = t[(k - (n - l)) + 1] /\ s[n] \notin Signs
    OBVIOUS
  <2>1. n - l \in 1 .. k /\ (k - (n - l)) + 1 \in 1 .. k
    BY <1>1
  <2>2. s[n] = t[(k - (n - l)) + 1]
    BY <1>4, <1>5, <2>1
  <2> QED
    BY <1>1, <2>1, <2>2, NumeralsAreNoSigns
<1>7. Digit("0") = 0
  <2>1. 0 \in 0 .. 15 /\ hex_lo \in {hex_lo, hex_up} /\ 0 + 1 = 1
    OBVIOUS
  <2>2. Digit(hex_lo[0 + 1]) = 0
    BY <2>1, DigitIs
  <2> QED
    BY <2>1, <2>2, HexFacts
<1>8. \A n \in 1 .. Len(s) : s[n] \notin Signs => Digit(s[n]) \in Nat /\ Digit(s[n]) < base
  <2> SUFFICES ASSUME NEW n \in 1 .. Len(s), s[n] \notin Signs
               PROVE  Digit(s[n]) \in Nat /\ Digit(s[n]) < base
    OBVIOUS
  <2>1. n \in 1 .. l \/ n \in l + 1 .. l + k
    BY <1>1, <1>5
  <2>2. CASE n \in 1 .. l
    BY <1>5, <1>7, <2>2
  <2>3. CASE n \in l + 1 .. l + k
    BY <1>1, <1>6, <2>3
  <2> QED
    BY <2>1, <2>2, <2>3
<1>9. l + k \in 1 .. Len(s) /\ l + k \in l + 1 .. l + k /\ base \in Nat
  BY <1>1, <1>5
<1>10. PICK h : ReadsAlong(h, s, base)
  <2>1. \E n \in 1 .. Len(s) : s[n] \notin Signs
    BY <1>6, <1>9
  <2>2. Readable(s, base)
    BY <1>5, <1>8, <2>1 DEF Readable
  <2> QED
    BY <1>9, <2>2, ReadIs
<1>11. \A n \in 1 .. Len(s) : /\ s[n] \in Signs => h[n] = h[n - 1]
                              /\ s[n] \notin Signs => h[n] = h[n - 1] * base + Digit(s[n])
  BY <1>10 DEF ReadsAlong
<1>12. h[l] = 0
  <2> DEFINE S == {n \in Nat : h[n] = 0}
  <2>1. 0 \in S
    BY <1>10 DEF ReadsAlong
  <2>2. ASSUME NEW n \in 0 .. l, n < l, n \in S
        PROVE  n + 1 \in S
    <3>1. n + 1 \in 1 .. l /\ n + 1 \in 1 .. Len(s) /\ (n + 1) - 1 = n /\ n + 1 \in Nat /\ h[n] = 0
      BY <1>1, <1>5, <2>2
    <3>2. s[n + 1] \in Signs \/ s[n + 1] = "0"
      BY <1>5, <3>1
    <3>3. h[n + 1] = 0
      <4>1. CASE s[n + 1] \in Signs
        BY <1>11, <3>1, <4>1
      <4>2. CASE s[n + 1] = "0" /\ s[n + 1] \notin Signs
        <5>1. h[n + 1] = 0 * base + 0
          BY <1>7, <1>11, <3>1, <4>2
        <5> QED
          BY <1>9, <5>1
      <4> QED
        BY <3>2, <4>1, <4>2
    <3> QED
      BY <3>1, <3>3
  <2> HIDE DEF S
  <2>3. l \in 0 .. l
    BY <1>1
  <2>4. \A n \in 0 .. l : n < l /\ n \in S => n + 1 \in S
    BY <2>2, Zenon
  <2>5. l \in S
    BY <1>1, <2>1, <2>3, <2>4, UpTo, Zenon
  <2> QED
    BY <2>5 DEF S
<1>13. h[l + k] = q[0]
  <2> DEFINE S == {n \in Nat : h[l + n] = q[k - n]}
  <2>1. 0 \in S
    BY <1>1, <1>2, <1>12
  <2>2. ASSUME NEW n \in 0 .. k, n < k, n \in S
        PROVE  n + 1 \in S
    <3> DEFINE j == l + (n + 1)
               i == k - n
    <3>1. /\ j \in l + 1 .. l + k /\ j \in 1 .. Len(s) /\ j - 1 = l + n
          /\ i \in 1 .. k /\ (k - (j - l)) + 1 = i /\ i - 1 = k - (n + 1) /\ n + 1 \in Nat
      BY <1>1, <1>5, <2>2
    <3>2. h[l + n] = q[i]
      BY <2>2
    <3> HIDE DEF i, j
    <3>3. s[j] = t[i] /\ s[j] \notin Signs
      BY <1>6, <3>1
    <3>4. h[j] = h[j - 1] * base + Digit(s[j])
      BY <1>11, <3>1, <3>3
    <3>5. h[j] = q[i] * base + Digit(t[i])
      BY <3>1, <3>2, <3>3, <3>4
    <3>6. h[j] = q[i - 1]
      BY <1>2, <3>1, <3>5
    <3> QED
      BY <3>1, <3>6 DEF j
  <2> HIDE DEF S
  <2>3. k \in 0 .. k
    BY <1>1
  <2>4. \A n \in 0 .. k : n < k /\ n \in S => n + 1 \in S
    BY <2>2, Zenon
  <2>5. k \in S
    BY <1>1, <2>1, <2>3, <2>4, UpTo, Zenon
  <2>6. k - k = 0
    BY <1>1
  <2> QED
    BY <2>5, <2>6 DEF S
<1>14. h[Len(s)] = v
  BY <1>2, <1>5, <1>13
<1>15. s[l + 1] = t[k]
  <2>1. l + 1 \in l + 1 .. l + k /\ (k - ((l + 1) - l)) + 1 = k
    BY <1>1
  <2> QED
    BY <1>6, <2>1
<1> QED
  BY <1>5, <1>10, <1>14, <1>15 DEF ReadsAlong, Says, s, r

\* A text that says val in at least width characters, and in no more than it
\* needs if they are more.
Reads(s, val, base, width) ==
    /\ ReadBack(s, base) = val
    /\ Len(s) >= width
    /\ (Len(s) > width /\ Len(s) > 1) => s[1] \notin {"0", PadSpace}

LEMMA PadIs ==
    ASSUME NEW n \in Int, NEW pad \in {PadSpace, "0"}
    PROVE  /\ Pad(n, pad) \in Fronts
           /\ Len(Pad(n, pad)) = IF n > 0 THEN n ELSE 0
           /\ n > 0 => Pad(n, pad)[1] = pad
           /\ n <= 0 => Pad(n, pad) = <<>>
<1>1. pad \in Signs \cup {"0"}
  BY NumeralsAreNoSigns
<1>2. CASE n > 0
  BY <1>1, <1>2 DEF Pad, Fronts
<1>3. CASE ~(n > 0)
  <2>1. 1 .. n = {}
    BY <1>3
  <2>2. Pad(n, pad) = <<>>
    BY <2>1 DEF Pad
  <2> QED
    BY <1>3, <2>2 DEF Fronts
<1> QED
  BY <1>2, <1>3

\* The digits t, as print_uint writes them.
Printed(s, t, v, base, width, pad) ==
    /\ Spells(t, v, base) /\ (base = 16 => Len(t) <= LongBits \div 4)
    /\ s = Pad(width - Len(t), pad) \o Reverse(t)

LEMMA UintIs ==
    ASSUME NEW v \in Nat, v < LongMod, NEW base \in {2, 8, 10, 16}, NEW width, NEW pad,
           NEW upper \in BOOLEAN
    PROVE  \E t : Printed(print_uint(v, base, width, pad, upper), t, v, base, width, pad)
<1> DEFINE hex == IF upper THEN hex_up ELSE hex_lo
           t == IF v = 0 THEN <<"0">> ELSE Digits(v, base, hex)
<1>1. hex \in {hex_lo, hex_up}
  OBVIOUS
<1>2. print_uint(v, base, width, pad, upper) = Pad(width - Len(t), pad) \o Reverse(t)
  BY Zenon DEF print_uint
<1> HIDE DEF hex
<1>3. Spells(t, v, base) /\ (base = 16 => Len(t) <= LongBits \div 4)
  <2>1. CASE v = 0
    <3>1. t = <<"0">> /\ Len(<<"0">>) = 1
      BY <2>1
    <3>2. LongBits \div 4 >= 1
      BY FormatAssumption
    <3> QED
      BY <2>1, <3>1, <3>2, ZeroSpells
  <2>2. CASE v # 0
    <3>1. v \in Nat \ {0} /\ t = Digits(v, base, hex)
      BY <2>2
    <3> HIDE DEF t
    <3> QED
      BY <1>1, <3>1, DigitsSpell
  <2> QED
    BY <2>1, <2>2
<1> HIDE DEF t
<1> QED
  BY <1>2, <1>3, Zenon DEF Printed

LEMMA UintReads ==
    ASSUME NEW v \in Nat, v < LongMod, NEW base \in {2, 8, 10, 16}, NEW width \in Nat,
           NEW pad \in {PadSpace, "0"}, NEW upper \in BOOLEAN
    PROVE  Reads(print_uint(v, base, width, pad, upper), v, base, width)
<1> DEFINE s == print_uint(v, base, width, pad, upper)
<1>1. PICK t : Printed(s, t, v, base, width, pad)
  BY UintIs
<1> DEFINE front == Pad(width - Len(t), pad)
<1> HIDE DEF s
<1>2. t \in Seq(Numerals) /\ Len(t) \in Nat /\ Len(t) >= 1 /\ t[Len(t)] \in Numerals
      /\ (Len(t) > 1 => t[Len(t)] # "0")
  BY <1>1 DEF Printed, Spells
<1>3. /\ front \in Fronts
      /\ Len(front) = IF width - Len(t) > 0 THEN width - Len(t) ELSE 0
      /\ width - Len(t) > 0 => front[1] = pad
  <2>1. width - Len(t) \in Int
    BY <1>2
  <2> QED
    BY <2>1, PadIs
<1> HIDE DEF front
<1>4. /\ ReadBack(s, base) = IF s[1] = "-" THEN -v ELSE v
      /\ Len(s) = Len(front) + Len(t)
      /\ \A n \in 1 .. Len(front) : s[n] = front[n]
      /\ s[Len(front) + 1] = t[Len(t)]
  <2>1. Spells(t, v, base) /\ s = front \o Reverse(t)
    BY <1>1, Zenon DEF front, Printed
  <2>2. Says(s, v, base, front, t)
    BY <1>3, <2>1, SpelledReads
  <2> QED
    BY <2>2, Zenon DEF Says
<1>5. ASSUME width - Len(t) > 0 PROVE Reads(s, v, base, width)
  <2>1. s[1] = pad /\ pad # "-" /\ Len(s) = width
    BY <1>2, <1>3, <1>4, <1>5, NumeralsAreNoSigns
  <2> QED
    BY <1>4, <2>1 DEF Reads
<1>6. ASSUME ~(width - Len(t) > 0) PROVE Reads(s, v, base, width)
  <2>1. s[1] = t[Len(t)] /\ Len(s) = Len(t) /\ Len(s) >= width
    BY <1>2, <1>3, <1>4, <1>6
  <2>2. s[1] # "-" /\ s[1] # PadSpace
    BY <1>2, <2>1, NumeralsAreNoSigns
  <2> QED
    BY <1>2, <1>4, <2>1, <2>2 DEF Reads
<1> QED
  BY <1>5, <1>6 DEF s

\* What comes before the text of print_uint.
Follows(s, p, v, base, width) ==
    /\ ReadBack(s, base) = IF p[1] = "-" THEN -v ELSE v
    /\ s[1] = p[1] /\ Len(s) \in Nat /\ Len(s) >= Len(p) + width
    /\ base = 16 /\ width = LongBits \div 4 => Len(s) = Len(p) + width

LEMMA Prefixed ==
    ASSUME NEW v \in Nat, v < LongMod, NEW base \in {2, 8, 10, 16}, NEW width \in Nat,
           NEW pad \in {PadSpace, "0"}, NEW p \in Fronts, Len(p) >= 1,
           NEW s, s = p \o print_uint(v, base, width, pad, FALSE)
    PROVE  Follows(s, p, v, base, width)
<1>0. FALSE \in BOOLEAN
  OBVIOUS
<1>1. PICK t : Printed(print_uint(v, base, width, pad, FALSE), t, v, base, width, pad)
  BY <1>0, UintIs
<1> DEFINE f == Pad(width - Len(t), pad)
           front == p \o f
           r == Reverse(t)
<1>2. t \in Seq(Numerals) /\ Len(t) \in Nat /\ Len(t) >= 1
  BY <1>1 DEF Printed, Spells
<1>3. /\ f \in Fronts
      /\ Len(f) = IF width - Len(t) > 0 THEN width - Len(t) ELSE 0
  <2>1. width - Len(t) \in Int
    BY <1>2
  <2> QED
    BY <2>1, PadIs
<1>4. r \in Seq(Numerals)
  BY <1>2 DEF Reverse
<1> HIDE DEF f, r
<1>5. s = front \o r
  <2> DEFINE A == Signs \cup {"0"} \cup Numerals
  <2>1. p \in Seq(A) /\ f \in Seq(A) /\ r \in Seq(A)
    BY <1>3, <1>4 DEF Fronts
  <2> HIDE DEF A
  <2>2. (p \o f) \o r = p \o (f \o r)
    <3>1. \A a, b, c \in Seq(A) : (a \o b) \o c = a \o (b \o c)
      BY ConcatAssociative, SMTT(40)
    <3> QED
      BY <2>1, <3>1, Zenon
  <2> QED
    BY <1>1, <2>2, Zenon DEF f, r, Printed
<1>6. /\ front \in Fronts /\ Len(front) = Len(p) + Len(f)
      /\ Len(p) \in Nat /\ Len(f) \in Nat /\ front[1] = p[1]
  BY <1>3 DEF Fronts
<1> HIDE DEF front
<1>7. /\ ReadBack(s, base) = IF s[1] = "-" THEN -v ELSE v
      /\ Len(s) = Len(front) + Len(t)
      /\ \A n \in 1 .. Len(front) : s[n] = front[n]
  <2>1. Spells(t, v, base) /\ s = front \o Reverse(t)
    BY <1>1, <1>5, Zenon DEF r, Printed
  <2>2. Says(s, v, base, front, t)
    BY <1>6, <2>1, SpelledReads
  <2> QED
    BY <2>2, Zenon DEF Says
<1>8. s[1] = p[1]
  <2>1. 1 \in 1 .. Len(front)
    BY <1>6
  <2> QED
    BY <1>6, <1>7, <2>1
<1> QED
  <2>1. base = 16 => Len(t) <= LongBits \div 4
    BY <1>1 DEF Printed
  <2> DEFINE a == Len(p)
             b == Len(f)
             c == Len(t)
             d == Len(s)
             k == LongBits \div 4
  <2>2. /\ a \in Nat /\ b \in Nat /\ c \in Nat /\ d = (a + b) + c /\ k \in Int
        /\ b = IF width - c > 0 THEN width - c ELSE 0
        /\ base = 16 => c <= k
    <3>1. k \in Int
      BY FormatAssumption
    <3>2. a \in Nat /\ b \in Nat /\ c \in Nat
      BY <1>2, <1>6
    <3>3. d = (a + b) + c
      BY <1>6, <1>7
    <3> QED
      BY <1>3, <2>1, <3>1, <3>2, <3>3
  <2> HIDE DEF a, b, c, d, k
  <2>3. d \in Nat /\ d >= a + width /\ (base = 16 /\ width = k => d = a + width)
    BY <2>2
  <2> QED
    BY <1>7, <1>8, <2>3, Zenon DEF Follows, a, d, k

LEMMA UtoaReads ==
    ASSUME NEW v \in Nat, v < LongMod, NEW base \in {2, 10, 16}
    PROVE  \E t : Spells(t, v, base) /\ utoa(v, base) = Reverse(t)
<1>1. base \in 2 .. 16 /\ base \in {2, 8, 10, 16}
  OBVIOUS
<1>2. CASE v = 0
  <2>1. utoa(v, base) = <<"0">>
    BY <1>1, <1>2 DEF utoa
  <2>2. Reverse(<<"0">>) = <<"0">>
    BY DEF Reverse
  <2> QED
    BY <1>1, <1>2, <2>1, <2>2, ZeroSpells
<1>3. CASE v # 0
  <2>1. utoa(v, base) = Reverse(Digits(v, base, hex_lo))
    BY <1>1, <1>3, Zenon DEF utoa
  <2>2. v \in Nat \ {0} /\ hex_lo \in {hex_lo, hex_up}
    BY <1>3
  <2>3. Spells(Digits(v, base, hex_lo), v, base)
    BY <1>1, <2>2, DigitsSpell
  <2> QED
    BY <2>1, <2>3
<1> QED
  BY <1>2, <1>3

\* The argument of a conversion, and what print_int and itoa make of a minus.
LEMMA Ranges ==
    ASSUME NEW v \in Longs
    PROVE  /\ v \in Int /\ U(v) \in 0 .. LongMod - 1
           /\ v >= 0 => U(v) = v
           /\ v < 0 => U(Neg(v)) = -v /\ -v \in 0 .. LongMod - 1
           /\ \A long \in BOOLEAN : Signed(v, long) \in Longs
           /\ \A long \in BOOLEAN : Unsigned(v, long) \in 0 .. LongMod - 1
<1> DEFINE h == Pow2(LongBits - 1)
           j == Pow2(IntBits - 1)
<1>1. /\ LongBits - 1 \in Nat /\ (LongBits - 1) + 1 = LongBits
      /\ IntBits - 1 \in Nat /\ (IntBits - 1) + 1 = IntBits
      /\ IntBits - 1 <= LongBits - 1
  BY FormatAssumption
<1>2. h \in Nat \ {0} /\ LongMod = 2 * h /\ j \in Nat \ {0} /\ IntMod = 2 * j
  <2>1. Pow2((LongBits - 1) + 1) = 2 * h /\ Pow2((IntBits - 1) + 1) = 2 * j
    BY <1>1, Powers
  <2> QED
    BY <1>1, <2>1, Powers DEF LongMod, IntMod
<1>3. j <= h
  BY <1>1, PowersGrow
<1>4. Longs = -h .. h - 1
  BY DEF Longs
<1> HIDE DEF h, j
<1>5. v \in Int /\ -h <= v /\ v <= h - 1
  BY <1>2, <1>4
<1>6. LongMod \in Nat \ {0} /\ IntMod \in Nat \ {0} /\ IntMod <= LongMod
  BY <1>2, <1>3
<1>7. U(v) \in 0 .. LongMod - 1 /\ (v >= 0 => U(v) = v)
  <2>1. v \in Int /\ (v >= 0 => v \in 0 .. LongMod - 1)
    BY <1>2, <1>5
  <2> QED
    BY <1>6, <2>1, OneTurn DEF U
<1>8. ASSUME v < 0 PROVE U(Neg(v)) = -v /\ -v \in 0 .. LongMod - 1
  <2>1. -v \in 0 .. LongMod - 1 /\ v \in -LongMod .. -1
    BY <1>2, <1>5, <1>8
  <2>2. CASE -v \in Longs
    <3>1. Neg(v) = -v
      BY <2>2 DEF Neg
    <3>2. -v \in Int
      BY <1>5
    <3>3. (-v) % LongMod = -v
      BY <1>6, <2>1, <3>2, OneTurn
    <3> QED
      BY <2>1, <3>1, <3>3 DEF U
  <2>3. CASE -v \notin Longs
    <3>1. Neg(v) = v
      BY <2>3 DEF Neg
    <3>2. v = -h
      BY <1>2, <1>4, <1>5, <1>8, <2>3
    <3>3. v % LongMod = v + LongMod
      BY <1>5, <1>6, <2>1, OneTurn
    <3>4. v + LongMod = -v
      BY <1>2, <3>2
    <3> QED
      BY <2>1, <3>1, <3>3, <3>4 DEF U
  <2> QED
    BY <2>2, <2>3
<1> DEFINE u == v % IntMod
<1>9. u \in 0 .. IntMod - 1
  BY <1>5, <1>6, OneTurn
<1>10. AsInt(v) \in Longs
  <2>1. AsInt(v) = IF u < j THEN u ELSE u - IntMod
    BY DEF AsInt, j
  <2> HIDE DEF u
  <2> QED
    BY <1>2, <1>3, <1>4, <1>9, <2>1
<1>11. u \in 0 .. LongMod - 1
  <2> HIDE DEF u
  <2> QED
    BY <1>6, <1>9
<1> QED
  BY <1>5, <1>7, <1>8, <1>10, <1>11 DEF Signed, Unsigned

LEMMA IntReads ==
    ASSUME NEW v \in Longs, NEW width \in Nat, NEW pad \in {PadSpace, "0"}
    PROVE  Reads(print_int(v, width, pad), v, 10, width)
<1>1. CASE v < 0
  <2> DEFINE w == IF width > 0 THEN width - 1 ELSE width
             x == -v
             minus == <<"-">>
             s == minus \o print_uint(x, 10, w, pad, FALSE)
  <2>1. x \in Nat /\ x < LongMod /\ U(Neg(v)) = x /\ -x = v
    <3>1. v \in Int /\ U(Neg(v)) = -v /\ -v \in 0 .. LongMod - 1
      BY <1>1, Ranges
    <3>2. LongMod \in Nat
      BY Powers, FormatAssumption DEF LongMod
    <3> QED
      BY <3>1, <3>2
  <2>2. print_int(v, width, pad) = s
    <3>1. print_int(v, width, pad) = minus \o print_uint(U(Neg(v)), 10, w, pad, FALSE)
      BY <1>1, Zenon DEF print_int
    <3> QED
      BY <2>1, <3>1, Zenon
  <2>3. w \in Nat /\ 1 + w >= width
    OBVIOUS
  <2>4. minus \in Fronts /\ Len(minus) = 1 /\ minus[1] = "-"
    BY NumeralsAreNoSigns DEF Fronts
  <2> HIDE DEF w, x, minus
  <2>5. Follows(s, minus, x, 10, w)
    <3>1. 10 \in {2, 8, 10, 16} /\ Len(minus) >= 1
      BY <2>4
    <3> QED
      BY <2>1, <2>3, <2>4, <3>1, Prefixed
  <2> HIDE DEF s
  <2>6. ReadBack(s, 10) = v /\ s[1] = "-" /\ Len(s) >= width
    BY <2>1, <2>3, <2>4, <2>5 DEF Follows
  <2>7. s[1] \notin {"0", PadSpace}
    BY <2>6, NumeralsAreNoSigns
  <2>8. Reads(s, v, 10, width)
    BY <2>6, <2>7 DEF Reads
  <2> QED
    BY <2>2, <2>8
<1>2. CASE ~(v < 0)
  <2>1. v \in Nat /\ U(v) = v /\ v \in 0 .. LongMod - 1
    BY <1>2, Ranges
  <2>2. v < LongMod /\ 10 \in {2, 8, 10, 16} /\ FALSE \in BOOLEAN
    BY <2>1, Powers, FormatAssumption DEF LongMod
  <2>3. print_int(v, width, pad) = print_uint(U(v), 10, width, pad, FALSE)
    BY <1>2, Zenon DEF print_int
  <2>4. Reads(print_uint(v, 10, width, pad, FALSE), v, 10, width)
    BY <2>1, <2>2, UintReads
  <2> QED
    BY <2>1, <2>3, <2>4
<1> QED
  BY <1>1, <1>2

LEMMA PointerReads ==
    ASSUME NEW v \in Nat, v < LongMod
    PROVE  Reads(<<"0", "x">> \o print_uint(v, 16, LongBits \div 4, "0", FALSE), v, 16,
                 2 + LongBits \div 4)
<1> DEFINE ox == <<"0", "x">>
           w == LongBits \div 4
           s == ox \o print_uint(v, 16, w, "0", FALSE)
<1>1. w \in Nat /\ w = LongBits \div 4
  BY FormatAssumption
<1>2. ox \in Fronts /\ Len(ox) = 2 /\ ox[1] = "0" /\ "0" # "-"
  BY NumeralsAreNoSigns DEF Fronts
<1> HIDE DEF ox, w
<1>3. Follows(s, ox, v, 16, w)
  <2>1. 16 \in {2, 8, 10, 16} /\ Len(ox) >= 1 /\ "0" \in {PadSpace, "0"}
    BY <1>2
  <2> QED
    BY <1>1, <1>2, <2>1, Prefixed
<1> HIDE DEF s
<1>4. ReadBack(s, 16) = v /\ Len(s) = 2 + w
  BY <1>1, <1>2, <1>3 DEF Follows
<1>5. Reads(s, v, 16, 2 + w)
  BY <1>1, <1>4 DEF Reads
<1> QED
  BY <1>5 DEF s, ox, w

LEMMA ItoaReads ==
    ASSUME NEW v \in Longs, NEW base \in {2, 10, 16}
    PROVE  Reads(itoa(v, base), IF base = 10 THEN v ELSE U(v), base, 0)
<1>1. base \in {2, 8, 10, 16} /\ LongMod \in Nat
  BY Powers, FormatAssumption DEF LongMod
<1>2. CASE base = 10 /\ v < 0
  <2> DEFINE x == -v
             minus == <<"-">>
  <2>1. v \in Int /\ U(Neg(v)) = x /\ x \in 0 .. LongMod - 1
    BY <1>2, Ranges
  <2>2. x \in Nat /\ x < LongMod /\ -x = v
    BY <1>1, <2>1
  <2>3. itoa(v, base) = minus \o utoa(x, base)
    BY <1>2, <2>1, Zenon DEF itoa
  <2> HIDE DEF x
  <2>4. PICK t : Spells(t, x, base) /\ utoa(x, base) = Reverse(t)
    BY <2>2, UtoaReads
  <2> DEFINE s == minus \o Reverse(t)
  <2>5. minus \in Fronts /\ Len(minus) = 1 /\ minus[1] = "-"
    BY NumeralsAreNoSigns DEF Fronts
  <2> HIDE DEF minus
  <2>6. Says(s, x, base, minus, t)
    BY <1>1, <2>2, <2>4, <2>5, SpelledReads
  <2>7. Len(t) \in Nat /\ Len(t) >= 1
    BY <2>4 DEF Spells
  <2> HIDE DEF s
  <2>8. s[1] = "-" /\ ReadBack(s, base) = v /\ Len(s) \in Nat
    BY <2>2, <2>5, <2>6, <2>7 DEF Says
  <2>9. s[1] \notin {"0", PadSpace}
    BY <2>8, NumeralsAreNoSigns
  <2>10. Reads(s, v, base, 0)
    BY <2>8, <2>9 DEF Reads
  <2> QED
    BY <1>2, <2>3, <2>4, <2>10 DEF s
<1>3. CASE ~(base = 10 /\ v < 0)
  <2> DEFINE x == U(v)
  <2>1. v \in Int /\ x \in 0 .. LongMod - 1 /\ (v >= 0 => x = v)
    BY Ranges
  <2>2. x \in Nat /\ x < LongMod /\ x = IF base = 10 THEN v ELSE U(v)
    BY <1>1, <1>3, <2>1
  <2>3. itoa(v, base) = utoa(x, base)
    BY <1>3, Zenon DEF itoa
  <2> HIDE DEF x
  <2>4. PICK t : Spells(t, x, base) /\ utoa(x, base) = Reverse(t)
    BY <2>2, UtoaReads
  <2> DEFINE s == Reverse(t)
  <2>5. <<>> \in Fronts /\ Len(<<>>) = 0 /\ <<>> \o s = s
    <3>1. s \in Seq(Numerals)
      BY <2>4 DEF Spells, Reverse
    <3> HIDE DEF s
    <3> QED
      BY <3>1 DEF Fronts
  <2>6. Says(<<>> \o s, x, base, <<>>, t)
    BY <1>1, <2>2, <2>4, <2>5, SpelledReads
  <2>7. t \in Seq(Numerals) /\ Len(t) \in Nat /\ Len(t) >= 1 /\ t[Len(t)] \in Numerals
        /\ (Len(t) > 1 => t[Len(t)] # "0")
    BY <2>4 DEF Spells
  <2> HIDE DEF s
  <2>8. s[1] = t[Len(t)] /\ Len(s) = Len(t) /\ ReadBack(s, base) = IF s[1] = "-" THEN -x ELSE x
    <3>1. Says(s, x, base, <<>>, t) /\ 0 + 1 = 1
      BY <2>5, <2>6
    <3> QED
      BY <2>5, <2>7, <3>1 DEF Says
  <2>9. s[1] # "-" /\ s[1] # PadSpace
    BY <2>7, <2>8, NumeralsAreNoSigns
  <2>10. Reads(s, x, base, 0)
    BY <2>7, <2>8, <2>9 DEF Reads
  <2> QED
    BY <2>2, <2>3, <2>4, <2>10 DEF s
<1> QED
  BY <1>2, <1>3

LEMMA ConversionReads ==
    ASSUME NEW conv \in {"d", "u", "x", "X", "o", "b", "p"}, NEW long \in BOOLEAN,
           NEW width \in Nat, NEW pad \in {PadSpace, "0"}, NEW v \in Longs
    PROVE  Reads(conversion(conv, long, width, pad, v), Argument(conv, long, v), BaseOf(conv),
                 IF conv = "p" THEN 2 + LongBits \div 4 ELSE width)
<1> DEFINE Goal == Reads(conversion(conv, long, width, pad, v), Argument(conv, long, v),
                         BaseOf(conv), IF conv = "p" THEN 2 + LongBits \div 4 ELSE width)
           a == Signed(v, long)
           b == Unsigned(v, long)
           c == Unsigned(v, FALSE)
<1>1. a \in Longs /\ b \in 0 .. LongMod - 1 /\ c \in 0 .. LongMod - 1 /\ U(v) \in 0 .. LongMod - 1
  <2>1. FALSE \in BOOLEAN
    OBVIOUS
  <2> QED
    BY <2>1, Ranges
<1>2. LongMod \in Nat
  BY Powers, FormatAssumption DEF LongMod
<1> HIDE DEF a, b, c
<1>3. /\ b \in Nat /\ b < LongMod /\ c \in Nat /\ c < LongMod /\ U(v) \in Nat /\ U(v) < LongMod
      /\ 2 \in {2, 8, 10, 16} /\ 8 \in {2, 8, 10, 16} /\ 10 \in {2, 8, 10, 16} /\ 16 \in {2, 8, 10, 16}
      /\ FALSE \in BOOLEAN /\ TRUE \in BOOLEAN
  BY <1>1, <1>2
<1>4. ASSUME conv = "d" PROVE Goal
  <2>1. Reads(print_int(a, width, pad), a, 10, width)
    BY <1>1, IntReads
  <2>2. /\ conversion(conv, long, width, pad, v) = print_int(a, width, pad)
        /\ Argument(conv, long, v) = a /\ BaseOf(conv) = 10 /\ conv # "p"
    BY <1>4 DEF conversion, Argument, BaseOf, a
  <2> QED
    BY <2>1, <2>2, Zenon
<1>5. ASSUME conv = "u" PROVE Goal
  <2>1. Reads(print_uint(b, 10, width, pad, FALSE), b, 10, width)
    BY <1>3, UintReads
  <2>2. /\ conversion(conv, long, width, pad, v) = print_uint(b, 10, width, pad, FALSE)
        /\ Argument(conv, long, v) = b /\ BaseOf(conv) = 10 /\ conv # "p"
    BY <1>5 DEF conversion, Argument, BaseOf, b
  <2> QED
    BY <2>1, <2>2, Zenon
<1>6. ASSUME conv = "x" PROVE Goal
  <2>1. Reads(print_uint(b, 16, width, pad, FALSE), b, 16, width)
    BY <1>3, UintReads
  <2>2. /\ conversion(conv, long, width, pad, v) = print_uint(b, 16, width, pad, FALSE)
        /\ Argument(conv, long, v) = b /\ BaseOf(conv) = 16 /\ conv # "p"
    BY <1>6 DEF conversion, Argument, BaseOf, b
  <2> QED
    BY <2>1, <2>2, Zenon
<1>7. ASSUME conv = "X" PROVE Goal
  <2>1. Reads(print_uint(b, 16, width, pad, TRUE), b, 16, width)
    BY <1>3, UintReads
  <2>2. /\ conversion(conv, long, width, pad, v) = print_uint(b, 16, width, pad, TRUE)
        /\ Argument(conv, long, v) = b /\ BaseOf(conv) = 16 /\ conv # "p"
    BY <1>7 DEF conversion, Argument, BaseOf, b
  <2> QED
    BY <2>1, <2>2, Zenon
<1>8. ASSUME conv = "o" PROVE Goal
  <2>1. Reads(print_uint(c, 8, width, pad, FALSE), c, 8, width)
    BY <1>3, UintReads
  <2>2. /\ conversion(conv, long, width, pad, v) = print_uint(c, 8, width, pad, FALSE)
        /\ Argument(conv, long, v) = c /\ BaseOf(conv) = 8 /\ conv # "p"
    BY <1>8 DEF conversion, Argument, BaseOf, c
  <2> QED
    BY <2>1, <2>2, Zenon
<1>9. ASSUME conv = "b" PROVE Goal
  <2>1. Reads(print_uint(c, 2, width, pad, FALSE), c, 2, width)
    BY <1>3, UintReads
  <2>2. /\ conversion(conv, long, width, pad, v) = print_uint(c, 2, width, pad, FALSE)
        /\ Argument(conv, long, v) = c /\ BaseOf(conv) = 2 /\ conv # "p"
    BY <1>9 DEF conversion, Argument, BaseOf, c
  <2> QED
    BY <2>1, <2>2, Zenon
<1>10. ASSUME conv = "p" PROVE Goal
  <2>1. Reads(<<"0", "x">> \o print_uint(U(v), 16, LongBits \div 4, "0", FALSE), U(v), 16,
              2 + LongBits \div 4)
    BY <1>3, PointerReads
  <2>2. /\ conversion(conv, long, width, pad, v)
              = <<"0", "x">> \o print_uint(U(v), 16, LongBits \div 4, "0", FALSE)
        /\ Argument(conv, long, v) = U(v) /\ BaseOf(conv) = 16
    BY <1>10 DEF conversion, Argument, BaseOf
  <2> QED
    BY <1>10, <2>1, <2>2, Zenon
<1> HIDE DEF Goal
<1>11. Goal
  BY <1>4, <1>5, <1>6, <1>7, <1>8, <1>9, <1>10
<1> QED
  BY <1>11 DEF Goal

\* The answer depends on nothing an earlier call has left.
LEMMA FormatInitInv == FormatInit => PrintedReadsBack
<1> SUFFICES ASSUME FormatInit PROVE PrintedReadsBack
  OBVIOUS
<1>1. 0 \in Longs /\ 10 \in {2, 10, 16} /\ U(0) = 0
  <2>1. LongBits - 1 \in Nat
    BY FormatAssumption
  <2>2. 0 \in Longs
    BY <2>1, Powers DEF Longs
  <2> QED
    BY <2>2, Ranges
<1>2. Reads(itoa(0, 10), 0, 10, 0)
  BY <1>1, ItoaReads
<1>3. itoa(0, 10) = <<"0">>
  BY <1>1 DEF itoa, utoa
<1> QED
  BY <1>2, <1>3 DEF FormatInit, Call, Reads, PrintedReadsBack

LEMMA FormatStep == PrintedReadsBack /\ [FormatNext]_formatVars => PrintedReadsBack'
<1> SUFFICES ASSUME PrintedReadsBack, [FormatNext]_formatVars PROVE PrintedReadsBack'
  OBVIOUS
<1>1. ASSUME NEW s, NEW val, NEW base, NEW width, Reads(s, val, base, width),
             out' = s, asked' = Call(val, base, width)
      PROVE  PrintedReadsBack'
  BY <1>1 DEF PrintedReadsBack, Reads, Call
<1>2. CASE printk
  <2>1. PICK conv \in {"d", "u", "x", "X", "o", "b", "p"}, long \in BOOLEAN,
             width \in Widths, pad \in {PadSpace, "0"}, v \in Longs :
               /\ out' = conversion(conv, long, width, pad, v)
               /\ asked' = Call(Argument(conv, long, v), BaseOf(conv),
                                IF conv = "p" THEN 2 + LongBits \div 4 ELSE width)
    BY <1>2, Zenon DEF printk
  <2>2. width \in Nat
    BY FormatAssumption
  <2>3. Reads(conversion(conv, long, width, pad, v), Argument(conv, long, v), BaseOf(conv),
              IF conv = "p" THEN 2 + LongBits \div 4 ELSE width)
    BY <2>2, ConversionReads
  <2> QED
    BY <1>1, <2>1, <2>3, Zenon
<1>3. CASE convert
  <2>1. PICK base \in {2, 10, 16}, v \in Longs :
               /\ out' = itoa(v, base)
               /\ asked' = Call(IF base = 10 THEN v ELSE U(v), base, 0)
    BY <1>3, Zenon DEF convert
  <2>2. Reads(itoa(v, base), IF base = 10 THEN v ELSE U(v), base, 0)
    BY ItoaReads
  <2> QED
    BY <1>1, <2>1, <2>2, Zenon
<1>4. CASE call_over
  <2>1. FormatInit'
    BY <1>4 DEF call_over, FormatInit, Call
  <2> QED
    BY <2>1, FormatInitInv, PTL
<1>5. CASE UNCHANGED formatVars
  BY <1>5 DEF formatVars, PrintedReadsBack
<1> QED
  BY <1>2, <1>3, <1>4, <1>5 DEF FormatNext

\* The formatter moves only by its own steps.
LEMMA OnlyFormatMovesFormat == [ipc_step \/ console_step]_svars => [FormatNext]_formatVars
  BY DEF ipc_step, console_step, svars, consoleVars

\* For every width of a long and of an int and every width of a field, what
\* vprintk's conversions and itoa write reads back as the number they were
\* given, the most negative one, whose negation overflows, and zero included;
\* it fills the field and takes no character more than the number needs.
THEOREM NumbersReadBack == ServicesSpec => []PrintedReadsBack
<1>1. ServicesInit => PrintedReadsBack
  BY FormatInitInv DEF ServicesInit, ConsoleInit
<1> QED
  BY <1>1, FormatStep, OnlyFormatMovesFormat, PTL DEF ServicesSpec

=============================================================================
