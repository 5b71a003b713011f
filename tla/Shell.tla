------------------------------- MODULE Shell --------------------------------
(***************************************************************************)
(* HeroShell, userspace/heroshell/heroshell.c: the line editor of          *)
(* shell_run, the history ring, the tokenizer and the builtins, on the C   *)
(* strings of lib/string.c.  A key is what keyboard_poll has delivered;    *)
(* nothing here is shared with an interrupt, so handling a key is one      *)
(* step.  A line and a history entry are arrays of SHELL_LINE_MAX          *)
(* characters whose contents after the terminator are whatever was there.  *)
(* The tab, which the console shows wider than it erases, is left out.     *)
(***************************************************************************)
EXTENDS Integers, Sequences, FiniteSets, SequencesExt, FiniteSetsExt

CONSTANTS Letters,    \* printable characters, the blank among them
          Events,     \* key events: scancode, ascii and extended of key_event_t
          LineMax,    \* SHELL_LINE_MAX
          HistSize,   \* SHELL_HIST_SIZE
          MaxArgs,    \* SHELL_MAX_ARGS
          Exit        \* the word "exit" as a sequence of letters

ASSUME ShellAssumption ==
    /\ {LineMax, MaxArgs} \subseteq Nat \ {0, 1} /\ HistSize \in Nat \ {0}
    /\ Exit \in Seq(Letters) /\ Letters \cap {"NUL", "LF", "BS", "ESC"} = {}
    /\ \A e \in Events : e.ascii \in Letters \cup {"NUL", "LF", "BS", "ESC"}

VARIABLES line, saved_line, pos, hist_nav,    \* locals of shell_run
          hist_buf, hist_count, hist_head,
          shell_should_exit,
          phase,     \* "read", "exec" after Enter, "ran", "done"
          shown      \* the last line of the console: the prompt, then text

shellVars == <<line, saved_line, pos, hist_nav, hist_buf, hist_count, hist_head,
               shell_should_exit, phase, shown>>

Nul == "NUL"
SpaceChar == " "
SHELL_PROMPT == "$"
KEY_ARROW_UP == 72
KEY_ARROW_DOWN == 80
Index == 0 .. LineMax - 1
Zeros == [i \in Index |-> Nul]

\* lib/string.c, on arrays of LineMax characters.
strlen(s) == CHOOSE n \in Index : s[n] = Nul /\ \A i \in 0 .. n - 1 : s[i] # Nul
strncpy(dst, src, n) ==
    [i \in Index |-> IF i >= n THEN dst[i]
                     ELSE IF \A j \in 0 .. i : src[j] # Nul THEN src[i] ELSE Nul]
Text(s) == [i \in 1 .. strlen(s) |-> s[i - 1]]

\* strncpy(dst, src, SHELL_LINE_MAX - 1); dst[SHELL_LINE_MAX - 1] = 0
CopyLine(dst, src) == [strncpy(dst, src, LineMax - 1) EXCEPT ![LineMax - 1] = Nul]

\* The console: each "\b \b" takes the last character off the screen.
term_erase(n) == SubSeq(shown, 1, Len(shown) - n)

ShellInit ==
    /\ line = Zeros /\ saved_line = Zeros
    /\ pos = 0 /\ hist_nav = -1
    /\ hist_buf = [i \in 0 .. HistSize - 1 |-> Zeros]
    /\ hist_count = 0 /\ hist_head = 0
    /\ shell_should_exit = FALSE
    /\ phase = "read"
    /\ shown = <<SHELL_PROMPT>>

-----------------------------------------------------------------------------
(***************************************************************************)
(* History.                                                                *)
(***************************************************************************)

\* Fault: a full ring goes on writing at its end and forgets to move its head.
hist_add_stuck(l) ==
    LET idx == (hist_head + hist_count) % HistSize
    IN  /\ hist_buf' = [hist_buf EXCEPT ![idx] = CopyLine(@, l)]
        /\ hist_count' = IF hist_count < HistSize THEN hist_count + 1 ELSE hist_count
        /\ UNCHANGED hist_head

hist_add(l) ==
    LET idx == (hist_head + hist_count) % HistSize
    IN  /\ hist_buf' = [hist_buf EXCEPT ![idx] = CopyLine(@, l)]
        /\ IF hist_count < HistSize
           THEN hist_count' = hist_count + 1 /\ UNCHANGED hist_head
           ELSE hist_head' = (hist_head + 1) % HistSize /\ UNCHANGED hist_count

\* Defined for 0 <= offset < hist_count; NULL otherwise.
hist_get(offset) == hist_buf[(hist_head + hist_count - 1 - offset) % HistSize]

-----------------------------------------------------------------------------
(***************************************************************************)
(* shell_run, one action per kind of key.                                  *)
(***************************************************************************)

Reading == phase = "read" /\ UNCHANGED <<phase, hist_buf, hist_count, hist_head,
                                         shell_should_exit>>

key_up ==
    /\ Reading
    /\ hist_nav + 1 < hist_count
    /\ saved_line' = IF hist_nav < 0 THEN strncpy(saved_line, line, LineMax - 1)
                     ELSE saved_line
    /\ hist_nav' = hist_nav + 1
    /\ line' = CopyLine(line, hist_get(hist_nav + 1))
    /\ pos' = strlen(line')
    /\ shown' = term_erase(pos) \o Text(line')

key_down ==
    /\ Reading
    /\ hist_nav >= 0
    /\ hist_nav' = hist_nav - 1
    /\ line' = IF hist_nav > 0 THEN CopyLine(line, hist_get(hist_nav - 1))
               ELSE strncpy(line, saved_line, LineMax - 1)
    /\ pos' = strlen(line')
    /\ shown' = term_erase(pos) \o Text(line')
    /\ UNCHANGED saved_line

key_enter ==
    /\ phase = "read" /\ phase' = "exec"
    /\ line' = [line EXCEPT ![pos] = Nul]
    /\ UNCHANGED <<saved_line, pos, hist_nav, hist_buf, hist_count, hist_head,
                   shell_should_exit, shown>>

key_backspace ==
    /\ Reading
    /\ pos > 0
    /\ pos' = pos - 1
    /\ line' = [line EXCEPT ![pos'] = Nul]
    /\ shown' = term_erase(1)
    /\ UNCHANGED <<saved_line, hist_nav>>

\* Fault: the position is reset before the console is cleaned.
key_escape_first ==
    /\ Reading
    /\ pos' = 0
    /\ shown' = term_erase(pos')
    /\ line' = [line EXCEPT ![0] = Nul]
    /\ hist_nav' = -1
    /\ UNCHANGED saved_line

key_escape ==
    /\ Reading
    /\ shown' = term_erase(pos)
    /\ pos' = 0
    /\ line' = [line EXCEPT ![0] = Nul]
    /\ hist_nav' = -1
    /\ UNCHANGED saved_line

key_char(c) ==
    /\ Reading
    /\ pos < LineMax - 1
    /\ pos' = pos + 1
    /\ line' = [line EXCEPT ![pos] = c, ![pos + 1] = Nul]
    /\ shown' = Append(shown, c)
    /\ UNCHANGED <<saved_line, hist_nav>>

\* What shell_run does with an event.  Extended keys other than the two
\* arrows, keys without a character, a Backspace with nothing to erase and a
\* character too many change nothing.
handle_key(ev) ==
    \/ ev.extended /\ ev.scancode = KEY_ARROW_UP /\ key_up
    \/ ev.extended /\ ev.scancode = KEY_ARROW_DOWN /\ key_down
    \/ ~ev.extended /\ ev.ascii = "LF" /\ key_enter
    \/ ~ev.extended /\ ev.ascii = "BS" /\ key_backspace
    \/ ~ev.extended /\ ev.ascii = "ESC" /\ key_escape
    \/ ~ev.extended /\ ev.ascii \in Letters /\ key_char(ev.ascii)

-----------------------------------------------------------------------------
(***************************************************************************)
(* Running a line.                                                         *)
(***************************************************************************)

\* The next place from p on, Len(s) + 1 at the latest, without a blank, or
\* with one.
SkipBlanks(s, p) ==
    CHOOSE q \in p .. Len(s) + 1 :
       /\ q = Len(s) + 1 \/ s[q] # SpaceChar
       /\ \A i \in p .. q - 1 : s[i] = SpaceChar
SkipWord(s, p) ==
    CHOOSE q \in p .. Len(s) + 1 :
       /\ q = Len(s) + 1 \/ s[q] = SpaceChar
       /\ \A i \in p .. q - 1 : s[i] # SpaceChar

\* One turn of the loop of tokenize: skip blanks, take a word, end it with a
\* terminator.  At the end of the text it takes nothing.
TakeWord(s, t) ==
    LET b == SkipBlanks(s, t.p)
        e == SkipWord(s, b)
    IN  IF b > Len(s) THEN t
        ELSE [p |-> IF e > Len(s) THEN e ELSE e + 1,
              argv |-> Append(t.argv, SubSeq(s, b, e - 1))]

\* Fault: the limit lets the terminating NULL fall out of argv.
tokenize_full(s, max_args) ==
    LET turn[n \in 0 .. max_args] ==
           IF n = 0 THEN [p |-> 1, argv |-> <<>>] ELSE TakeWord(s, turn[n - 1])
    IN  turn[max_args].argv

\* argv: the loop stops at max_args - 1 words.
tokenize(s, max_args) ==
    LET turn[n \in 0 .. max_args - 1] ==
           IF n = 0 THEN [p |-> 1, argv |-> <<>>] ELSE TakeWord(s, turn[n - 1])
    IN  turn[max_args - 1].argv

\* The builtins only write to the console, except exit (and ls and cat, which
\* open and close a file: module Tmpfs).
shell_exec_line(l) ==
    LET argv == tokenize(Text(CopyLine(Zeros, l)), MaxArgs)
    IN  shell_should_exit' = (shell_should_exit \/ (argv # <<>> /\ argv[1] = Exit))

run_line ==
    /\ phase = "exec" /\ phase' = "ran"
    /\ IF pos > 0 THEN hist_add(line) /\ shell_exec_line(line)
       ELSE UNCHANGED <<hist_buf, hist_count, hist_head, shell_should_exit>>
    /\ UNCHANGED <<line, saved_line, pos, hist_nav, shown>>

\* The end of the outer loop: leave, or prompt again.
next_prompt ==
    /\ phase = "ran"
    /\ phase' = IF shell_should_exit THEN "done" ELSE "read"
    /\ pos' = 0 /\ hist_nav' = -1
    /\ line' = Zeros /\ saved_line' = Zeros
    /\ shown' = <<SHELL_PROMPT>>
    /\ UNCHANGED <<hist_buf, hist_count, hist_head, shell_should_exit>>

\* heroshell_main after shell_run: for (;;) sched_yield().
heroshell_main == phase = "done" /\ UNCHANGED shellVars

ShellNext ==
    \/ \E ev \in Events : handle_key(ev)
    \/ run_line \/ next_prompt \/ heroshell_main

-----------------------------------------------------------------------------
(***************************************************************************)
(* Properties.                                                             *)
(***************************************************************************)

\* What the user sees, what strlen finds and what pos says are the same line,
\* and it is terminated inside its array, after any editing.
ShownIsLine ==
    /\ pos \in Index /\ line[pos] = Nul
    /\ phase = "read" => shown = <<SHELL_PROMPT>> \o [i \in 1 .. pos |-> line[i - 1]]
    /\ strlen(line) = pos

\* The words of a text: its maximal runs without a blank, in order.
Starts(s) ==
    {i \in 1 .. Len(s) : s[i] # SpaceChar /\ (i = 1 \/ s[i - 1] = SpaceChar)}
WordAt(s, i) ==
    LET j == CHOOSE j \in i .. Len(s) :
                /\ \A k \in i .. j : s[k] # SpaceChar
                /\ j = Len(s) \/ s[j + 1] = SpaceChar
    IN  SubSeq(s, i, j)
Words(s) ==
    [n \in 1 .. Cardinality(Starts(s)) |->
        WordAt(s, CHOOSE i \in Starts(s) : Cardinality({j \in Starts(s) : j <= i}) = n)]

\* tokenize finds the words of the line, and the first max_args - 1 of them
\* when there are more.
TokenizeIsWords ==
    phase = "ran" =>
       LET words == Words(Text(line))
       IN  \A m \in 2 .. 4 :
              tokenize(Text(line), m) = SubSeq(words, 1, Min({Len(words), m - 1}))

\* A line that asks the shell to leave: its first word is exit.
AsksToExit(s) == Words(s) # <<>> /\ Words(s)[1] = Exit

Editor == INSTANCE LineEditor
             WITH Chars <- Letters, MaxLen <- LineMax - 1,
                  Leaves <- AsksToExit,
                  text <- Text(line),
                  draft <- Text(saved_line),
                  nav <- hist_nav + 1,
                  hist <- [k \in 1 .. hist_count |-> Text(hist_get(k - 1))]

\* Arrays, terminators and the ring implement the editor the user knows: lines
\* come back from the history, newest first, as they were run, and the draft
\* comes back as it was left, whatever was edited in between.
EditorSpec == Editor!Spec

=============================================================================
