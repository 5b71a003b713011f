----------------------------- MODULE LineEditor -----------------------------
(***************************************************************************)
(* What the console of HeroShell promises its user: a line of bounded      *)
(* length that can be typed, rubbed out and thrown away, a history of the  *)
(* last HistSize lines that were run, and a draft that comes back when one *)
(* returns from the history.  No arrays, no terminators, no ring.          *)
(***************************************************************************)
EXTENDS Integers, Sequences, SequencesExt, FiniteSetsExt

CONSTANTS Chars,      \* characters that can be typed
          MaxLen,     \* length of the longest line
          HistSize,   \* lines the history keeps
          Leaves(_)   \* does a line ask the shell to exit?

VARIABLES phase,   \* "read" while a line is typed, "exec", "ran", "done"
          text,    \* the line
          draft,   \* the line as it was before the history was entered
          nav,     \* how far back in the history, 0 for not at all
          hist     \* the lines that were run, newest first

lvars == <<phase, text, draft, nav, hist>>

Init == phase = "read" /\ text = <<>> /\ draft = <<>> /\ nav = 0 /\ hist = <<>>

Type ==
    /\ phase = "read" /\ Len(text) < MaxLen
    /\ \E c \in Chars : text' = Append(text, c)
    /\ UNCHANGED <<phase, draft, nav, hist>>

Rub ==
    /\ phase = "read" /\ text # <<>>
    /\ text' = Front(text)
    /\ UNCHANGED <<phase, draft, nav, hist>>

Discard ==
    /\ phase = "read"
    /\ text' = <<>> /\ nav' = 0
    /\ UNCHANGED <<phase, draft, hist>>

Older ==
    /\ phase = "read" /\ nav < Len(hist)
    /\ nav' = nav + 1
    /\ text' = hist[nav + 1]
    /\ draft' = IF nav = 0 THEN text ELSE draft
    /\ UNCHANGED <<phase, hist>>

Newer ==
    /\ phase = "read" /\ nav > 0
    /\ nav' = nav - 1
    /\ text' = IF nav = 1 THEN draft ELSE hist[nav - 1]
    /\ UNCHANGED <<phase, draft, hist>>

Enter ==
    /\ phase = "read" /\ phase' = "exec"
    /\ UNCHANGED <<text, draft, nav, hist>>

Run ==
    /\ phase = "exec" /\ phase' = "ran"
    /\ hist' = IF text = <<>> THEN hist
               ELSE <<text>> \o SubSeq(hist, 1, Min({Len(hist), HistSize - 1}))
    /\ UNCHANGED <<text, draft, nav>>

Prompt ==
    /\ phase = "ran"
    /\ phase' = IF Leaves(text) THEN "done" ELSE "read"
    /\ text' = <<>> /\ draft' = <<>> /\ nav' = 0
    /\ UNCHANGED hist

Next == Type \/ Rub \/ Discard \/ Older \/ Newer \/ Enter \/ Run \/ Prompt

Spec == Init /\ [][Next]_lvars

=============================================================================
