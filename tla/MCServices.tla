----------------------------- MODULE MCServices -----------------------------
(***************************************************************************)
(* Keys and words for module Services.                                     *)
(***************************************************************************)
EXTENDS Services

\* x, Up (with its prefix), Shift down and up, Caps Lock, and the release of a
\* Shift that a prefix precedes, as devices send round some extended keys.
KeyStrokes == {<<45>>, <<Prefix, 72>>, <<42>>, <<42 + Released>>, <<58>>,
               <<Prefix, 42 + Released>>}

Plain(code) == [scancode |-> code, ascii |-> Ascii(code, FALSE), extended |-> FALSE]
Extended(code) == [scancode |-> code, ascii |-> NUL, extended |-> TRUE]

\* x, blank, Enter, Backspace, Escape; Up and Down; keys the shell ignores.
KeyEvents == {Plain(c) : c \in {45, 57, 28, 14, 1, 72}}
                \cup {Extended(c) : c \in {72, 80, 75}}

ExitWord == <<"x", "x">>

=============================================================================
