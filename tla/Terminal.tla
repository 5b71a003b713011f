------------------------------ MODULE Terminal ------------------------------
(***************************************************************************)
(* The framebuffer terminal, drivers/framebuffer/framebuffer.c: a cursor   *)
(* over character cells of FontH pixel rows, wrap at the right edge, and   *)
(* scrolling by moving pixel rows.  A pixel row is kept as one entry per   *)
(* character column: which character is drawn there, and which row of its  *)
(* glyph.  The height need not be a multiple of FontH.                     *)
(***************************************************************************)
EXTENDS Naturals, Sequences

CONSTANTS Height,     \* g_fb.height in pixel rows
          FontH,      \* FONT_H
          Cols,       \* g_fb.width / FONT_W
          Glyphs,     \* characters with a picture
          MaxText     \* bound of the model: characters written

ASSUME TerminalAssumption ==
    /\ {FontH, Cols} \subseteq Nat \ {0} /\ Height \in Nat /\ Height >= FontH

VARIABLES frame,                \* frame[y][col]
          term_row, term_col,
          written               \* history: what was written since it was clear

termVars == <<frame, term_row, term_col, written>>

Rows == Height \div FontH
Background == <<>>
NoInk == " "
BlankRow == [col \in 0 .. Cols - 1 |-> Background]

\* What fb_clear leaves of the frame.
fb_clear == [y \in 0 .. Height - 1 |-> BlankRow]

\* fb_init clears the frame, fb_term_init puts the cursor at home.
TermInit ==
    /\ frame = fb_clear
    /\ term_row = 0 /\ term_col = 0
    /\ written = <<>>

\* A blank's glyph has no pixel set.
Pixel(c, i) == IF c = NoInk THEN Background ELSE <<c, i>>

\* fb_draw_char, which leaves out what falls outside the screen.
fb_draw_char(f, col, row, c) ==
    [y \in 0 .. Height - 1 |->
        IF y \div FontH = row THEN [f[y] EXCEPT ![col] = Pixel(c, y % FontH)]
        ELSE f[y]]

\* Fault: the lines that come free are not painted over.
fb_scroll_smear(f) ==
    [y \in 0 .. Height - 1 |-> IF y + FontH < Height THEN f[y + FontH] ELSE f[y]]

\* fb_scroll_up(1): move the rows up by the height of a character and paint
\* what comes free.
fb_scroll_up(f) ==
    [y \in 0 .. Height - 1 |-> IF y + FontH < Height THEN f[y + FontH] ELSE BlankRow]

\* fb_term_putc: where the character leaves frame and cursor, then the scroll.
Place(f, row, col) ==
    IF row >= Rows
    THEN frame' = fb_scroll_up(f) /\ term_row' = Rows - 1 /\ term_col' = col
    ELSE frame' = f /\ term_row' = row /\ term_col' = col

fb_term_putc(c) ==
    CASE c = "LF" -> Place(frame, term_row + 1, 0)
      [] c = "CR" -> Place(frame, term_row, 0)
      [] c = "BS" -> IF term_col > 0
                     THEN Place(fb_draw_char(frame, term_col - 1, term_row, NoInk),
                                term_row, term_col - 1)
                     ELSE Place(frame, term_row, term_col)
      [] OTHER -> LET f == fb_draw_char(frame, term_col, term_row, c)
                  IN  IF term_col + 1 >= Cols THEN Place(f, term_row + 1, 0)
                      ELSE Place(f, term_row, term_col + 1)

\* fb_term_puts is a sequence of these.
term_write(c) ==
    /\ Len(written) < MaxText
    /\ written' = Append(written, c)
    /\ fb_term_putc(c)

\* The machine is started again: kmain calls fb_init and fb_term_init, and the
\* driver's probe calls fb_term_init once more, still before any character.
\* These are all the calls the two functions have.
term_start ==
    /\ frame' = fb_clear
    /\ term_row' = 0 /\ term_col' = 0
    /\ written' = <<>>

TermNext == term_start \/ \E c \in Glyphs \cup {"LF", "CR", "BS"} : term_write(c)

-----------------------------------------------------------------------------

\* The text as a typewriter without an end of paper would leave it: lines of
\* Cols characters and the place in the last one.
Unwritten == [i \in 1 .. Cols |-> NoInk]
Strike(p, i, c) == [p.rows EXCEPT ![Len(p.rows)] = [@ EXCEPT ![i] = c]]
Type(p, c) ==
    CASE c = "CR" -> [p EXCEPT !.at = 1]
      [] c = "BS" -> IF p.at = 1 THEN p
                     ELSE [rows |-> Strike(p, p.at - 1, NoInk), at |-> p.at - 1]
      [] c = "LF" -> [rows |-> Append(p.rows, Unwritten), at |-> 1]
      [] OTHER -> IF p.at = Cols
                  THEN [rows |-> Append(Strike(p, Cols, c), Unwritten), at |-> 1]
                  ELSE [rows |-> Strike(p, p.at, c), at |-> p.at + 1]
Paper(text) ==
    LET after[n \in 0 .. Len(text)] ==
           IF n = 0 THEN [rows |-> <<Unwritten>>, at |-> 1]
           ELSE Type(after[n - 1], text[n])
    IN  after[Len(text)]

\* The screen shows the last Rows lines of the paper, each character whole,
\* nothing in what the height leaves over, and the cursor is where the next
\* character goes.
ScreenIsText ==
    LET paper == Paper(written)
        n == Len(paper.rows)
        top == IF n > Rows THEN n - Rows ELSE 0
        char(row, col) == IF top + row + 1 <= n THEN paper.rows[top + row + 1][col + 1]
                          ELSE NoInk
    IN  /\ \A y \in 0 .. Height - 1, col \in 0 .. Cols - 1 :
              frame[y][col] = IF y \div FontH < Rows
                              THEN Pixel(char(y \div FontH, col), y % FontH)
                              ELSE Background
        /\ term_row = n - top - 1 /\ term_col = paper.at - 1

=============================================================================
