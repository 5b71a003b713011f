------------------------------- MODULE Format -------------------------------
(***************************************************************************)
(* Numbers as text: print_uint, print_int and the conversions of vprintk   *)
(* (lib/printk.c), utoa and itoa (lib/string.c), on integers of LongBits   *)
(* bits in two's complement.  Of a format string one conversion is         *)
(* modelled; literal text, strings and characters are copied as they are.  *)
(***************************************************************************)
EXTENDS Integers, Sequences, SequencesExt

CONSTANTS LongBits,    \* 64
          IntBits,     \* 32: what a conversion without l takes
          Widths       \* widths a format may ask for

ASSUME FormatAssumption ==
    /\ {LongBits, IntBits} \subseteq Nat \ {0} /\ IntBits <= LongBits
    /\ LongBits % 4 = 0      \* a pointer is a whole number of hex digits
    /\ Widths \subseteq Nat

VARIABLES asked,    \* the last call: the number, base and width meant
          out       \* what it has written

formatVars == <<asked, out>>

Pow2(n) == LET p[i \in 0 .. n] == IF i = 0 THEN 1 ELSE 2 * p[i - 1] IN p[n]
LongMod == Pow2(LongBits)
IntMod == Pow2(IntBits)
Longs == -Pow2(LongBits - 1) .. Pow2(LongBits - 1) - 1

\* Conversions: to uint64_t, and -val in int64_t, whose one overflow wraps in the
\* neg instruction that the compiler emits for it.
U(v) == v % LongMod
Neg(v) == IF -v \in Longs THEN -v ELSE v

hex_lo == <<"0", "1", "2", "3", "4", "5", "6", "7", "8", "9",
            "a", "b", "c", "d", "e", "f">>
hex_up == <<"0", "1", "2", "3", "4", "5", "6", "7", "8", "9",
            "A", "B", "C", "D", "E", "F">>

\* The loop over val % base, least digit first: one turn, and the digits it
\* leaves.  No number has more than LongBits of them, the room there is.
TakeDigit(t, base, hex) ==
    IF t.val = 0 THEN t
    ELSE [val |-> t.val \div base, tmp |-> Append(t.tmp, hex[(t.val % base) + 1])]
Digits(val, base, hex) ==
    LET turn[n \in 0 .. LongBits] ==
           IF n = 0 THEN [val |-> val, tmp |-> <<>>]
           ELSE TakeDigit(turn[n - 1], base, hex)
    IN  turn[LongBits].tmp

utoa(val, base) ==
    IF base \notin 2 .. 16 THEN <<>>
    ELSE IF val = 0 THEN <<"0">>
    ELSE Reverse(Digits(val, base, hex_lo))

itoa(val, base) ==
    IF base = 10 /\ val < 0 THEN <<"-">> \o utoa(U(Neg(val)), base)
    ELSE utoa(U(val), base)

Pad(n, pad) == [i \in 1 .. n |-> pad]

\* Fault: zero has no digits.
print_uint_no_zero(val, base, width, pad, upper) ==
    LET tmp == Digits(val, base, IF upper THEN hex_up ELSE hex_lo)
    IN  Pad(width - Len(tmp), pad) \o Reverse(tmp)

print_uint(val, base, width, pad, upper) ==
    LET tmp == IF val = 0 THEN <<"0">>
               ELSE Digits(val, base, IF upper THEN hex_up ELSE hex_lo)
    IN  Pad(width - Len(tmp), pad) \o Reverse(tmp)

print_int(val, width, pad) ==
    IF val < 0
    THEN <<"-">> \o print_uint(U(Neg(val)), 10, IF width > 0 THEN width - 1 ELSE width,
                              pad, FALSE)
    ELSE print_uint(U(val), 10, width, pad, FALSE)

\* The argument a conversion takes: all of it, or an int's worth.
AsInt(v) ==
    LET u == v % IntMod IN IF u < Pow2(IntBits - 1) THEN u ELSE u - IntMod
Signed(v, long) == IF long THEN v ELSE AsInt(v)
Unsigned(v, long) == IF long THEN U(v) ELSE v % IntMod

\* The switch of vprintk.  %o and %b take an int whatever the length modifier
\* says; %p brings its own width, the digits of a pointer.
conversion(conv, long, width, pad, v) ==
    CASE conv = "d" -> print_int(Signed(v, long), width, pad)
      [] conv = "u" -> print_uint(Unsigned(v, long), 10, width, pad, FALSE)
      [] conv = "x" -> print_uint(Unsigned(v, long), 16, width, pad, FALSE)
      [] conv = "X" -> print_uint(Unsigned(v, long), 16, width, pad, TRUE)
      [] conv = "o" -> print_uint(Unsigned(v, FALSE), 8, width, pad, FALSE)
      [] conv = "b" -> print_uint(Unsigned(v, FALSE), 2, width, pad, FALSE)
      [] conv = "p" -> <<"0", "x">> \o print_uint(U(v), 16, LongBits \div 4, "0", FALSE)

-----------------------------------------------------------------------------

PadSpace == " "
Call(val, base, width) == [val |-> val, base |-> base, width |-> width]

BaseOf(conv) == CASE conv \in {"x", "X", "p"} -> 16 [] conv = "o" -> 8
                  [] conv = "b" -> 2 [] OTHER -> 10

Argument(conv, long, v) ==
    CASE conv = "d" -> Signed(v, long)
      [] conv = "p" -> U(v)
      [] conv \in {"o", "b"} -> Unsigned(v, FALSE)
      [] OTHER -> Unsigned(v, long)

FormatInit ==
    /\ asked = Call(0, 10, 0)
    /\ out = <<"0">>

\* printk with one conversion in its format.
printk ==
    /\ FormatInit
    /\ \E conv \in {"d", "u", "x", "X", "o", "b", "p"}, long \in BOOLEAN,
          width \in Widths, pad \in {PadSpace, "0"}, v \in Longs :
             /\ out' = conversion(conv, long, width, pad, v)
             /\ asked' = Call(Argument(conv, long, v), BaseOf(conv),
                              IF conv = "p" THEN 2 + LongBits \div 4 ELSE width)

\* itoa and, for what is not negative, utoa.
convert ==
    /\ FormatInit
    /\ \E base \in {2, 10, 16}, v \in Longs :
          /\ out' = itoa(v, base)
          /\ asked' = Call(IF base = 10 THEN v ELSE U(v), base, 0)

\* A call leaves nothing behind for the next.
call_over ==
    /\ ~FormatInit
    /\ asked' = Call(0, 10, 0)
    /\ out' = <<"0">>

FormatNext == printk \/ convert \/ call_over

-----------------------------------------------------------------------------

\* The number a reader takes from a text: digits in either case, passing over
\* a sign, the x of 0x and blanks.
Signs == {"-", "x", PadSpace}
Digit(c) == CHOOSE i \in 0 .. 15 : c \in {hex_lo[i + 1], hex_up[i + 1]}
ReadBack(s, base) ==
    LET value[n \in 0 .. Len(s)] ==
           IF n = 0 THEN 0
           ELSE IF s[n] \in Signs THEN value[n - 1]
           ELSE value[n - 1] * base + Digit(s[n])
        digits == {n \in 1 .. Len(s) : s[n] \notin Signs}
    IN  IF digits # {} /\ \A n \in digits : Digit(s[n]) < base
        THEN IF s[1] = "-" THEN -value[Len(s)] ELSE value[Len(s)]
        ELSE LongMod   \* no number of this width

\* Every number reads back as itself, the most negative one and zero included,
\* and fills the width it was given, no more unless it has to.
PrintedReadsBack ==
    /\ ReadBack(out, asked.base) = asked.val
    /\ Len(out) >= asked.width
    /\ (Len(out) > asked.width /\ Len(out) > 1) => out[1] \notin {"0", PadSpace}

=============================================================================
