------------------------------- MODULE Format -------------------------------
(***************************************************************************)
(* vsprintf of the kernel's C library: the text it makes of a format and   *)
(* its arguments, computed as the code does it, and what a text means.     *)
(* A string is a sequence of characters without its terminator; NUL may    *)
(* still occur in it, put there by %c.                                     *)
(***************************************************************************)
EXTENDS Integers, SequencesExt

CONSTANT WordSpace     \* an int or unsigned int has 2^32 values

ASSUME WordAssumption == WordSpace \in {2 * n : n \in 1 .. 32768}

NUL == "NUL"

HexArray == <<"0", "1", "2", "3", "4", "5", "6", "7", "8", "9",
              "A", "B", "C", "D", "E", "F">>

\* do { buf[num_digits++] = value % base; value /= base; } while (value > 0)
LowFirst(value, base) ==
    LET from[v \in 0 .. value] ==
            <<HexArray[(v % base) + 1]>>
                \o (IF v \div base > 0 THEN from[v \div base] ELSE <<>>)
    IN  from[value]

\* Mutant: the loop also swaps back.
ReversedTwice(buf) ==
    FoldLeft(LAMBDA b, i : [b EXCEPT ![i] = b[Len(b) - i + 1], ![Len(b) - i + 1] = b[i]],
             buf, [i \in 1 .. Len(buf) |-> i])

\* for (i = 0; i < num_digits / 2; i++) swap buf[i] and buf[num_digits - (i + 1)]
Reversed(buf) ==
    FoldLeft(LAMBDA b, i : [b EXCEPT ![i] = b[Len(b) - i + 1], ![Len(b) - i + 1] = b[i]],
             buf, [i \in 1 .. (Len(buf) \div 2) |-> i])

Ultoa(value) == Reversed(LowFirst(value, 10))

\* va_arg(args, int32_t): the word on the stack as an int.
AsInt(word) == IF word >= WordSpace \div 2 THEN word - WordSpace ELSE word

\* (uint32_t)-value is its own negation for the least int.
Ltoa(value) ==
    IF value < 0 THEN <<"-">> \o Ultoa((-value) % WordSpace) ELSE Ultoa(value)

Ultox(value) == <<"0", "x">> \o Reversed(LowFirst(value, 16))

\* The switch of vsprintf: what a conversion makes of its argument, a string,
\* a character or a word.
Converted(conv, arg) ==
    CASE conv = "s"         -> arg
      [] conv = "c"         -> <<arg>>
      [] conv \in {"d", "i"} -> Ltoa(AsInt(arg))
      [] conv = "u"         -> Ultoa(arg)
      [] conv \in {"x", "p"} -> Ultox(arg)
      [] conv = "b"         -> IF arg # 0 THEN <<"t", "r", "u", "e">>
                               ELSE <<"f", "a", "l", "s", "e">>

Conversions == {"s", "c", "d", "i", "u", "x", "p", "b"}

\* vsprintf: a % at the end of the format is dropped, and one before any
\* other character stands for that character.
Vsprintf(format, args) ==
    LET from[i \in 1 .. (Len(format) + 2), a \in 1 .. (Len(args) + 1)] ==
            IF i > Len(format) THEN <<>>
            ELSE IF format[i] # "%" THEN <<format[i]>> \o from[i + 1, a]
            ELSE IF i = Len(format) THEN <<>>
            ELSE IF format[i + 1] \in Conversions
                 THEN Converted(format[i + 1], args[a]) \o from[i + 2, a + 1]
                 ELSE <<format[i + 1]>> \o from[i + 2, a]
    IN  from[1, 1]

\* What a function that takes a C string sees of a text.
CString(text) ==
    LET ends == {i \in 1 .. Len(text) : text[i] = NUL}
    IN  IF ends = {} THEN text
        ELSE SubSeq(text, 1, (CHOOSE i \in ends : \A j \in ends : i <= j) - 1)

-----------------------------------------------------------------------------
(* The meaning of a numeral, for the properties.                           *)

DigitValue(c) == (CHOOSE i \in 1 .. 16 : HexArray[i] = c) - 1

Meaning(digits, base) ==
    FoldLeft(LAMBDA n, c : n * base + DigitValue(c), 0, digits)

\* A numeral of the base without superfluous zeros.
IsNumeral(digits, base) ==
    /\ digits # <<>>
    /\ \A i \in 1 .. Len(digits) : \E d \in 1 .. base : HexArray[d] = digits[i]
    /\ Len(digits) > 1 => digits[1] # "0"

=============================================================================
