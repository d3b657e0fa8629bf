---------------------------- MODULE PrintfStandard ----------------------------
(***************************************************************************)
(* What the C standard says an integer conversion prints: printf.h says    *)
(* that the library implements its functions.                              *)
(***************************************************************************)
EXTENDS Printf

\* Positional notation, the highest digit first; zero has no digits.
Numeral(value, base, upper) ==
    LET numeral[v \in 0..value] ==
            IF v = 0 THEN <<>>
            ELSE Append(numeral[v \div base], DigitChar(v % base, upper))
    IN  numeral[value]

\* At least as many digits as the precision says, one if there is none.
StandardDigits(c) ==
    LET value  == IF Argument(c) < 0 THEN -Argument(c) ELSE Argument(c)
        digits == Numeral(value, Base(c), c.conv = "X")
        least  == IF c.precision = <<>> THEN 1 ELSE Head(c.precision)
        padded == Times("0", least - Len(digits)) \o digits
    IN  IF "#" \in c.flags /\ c.conv = "o" /\ (padded = <<>> \/ Head(padded) # "0")
        THEN <<"0">> \o padded ELSE padded

StandardPrefix(c) ==
    IF Signed(c) /\ Argument(c) < 0 THEN <<"-">>
    ELSE IF Signed(c) /\ "+" \in c.flags THEN <<"+">>
    ELSE IF Signed(c) /\ " " \in c.flags THEN <<" ">>
    ELSE IF "#" \in c.flags /\ c.conv \in {"x", "X"} /\ Argument(c) # 0 THEN <<"0", c.conv>>
    ELSE <<>>

\* Filled up to the width: on the right, with zeros, or on the left.
StandardText(c) ==
    LET body == StandardPrefix(c) \o StandardDigits(c)
        room == Width(c) - Len(body)
    IN  IF "-" \in c.flags \/ c.width < 0 THEN body \o Times(" ", room)
        ELSE IF "0" \in c.flags /\ c.precision = <<>>
        THEN StandardPrefix(c) \o Times("0", room) \o StandardDigits(c)
        ELSE Times(" ", room) \o body

\* The buffer of print_integer() has room for all but the blanks around it.
Fits(c) ==
    LET zeros == "0" \in c.flags /\ c.precision = <<>> /\ "-" \notin c.flags
    IN  Len(StandardText([c EXCEPT !.width = IF zeros THEN @ ELSE 0]))
            <= PRINTF_INTEGER_BUFFER_SIZE

\* A precision taken from a `*` counts as omitted if it is negative, says the
\* standard; printf.c takes it as zero, and it is left out here.
Comparable(c) == /\ c.conv \in Integers_ \ {"b"}
                 /\ \A i \in DOMAIN c.precision : c.precision[i] >= 0
                 /\ Fits(c)

\* In a format of integers, each is printed as the standard says.
PrintsTheStandard(format) ==
    \A i \in DOMAIN format : Comparable(format[i]) => Text(format[i]) = StandardText(format[i])
==============================================================================
