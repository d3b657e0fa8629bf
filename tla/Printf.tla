------------------------------- MODULE Printf --------------------------------
(***************************************************************************)
(* src/printf.c, the formatted output that libjmprof.so uses because it    *)
(* does not allocate: what each conversion prints, and how little of it    *)
(* reaches a buffer that is too small.  Text is a sequence of characters.  *)
(* The conversions of floating-point numbers are left out.                 *)
(***************************************************************************)
EXTENDS Integers, SequencesExt

CONSTANTS PRINTF_INTEGER_BUFFER_SIZE,  \* the room for one converted integer
          Chars,                       \* the characters
          NULL

DigitChar(d, upper) ==
    IF upper THEN <<"0", "1", "2", "3", "4", "5", "6", "7",
                    "8", "9", "A", "B", "C", "D", "E", "F">>[d + 1]
             ELSE <<"0", "1", "2", "3", "4", "5", "6", "7",
                    "8", "9", "a", "b", "c", "d", "e", "f">>[d + 1]

\* What the conversions print of their own.
Symbols == {DigitChar(d, TRUE) : d \in 0..15} \cup {DigitChar(d, FALSE) : d \in 0..15}
               \cup {" ", "x", "X", "-", "+", "%", "(", ")", "n", "i", "l", "u"}

ASSUME PrintfAssumption == /\ PRINTF_INTEGER_BUFFER_SIZE \in Nat \ {0}
                           /\ Symbols \subseteq Chars

(***************************************************************************)
(* A format is a sequence of characters (conv is "") and conversions, each *)
(* with its argument.  width and precision may come from a `*` and then be *)
(* negative; precision is <<>> if there is none.  "end" is a `%` that the  *)
(* end of the format cuts off.                                             *)
(***************************************************************************)
Lit(char) == [conv |-> "", arg |-> char]

Conv(conv, arg) == [conv |-> conv, arg |-> arg, flags |-> {}, width |-> 0,
                    precision |-> <<>>, length |-> ""]

Integers_ == {"d", "i", "u", "x", "X", "o", "b"}

\* What formats are made of: each argument has the type of its conversion.
Convs(conv, args) == [conv : conv, arg : args, flags : SUBSET {"0", "-", "+", " ", "#"},
                      width : Int, precision : Seq(Int),
                      length : {"", "hh", "h", "l", "ll", "j", "z", "t"}]

Items == [conv : {""}, arg : Chars]
             \cup Convs({"d", "i"}, Int) \cup Convs(Integers_ \ {"d", "i"}, Nat)
             \cup Convs({"p"}, Nat) \cup Convs({"c"}, Chars)
             \cup Convs({"s"}, Seq(Chars) \cup {NULL})
             \cup Convs({"n", "end", "%"}, {NULL})

Times(char, n) == [i \in 1..n |-> char]

Lesser(m, n) == IF m < n THEN m ELSE n

(***************************************************************************)
(* Integers are printed lowest digit first into a buffer of fixed size,    *)
(* which out_rev_() turns around.                                          *)
(***************************************************************************)
\* The values that the loop of print_integer() takes its digits from.
Quotients(value, base) ==
    LET q[i \in 0..PRINTF_INTEGER_BUFFER_SIZE] == IF i = 0 THEN value ELSE q[i - 1] \div base
    IN  q

Digits(value, base, upper) ==
    LET q == Quotients(value, base)
    IN  [i \in {k \in 1..PRINTF_INTEGER_BUFFER_SIZE : q[k - 1] # 0} |->
            DigitChar(q[i - 1] % base, upper)]

\* `buf[len++] = c` for each of the characters, while there is room.
Put(buf, chars) ==
    buf \o SubSeq(chars, 1, Lesser(Len(chars), PRINTF_INTEGER_BUFFER_SIZE - Len(buf)))

PadTo(buf, n) == buf \o Times("0", Lesser(n, PRINTF_INTEGER_BUFFER_SIZE) - Len(buf))

OutRev(buf, width, flags) ==
    LET spaces == Times(" ", width - Len(buf))
    IN  IF "-" \in flags THEN Reverse(buf) \o spaces
        ELSE IF "0" \in flags THEN Reverse(buf)
        ELSE spaces \o Reverse(buf)

(***************************************************************************)
(* print_integer_finalization(): leading zeros, the prefix and the sign.   *)
(* The prefix takes back the zeros that were put where it goes.            *)
(***************************************************************************)
Zeros(flags) == "0" \in flags /\ "-" \notin flags

WidthLeft_SignOfPositive(negative, width, flags) ==
    IF Zeros(flags) /\ width > 0 /\ flags \cap {"+", " "} # {} THEN width - 1 ELSE width

WidthLeft(negative, width, flags) ==
    IF Zeros(flags) /\ width > 0 /\ (negative \/ flags \cap {"+", " "} # {})
    THEN width - 1 ELSE width

TakenBack(len, padding, base, precision, width, flags) ==
    IF "precision" \notin flags /\ len \in {precision, width}
    THEN Lesser(padding, IF base \in {16, 2} THEN 2 ELSE 1) ELSE 0

Prefix(base, flags) == CASE base = 16 -> <<IF "upper" \in flags THEN "X" ELSE "x", "0">>
                         [] base = 2  -> <<"b", "0">>
                         [] OTHER     -> <<"0">>

Sign(negative, flags) == IF negative THEN <<"-">>
                         ELSE IF "+" \in flags THEN <<"+">>
                         ELSE IF " " \in flags THEN <<" ">> ELSE <<>>

Finalization(digits, negative, base, precision, width, flags) ==
    LET left     == WidthLeft(negative, width, flags)
        padded   == PadTo(IF Zeros(flags) THEN PadTo(digits, left) ELSE digits, precision)
        padding  == Len(padded) - Len(digits)
        kept     == IF base = 8 /\ padding > 0 THEN flags \ {"#"} ELSE flags
        taken    == TakenBack(Len(padded), padding, base, precision, left, kept)
        prefixed == IF kept \cap {"#", "pointer"} = {} THEN padded
                    ELSE Put(SubSeq(padded, 1, Len(padded) - taken), Prefix(base, kept))
    IN  OutRev(Put(prefixed, Sign(negative, kept)), left, kept)

PrintInteger(value, negative, base, precision, width, flags) ==
    LET plain  == "precision" \notin flags
        digits == IF value = 0 /\ plain THEN <<"0">> ELSE Digits(value, base, "upper" \in flags)
        kept   == IF value = 0 /\ (plain \/ base = 16) THEN flags \ {"#"} ELSE flags
    IN  Finalization(digits, negative, base, precision, width, kept)

(***************************************************************************)
(* format_string_loop(): what one conversion prints.                       *)
(***************************************************************************)
Width(c) == IF c.width < 0 THEN -c.width ELSE c.width

Precision(c) == IF c.precision = <<>> \/ Head(c.precision) < 0 THEN 0 ELSE Head(c.precision)

Flags(c) == c.flags \cup (IF c.width < 0 THEN {"-"} ELSE {})
                    \cup (IF c.precision # <<>> THEN {"precision"} ELSE {})

Signed(c) == c.conv \in {"d", "i"}

Base(c) == CASE c.conv \in {"x", "X"} -> 16
             [] c.conv = "o"          -> 8
             [] c.conv = "b"          -> 2
             [] OTHER                 -> 10

\* `hh` and `h` convert the argument, the other lengths say how to fetch it.
Argument(c) ==
    LET narrow(m) == IF Signed(c) THEN ((c.arg + m \div 2) % m) - m \div 2 ELSE c.arg % m
    IN  CASE c.length = "hh" -> narrow(256)
          [] c.length = "h"  -> narrow(65536)
          [] OTHER           -> c.arg

IntegerFlags(c) ==
    (Flags(c) \cup (IF c.conv = "X" THEN {"upper"} ELSE {}))
        \ ((IF Base(c) = 10 THEN {"#"} ELSE {})
             \cup (IF c.precision # <<>> THEN {"0"} ELSE {})
             \cup (IF Signed(c) THEN {} ELSE {"+", " "}))

IntegerText(c) ==
    LET value == Argument(c)
    IN  PrintInteger(IF value > 0 THEN value ELSE -value, value < 0, Base(c),
                     Precision(c), Width(c), IntegerFlags(c))

\* %c and %s are padded with spaces, whatever the flag 0 says; a null string is
\* printed by out_rev_() and does not heed the precision.
Padded(text, c) == LET spaces == Times(" ", Width(c) - Len(text))
                   IN  IF "-" \in Flags(c) THEN text \o spaces ELSE spaces \o text

StringText(c) ==
    IF c.arg = NULL THEN OutRev(<<")", "l", "l", "u", "n", "(">>, Width(c), Flags(c))
    ELSE IF c.precision = <<>> THEN Padded(c.arg, c)
    ELSE Padded(SubSeq(c.arg, 1, Lesser(Len(c.arg), Precision(c))), c)

SizeOfPointer == 8

PointerText(c) ==
    LET width == 2 * SizeOfPointer + 2
        flags == Flags(c) \cup {"0", "pointer"}
    IN  IF c.arg = 0 THEN OutRev(<<")", "l", "i", "n", "(">>, width, flags)
        ELSE PrintInteger(c.arg, FALSE, 16, Precision(c), width, flags)

Text(c) == CASE c.conv = ""             -> <<c.arg>>
             [] c.conv \in Integers_    -> IntegerText(c)
             [] c.conv = "c"            -> Padded(<<c.arg>>, c)
             [] c.conv = "s"            -> StringText(c)
             [] c.conv = "p"            -> PointerText(c)
             [] c.conv \in {"n", "end"} -> <<>>
             [] OTHER                   -> <<c.conv>>

\* Nothing is printed after a conversion that the end of the format cuts off.
FormatText(format) ==
    LET cut == SelectInSeq(format, LAMBDA c : c.conv = "end")
    IN  FlattenSeq([i \in 1..(IF cut = 0 THEN Len(format) ELSE cut) |-> Text(format[i])])

(***************************************************************************)
(* vsnprintf_(): every character is counted, those that fit are written.   *)
(* `memory` are the characters the caller sees, and the array begins at    *)
(* its index `at`; a write elsewhere would extend it.                      *)
(***************************************************************************)
Vsnprintf(memory, at, n, format) ==
    LET text    == FormatText(format)
        written == at..(at + Lesser(Len(text), n) - 1)
        nul     == IF n = 0 THEN {} ELSE {at + Lesser(Len(text), n - 1)}
    IN  [i \in DOMAIN memory \cup written \cup nul |->
            IF i \in nul THEN "\\0" ELSE IF i \in written THEN text[i - at + 1] ELSE memory[i]]

\* What vsnprintf_() returns: the pos of the gadget.
VsnprintfReturns(format) == Len(FormatText(format))
==============================================================================
