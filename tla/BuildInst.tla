------------------------------ MODULE BuildInst -------------------------------
(***************************************************************************)
(* jm_symbols_build_inst() of src/interpret.c: the instruction that        *)
(* jmprof-ip takes from one line of the log, whatever stands in it.  A     *)
(* line is a sequence of characters.                                       *)
(***************************************************************************)
EXTENDS Integers, SequencesExt

Blank == {" ", "\n"}

Decimals == <<"0", "1", "2", "3", "4", "5", "6", "7", "8", "9">>

Hexadecimals == Decimals \o <<"a", "b", "c", "d", "e", "f">>

\* The characters of s before the first of those in `set`, and the rest of s.
Before(s, set) == LET n == SelectInSeq(s, LAMBDA c : c \in set)
                  IN  IF n = 0 THEN s ELSE SubSeq(s, 1, n - 1)

From(s, set) == SubSeq(s, Len(Before(s, set)) + 1, Len(s))

WhileIn(s, set) == Before(s, ToSet(s) \ set)

SkipBlank(s) == From(s, ToSet(s) \ Blank)

Number(s, digits) ==
    LET base  == Len(digits)
        value == [c \in ToSet(digits) |-> (CHOOSE i \in 1..base : digits[i] = c) - 1]
    IN  FoldLeft(LAMBDA n, c : n * base + value[c], 0, s)

\* The character string in a buffer ends at its first NUL.
CString(buffer) == Before(buffer, {"\\0"})

UnknownInst == [timestamp |-> 0, opcode |-> "unknown", addr |-> 0, ctx |-> <<>>,
                alloc_size |-> 0]

(***************************************************************************)
(* sscanf(buffer, "%ju %c %p %s", ...) stores what it matches and stops at *)
(* the first conversion that does not match.                               *)
(***************************************************************************)
ScanString(inst, s) == [inst EXCEPT !.ctx = Before(SkipBlank(s), Blank)]

ScanPointer(inst, s) ==
    LET number == IF IsPrefix(<<"0", "x">>, s) THEN SubSeq(s, 3, Len(s)) ELSE s
        digits == WhileIn(number, ToSet(Hexadecimals))
    IN  IF digits = <<>> THEN inst
        ELSE ScanString([inst EXCEPT !.addr = Number(digits, Hexadecimals)],
                        SubSeq(number, Len(digits) + 1, Len(number)))

ScanOpcode(inst, s) ==
    IF s = <<>> THEN inst
    ELSE ScanPointer([inst EXCEPT !.opcode = Head(s)], SkipBlank(Tail(s)))

Scan(buffer) ==
    LET line   == SkipBlank(CString(buffer))
        digits == WhileIn(line, ToSet(Decimals))
    IN  IF digits = <<>> THEN UnknownInst
        ELSE ScanOpcode([UnknownInst EXCEPT !.timestamp = Number(digits, Decimals)],
                        SkipBlank(SubSeq(line, Len(digits) + 1, Len(line))))

\* For an 'a' record, strtol() reads the size from its text.
BuildInst(buffer) ==
    LET inst == Scan(buffer)
    IN  IF inst.opcode # "a" THEN inst
        ELSE [inst EXCEPT !.alloc_size = Number(WhileIn(inst.ctx, ToSet(Decimals)), Decimals)]
===============================================================================
