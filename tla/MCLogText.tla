------------------------------- MODULE MCLogText -------------------------------
(***************************************************************************)
(* Three kinds of programs for LogText: a few lines of every kind, of      *)
(* lengths around that of the buffer; none but the heap regions; and one   *)
(* line of an integer conversion with any flags, width and precision.      *)
(***************************************************************************)
EXTENDS LogText

MCChars == Symbols \cup {"m", "p", "q", "r", "/", "\n"}

Name(n) == <<"/">> \o Times("p", n - 1)

\* With the timestamp 9, the lines of the names 9, 10 and 11 leave two, one and
\* no characters of 20.
Lines == {ModuleFormat("x", 0, Name(3)), BlockFormat("a", 26, 12), BlockFormat("f", 26, 12),
          FrameFormat(26), ModuleFormat("m", 4, <<"/", "p", " ", "q">>)}
             \cup {ModuleFormat("m", 4, Name(n)) : n \in {9, 10, 11}}

IntegerConv ==
    [conv : {"d", "u", "x", "X", "o"}, arg : {0, 9, 300}, flags : SUBSET {"0", "-", "+", "#"},
     width : {-4, 0, 4}, precision : {<<>>, <<0>>, <<4>>}, length : {"", "hh"}]
         \cup
    [conv : {"i"}, arg : {-9, -300}, flags : SUBSET {"0", "-", " "},
     width : {5}, precision : {<<>>, <<4>>}, length : {"", "hh"}]

MCWorkloads == [1..3 -> Lines] \cup {<<>>} \cup {<<<<c, Lit("\n")>>>> : c \in IntegerConv}

MCGarbage == {"\n", "\\0", "7"}

\* The rows of /proc/self/maps matter to no line but those of the regions.
MCInit ==
    /\ Init
    /\ todo = <<>> \/ maps = <<[offset |-> "digits", dev |-> "digit", path |-> "[heap]"]>>
    /\ todo = <<>> \/ path = "none"

MCSpec == MCInit /\ [][Next]_vars
================================================================================
