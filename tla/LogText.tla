------------------------------- MODULE LogText --------------------------------
(***************************************************************************)
(* The text of the log: how jm_tracker_fprintf() of src/tracker.c formats  *)
(* a line into a buffer and writes it, how jm_tracker_deinit_() adds the   *)
(* heap regions when the program exits, and how jmprof-ip (interpret.c)    *)
(* cuts the text into lines and these into instructions.  The mutex that   *)
(* lets one thread at a time print is in Tracker: here one thread prints.  *)
(***************************************************************************)
EXTENDS PrintfStandard, HeapRegions, BuildInst

CONSTANTS MAX_BUFFER_SIZE,  \* of the line in both programs
          Workloads,        \* the sequences of formats that the program may print
          Garbage           \* what the stack may hold in and after the buffer

ASSUME LogTextAssumption == /\ MAX_BUFFER_SIZE \in Nat \ {0}
                            /\ Workloads \subseteq Seq(Seq(Items))
                            /\ {"r", "\n"} \subseteq Chars

VARIABLES todo,     \* the formats that the program will still print
          stage,    \* "running", "exiting" and then "closed"
          clock,    \* what stm_now() returns next
          buffer,   \* the line of the call in progress, <<>> if there is none
          len,      \* its length
          fifo,     \* the characters written and not read yet
          insts,    \* the instructions of jmprof-ip
          printed   \* history: the formats printed, each with its timestamp

vars == <<heapVars, todo, stage, clock, buffer, len, fifo, insts, printed>>

writerVars == <<heapVars, todo, stage, clock, buffer, len, printed>>

(***************************************************************************)
(* The formats of the library: modules and the executable, blocks, frames  *)
(* and regions.                                                            *)
(***************************************************************************)
Hex(arg) == <<Lit("0"), Lit("x"), [Conv("x", arg) EXCEPT !.length = "j"]>>

ModuleFormat(op, addr, name) ==
    <<Conv("c", op), Lit(" ")>> \o Hex(addr) \o <<Lit(" "), Conv("s", name), Lit("\n")>>

BlockFormat(op, addr, size) ==
    <<Conv("c", op), Lit(" ")>> \o Hex(addr)
        \o <<Lit(" "), [Conv("u", size) EXCEPT !.length = "j"], Lit("\n")>>

FrameFormat(addr) == <<Lit("b"), Lit(" ")>> \o Hex(addr) \o <<Lit("\n")>>

RegionFormat(start, end) ==
    <<Conv("c", "r"), Lit(" ")>> \o Hex(start) \o <<Lit(" ")>> \o Hex(end) \o <<Lit("\n")>>

(***************************************************************************)
(* jm_tracker_fprintf(), its three calls of printf.c.                      *)
(***************************************************************************)
Timestamp == <<[Conv("u", clock) EXCEPT !.length = "j"], Lit(" ")>>

NotWritten == "unwritten"  \* what the buffer holds where nothing was written to it

\* The room after the `stamp` characters of the timestamp, and the length.
Room_Whole(stamp) == MAX_BUFFER_SIZE

Room(stamp) == MAX_BUFFER_SIZE - (stamp + 1)

Length_NotAdded(stamp, format) == VsnprintfReturns(format)

Length(stamp, format) == stamp + VsnprintfReturns(format)

Format(format) ==
    LET stamp  == VsnprintfReturns(Timestamp)
        memory == [i \in 0..(MAX_BUFFER_SIZE - 1) |-> NotWritten]
    IN  /\ buffer = <<>>
        /\ buffer' = Vsnprintf(Vsnprintf(memory, 0, stamp + 1, Timestamp),
                               stamp, Room(stamp), format)
        /\ len' = Length(stamp, format)
        /\ printed' = Append(printed, [timestamp |-> clock, format |-> format])

Fprintf == /\ todo # <<>>
           /\ Format(Head(todo))
           /\ todo' = Tail(todo)
           /\ clock' = clock + 1
           /\ UNCHANGED <<heapVars, stage, fifo, insts>>

\* write() takes len characters, though the buffer may hold fewer.
Byte(i, garbage) == IF i < MAX_BUFFER_SIZE /\ buffer[i] # NotWritten THEN buffer[i] ELSE garbage

Write == /\ buffer # <<>>
         /\ \E garbage \in Garbage :
                fifo' = fifo \o [i \in 1..len |-> Byte(i - 1, garbage)]
         /\ buffer' = <<>>
         /\ len' = 0
         /\ UNCHANGED <<heapVars, todo, stage, clock, insts, printed>>

(***************************************************************************)
(* jm_tracker_deinit_().                                                   *)
(***************************************************************************)
FindHeapRegions == /\ stage = "running" /\ todo = <<>> /\ buffer = <<>>
                   /\ ReadRow
                   /\ UNCHANGED <<todo, stage, clock, buffer, len, fifo, insts, printed>>

\* The row i begins at 16 * i.
Deinit == /\ stage = "running" /\ todo = <<>> /\ buffer = <<>> /\ AllRead
          /\ stage' = "exiting"
          /\ todo' = [i \in DOMAIN regions |-> RegionFormat(16 * regions[i], 16 * regions[i] + 15)]
          /\ UNCHANGED <<heapVars, clock, buffer, len, fifo, insts, printed>>

Close == /\ stage = "exiting" /\ todo = <<>> /\ buffer = <<>>
         /\ stage' = "closed"
         /\ UNCHANGED <<heapVars, todo, clock, buffer, len, fifo, insts, printed>>

(***************************************************************************)
(* jm_symbols_parse_log(): fgets() waits for the end of a line, of its     *)
(* buffer or of the log.                                                   *)
(***************************************************************************)
LineLen == LET end == SelectInSeq(fifo, LAMBDA c : c = "\n")
           IN  Lesser(IF end = 0 THEN Len(fifo) ELSE end, MAX_BUFFER_SIZE - 1)

Fgets == /\ fifo # <<>>
         /\ \/ stage = "closed"
            \/ LineLen = MAX_BUFFER_SIZE - 1
            \/ fifo[LineLen] = "\n"
         /\ insts' = Append(insts, BuildInst(SubSeq(fifo, 1, LineLen)))
         /\ fifo' = SubSeq(fifo, LineLen + 1, Len(fifo))
         /\ UNCHANGED writerVars

AllDone == stage = "closed" /\ fifo = <<>>

Finished == AllDone /\ UNCHANGED vars

Init == /\ HeapInit
        /\ todo \in Workloads
        /\ stage = "running"
        /\ clock = 9
        /\ buffer = <<>> /\ len = 0
        /\ fifo = <<>> /\ insts = <<>> /\ printed = <<>>

Next == \/ Fprintf \/ Write
        \/ FindHeapRegions \/ Deinit \/ Close
        \/ Fgets
        \/ Finished

Spec == Init /\ [][Next]_vars

(***************************************************************************)
(* Properties.                                                             *)
(***************************************************************************)
\* printf.c never writes outside the buffer of jm_tracker_fprintf(), though the
\* line may be longer: the second call is told the room that the first one left.
BufferHolds == buffer # <<>> => DOMAIN buffer = 0..(MAX_BUFFER_SIZE - 1)

\* An integer conversion prints what the C standard says, for all flags, widths
\* and precisions that leave room in the 32 characters of print_integer().
PrintsAsTheStandard == printed # <<>> => PrintsTheStandard(Last(printed).format)

\* A line is whole if it leaves room for two characters in the buffer.
IsWhole(p) ==
    VsnprintfReturns([Timestamp EXCEPT ![1].arg = p.timestamp])
        + VsnprintfReturns(p.format) <= MAX_BUFFER_SIZE - 2

\* What the reader should make of it: the text is cut at its first blank.
Expected(p) ==
    [timestamp  |-> p.timestamp,
     opcode     |-> p.format[1].arg,
     addr       |-> p.format[5].arg,
     alloc_size |-> IF p.format[1].arg = "a" THEN p.format[7].arg ELSE 0,
     ctx        |-> Before(FormatText(SubSeq(p.format, 7, Len(p.format))), Blank)]

IsRecord(p) == p.format[1].conv \notin Integers_

\* A line longer than the buffer costs at most itself and the line after it
\* (tracker.c:117): every other is read back, in order, with its numbers and its
\* text.
ReadBack ==
    AllDone =>
        LET safe(i)  == /\ IsRecord(printed[i]) /\ IsWhole(printed[i])
                        /\ i = 1 \/ IsWhole(printed[i - 1])
            indices  == SelectSeq([i \in DOMAIN printed |-> i], safe)
            expected == [i \in DOMAIN indices |-> Expected(printed[indices[i]])]
        IN  SelectSeq(insts, LAMBDA inst : inst \in ToSet(expected)) = expected
===============================================================================
