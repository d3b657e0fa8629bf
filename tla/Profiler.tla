------------------------------- MODULE Profiler ------------------------------
(***************************************************************************)
(* The two processes of bin/jmprof and the FIFO between them: the profiled *)
(* program with libjmprof.so, as HeapTrace specifies it, writes the log    *)
(* and jmprof-ip reads it at its own pace, until the program closes it.    *)
(* While the exit handler runs the other threads go on: they finish the    *)
(* records they had begun, and no later call of theirs is logged.          *)
(***************************************************************************)
EXTENDS Interpret

CONSTANTS Threads, Addrs, Modules,
          MaxFrames,   \* bound on the 'b' records of one backtrace
          MaxRegions,  \* bound on the regions the library reports
          MayFail      \* may an allocation of the program fail?

ASSUME ProfilerAssumption == /\ NULL \notin Addrs \cup Modules
                             /\ Keys = Addrs \cup {NULL}
                             /\ {MaxFrames, MaxRegions, MAX_BACKTRACE_COUNT, MAX_REGION_COUNT} \subseteq Nat

VARIABLES heap,    \* the blocks of the profiled program
          exiting  \* has its exit handler ended the logging?

vars == <<log, closed, readerVars, heap, exiting>>

Lib == INSTANCE HeapTrace WITH trace <- log

\* The frames written since the last 'a' or 'f'.
Backtrace(i) == {j \in (i + 1)..Len(log) : log[j].op = "b"}

LibOpen == log = <<>> /\ Lib!Log("x", NULL, NULL) /\ UNCHANGED heap

\* malloc() returns NULL and is logged like any other result.
LibFailed == MayFail /\ (\E t \in Threads : Lib!Log("a", NULL, t)) /\ UNCHANGED heap

\* The block comes from a function that is not interposed, as aligned_alloc();
\* free() is, and logs it.
LibFreeAligned ==
    \E a \in heap \ Lib!Traced(log), t \in Threads : Lib!Log("f", a, t) /\ UNCHANGED heap

Room == \A i \in DOMAIN log : Lib!IsOwnerOf(log, Len(log) + 1, i)
                                => Cardinality(Backtrace(i)) < MaxFrames

LibWrite ==
    /\ log # <<>>
    /\ Lib!Next \/ LibFailed \/ LibFreeAligned
    /\ log' # log /\ log'[Len(log')].op = "b" => Room

\* jm_preload_deinit_(): from here on a call is not logged.
LibExit == log # <<>> /\ ~exiting /\ exiting' = TRUE /\ UNCHANGED <<log, heap>>

LibUnlogged == exiting /\ heap' \in SUBSET Addrs /\ UNCHANGED log

Reported == {i \in DOMAIN log : log[i].op = "r"}

LibRegion == /\ exiting /\ Cardinality(Reported) < MaxRegions
             /\ Lib!Log("r", NULL, NULL)
             /\ UNCHANGED heap

\* The exit handler closes the FIFO, or a signal ends the program before it does.
LibClose == log # <<>> /\ ~closed /\ closed' = TRUE /\ UNCHANGED <<log, heap, exiting>>

Program ==
    /\ \/ /\ ~closed /\ UNCHANGED closed
          /\ LibExit \/ ((LibOpen \/ LibWrite \/ LibRegion) /\ UNCHANGED exiting)
       \/ LibUnlogged /\ UNCHANGED <<closed, exiting>>
       \/ LibClose
    /\ UNCHANGED readerVars

Reader == (ParseLog \/ Report) /\ UNCHANGED <<heap, exiting>>

\* jmprof-ip has ended: until then it must have something to do.
Finished == status # "reading" /\ UNCHANGED vars

Init == /\ log = <<>> /\ closed = FALSE /\ heap = {} /\ exiting = FALSE
        /\ ReaderInit

Next == Program \/ Reader \/ Finished

Spec == Init /\ [][Next]_vars

Read == SubSeq(log, 1, pos)

ReaderTypeOK ==
    /\ pos \in 0..Len(log)
    /\ \A i \in DOMAIN entries : entries[i].key \in Keys /\ entries[i].is_leaking \in BOOLEAN
    /\ table.num >= HASH_INITIAL_NUM_BUCKETS
    /\ alloc_ctx \in Keys
    /\ regions \in Nat /\ reported \subseteq Modules
    /\ status \in {"reading", "done", "assert", "undefined"}

\* The table has not been expanded: each chain has its newest element first.
Unexpanded == table.num = HASH_INITIAL_NUM_BUCKETS

\* The report names exactly the blocks that the log says were not freed, each
\* by its latest allocation, although entries of earlier allocations at the
\* same address are still in the table (interpret.c:343-349).
LeaksAreTheBlocksNotFreed ==
    status \in {"reading", "done"} /\ Unexpanded =>
        /\ {entries[i].key : i \in Leaks} = Traced(Read)
        /\ \A i, j \in DOMAIN entries : i < j /\ entries[i].key = entries[j].key => i \notin Leaks

\* An expansion turns the chains around, and a free may then mark an older
\* entry of the address (uthash.h:853-872); still no leak is missed.
NoLeakMissed ==
    status \in {"reading", "done"} => Traced(Read) \subseteq {entries[i].key : i \in Leaks}

\* Each free is of a block that the log shows.
FreesRetract == \A i \in DOMAIN Read :
    Read[i].op = "f" => Read[i].addr \in Traced(SubSeq(Read, 1, i - 1))

\* The summary fits the report: what was allocated and not freed is what leaks,
\* and the total is that of all allocations, as no 'f' record has a size
\* (interpret.c:302, 345), unless a block was freed that was never announced.
SummaryAgrees ==
    status \in {"reading", "done"} /\ Unexpanded /\ FreesRetract =>
        /\ stats.alloc_count - stats.free_count = Cardinality(Leaks)
        /\ stats.total = stats.alloc_count

\* The position in the log of the last allocation of an address.
AllocOf(addr) == CHOOSE i \in DOMAIN log :
    /\ log[i].op = "a" /\ log[i].addr = addr
    /\ \A j \in DOMAIN log : log[j].op = "a" /\ log[j].addr = addr => j <= i

\* The positions of the frames that the log gives the block of position a.
FramesOf(a) == {i \in DOMAIN log : log[i].op = "b" /\ IsOwnerOf(log, i, a)}

\* What is printed for the frame at position i: its module, if it is a file that
\* was reported before the frame (interpret.c:237, 354).
Resolved(i) == IF /\ log[i].addr \notin Vdso
                  /\ \E j \in 1..i : log[j].op = "m" /\ log[j].addr = log[i].addr
               THEN log[i].addr ELSE NULL

\* The trace reported for a leak is the stack that its allocation logged, frame
\* by frame, and none of another block.
LeakTraceIsItsBacktrace ==
    status = "done" /\ Unexpanded => \A k \in Leaks :
        LET frames == FramesOf(AllocOf(entries[k].key))
        IN  /\ Len(entries[k].traces) = Cardinality(frames)
            /\ \A i \in frames :
                   entries[k].traces[Cardinality({j \in frames : j <= i})] = Resolved(i)

\* The record at position i, an 'a' or an 'f', is about the block that the 'a'
\* record at position a allocated.
IsAbout(i, a) ==
    /\ a <= i /\ log[a].op = "a" /\ log[a].addr = log[i].addr
    /\ \A k \in (a + 1)..i : ~(log[k].op = "a" /\ log[k].addr = log[i].addr)

\* The frames read so far of its allocation and of its frees.
FramesAbout(a) == {i \in 1..pos : /\ log[i].op = "b"
                                  /\ \E o \in 1..pos : IsOwnerOf(log, i, o) /\ IsAbout(o, a)}

\* A free of a block that was never announced: there is no entry (interpret.c:349).
UnknownBlock == \E i \in 1..pos :
    log[i].op = "f" /\ \A a \in 1..i : ~(log[a].op = "a" /\ log[a].addr = log[i].addr)

\* An entry has room for MAX_BACKTRACE_COUNT frames, and that of a block which was
\* freed gets two backtraces of up to 31 (backtrace.c:49-55, interpret.c:229).
LongTrace == \E a \in 1..pos : /\ log[a].op = "a" /\ log[a].addr # NULL
                               /\ Cardinality(FramesAbout(a)) > MAX_BACKTRACE_COUNT

\* The library may report one region more than there is room for (tracker.c:229,
\* interpret.c:375).
ManyRegions == Cardinality({i \in 1..pos : log[i].op = "r"}) > MAX_REGION_COUNT

\* jmprof-ip leaves an object or follows a NULL entry exactly when the log makes it
\* do so in one of three ways: no other log, of any order of records and any reuse
\* of addresses, does, and each of these does (interpret.c:229, 349, 375).
FailsOnlyByOverflow ==
    Unexpanded => (status = "undefined" <=> UnknownBlock \/ LongTrace \/ ManyRegions)

\* assert(alloc_ctx != NULL): a backtrace belongs to a block (interpret.c:329).
BacktraceHasContext == status # "assert"

\* Every entry is in the table, once, until the table is emptied at the end:
\* what HASH_FSCK() checks after each addition (uthash.h:519-566).
TableHoldsEntries ==
    /\ {<<e.key, e.id>> : e \in table.elems} =
           IF status = "done" THEN {} ELSE {<<entries[i].key, i>> : i \in DOMAIN entries}
    /\ status # "done" => /\ Cardinality(table.elems) = Len(entries)
                          /\ \A k \in Keys : HashFind(table, k) # 0
                                <=> \E i \in DOMAIN entries : entries[i].key = k
==============================================================================
