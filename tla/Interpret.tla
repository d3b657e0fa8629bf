------------------------------ MODULE Interpret ------------------------------
(***************************************************************************)
(* src/interpret.c: jmprof-ip reads the log of libjmprof.so, one record a  *)
(* step, and keeps one entry for every allocation it read.  The entries    *)
(* that are still leaking when the log ends are its report.                *)
(***************************************************************************)
EXTENDS Uthash, TraceLog

CONSTANTS NULL,
          MAX_BACKTRACE_COUNT,  \* the frames an entry has room for
          MAX_REGION_COUNT,     \* the regions the summary has room for
          Vdso                  \* the modules that are not files

VARIABLES log,        \* what was written to the FIFO so far
          closed,     \* has the last writer closed it?
          pos,        \* how many records jmprof-ip read
          entries,    \* summary.entries in application order
          table,      \* their hash table
          alloc_ctx,  \* the block of the last 'a' or 'f'
          stats,      \* summary.stats
          regions,    \* summary.regions.count
          reported,   \* the modules that dwfl knows
          status      \* "reading", "done", or how the process died

readerVars == <<pos, entries, table, alloc_ctx, stats, regions, reported, status>>

\* jm_symbols_alloc_find_entry(): the position of an entry, or 0 for NULL.
FindEntry(key) == IF key = NULL THEN 0 ELSE HashFind(table, key)

AddEntry_Reuse(key) ==
    IF FindEntry(key) # 0
    THEN UNCHANGED <<entries, table>>
    ELSE /\ entries' = Append(entries, [key |-> key, is_leaking |-> TRUE, traces |-> <<>>])
         /\ table' = HashAdd(table, key, Len(entries) + 1)

AddEntry(key) ==
    /\ entries' = Append(entries, [key |-> key, is_leaking |-> TRUE, traces |-> <<>>])
    /\ table' = HashAdd(table, key, Len(entries) + 1)

\* An access outside an object or through NULL: anything may happen after.
Undefined == /\ status' = "undefined"
             /\ UNCHANGED <<entries, table, alloc_ctx, stats, regions, reported>>

(***************************************************************************)
(* The cases of jm_symbols_parse_log().                                    *)
(***************************************************************************)
\* jm_symbols_build_inst() reads the size of an 'a' record only; all are 1 here.
AllocSize_OfEvery(r) == 1

AllocSize(r) == IF r.op = "a" THEN 1 ELSE 0

ParseAlloc(r) ==
    /\ r.op = "a"
    /\ stats' = [stats EXCEPT !.alloc_count = @ + 1, !.total = @ + AllocSize(r)]
    /\ alloc_ctx' = r.addr
    /\ AddEntry(r.addr)
    /\ UNCHANGED <<regions, reported, status>>

ParseFree_ForgetContext(r) ==
    LET e == FindEntry(r.addr)
    IN  /\ r.op = "f"
        /\ UNCHANGED stats
        /\ entries' = [entries EXCEPT ![e].is_leaking = FALSE]
        /\ UNCHANGED <<table, alloc_ctx, regions, reported, status>>

ParseFree(r) ==
    LET e == FindEntry(r.addr)
    IN  /\ r.op = "f"
        /\ IF e = 0 THEN Undefined
           ELSE /\ stats' = [stats EXCEPT !.free_count = @ + 1, !.total = @ - AllocSize(r)]
                /\ alloc_ctx' = r.addr
                /\ entries' = [entries EXCEPT ![e].is_leaking = FALSE]
                /\ UNCHANGED <<table, regions, reported, status>>

\* jm_symbols_build_backtrace() looks the address up in the modules known now.
Resolve(addr) == IF addr \in reported THEN addr ELSE NULL

ParseBacktrace(r) ==
    LET e == FindEntry(alloc_ctx)
    IN  /\ r.op = "b"
        /\ \/ /\ alloc_ctx = NULL
              /\ status' = "assert"
              /\ UNCHANGED <<entries, table, alloc_ctx, stats, regions, reported>>
           \/ alloc_ctx # NULL /\ e = 0 /\ Undefined
           \/ /\ alloc_ctx # NULL /\ e # 0
              /\ entries' = [entries EXCEPT ![e].traces = Append(@, Resolve(r.addr))]
              /\ status' = IF Len(entries[e].traces) < MAX_BACKTRACE_COUNT
                           THEN status ELSE "undefined"
              /\ UNCHANGED <<table, alloc_ctx, stats, regions, reported>>

ParseModule(r) ==
    /\ r.op = "m"
    /\ reported' = IF r.addr \in Vdso THEN reported ELSE reported \cup {r.addr}
    /\ UNCHANGED <<entries, table, alloc_ctx, stats, regions, status>>

ParseRegion(r) ==
    /\ r.op = "r"
    /\ regions' = regions + 1
    /\ status' = IF regions < MAX_REGION_COUNT THEN status ELSE "undefined"
    /\ UNCHANGED <<entries, table, alloc_ctx, stats, reported>>

ParseExecPath(r) ==
    /\ r.op = "x"
    /\ UNCHANGED <<entries, table, alloc_ctx, stats, regions, reported, status>>

ParseLog ==
    /\ status = "reading" /\ pos < Len(log)
    /\ pos' = pos + 1
    /\ LET r == log[pos + 1]
       IN  \/ ParseAlloc(r)  \/ ParseBacktrace(r) \/ ParseExecPath(r)
           \/ ParseFree(r)   \/ ParseModule(r)    \/ ParseRegion(r)
    /\ UNCHANGED <<log, closed>>

\* What main() prints: the leaking entries.
Leaks == {i \in DOMAIN entries : entries[i].is_leaking}

\* fgets() returned NULL: after the report, HASH_ITER() deletes every entry.
Report ==
    /\ status = "reading" /\ pos = Len(log) /\ closed
    /\ status' = "done"
    /\ table' = HashDelete(table, DOMAIN entries)
    /\ UNCHANGED <<log, closed, pos, entries, alloc_ctx, stats, regions, reported>>

ReaderInit == /\ pos = 0
              /\ entries = <<>>
              /\ table = NewTable
              /\ alloc_ctx = NULL
              /\ stats = [alloc_count |-> 0, free_count |-> 0, total |-> 0]
              /\ regions = 0
              /\ reported = {}
              /\ status = "reading"

==============================================================================
