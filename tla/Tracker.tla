------------------------------- MODULE Tracker -------------------------------
(***************************************************************************)
(* src/tracker.c: the log that libjmprof writes into the FIFO, one record  *)
(* per jm_tracker_fprintf(), and the "dirty" flag that decides when the    *)
(* modules of the program are reported again.                              *)
(***************************************************************************)
EXTENDS CallStack

CONSTANTS Modules,  \* the shared objects and the executable
          Base      \* those of them loaded at start, in link-map order

ASSUME TrackerAssumption == Base \in Seq(Modules) /\ NULL \notin Modules

VARIABLES is_dirty,          \* the link map changed since it was reported
          is_dirty_mutex,    \* its owner, or NULL
          tracker_fd_mutex,  \* its owner, or NULL
          fifo,              \* every record written to tracker_fd so far
          clock,             \* what stm_now() returns next
          loaded             \* the link map of the dynamic linker, in order

trackerVars == <<is_dirty, is_dirty_mutex, tracker_fd_mutex, fifo, clock, loaded>>

\* Every caller of jm_tracker_update_mappings() then calls jm_backtrace_unwind().
AfterUpdate == "unwind_lock"

Record(op, addr) == [op |-> op, addr |-> addr]

\* The locals of a call to jm_tracker_fprintf() for each record, in order.
Fprintf(x, records, next) ==
    frame' = [frame EXCEPT ![x].out = records,
                           ![x].ret = next,
                           ![x].pc = IF records = <<>> THEN next ELSE "fprintf_lock"]

(***************************************************************************)
(* jm_tracker_fprintf(): the timestamp is read, the line formatted and     *)
(* written, all under tracker_fd_mutex.  A record remembers its thread.    *)
(***************************************************************************)
FprintfLock_NoWait(x) ==
    /\ At(x, "fprintf_lock")
    /\ tracker_fd_mutex' = x[1]
    /\ clock' = clock + 1
    /\ frame' = [frame EXCEPT ![x].pc = "fprintf_write", ![x].ts = clock]
    /\ UNCHANGED <<is_dirty, is_dirty_mutex, fifo, loaded>>

FprintfLock(x) ==
    /\ At(x, "fprintf_lock")
    /\ tracker_fd_mutex = NULL
    /\ tracker_fd_mutex' = x[1]
    /\ clock' = clock + 1
    /\ frame' = [frame EXCEPT ![x].pc = "fprintf_write", ![x].ts = clock]
    /\ UNCHANGED <<is_dirty, is_dirty_mutex, fifo, loaded>>

FprintfWrite(x) ==
    LET f == frame[x]
        rest == Tail(f.out)
    IN  /\ At(x, "fprintf_write")
        /\ fifo' = Append(fifo, [op |-> Head(f.out).op, addr |-> Head(f.out).addr,
                                 thr |-> x[1], ts |-> f.ts])
        /\ tracker_fd_mutex' = NULL
        /\ frame' = [frame EXCEPT ![x].out = rest,
                                  ![x].pc = IF rest = <<>> THEN f.ret ELSE "fprintf_lock"]
        /\ UNCHANGED <<is_dirty, is_dirty_mutex, clock, loaded>>

(***************************************************************************)
(* jm_tracker_set_dirty(true), the last thing dlopen() and dlclose() do.   *)
(***************************************************************************)
SetDirtyTrylock(x) ==
    /\ At(x, "set_dirty")
    /\ IF is_dirty_mutex = NULL
       THEN is_dirty_mutex' = x[1] /\ Goto(x, "set_dirty_store")
       ELSE Goto(x, "return") /\ UNCHANGED is_dirty_mutex
    /\ UNCHANGED <<is_dirty, tracker_fd_mutex, fifo, clock, loaded>>

SetDirtyStore(x) ==
    /\ At(x, "set_dirty_store")
    /\ is_dirty' = TRUE
    /\ is_dirty_mutex' = NULL
    /\ Goto(x, "return")
    /\ UNCHANGED <<tracker_fd_mutex, fifo, clock, loaded>>

(***************************************************************************)
(* jm_tracker_update_mappings(): its early return keeps the mutex.         *)
(***************************************************************************)
UpdateTrylock(x) ==
    /\ At(x, "update_trylock")
    /\ IF is_dirty_mutex = NULL
       THEN is_dirty_mutex' = x[1] /\ Goto(x, "update_check")
       ELSE Goto(x, AfterUpdate) /\ UNCHANGED is_dirty_mutex
    /\ UNCHANGED <<is_dirty, tracker_fd_mutex, fifo, clock, loaded>>

UpdateCheck_ClearFirst(x) ==
    /\ At(x, "update_check")
    /\ is_dirty' = FALSE
    /\ Goto(x, AfterUpdate)
    /\ UNCHANGED <<is_dirty_mutex, tracker_fd_mutex, fifo, clock, loaded>>

UpdateCheck(x) ==
    /\ At(x, "update_check")
    /\ is_dirty' = FALSE
    /\ Goto(x, IF is_dirty THEN "update_iterate" ELSE AfterUpdate)
    /\ UNCHANGED <<is_dirty_mutex, tracker_fd_mutex, fifo, clock, loaded>>

\* dl_iterate_phdr() calls dl_iterate_phdr_callback() for each loaded module.
UpdateIterate(x) ==
    /\ At(x, "update_iterate")
    /\ Fprintf(x, [i \in 1..Len(loaded) |-> Record("m", loaded[i])], "update_unlock")
    /\ UNCHANGED trackerVars

UpdateUnlock(x) ==
    /\ At(x, "update_unlock")
    /\ is_dirty_mutex' = NULL
    /\ Goto(x, AfterUpdate)
    /\ UNCHANGED <<is_dirty, tracker_fd_mutex, fifo, clock, loaded>>

LoadedModules == {loaded[i] : i \in DOMAIN loaded}

\* dl_iterate_phdr() holds the loader's lock until its last callback returns.
Iterating(x) == frame[x].ret = "update_unlock" /\ frame[x].out # <<>>

LoaderLocked == \E x \in Activations : Iterating(x)

TrackerInit == /\ is_dirty = TRUE
               /\ is_dirty_mutex = NULL
               /\ tracker_fd_mutex = NULL
               /\ fifo = <<>>
               /\ clock = 0
               /\ loaded = Base

TrackerStep(x) == \/ FprintfLock(x)     \/ FprintfWrite(x)
                  \/ SetDirtyTrylock(x) \/ SetDirtyStore(x)
                  \/ UpdateTrylock(x)   \/ UpdateCheck(x)
                  \/ UpdateIterate(x)   \/ UpdateUnlock(x)
==============================================================================
