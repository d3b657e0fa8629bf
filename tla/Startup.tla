------------------------------- MODULE Startup --------------------------------
(***************************************************************************)
(* jm_preload_init_() of src/preload.c step by step: the functions of the  *)
(* C library are looked up one after the other while other threads, and    *)
(* dlsym() itself, may already call the interposed ones.  A thread has a   *)
(* stack of calls, the innermost first; "init" stands for                  *)
(* jm_preload_init().  No process has exited or forked yet: is_initialized *)
(* has its initial value, true.                                            *)
(***************************************************************************)
EXTENDS Integers, Sequences

CONSTANTS Threads,
          NULL,
          ProgramFns,  \* the interposed functions the program calls
          DlsymCalls,  \* those that dlsym() calls
          MaxCalls     \* bound on the calls of one behaviour

Allocators == {"calloc", "malloc", "realloc"}

ASSUME StartupAssumption == /\ Threads \cap {NULL, "never", "done"} = {}
                            /\ ProgramFns \subseteq Allocators \cup {"free"}
                            /\ DlsymCalls \subseteq Allocators
                            /\ MaxCalls \in Nat

VARIABLES stack,              \* per thread, its calls
          libc,               \* the functions whose libc_* pointer is set
          keys,               \* those whose key was created
          guard,              \* per thread, those whose key is set
          preload_init_once,  \* "never", the thread that runs it, or "done"
          tracker_init_once,
          tracker_fd,         \* "none" or "open"
          is_dirty, is_dirty_mutex,
          log,                \* what was passed to write(), and to which fd
          calls               \* how many calls were made

initVars == <<libc, keys, preload_init_once, tracker_init_once, tracker_fd>>
logVars  == <<guard, is_dirty, is_dirty_mutex, log>>
vars     == <<stack, initVars, logVars, calls>>

Frame(fn, pc) == [fn |-> fn, pc |-> pc, step |-> 1]

At(t, label) == stack[t] # <<>> /\ Head(stack[t]).pc = label

Fn(t) == Head(stack[t]).fn

Goto(t, label) == stack' = [stack EXCEPT ![t][1].pc = label]

Push(t, f) == stack' = [stack EXCEPT ![t] = <<f>> \o @]

Pop(t) == stack' = [stack EXCEPT ![t] = Tail(@)]

Write(op) == log' = Append(log, [op |-> op, fd |-> tracker_fd])

(***************************************************************************)
(* jm_preload_init_(): what it does to each function, in its order.        *)
(***************************************************************************)
Key(fn)  == [set |-> "key", fn |-> fn]
Libc(fn) == [set |-> "libc", fn |-> fn]

InitSteps_CallocLast == <<Key("malloc"),  Libc("malloc"),  Key("realloc"), Libc("realloc"),
                          Key("free"),    Libc("free"),    Key("calloc"),  Libc("calloc"),
                          Libc("dlopen"),  Libc("dlclose")>>

InitSteps_KeyLast == <<Libc("calloc"),  Key("calloc"),  Libc("malloc"), Key("malloc"),
                       Libc("realloc"), Key("realloc"), Libc("free"),   Key("free"),
                       Libc("dlopen"),  Libc("dlclose")>>

InitSteps == <<Key("calloc"),  Libc("calloc"),  Key("malloc"), Libc("malloc"),
               Key("realloc"), Libc("realloc"), Key("free"),   Libc("free"),
               Libc("dlopen"), Libc("dlclose")>>

\* The pointer of calloc() is __libc_calloc, the others are looked up.
DlsymCall(t) ==
    /\ At(t, "preload_init_")
    /\ LET s == InitSteps[Head(stack[t]).step] IN s.set = "libc" /\ s.fn # "calloc"
    /\ calls < MaxCalls /\ calls' = calls + 1
    /\ \E fn \in DlsymCalls : Push(t, Frame(fn, "enter"))
    /\ UNCHANGED <<initVars, logVars>>

PreloadInit(t) ==
    LET n == Head(stack[t]).step
        s == InitSteps[n]
    IN  /\ At(t, "preload_init_")
        /\ keys' = IF s.set = "key" THEN keys \cup {s.fn} ELSE keys
        /\ libc' = IF s.set = "libc" THEN libc \cup {s.fn} ELSE libc
        /\ IF n < Len(InitSteps)
           THEN stack' = [stack EXCEPT ![t][1].step = n + 1] /\ UNCHANGED preload_init_once
           ELSE Goto(t, "tracker_once") /\ preload_init_once' = "done"
        /\ UNCHANGED <<tracker_init_once, tracker_fd, logVars, calls>>

(***************************************************************************)
(* jm_preload_init() and jm_tracker_init().  pthread_once() waits while    *)
(* another thread, or the caller itself, is in the function.               *)
(***************************************************************************)
PreloadOnce_NoWait(t) ==
    /\ At(t, "preload_once")
    /\ IF preload_init_once = "never"
       THEN preload_init_once' = t /\ Goto(t, "preload_init_")
       ELSE Goto(t, "tracker_once") /\ UNCHANGED preload_init_once
    /\ UNCHANGED <<libc, keys, tracker_init_once, tracker_fd, logVars, calls>>

PreloadOnce(t) ==
    /\ At(t, "preload_once")
    /\ \/ /\ preload_init_once = "never"
          /\ preload_init_once' = t
          /\ Goto(t, "preload_init_")
       \/ preload_init_once = "done" /\ Goto(t, "tracker_once") /\ UNCHANGED preload_init_once
    /\ UNCHANGED <<libc, keys, tracker_init_once, tracker_fd, logVars, calls>>

TrackerOnce(t) ==
    /\ At(t, "tracker_once")
    /\ \/ /\ tracker_init_once = "never"
          /\ tracker_init_once' = t
          /\ Goto(t, "tracker_open")
       \/ tracker_init_once = "done" /\ Pop(t) /\ UNCHANGED tracker_init_once
    /\ UNCHANGED <<libc, keys, preload_init_once, tracker_fd, logVars, calls>>

TrackerOpen(t) == /\ At(t, "tracker_open")
                  /\ tracker_fd' = "open"
                  /\ Goto(t, "tracker_exec_path")
                  /\ UNCHANGED <<libc, keys, preload_init_once, tracker_init_once, logVars, calls>>

TrackerExecPath(t) ==
    /\ At(t, "tracker_exec_path")
    /\ Write("x")
    /\ tracker_init_once' = "done"
    /\ Pop(t)
    /\ UNCHANGED <<libc, keys, preload_init_once, tracker_fd>>
    /\ UNCHANGED <<guard, is_dirty, is_dirty_mutex, calls>>

(***************************************************************************)
(* An interposed function: free() logs first, the others call first.       *)
(***************************************************************************)
Enter(t) ==
    LET first == IF Fn(t) = "free" THEN "guard" ELSE "libc"
    IN  /\ At(t, "enter")
        /\ IF Fn(t) \in libc
           THEN Goto(t, first)
           ELSE stack' = [stack EXCEPT ![t] =
                    <<Frame("init", "preload_once")>> \o [@ EXCEPT ![1].pc = first]]
        /\ UNCHANGED <<initVars, logVars, calls>>

LibcCall(t) == /\ At(t, "libc")
               /\ IF Fn(t) = "free" THEN Pop(t) ELSE Goto(t, "guard")
               /\ UNCHANGED <<initVars, logVars, calls>>

Leave(t) == IF Fn(t) = "free" THEN Goto(t, "libc") ELSE Pop(t)

Guard(t) ==
    /\ At(t, "guard")
    /\ IF Fn(t) \in guard[t]
       THEN Leave(t) /\ UNCHANGED guard
       ELSE /\ guard' = [guard EXCEPT ![t] = @ \cup {Fn(t)}]
            /\ Goto(t, IF Fn(t) = "free" THEN "unwind" ELSE "update")
    /\ UNCHANGED <<initVars, is_dirty, is_dirty_mutex, log, calls>>

\* jm_tracker_update_mappings(): if nothing is new its mutex stays locked.
Update(t) ==
    /\ At(t, "update")
    /\ IF is_dirty_mutex = NULL
       THEN /\ is_dirty_mutex' = t
            /\ is_dirty' = FALSE
            /\ Goto(t, IF is_dirty THEN "modules" ELSE "unwind")
       ELSE Goto(t, "unwind") /\ UNCHANGED <<is_dirty, is_dirty_mutex>>
    /\ UNCHANGED <<initVars, guard, log, calls>>

UpdateIterate(t) == /\ At(t, "modules")
                    /\ Write("m")
                    /\ is_dirty_mutex' = NULL
                    /\ Goto(t, "unwind")
                    /\ UNCHANGED <<initVars, guard, is_dirty, calls>>

\* jm_backtrace_unwind() as one record; free(NULL) has none.
Unwind(t) == /\ At(t, "unwind")
             /\ \/ Write(IF Fn(t) = "free" THEN "f" ELSE "a")
                \/ Fn(t) = "free" /\ UNCHANGED log
             /\ guard' = [guard EXCEPT ![t] = @ \ {Fn(t)}]
             /\ Leave(t)
             /\ UNCHANGED <<initVars, is_dirty, is_dirty_mutex, calls>>

\* The program, or the dynamic linker running the constructor.
Call(t) == /\ stack[t] = <<>>
           /\ calls < MaxCalls /\ calls' = calls + 1
           /\ \/ \E fn \in ProgramFns : Push(t, Frame(fn, "enter"))
              \/ Push(t, Frame("init", "preload_once"))
           /\ UNCHANGED <<initVars, logVars>>

Init == /\ stack = [t \in Threads |-> <<>>]
        /\ libc = {} /\ keys = {}
        /\ guard = [t \in Threads |-> {}]
        /\ preload_init_once = "never" /\ tracker_init_once = "never"
        /\ tracker_fd = "none"
        /\ is_dirty = TRUE /\ is_dirty_mutex = NULL
        /\ log = <<>>
        /\ calls = 0

Step(t) == \/ PreloadInit(t) \/ PreloadOnce(t) \/ TrackerOnce(t)
           \/ TrackerOpen(t) \/ TrackerExecPath(t)
           \/ Enter(t)       \/ LibcCall(t)    \/ Guard(t)
           \/ Update(t)      \/ UpdateIterate(t) \/ Unwind(t)

Rest == (\A t \in Threads : stack[t] = <<>>) /\ UNCHANGED vars

Next == (\E t \in Threads : Call(t) \/ DlsymCall(t) \/ Step(t)) \/ Rest

Spec == Init /\ [][Next]_vars /\ \A t \in Threads : WF_vars(Step(t))

\* A thread that meets the initialization of another waits until the pointer it
\* is going to call is set (preload.c:135, 152, 169, 201).
LibcBeforeCall == \A t \in Threads : At(t, "libc") => Fn(t) \in libc

\* The key that a call asks was created: pthread_getspecific() of a key that
\* was not is undefined, and is_initialized is true from the start.
KeyBeforeUse == \A t \in Threads : At(t, "guard") => Fn(t) \in keys

\* jm_preload_init_() always ends, though dlsym() calls calloc() in it, and with
\* it every call that waits for it (README.md:95).
StartupEnds == \A t \in Threads : stack[t] # <<>> ~> stack[t] = <<>>
==============================================================================
