# A TLA+ verification of jmprof

`jmprof` is a heap profiler. `bin/jmprof` starts a program with `libjmprof.so`
in `LD_PRELOAD`; the library interposes the allocation functions and writes one
text record per event into a FIFO; `jmprof-ip` reads the FIFO, and prints the
blocks that were never freed, with their backtraces. This directory models the
library, the records, the reader and the life of the processes that share the
FIFO, from the launching script down to the characters of a record; TLC checks
the models on small instances and TLAPS proves part of the results for every
instance.

Paths are relative to the repository (`src/preload.c` is
`<repository>/src/preload.c`).

## 1. The system

| Component | State | Operations |
|---|---|---|
| interposed functions, `src/preload.c` | `is_initialized`, one thread-local key per function, the `libc_*` pointers | `calloc`, `malloc`, `realloc`, `free`, `dlopen`, `dlclose` |
| lifecycle, `src/preload.c`, `src/tracker.c` | four `pthread_once_t`, the keys, `tracker_fd` | `jm_preload_init`, `jm_preload_deinit`, `jm_tracker_init`, `jm_tracker_deinit`, three fork handlers, an `atexit` handler |
| tracker, `src/tracker.c` | `is_dirty` and its mutex, `tracker_fd_mutex`, the FIFO | `jm_tracker_fprintf`, `jm_tracker_set_dirty`, `jm_tracker_update_mappings` |
| heap regions, `src/tracker.c` | the rows of `/proc/self/maps` | `find_heap_regions` |
| backtraces, `src/backtrace.c` | `unwind_mutex` | `jm_backtrace_unwind` |
| interpreter, `src/interpret.c` | `summary` (entries, statistics, regions), `alloc_ctx`, `dwfl` | `jm_symbols_parse_log`, the report of `main` |
| hash table, `src/external/uthash.h` | buckets, chains, expansion counters | `HASH_ADD_PTR`, `HASH_FIND_PTR`, `HASH_ITER`, `HASH_DEL` |
| FIFO and launcher, `bin/jmprof` | the FIFO's name | `mkfifo`, start of both processes, `cleanup` |
| formatted output, `src/printf.c` | the output gadget: a buffer, its size, the position | `vsnprintf_` and its conversions |
| clock, `src/external/sokol_time.h` | a clock | `stm_now` |
| `jmprof-pm`, `src/perfmon.c` | two perf events in a group | open, reset, enable, disable, close; nothing in between yet |

How they interact. An interposed function calls the C library's function, then,
if `is_initialized` holds and its own thread-local key is unset, it sets the
key, reports the modules if the link map changed
(`jm_tracker_update_mappings`), and logs the block with its backtrace
(`jm_backtrace_unwind`); `free` logs first and releases the block last. All
records go through `jm_tracker_fprintf`, under one mutex. The reader shares
nothing with the library but the FIFO: it must recover from the order of the
records alone which frame belongs to which block (the last one read), which
`f` belongs to which `a` (the latest of the address) and which module a frame
is in (those read so far). A forked child inherits the FIFO, the mutexes as
they were, and the variables.

What is hard.

- *Concurrency*: any number of threads run the library at once. Four locks are
  involved (the loader's, `is_dirty_mutex`, `unwind_mutex`,
  `tracker_fd_mutex`), one of which is never released again after its second
  holder (`tracker.c:142` returns with it).
- *Re-entrance*: the unwinder may allocate, and is then in the library twice.
- *Order*: a block may be reused by another thread as soon as it is released,
  and the log has to show the release first.
- *fork and exit*: handlers in parent and child, and two ways by which
  `jm_preload_deinit` runs at exit.
- *The reader's table* has several entries of one address, and the library
  that holds them reverses their order when it grows.
- *Fixed buffers*: 32 frames, 128 regions, a line, the digits of a number.
- *Two processes and a shell*: each end of the FIFO waits for the other to open
  it, a full FIFO stops the program under a mutex, and signals reach the shell,
  the reader, or both, between any two commands.

`PROJECT.json` lists each of these hazards at its line, with the properties
that cover it.

## 2. The modules

| Module | Models | Its state in the code |
|---|---|---|
| `CallStack` | the activations of interposed functions; `frame[<<t, d>>]` are the locals of thread `t` at nesting depth `d` | locals and program counters |
| `Tracker` | `src/tracker.c`, the part used by a running program | `is_dirty`, `is_dirty_mutex`, `tracker_fd_mutex`, `fifo`, `clock`, `loaded` (the dynamic linker's list) |
| `Backtrace` | `src/backtrace.c` | `unwind_mutex` |
| `Preload` | the interposed functions, the parent's fork handlers, and the composition of the three files above | `is_initialized`, `guard` (the keys), `live` (the C library's blocks), `owned` (those the program holds) |
| `TraceLog` | what the records mean | none |
| `HeapTrace` | the abstract log that the library promises | `heap`, `trace` |
| `Uthash` | the operations of the hash table, as operators on a table | none |
| `Interpret` | `jm_symbols_parse_log` and the report | `entries`, `table`, `alloc_ctx`, `stats`, `regions`, `reported`, `status` |
| `Profiler` | `jmprof-ip` reading what `HeapTrace` writes | the FIFO (`log`, `closed`, `pos`) |
| `Startup` | `jm_preload_init_` step by step, with calls in the middle of it | `stack` (the calls of each thread), `libc` (the pointers that are set), `keys`, both `pthread_once_t` |
| `Lifecycle` | initialisation, exit, fork, kill, over a tree of processes, and the end of the FIFO | per process `is_initialized`, keys, `once`, `tracker_fd`, `tracker_fd_mutex` |
| `HeapRegions` | `find_heap_regions` | `path`, `regions` |
| `Printf` | `src/printf.c`: what a format prints and what of it reaches a buffer, as operators | none |
| `PrintfStandard` | what the C standard says of the integer conversions | none |
| `BuildInst` | `jm_symbols_build_inst`: the instruction that `sscanf` takes from a line, as operators | none |
| `LogText` | a line of the log from `jm_tracker_fprintf` to `fgets`, with the lines of the heap regions at exit | `buffer`, `len`, the characters in the FIFO, `insts` |
| `Launcher` | `bin/jmprof`, the opening and the capacity of the FIFO, signals | the shell's command, `tracker_fd`, `tracker_fd_mutex`, the state of `jmprof-ip` |
| `Perfmon` | `src/perfmon.c` | `counters`; `encoded` is what libpfm knows |
| `Jmprof` | the program with the library in it, and `jmprof-ip`: `Preload` with the reader of `Profiler` behind it | that of the two |
| `PreloadProofs`, `JmprofProofs` (which extends it), `StartupProofs`, `LifecycleProofs`, `ProfilerProofs`, `LogTextProofs`, `LauncherProofs`, `PerfmonProofs` | theorems | |
| `MCPreload`, `MCProfiler`, `MCJmprof`, `MCLifecycle`, `MCLogText` | instances for TLC | |

`CallStack` is extended by `Tracker`, that by `Backtrace`, that by `Preload`.
`Preload` implements `HeapTrace` by the refinement mapping `Trace`
(`heap <- live`, the FIFO without its timestamps as the trace), and `Profiler`
composes `HeapTrace` with `Interpret`. So the reader is checked against every
log the library's *specification* allows, and the library against that
specification. `Jmprof` is the product of the two: it extends `Preload`, and its
`P == INSTANCE Profiler WITH heap <- live, exiting <- ~is_initialized` gives it the
reader and the specification that both together implement (`ImplementsProfiler`).
Its `log` is what the FIFO carries: the record of the executable, those of the
threads, and the regions, in the order in which they were written and up to the
moment when the FIFO is closed. `LogText` extends
`PrintfStandard` (which extends `Printf`), `HeapRegions` and `BuildInst`, and
composes them through the characters of the FIFO. `Launcher` and `Perfmon`
stand alone.

### exit()

In `Jmprof` one thread calls `exit()` while the others go on, and each thing that the
exit handler does to them is a step of its own: `Deinit` (`is_initialized` is false
from here on, `preload.c:278`), `Region` (one `r` record, under `tracker_fd_mutex`,
`tracker.c:170-175`), `Close` (`tracker.c:177`) and `End` (the process is gone, also
without any of the others when a signal ends it). Between two of these steps a thread
may allocate, free, finish a record that it had begun, or begin nothing; after `Close`
what it writes reaches nobody. So an `r` record may stand between a block and its
frames, a backtrace may be cut anywhere, a block may be freed without an `f` and
another be allocated without an `a`. The report can then only be that of one moment,
the one at which `is_initialized` was cleared, and `atExit` remembers for the
properties what the program held then (`held`) and what calls had in hand (`inHand`).
`Profiler` has the same steps (`LibExit`, `LibRegion`, `LibClose`, `LibUnlogged`) over
`HeapTrace`.

Two things are simpler than the code. The keys are deleted in the step that clears
`is_initialized`: a call that finds a key deleted and the flag still set is in
`Lifecycle` (`GuardExists`), where a logged call is a single record. And a fork in an
exit handler is left out of both.

### Granularity

In `Preload` a step of a thread ends where another thread can see or disturb
it: at each lock, unlock, read of a shared variable, write to the FIFO and call
of the C library. Labels name those places (`"update_trylock"`,
`"fprintf_write"`, ...). A call of `jm_tracker_fprintf` in a loop is the list
`out` of the records still to be printed. In `Lifecycle` a logged call is a
single record, because only where that record goes matters there, and
`jm_preload_init_` is a single step, because `Startup` has its steps. In
`Startup` a thread has a stack of calls, since an interposed function, the
initialisation that it starts and a call that `dlsym` makes in it nest.
In `Launcher` a logged call is a lock, a `write()` and a return, and the records
are counted, since what matters is only how many there are; the shell's steps
are its commands, and a trap runs between two of them. In `LogText` one thread
prints: `Tracker` shows that the mutex lets no two print at once.

Three things of the environment are modelled from how the code uses them and
marked `external` in `PROJECT.json`: the C library's heap (any free address, or
failure), the dynamic linker (a list of modules; `dl_iterate_phdr` holds its
lock until the last callback returns, so no module comes or goes meanwhile),
and the profiled program, which is legal: it frees and reallocates only blocks
that it owns.

### Data left out

Names, sizes, load addresses, offsets and line numbers, but in `LogText`. A
frame is the module it lies in, a resolved frame is that module, an unresolved
one is `NULL`. All sizes are 1, and the text of a record is the record, which is
what `ReadBack` justifies for lines that fit. The clock advances between two
reads, as a nanosecond clock does over a `write()`.

## 3. The runs

| Run | Instance | Checks |
|---|---|---|
| `jmprof` | 2 threads, 2 addresses that collide, 3 calls of `malloc` and `free`, frames, `exit()` in one thread with a region, a kill at any moment, a record that waits in the FIFO, weak fairness | `OwnedIsTraced`, `EveryLeakIsReported`, `OnlyLeaksAreReported`, `LogIsReadable`, `ImplementsTrace`, `ImplementsProfiler`, `CallsReturn` |
| `nested` | 3 threads, 3 addresses, a plugin, 4 calls of `malloc` and `dlopen`, and a `malloc` inside the unwinder of each | `NoDeadlock` |
| `all_calls` | 2 threads, 2 addresses, a plugin, 3 calls of every function and `fork`, failures | `TypeOK`, `BacktraceOfItsBlock`, `TimestampsOrdered`, `SizeOfOwnBlock`, `ModulesReported` |
| `report` | a log of up to 7 records, 2 of them regions, backtraces of up to 2 frames, room for 2 frames and 1 region, 2 addresses that collide in 2 buckets and not in 4, expansion at 3 elements, an exit at any moment | `LeaksAreTheBlocksNotFreed`, `LeakTraceIsItsBacktrace`, `FailsOnlyByOverflow`, `NoLeakMissed`, `TableHoldsEntries`, `SummaryAgrees` |
| `startup` | 2 threads, 3 calls of the allocation functions, the constructor and a `dlsym` that calls `calloc` | `LibcBeforeCall`, `KeyBeforeUse`, `StartupEnds` |
| `processes` | 3 processes of 2 threads, a child that forks again, 4 calls | the seven properties of `Lifecycle` |
| `log_text` | three lines of eight kinds in a buffer of 20, three values of what the stack holds, 3 rows of `/proc/self/maps` and room for one region; 4384 integer conversions in a number buffer of 8 | `BufferHolds`, `PrintsAsTheStandard`, `ReadBack`, `HeapReported` |
| `launcher` | 2 threads, a FIFO of one record, 3 logged calls, 2 signals | `ReportIsComplete`, `NothingLeft`, `LoggedCallReturns`, `OpenReturns`, `LauncherEnds` |
| `perfmon` | 3 events that count to 3, any of them unknown to libpfm | `CountTogether`, `StopTogether` |

The bounds. `MaxCalls` counts the calls of a behaviour. With two threads and three
calls, the second holder of `is_dirty_mutex` exists, and one thread can log while
the other is anywhere else in the library. In `jmprof` a thread frees a block while
the other allocates the same address: three calls, the shortest history in which a
wrong order of `a` and `f` would hide a leak. In `nested` the third thread makes a
chain of two waits possible: one waits for `unwind_mutex`, whose owner waits for
`tracker_fd_mutex`, whose owner writes. Two addresses suffice: a property speaks of
one block, the second keeps another thread busy. `MaxFrames = 1` is enough to see a
frame under the wrong block. In `startup` one thread initialises, `dlsym` calls once
in it and another thread calls at any moment of both. In `report` seven records hold
three allocations and frees of an address with a backtrace, the fewest that both
reuse an address and expand a bucket. `MaxFrames`, `MAX_BACKTRACE_COUNT`,
`MaxRegions` and `MAX_REGION_COUNT` stand to each other as in the code: one backtrace
fits in an entry (31 frames, 32 places) and two do not, and the library may send one
region more than there is room for (129, 128). So the overflows that the code has are
reached. The other bounds are in `MCProfiler`, and `Profiler` itself has none: one `m`
record besides, one record that waits in the FIFO (what the reader does depends on the
records up to `pos` alone), and a program that stops writing once the reader is gone.
In `jmprof` the same bound on the FIFO holds (`MaxLag`), and one region stands for those
of the exit handler: that there may be too many is left to `report`. In `processes` four
calls are enough to create a thread, fork from both, and exit or be killed, or for a
child to fork and log. `find_heap_regions` remembers only `path` and the count
between two rows, so three rows and room for one region reach every combination of
the two. In `log_text` the names leave two, one and no characters in the buffer,
which are the three cases of a line: whole, without its newline, and longer than the
buffer; three lines put each of them before and after each other. The widths,
precisions and numbers of the conversions are less than, equal to and greater than
each other. In `launcher` one record fills the FIFO and the second thread waits for
the mutex behind the first; two signals may hit the shell before `mkfifo` and the
reader later. In `perfmon` the third event shows what the second cannot, an event
that is neither the leader nor alone; the code has two. Threads and addresses are
symmetric in the runs without liveness.

### What they show

- **No leak is missed by the library** (`OwnedIsTraced`): while calls are logged, a
  block that the program holds is in the log as allocated. It rests on the place of the call
  to the C library (`preload.c:137`, `:212`) and on the keys being per thread.
- **The log is an abstract one** (`ImplementsTrace`): every step of the
  threads, mutexes and guards is a step of `HeapTrace` or changes nothing. This
  holds up to `exit()`, for programs of `malloc`, `calloc` and `free` that do not run out
  of memory; `realloc` and failures break it, see below.
- **The report is the truth about the program** (`EveryLeakIsReported`,
  `OnlyLeaksAreReported`), across both processes and whatever the other threads do
  during `exit()`: a block that the program held when the logging ended is in the
  report, and a block in the report was held then, or was in the hands of a call. It is
  not the truth about the end of the process: what another thread frees during `exit()`
  is reported all the same, and what it allocates is not.
- **Every order of the records is one the reader is proved for**
  (`ImplementsProfiler`): nothing that the threads and the exit handler write is outside
  what `report` gives to the reader. It finds the block of each frame and of each free in
  all of them (`LogIsReadable`), and can fail only because there are too many frames or
  regions.
- **The library does not stop the program** (`NoDeadlock`): whoever waits for a
  mutex or for the dynamic linker's lock waits for a thread that goes on, or for one
  that waits for a third that does.
- **Backtraces are attributed** (`BacktraceOfItsBlock`): records of other
  threads come between a block and its frames, but never another block.
- **The log is in the order of time** (`TimestampsOrdered`).
- **`malloc_usable_size` reads a block of its own** (`SizeOfOwnBlock`).
- **The modules of the start are reported** (`ModulesReported`): a frame in one
  of them has its `m` record, or a thread is about to write it, or `is_dirty` is
  still set. `is_dirty` is tested and cleared under its mutex, so the thread that
  clears it is the one that reports.
- **The library initialises itself** (`StartupEnds`), although `dlsym` calls
  `calloc` in it, which is why `calloc` is first and not looked up
  (`README.md:95`); a thread that calls meanwhile finds its pointer set or waits
  (`LibcBeforeCall`), and never asks a key that does not exist
  (`KeyBeforeUse`).
- **Calls return** (`CallsReturn`), or the program ends: every wait for
  `is_dirty_mutex` is a `trylock`, and the other three locks are taken in one order
  (loader, `unwind_mutex`, then `tracker_fd_mutex`), as far as the model goes: that
  libunwind takes the loader's lock itself, under `unwind_mutex`, is not in it (below).
- **The report is that of the log** (`LeaksAreTheBlocksNotFreed`,
  `LeakTraceIsItsBacktrace`) while no bucket has been expanded, although
  freed entries remain in the table under the same address. After an expansion
  `HASH_FIND` may return an older entry, a free may then mark that one, and the
  report may name a freed block as leaking; but **no leak is missed**
  (`NoLeakMissed`) and the table keeps every entry (`TableHoldsEntries`).
- **The reader fails only by overflow or an unknown block** (`FailsOnlyByOverflow`),
  while no bucket has been expanded: it follows a null pointer or leaves an array
  *exactly* when the log frees a block that it never announced (one of
  `aligned_alloc()`, say), gives a block more frames than an entry has places, or has
  more regions than there is room for. The run has logs that do each, so it shows that
  the code fails on them; and it shows that no other log is fatal, of any order of records
  and any reuse of addresses. That the reader meets no failed
  assertion (`BacktraceHasContext`) if no allocation fails is proved (section 4); if
  one does, it fails, as `failed_alloc` shows. The run checks deadlock too, and
  `Finished` is enabled only when the reader has ended, so that it is never stuck.
- **The summary is of all that was allocated** (`SummaryAgrees`): the number of
  bytes that is printed counts every allocation, freed or not.
- **It ends** (`ReaderEnds`) when the program has, and a child
  that still runs does not keep it: the child closes the FIFO in its fork
  handler (`ChildLeavesFifo`), unless it was forked while another thread was
  writing, when it hangs on the copied mutex.
- **The FIFO is opened once and closed once** (`ExecPathFirst`,
  `CloseSucceeds`), and no call of a child reaches it (`ChildIsSilent`).
  `CloseSucceeds` speaks of a program of one thread, and says so.
- **A call is logged without a guard, or outside the FIFO, in two cases only**
  (`GuardExists`, `RecordsReachFifo`), and the run reaches both: by a child that has
  itself called `fork()`, which `preload.c:289` enables again, and by a thread that was
  past the test of `is_initialized` when another one called `exit()`.
- **The heap is reported** (`HeapReported`) whatever rows of files stand
  before it. `Store` keeps one region more than there is room for, as the code does
  (below).
- **A line that fits is read back as it was printed** (`ReadBack`), with its
  timestamp, address and size, and its text up to the first blank. A longer line
  makes `write()` read past the buffer (`tracker.c:122`); whatever stands there, it
  costs that line and at most the next one. `printf.c` itself never writes outside
  (`BufferHolds`), and prints integers as the C standard says
  (`PrintsAsTheStandard`) if they fit in its 32 characters; `%b` is not in the
  standard and is left out of the comparison.
- **The report is complete** (`ReportIsComplete`): `jmprof-ip` reports when the
  program has ended and after it read every record, because opening the FIFO
  waits for the other end. If the FIFO was removed before, it may read a regular
  file, of which nothing is claimed.
- **A run without signals leaves nothing in `/tmp`** (`NothingLeft`), neither the FIFO
  nor a file: `cleanup()` runs when `jmprof-ip` has ended, which it does not before the
  program has opened the FIFO, so that the program's `open(O_CREAT)` cannot come after
  it. With signals something may stay (below).
- **No thread waits for ever for `jmprof-ip`** (`LoggedCallReturns`): a full FIFO
  is read, and if the reader has died, `write()` fails, or its signal ends the
  program. `OpenReturns` and `LauncherEnds` say the same of opening the FIFO and of
  the launcher, each under its condition.
- **Perf events count together and stop together** (`CountTogether`,
  `StopTogether`), although they are opened and closed one by one.

Each property of a passing run has a mutant in `PROJECT.json`: an operator that
stands beside the definition it changes, named after it (`MustLog_OneKey`), with
which TLC finds the property violated. They are not part of the specifications.
(That of `CallsReturn` is an unwinder that returns without releasing its mutex.)

### Where the code does something else than its text says

Three runs end with a violation.

| Run | What TLC finds |
|---|---|
| `plugin` | After two logged calls `is_dirty_mutex` is held for ever, so `dlopen()` cannot set the flag, and the new module is never reported: its frames print as `??`. |
| `realloc_zero` | `realloc(ptr, 0)` logs an `f` record of its null result and not of `ptr`. |
| `failed_alloc` | A failed allocation is logged with a null address, and the first frame of its backtrace meets `assert(alloc_ctx != NULL)` in `jmprof-ip`. |

Other behaviours that were met while modelling, and have no run of their own.

In the library:

- The guards are one per function, and stop a nested call only if the unwinder calls
  the function that the program is in. `README.md:96` says that they prevent
  infinite recursion, and they do: but if the program is in `free()` and the
  unwinder calls `malloc()`, the nested call is logged, and the thread waits for
  `unwind_mutex`, which it holds. With `free` among the `ProgramFns` of
  `PreloadNested.cfg`, TLC finds `NoDeadlock` violated in this way. glibc's and
  libunwind's own allocations decide whether it happens.
- With two threads a backtrace may precede the `m` records of its modules: the
  thread that finds `is_dirty_mutex` held goes on at once (`tracker.c:139`).
- A row of `/proc/self/maps` without a path gives `sscanf` five fields, not
  fewer, so anonymous mappings, which the comment at `tracker.c:220-225` speaks
  of, are reported only if `path` is stale from the row of the heap.
- A call that is logged before `tracker_fd` is open (by `dlsym` in
  `jm_preload_init_`, or by a second thread) writes to descriptor -1, and clears
  `is_dirty` all the same: unless a `dlopen()` sets it in time, the modules of the
  start are never reported again, and every frame prints as `??`. `Startup` reaches
  such a state.
- libunwind calls `dl_iterate_phdr()` when it meets a module for the first time, and
  then waits for the loader's lock while it holds `unwind_mutex`: the reverse of the
  order above, if a call under the loader's lock is logged. The callback of
  `jm_tracker_update_mappings()` logs nothing that takes `unwind_mutex`; an allocation of
  the dynamic linker's own would. `Backtrace` takes a stack from `loaded` in one step
  and cannot show it.
- `result > size` (`tracker.c:229`) stores a region at `regions[128]`, one past the end
  of the buffer in `jm_tracker_deinit_()`, if there are so many.
- A thread that passed the test of `is_initialized` before another one called
  `exit()` writes its record after the descriptor was closed; what it allocates or frees
  after the test would have failed is not logged.
- A forked child that forks again has `is_initialized` set by the parent's handler
  (`preload.c:289`), after its keys were deleted and its descriptor closed: it logs
  unguarded, and to whatever has the descriptor's number. `GuardExists` and
  `RecordsReachFifo` name it (`Reforked`).
- When two threads fork at once, the parent's handler of one may set
  `is_initialized` (`preload.c:289`) before the other's child is made. That child
  logs, to the descriptor that its own handler has closed, or to whatever has that
  number by then. `ChildIsSilent` says that it does not reach the FIFO.
- A `realloc` that moves a block logs the new one and no `f` of the old one. The entry
  of the old one stays leaking for ever: if its address is allocated again and freed, the
  free marks the newer entry (`HASH_FIND` meets it first). A `realloc` in place followed
  by a free leaves a false leak as well, since the block was announced twice and is
  retracted once.

In the reader:

- An entry keeps the frames of its `a` and of its `f` in one buffer of 32
  (`interpret.c:67`, `:229`), and nothing bounds the index. A backtrace has up to
  31 frames (`backtrace.c:49-55`), so two deep ones overflow it (`LongTrace`).
- `regions.buffer` has 128 places and nothing bounds its index (`interpret.c:375`): the
  129th region of `tracker.c:229` is written past it (`ManyRegions`).
- A free of a block that no interposed function allocated has no entry, and the `NULL`
  that `jm_symbols_alloc_find_entry()` returns is followed (`interpret.c:349`,
  `UnknownBlock`).
- After an expansion a free may find an older entry of its address, and adds a third
  backtrace to it.

In the text of the log:

- The path of a module is cut at its first blank (`interpret.c:293`).
- `printf.c` differs from the standard outside what `LogText` compares: a negative
  precision from `*` counts as 0 instead of none, `(null)` and `(nil)` do not heed
  the precision, and a number with its zeros, prefix and sign is cut at 32
  characters. The library uses none of it.

In the launcher:

- `cleanup()` does not terminate the script, though its comment (`bin/jmprof:46`)
  says so: after a signal the script goes on with its next command.
- SIGTERM between `mkfifo` and the start of the program removes the FIFO; the
  program then creates a regular file of that name (`O_CREAT`, `tracker.c:160`),
  which may be left in `/tmp`, and `jmprof-ip` may read it before the program ends.
- SIGKILL ends the script with the FIFO still there, although the `trap` of
  `bin/jmprof:136` names it (nothing can trap it), and so does SIGHUP, which it does not
  name. The program and `jmprof-ip` go on without the script.
- If `jmprof-ip` is killed before it opened the FIFO, the program waits for ever in
  `open()`. If the program never opens it (it is static, or fails to start), or is
  killed while it waits to, `jmprof-ip` and the launcher wait for ever.
- When `jmprof-ip` dies, SIGPIPE ends the profiled program at its next logged call.

In `jmprof-pm`:

- `jm_perfmon_get_event_attr()` leaves the attributes uninitialised, but for the
  type, if libpfm does not know the event; `perf_event_open()` is then called with
  them. `CountTogether` holds for events that it knows.

### Fairness and deadlock

Safety properties assume none. `jmprof` assumes `WF(Running(x))` for each
activation: a thread that is inside the library of a program that has not ended, and
can run, is scheduled; that the program makes another call, that it ends, or that
`jmprof-ip` reads is not assumed, but that a thread which waits for room in the
FIFO of `MaxLag` records gets it (the FIFO that stays full is in `launcher`). Weak
fairness is enough of the
mutexes, as `MaxCalls` bounds how often the others can overtake a waiting
thread; nothing is shown of a program in which they overtake it for ever.
`startup` assumes it of each thread, `processes` of the
threads inside the library and of the reader, never of the program's own calls
or of being killed. `launcher` assumes it of the shell, of `jmprof-ip`, of the
program's start and of each thread inside a logged call: three processes that the
kernel schedules. The program need not call again or end, and no signal has to
come. The FIFO is unbounded everywhere but in `launcher`.

Deadlock is checked in every run but `startup`, where the liveness property implies
its absence, `processes`, where a child can stop for ever in `fork()`, and
`launcher`, where `jmprof-ip` can wait for ever, as described. `Rest`, `Finished`,
`Ended` and `Exited` let a program or the reader be idle or ended; in `Preload`,
`Rest` needs *every* activation to be idle, so that threads that wait for each other
are found. `NoDeadlock` finds them also while a third thread goes on.

## 4. The proofs

Eight modules hold theorems, and each theorem is for every value of the constants:
any set of threads, addresses and modules, any nesting depth, any number of calls,
frames, processes, records, entries, buckets, signals, events, rows and lines, and
buffers of any size.

| Theorem | Says | Through |
|---|---|---|
| `TypeCorrect` | `Spec => []TypeOK` (`Preload`) | `TypeInv` |
| `LogInOrder` | `Spec => []TimestampsOrdered` | `TypeInv`, `Nested`, `WriterInv` |
| `BacktracesAttributed` | `Spec => []BacktraceOfItsBlock` | `TypeInv`, `Nested`, `UnwindInv` |
| `StartModulesReported` | `Spec => []ModulesReported` | the same, `CallsOK`, `ModulesInv` |
| `SizeIsOfOwnBlock` | `Spec => []SizeOfOwnBlock` | `CallsOK`, `HeldInv` |
| `AllocationsAnnounced` | `Spec => []OwnedIsTraced`, without `fork` | the same, `GuardInv`, `TracedInv` |
| `TraceImplemented` | `Spec => ImplementsTrace`, under `NothingFails` | the same, `BlocksInv` |
| `DeadlockFree` | `Spec => []NoDeadlock`, under `OneFunction` | the same, `LockInv`, `StackInv` |
| `NestedCallsUnlogged` | `Spec => []NestedCallUnlogged`, under `OneFunction` | the same |
| `ProfilerImplemented` | `JmprofSpec => ImplementsProfiler`, under `NothingFails` | `JmprofInv` |
| `LeaksNamed` | `JmprofSpec => []EveryLeakIsReported`, under `NothingFails` | the same, and `ProfilerProofs!Inv` |
| `OthersNotNamed` | `JmprofSpec => []OnlyLeaksAreReported`, under `NothingFails` | the same |
| `ReaderNeverFails` | `JmprofSpec => []LogIsReadable`, under `NothingFails` | the same |
| `LibcSet` | `Spec => []LibcBeforeCall` | `FramesOK`, `OneInit`, `Ordered` |
| `KeyCreated` | `Spec => []KeyBeforeUse` | the same |
| `PathIsFirst` | `Spec => []ExecPathFirst` | `StartInv`, `DeinitInv`, `ChildInv` |
| `ChildSilent` | `Spec => []ChildIsSilent` | the same |
| `ClosedOnce` | `Spec => []CloseSucceeds` | the same, `CloseInv` |
| `CallsGuarded` | `Spec => []GuardExists` | the same, `ExitInv`, `NoneForked` |
| `WrittenToFifo` | `Spec => []RecordsReachFifo` | the same, `RecordsAreOpen` |
| `ReaderTypesHold` | `Spec => []ReaderTypeOK` | `ProfilerProofs!Inv` |
| `NoneMissed` | `Spec => []NoLeakMissed` | `LeakInv` of it |
| `LeaksReported` | `Spec => []LeaksAreTheBlocksNotFreed`, `~MayFail` | `LeakInv`, `ExactInv` |
| `LeakTraces` | `Spec => []LeakTraceIsItsBacktrace` | `TraceInv`, `ModuleInv`, and `NoFrames` |
| `SummaryFits` | `Spec => []SummaryAgrees` | `StatsInv` |
| `TableFits` | `Spec => []TableHoldsEntries` | `TableInv` |
| `FailuresOfReader` | `Spec => []FailsOnlyByOverflow` | `FailInv`, and `Counts` of `TraceInv` |
| `ContextHeld` | `Spec => []BacktraceHasContext`, `~MayFail` | `ContextInv` |
| `HeapIsReported` | `Spec => []HeapReported` (`LogText`) | `RegionsInv` |
| `BufferNeverLeft` | `Spec => []BufferHolds`, for room for a timestamp | `PrintedOK` |
| `IntegersAsTheStandard` | `Spec => []PrintsAsTheStandard` | `PrintedOK`, `TextWithBlanks`, `TextFilledUp` |
| `CompleteReport` | `FairSpec => []ReportIsComplete` | `LauncherProofs!Inv` |
| `NothingStays` | `FairSpec => []NothingLeft` | `Undisturbed` of it |
| `Together` | `Spec => []CountTogether` | `OneGroup` |
| `Stopped` | `Spec => []StopTogether` | `Disabled` |

So both halves of the profiler are proved, and they meet in a theorem. The library
implements `HeapTrace` (`TraceImplemented`); whatever that allows to be logged, the
reader reports the blocks that were not freed, with their own backtraces
(`LeaksReported`, `LeakTraces`); and the two processes together implement `Profiler`
(`ProfilerImplemented`), so that what is proved of the log and of the report is true
of the program and its report (`LeaksNamed`, `OthersNotNamed`, `ReaderNeverFails`).

Three of the theorems state a definition that no passing run has as a property:
`ReaderTypeOK`, which the others rest on; `BacktraceHasContext`, which
`failed_alloc` checks where it is false; and `NestedCallUnlogged`, which TLC confirmed
on the instance of `nested`, and which says no more than `NoDeadlock` needs there.

### What they assume

All assume the named assumptions of the modules (`CallStackAssumption`,
`TrackerAssumption`, `BacktraceAssumption`, `PreloadAssumption`,
`StartupAssumption`, `LifecycleAssumption`, `ProfilerAssumption`,
`UthashAssumption`, `JmprofAssumption`, `HeapRegionsAssumption`, `PrintfAssumption`,
`LogTextAssumption`, `LauncherAssumption`, `PerfmonAssumption`): numbers are natural
numbers, a block is not a module, the argument of a conversion has its type, and the
like. Eleven theorems assume more, and each time the code gives the reason.

- `AllocationsAnnounced` is of programs that do not fork. `fork()` clears
  `is_initialized` for *all* threads until it returns in the parent
  (`preload.c:284-290`), and what another thread allocates meanwhile is not logged.
- `TraceImplemented` and the four theorems of `JmprofProofs` are of programs that,
  besides, neither call `realloc` nor see a call fail (`NothingFails`). `realloc`
  logs the block that it returns and never the one that it released, and a failure
  is logged with a null address.
- `LeaksReported` and `ContextHeld` are of logs without failed allocations: the run
  `failed_alloc` is the counterexample. The other theorems about the reader allow
  them.
- `DeadlockFree` and `NestedCallsUnlogged` need `OneFunction`: the unwinder calls no
  interposed function, or only the one that the program calls. Section 3 has the
  deadlock of a program that calls another.
- `BufferNeverLeft` needs `PRINTF_INTEGER_BUFFER_SIZE + 2 <= MAX_BUFFER_SIZE`: a
  timestamp and its blank, which `jm_tracker_fprintf` prints first and subtracts
  from the room of the second call. In the code they are 32 and 2048.

### The library

- `TypeOK` is not inductive: `FprintfWrite` takes the head of `out`, and the
  result of `realloc` may be its argument. `TypeInv` adds `FramesOK`: `out` is
  not empty at the two labels of `jm_tracker_fprintf`, and `arg` is a block or
  a module according to the function.
- Mutexes are owned by *threads* while the program counters belong to
  *activations*; two activations of a thread could both believe that they own
  one. `Nested` excludes it: an activation above another exists only while the
  lower one is inside `unw_backtrace()`, and the lower one does not move until
  the upper one has returned. It is there that `OnTop` in `UnwindTrace` is used.
- `WriterInv`: an activation between the lock and the write is in the thread
  that owns `tracker_fd_mutex`, its timestamp is later than every timestamp in
  the log, and all of them are earlier than the clock. With `Nested` there is
  only one such activation (`OneWriter`), so its record keeps the order.
- `UnwindInv`: an activation between lock and unlock of `unwind_mutex` is the
  only one and its thread the owner; `a`, `f` and `b` records are still to be
  printed only by it; and once its block is printed, the last block of the log
  is of its thread. `m` records, printed by any thread, are not blocks, so they
  leave the last block what it was.
- `ModulesInv`: until the record of a module of the start is in the log,
  `is_dirty` is set, or the thread that cleared it has yet to iterate, or the record
  is in its `out`. `dlclose` may take other modules from the list meanwhile, and the
  list must still hold those of the start.
- `HeldInv` divides the allocated blocks into those that the program owns and those
  that one activation each holds (`Held`: its argument up to the call of the C
  library, its result after). `malloc_usable_size` is given a held block.
- `GuardInv`: a guard that is set belongs to an activation that is still logging.
  Therefore a call that the program makes, which nests in nothing, always logs; a
  call of libunwind may find its guard set and not log, and its block never becomes
  the program's.
- `TracedInv`: what the program owns is in the log, and so is the result that an
  outermost call holds once it has printed its block (`ResultTraced`). A record of
  another thread cannot retract it, since an `f` is only of the block that its own
  activation holds.
- `BlocksInv` is the converse, for the refinement: what the log shows as allocated
  is allocated, an activation that still has its `a` to print holds a block that is not
  in the log, one that has its `f` to print holds one that is, and a released block
  was retracted first. Each step of `Preload` is then a step of `HeapTrace` or leaves
  `live` and the log without its timestamps as they were.

- `LockInv` is the converse of `WriterInv` and `UnwindInv`: a mutex that is taken has an
  activation of its owner at the steps that release it. `StackInv` says that a
  nested call, whose guard is set (`OneFunction`), stands at no step that could wait.
  So the owner of `tracker_fd_mutex` is about to write, and the owner of `unwind_mutex`
  goes on or waits for that one; who iterates over the modules, and holds the loader's
  lock, likewise. `is_dirty_mutex` may be held for ever and nobody waits for it.

### Both processes

`JmprofInv` is inductive over every step of `Jmprof`, those of `exit()` among them. What
`PreloadProofs` shows of the library is true while calls are logged (`LoggingInv`), and
falls apart step by step afterwards: a block is freed without a record, a result becomes
the program's without one. So the invariant has a part that survives.

- `ThreadsInv`: the types, the mutexes (`Nested`, `UnwindInv`), the locals and who holds
  which block (`CallsOK`, `HeldInv`). None of it depends on what is logged.
- `StageInv`: nothing is logged before the FIFO is open and nothing reaches it when it is
  closed; and each `f` of the log has an `a` of its address before it (`FreesKnown`).
  `SameBlocks`: until it is closed, the log shows the same blocks as allocated as the
  records of the threads do, because the regions between them are no blocks.
- `ExitInv`: after `Deinit`, a call that is still logging had begun before. Its block is
  one that it had in hand then (`atExit.inHand`), was not the program's, and is in the log
  or not as the call's place says (`Finishing`, with `BlockOK` of `PreloadProofs`).
  Therefore a record that is written now is still one that `HeapTrace` allows, and
  concerns none of the blocks in `atExit.held`.
- `LeakInv`: from that moment on the log shows every block of `atExit.held` as allocated,
  and no other than these and those of `atExit.inHand`. With the reader's theorems, which
  hold of the log at its end (`AllRead`), this is `LeaksNamed` and `OthersNotNamed`.
- `FramesInv` bounds the frames: those written since the last block, with those still
  to be printed, are at most `MaxFrames` (`NewFrames`, a set of positions). `HeapTrace`
  does not bound a backtrace, `Profiler` does, since the reader's buffer depends on it.
- `ShownInv`: while calls are logged, what the log shows as allocated is the program's
  or in the hands of a call. What the unwinder allocates is never shown: its call would
  wait for a mutex that the program's call below it holds.

Every step of `Jmprof` is then a step of `Profiler` or leaves its variables as they
were (`RunStep`, `DeinitStep`, `RegionStep`, `CloseStep`, `EndStep`, `ReadStep`), and the
invariants of `ProfilerProofs` hold with `live` for `heap` and `~is_initialized` for
`exiting`.

### The processes

- `Startup`: `FramesOK` says of each frame of each stack that a call which found
  its pointer unset has a call of `jm_preload_init()` above it, that nothing lies
  above `jm_preload_init_` but a call that `dlsym` made, and which of the ten steps
  were taken. `OneInit` says that one frame at most is in it. `Ordered` is what a
  caller relies on: a set pointer means a created key, and "done" means that every
  pointer is set. It is there that the order of `InitSteps` is used.
- `Lifecycle`: a thread's place in the constructors, destructors and fork handlers says
  which variables of its process it finds set. `StartInv` says it of the first process
  until its path is written and of every thread afterwards, `DeinitInv` of the way
  out, `ChildInv` of children. For one thread, `CloseInv` says that
  `jm_tracker_deinit_` has not run where it is about to close, and `ExitInv` that a
  process which has run `jm_preload_deinit()` logs no call, unless it is a child that has
  forked. `RecordsAreOpen` remembers of each record whose it is: that a child has forked,
  or that there is a second thread, stays true. `NoneForked`, that a process which does
  not exist has not forked, is what a new child starts with. A step is judged by what
  it leaves behind (`Guarantee`), and one lemma then shows that a step with that
  guarantee preserves each part, so that the actions are gone through once.
- `Launcher`: `jmprof-ip` reads the FIFO only if the program has opened it (`Met`), and
  once it is done the program wrote nothing more. `Undisturbed` says of a run without
  signals where the FIFO is at each command of the script, and that `jmprof-ip` has not
  ended before the program got past its `open()`.
- `Perfmon`: at the reset every event is open and in the group of the first
  (`OneGroup`); the first `ioctl()` of the end therefore disables all of them, and
  closing the leader enables none (`Disabled`).
- `LogText`: the regions stored are rows already read, never fewer than before, and
  one more than there is room for at most; `sscanf` matches all six fields of the
  heap's row, so that `path` is not stale there (`RegionsInv`).

### The text

- `PrintedOK` is all that the theorems need to know of the log: what is printed is made
  of `Items`, conversions whose arguments have their types.
- `VsnprintfStays` says what `vsnprintf_()` touches; together with `TimestampIs`,
  the length of a timestamp, it gives `BufferNeverLeft`: `pos` never exceeds the
  size, so that the subtraction in the second call does not wrap.
- For `IntegersAsTheStandard` a conversion is followed from its digits to its text. The
  digits that the loop of `print_integer()` leaves in its buffer are the numeral turned
  around (`DigitsOfNumeral`). Zeros, prefix and sign are put behind them, with
  the zeros taken back where the prefix goes (`FinalPlain`, `FinalPrefix`), and turned
  around they stand before them. What the standard asks for is brought to the same form
  (`StandardTextIsLong`, `PartsFit`), and the two agree for texts filled with
  blanks (`TextWithBlanks`) and with zeros (`TextFilledUp`). `Fits` bounds each part, so
  that no `len < PRINTF_INTEGER_BUFFER_SIZE` of the code fails.
- A numeral is a recursive function on the naturals, which the library's theorems on
  well-founded recursion do not reach without an operator argument; that it exists is
  shown by the least number at which it would fail (`NumeralDefined`,
  `QuotientsDefined`, `FlattenDefined`), and the same argument replaces induction.

### The reader

- `LogInv` is what the log may hold: an `a` is of a block that the log does not
  show as allocated, an `f` of any address, and a `b` comes after a block. `RecordOK` speaks of a record and those *before* it, so
  records that are added change it for none.
- `TableOK`: each entry has one element in the table, in the bucket of its key, and
  ranks put each chain in an order. While no bucket was expanded the ranks grow with
  the entries, so that `HASH_FIND` finds the latest entry of an address; an expansion
  reverses chains, and then all that is known of the entry found is its key.
- `LeakInv`: a block not freed has a leaking entry. `ExactInv`: before an expansion, a
  leaking entry is of a block not freed and no later entry has its address.
- `ContextInv`: `alloc_ctx` is the block of the last `a` or `f` read.
- `TraceInv` says that there is a map from the entries to the positions of the `a`
  records they were made for (`Positions`), by which the trace of a leaking entry is
  the frames read for that record, resolved as the modules read before them allow.
  The frames of an `f` are added to the same entry, but that one is no longer leaking.
  `Counts` adds how many frames an entry has: all those read for its `a` and for its
  `f`s. A frame of a *failed* allocation would go to no entry: `NoFrames` says that the
  reader has stopped at it.
- `FailInv`: the reader has failed if and only if an entry or the regions are over their
  bound, or a free was of an unknown block. By `Counts` the first is `LongTrace`.
- The properties count (`StatsInv`, `FramesOf`) and look for the latest of
  something. Where the argument would be an induction over data it is made by the least
  element of a set of naturals instead, or along the steps of the reader, where it is
  the induction over behaviours that the invariant is.

Parts of the model changed when they were to be proved about. `ParseBacktrace` was a
`CASE` whose guards overlapped, and is now a disjunction of the three things that
happen to a frame; `ChildIsSilent` was false of larger instances (section 3). The
bound of the log was a guard of `Profiler`, which the library knows nothing of: it
is now in `MCProfiler`. `Digits` and `Numeral` were folds and are recursive
functions; a format has typed conversions (`Items`). `PrintsAsTheStandard` was false
of a negative precision from `*`, which no instance had, and now leaves it out
(`Comparable`; section 3).

### What is only model-checked

- `ReadBack`: what `sscanf` takes from a line is a fold over its characters (`Number`,
  `WhileIn`), the inverse of those that print them.
- Liveness, which is out of its reach: `CallsReturn`, `StartupEnds`,
  `ReaderEnds`, `ChildLeavesFifo`, `LoggedCallReturns`, `OpenReturns` and
  `LauncherEnds`.

## 5. What is not modelled

- In `src/printf.c`, the conversions of floating-point numbers and `%n`, which
  jmprof does not use, and output to a function instead of a buffer.
- In `src/tracker.c`, what the `sscanf` of `find_heap_regions` does to a name that is
  longer than its 512 characters (`%s` has no bound, `tracker.c:204-217`), and a row that
  is longer than the buffer of `fgets` and comes as two: `HeapRegions` has rows that fit.
- In `LogText`, what `write()` finds behind the buffer is one repeated character, of
  three, not any text.
- In `Printf`, a format that ends in the middle of a conversion, but for one that ends
  at its `%`. jmprof's formats are literals.
- A fork in an exit handler, and in `Jmprof` a call between the deletion of the keys and
  the clearing of `is_initialized` (section 2).
- In `Launcher` the program ends and closes the FIFO in one step: the library closes it
  in its exit handler (`tracker.c:177`), a little before the process ends, so that there
  "ended" means that the program writes no more.
- A partial `write()`, which a FIFO does not make for a line of at most `PIPE_BUF`
  characters, and a signal that interrupts it.
- In `bin/jmprof`, the checks of the arguments and the search of `libjmprof.so`:
  both come before or between the steps of `Launcher` and change no state. That the
  search fails is a program into which the library is not loaded.
- Allocations that glibc might make in `pthread_atfork`, `unsetenv` and `atexit`
  during `jm_preload_init_`; those of `dlsym` are in `Startup`.
- What `jmprof-pm` will do between the start and the end of its events, and the
  Makefile.
- DWARF: names, lines and columns of a frame.

## 6. The plan

Done, in this order: `CallStack`, `Tracker`, `Backtrace`, `Preload` (the core),
`TraceLog` and `HeapTrace` (its abstract log), `Uthash`, `Interpret` and
`Profiler` (the reader), `Lifecycle`, `Startup`, `HeapRegions`, the proofs of types,
order and attribution; `Printf`, `BuildInst` and `LogText` (the text of the
log), `Launcher`, `Perfmon`, the proofs about these last two and about `Startup`;
then the proofs about blocks, the refinement of `HeapTrace`, and those about
`Lifecycle`, `Profiler` and the heap regions; `Jmprof`, the proofs about both
processes together, freedom of deadlock, and the text of the log; last, children that
fork again, the arrays of the reader at the code's proportions, and `exit()` step by step
in `Jmprof` and its proofs.

Next, the most important first:

1. What of `LeaksAreTheBlocksNotFreed` remains after an expansion: that each entry
   reported has an address that was allocated more often than it was freed, or is an
   older entry of it.
2. `OwnedIsTraced` for programs that fork, with the weaker conclusion that is true of
   them.
3. `ReadBack` for lines of any length: `sscanf` as recursive functions, as `Numeral` is.
4. Sizes that differ in `Interpret`.
5. `Perfmon`, when it reads its events.
