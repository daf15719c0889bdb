# A TLA+ model of papiex and libmonitor

papiex measures hardware counters of an unmodified program.  It is a client of
libmonitor, a library that is preloaded into (or linked with) the program,
overrides `main`, `exit`, `fork`, `exec`, `pthread_create`, `sigaction`,
`MPI_Init` and their relatives, and turns what the program does into callbacks:
`init_process`, `init_thread`, `fini_thread`, `fini_process`, ...  What is hard
is libmonitor's promise that these callbacks come once each, in order, and
always, whatever the program, its threads and its signals do, and that papiex
has state that survives what libmonitor makes of it.

## Inventory

| component | state | operations | hard behaviours |
|---|---|---|---|
| thread lifecycle, `monitor/src/pthread.c` | thread nodes; `monitor_thread_list`, `monitor_free_list`, node arrays, the spinlock over them; per thread the pthread-specific pointer to its node | `pthread_create`, `monitor_begin_thread`, cleanup routine, link/unlink, `pthread_exit`, block/unblock shootdown, ignored threads | node reuse, signal handler on top of any step, threads created during exit |
| process exit, `monitor/src/main.c`, `pthread.c` | end-process cookie, `tn_exit_win`, done flags, exit-cleanup flag, locals of the shootdown loop | `monitor_end_process_fcn`, `monitor_thread_shootdown`, `exit`, `_exit`, `pthread_exit`, fatal signals | race of callers, lock-free walk, timeout, exit from handlers |
| signal layer, `signal.c` | per signal: application's, client's and kernel's disposition, keep-open and avoid sets, shootdown signal | `monitor_signal_handler`, `sigaction`, `signal`, `sigprocmask`, `monitor_sigaction` | handlers that nest and call `sigaction`, masks that must leave the shootdown signal open, an unlocked table, exec and `system` in between |
| process start, fork, exec, `main.c`, `fork.c` | init/fini once flags, `inside_fork`, cookie, the thread list in the child | `monitor_begin_process_fcn`, `fork`, `exec*`, `system` | one process-wide flag, failed exec, fork while threaded |
| MPI, `mpi.c`, `pmpi.c`, `mpi_*.c` | init and fini nesting counts, rank, size and who has set them | `MPI_Init`, `MPI_Init_thread`, `MPI_Finalize`, `MPI_Comm_rank` under all their C, PMPI and Fortran names, `monitor_set_size_rank` | overrides that call each other (Fortran over C over PMPI), ranks that the library asks for itself, two threads that ask first |
| papiex callbacks and tables, `papiex/src/monitor.c`, `process.c`, `thread.c`, `api.c` | `_papiex_enable`, `all_threads` with its count and size, the event lists, a record per thread | `monitor_init_process`, `monitor_init_thread`, `monitor_fini_thread`, `monitor_fini_process`; `papiex_start`, `papiex_stop`, `papiex_accum` of the application | threads enter the table together, any of them shortens the event lists, exit from a thread that is not main, fork from any thread, a shutdown in the middle of a call of the application |
| papiex output, `papiex/src/output.c` | directories and files that the processes of a session share | `mkdir_p`, the opens, header and rows of both CSV formats, `strlcat` | races for directories, header and file names; reused pids; a row that just fits or just does not |
| `dlopen.c`, `callback.c`, `utils.c` | none of their own | wrappers | none |
| `papi/`, `libpfm/`, `queue.h` | vendored | | not modelled |

They interact through calls (an override runs the client's callback in the
calling thread), through process globals (flags polled by several threads), and
through one signal, the shootdown signal, that the exiting thread sends to all
others and whose handler runs `fini_thread` on top of whatever they do.  The
signal layer is there for that signal: it keeps it open in every thread.

What makes each correct: nodes have one owner; each thread gets its `fini_thread` before
`fini_process`, once; `fini_process` runs once; whoever calls exit waits for it and gets
on; no client disposition is lost; nested MPI calls give one init and one fini; a papiex
record is closed by its own thread, and stays as it was closed.  `PROJECT.json` lists
the hazards of the code line by line.

## Plan

1. `MonitorThreads`, `MonitorExit`, `ExitGate`: threads, exit and shootdown.
   The core, since everything else ends in it.  **Done**, with proofs.
2. `MonitorProcess`, `ProcessLife`: once-flags, `fork`, `exec`, `system` and
   the cookie over several process generations.  **Done**, with proofs.
3. `PapiexClient`: thread records, the shared event list, process shutdown,
   driven by the callbacks in the order that `MonitorExit` allows.  **Done**,
   with proofs.
4. `PapiexOutput`, `OutputLog`: the files of a session of several processes.
   **Done**, with proofs.
5. `MonitorSignal`, `SignalView`: the disposition tables of `signal.c` and
   the masks of the threads, against what the application would see without
   monitor; the choice of the shootdown signal; `system`.  **Done**, with proofs.
6. `MonitorMpi`, `MpiCallbacks`: the nesting counts, and where the rank comes
   from.  **Done**, with proofs.
7. `MonitorExec`, planned at first, is left out: the test for an executable
   file is a choice in `MonitorProcess` (an exec may fail), and the copies of
   arguments and environment are data that no property here tells apart.

Every safety property that a run checks, and each of the refinements, is now a
theorem; the section on proofs says under which premises.  Worth proving next: what
the abstract specifications promise by themselves (one winner, one header, an end
only after `fini_process`), which the refinements then carry over; and `ExitIsGate`
with one fatal signal.

## Modules

### `MonitorThreads`: the life of a thread

State: for each thread a location `pc` (a place between two accesses to shared
memory in `pthread.c`), the context of its application code (`phase`: start
routine, key destructor, exit handler, pthread_exit, signal handler), a frame
of the shootdown handler on top of it (`hnd`), the pending bit of the shootdown
signal, its thread-specific pointer `node`, and the local variable `tn` of the
`pthread_create` override (`mk`).  Nodes are records with the flags of
`struct monitor_thread_node` that the code tests.  `linked`, `free`, `fresh`
are the two lists and the unused part of the node arrays, as sets.

One action per step between two accesses: `CreateBegin`, `MakeNodeLock`,
`MakeNode`, `Launch` or `LaunchFails` are `pthread_create`; `BeginThread`,
`LinkLock`, `LinkNode`, `ApplStart` are `monitor_begin_thread`; `CleanupCheck`,
`CleanupFini`, `CleanupFiniReturn`, `UnlinkLock`, `UnlinkNode` the cleanup
routine.  `CleanupCheck` and `CleanupFini` are separate because the code tests
and sets `tn_fini_started` in two accesses, and the handler can come between.
The handler actions need `pending` and interrupt a thread anywhere, except in a
handler that monitor itself installed, which blocks the signal.

### `MonitorExit`: exit and shootdown

Adds the cookie, the done flag and the locals of `monitor_thread_shootdown`
(`sd`).  The winner sets the cookie (`WinExit`) and then the mark in its node by
which it is known when it asks again (`MarkWinner`): two steps, as a fatal signal
may come in between.  A pass over the list is a step per node (`Visit`, with `Kill` apart,
since a node is read again after the kill), in any order; `NextPass`,
`AllFinished` and `GiveUp` are the three ways a pass ends.  A fatal signal can
arrive anywhere in any thread, also inside a callback, a locked section or the
shootdown itself.  It is followed to the end of the process; that a process may
run on after it, when `kill` sent the signal (`signal.c:260`), is in `MonitorSignal`.

History variables (`winner`, `finiProc`, `covered`, `timedOut`, `finiCalls`)
are never read by a guard.

`NodesKept` follows a node through everybody who may still return it or use it: the
unused ones, a creator, a thread up to the end of its cleanup routine.  To be on the
thread list is not enough: a cleanup routine that returns before the unlink, because
the application's routine never started or the client blocks the shootdown, leaves
the node there for good (`pthread.c:905`).  `LockHeld` says who may hold
the spinlock of the list, the threads that a fatal signal took from it included.

Time is abstract: the timeout may pass at the end of any pass without progress.
Under `Patient` it passes only if some thread on the list cannot react, which
is the reading of "ten seconds is long".

### `ExitGate`: what a caller of exit may rely on

One asker wins, others wait until the gate opens, a repeated winner passes.
`MonitorExit` implements it by mapping locations to gate positions.  It does so as
long as whoever asks can be told from the others: it has a node, no key destructor runs
with the node of another, and no signal comes between cookie and mark; this is proved.

### `MonitorProcess`: process images

State: per process the image `mem` (the globals of `main.c`, `fork.c` and `pthread.c`
that a fork copies and an exec throws away) and its thread slots `th`.  A slot has a
location, a context (before main, from main on, in exit handlers), the way in which it
ends the process, and the child it has forked.  `BeginProcess` is
`monitor_begin_process_fcn`, a helper of `MainStart`, `CreateEnter` and `ForkChild`, its
three callers.  `fork` is `ForkEnter`, `RealFork`, `ForkParent` and `ForkChild`, because
the flag `inside_fork` is written and read in separate accesses; the copy is that of the
image at the moment of `RealFork`, with the calling slot alone.  `System` is a child
that execs the shell or dies, and a parent that waits for it.  `Exit` and `Exec` go
through the same race as in `MonitorExit`; the shootdown is reduced to what it does to
the image: it takes the lock and closes the thread list.

### `ProcessLife`: what a client is promised of an image

New, running once it had `init_process`, ended once it had `fini_process` (a
process may exit before main, without the first).  A process dies only when it
has ended; exec starts a new image, fork and system a new process.
`MonitorProcess` implements it when no override runs beside a fork and nobody
forks once the process has begun to exit; this is proved.

### `PapiexClient`: papiex behind the callbacks

State: the build (`havePapi`, so that one run has both), per thread a location, the
record that `thr_data` points to and the locals of `papiex_thread_init_routine`; for the
process `_papiex_enable`, the table, the three event variables, and what the writer was
given and wrote.  The callbacks arrive as `MonitorExit` delivers them when it does not
give up; that is the interface between the two modules (`CoveredFinished` is the premise
of `AtFiniProcess`).

With PAPI the entry into the table is one step, under `PAPI_lock`; without,
the three steps `GrowUnlocked`, `StoreUnlocked`, `BumpUnlocked`.  An initialisation
that fails (`InitProcessFails`) leaves papiex enabled without a table: a thread that
is created then stores behind a table of size zero (`InsertLocked`, which may end the
process), or has its record freed and goes on with it (`InsertRefused`).  What is
written into freed memory, and that another thread may be given it, is not followed.

`SetUp` is the set-up of an event set, from `CreateEventset` to `PapiStart`, with a
step for each access to what the threads share without a lock: an event is added, or
refused and then zeroed in the list; the compaction looks for an event and copies its
code and its name, one after the other; `eventcnt -= errcnt` is a read (`Subtract`)
and a write (`Assign`), so that what another thread wrote in between is lost and the
count may get negative.  Between calls of PAPI the compiler may keep `eventcnt` in a
register or read it again (`Count`).  When `PAPI_create_eventset` has failed the model
still lets events be added to the set or be refused, which is more than PAPI does.
`dropped` is history: the count has been zero, or less, at some time.

`papiex_start` and `papiex_stop` of the application are `ApiStart` or `ApiStop`, the
tests and the reading of the counters, and `ApiReturn`, what is stored after it; the
shootdown may run `FiniThread` between them, which `torn` remembers.  `ApiCrash` is a
call in a thread without a record, or whose record was freed.  History: `raced` says
that two threads were in the table together without a lock.

After `Fork` the model follows the child.

### `PapiexOutput`: the files of a session

State: the number of directories of the prefix that exist, the header file and
the collated file, the files of single processes with their generation, and per
process a location and locals.  A collated writer opens, makes directories,
and opens again until one way works (`OpenNoDirectory`, `OpenCreates`,
`OpenExists`, `OpenAppend`), tries to create the header with `O_EXCL`, and
appends its row in one `write`; the other format takes the first free
generation with `O_EXCL` (`Create`, `CreateExists`) and writes line by line.
`Strlcat` on lengths says what the bounded append returns and keeps.  Processes
are killed anywhere.

### `OutputLog`: what a reader of the collated files sees

At most one header, and each process adds at most one row, never changed
afterwards.  `PapiexOutput` implements it for every interleaving.

### `MonitorSignal`: dispositions and masks

State: the table of `signal.c` by column (`keepOpen`, `appl`, `kernAct`,
`client`), the shootdown signal, what the kernel has for each signal (`kern`), the
mask of each thread, and per thread a stack of frames (`th`): the thread's own
code, and a frame of `monitor_signal_handler` or of the shootdown handler on top
of whatever a signal interrupted, with the mask to return to.  The kernel itself
is part of the model (`NewMask`, `Push`, `Pop`, `Arrives`): what it blocks in a
handler, what an exec resets.  A signal that is not blocked may arrive anywhere.

`sigaction` is three steps, `StoreAction`, `AdjustAction` and `InstallAction`,
because nothing locks the table and a handler may come in between.  `sigprocmask` is
two: `Sigprocmask` prepares the set from what is kept open by then, and
`RealSigprocmask` installs it.  `ClientAction`, `System` and `SystemReturn`,
`CreateThread` are one each.

The handler is `Deliver`, then `ClientAccepts`, or a step for each time it reads the
application's disposition, which others may change under it: `TestIgnore`, the test
for the default (`ApplyNothing`, `ApplyDefault`, `NotDefault`) and the call
(`ApplyHandler`), which calls no function (`Fault`) if the disposition has become the
default or to ignore since.  The flags of an action are not modelled, so that one
action's handler may be called by another's flags (`signal.c:270`) is not to be seen.

The end of the process is that of `MonitorExit` in short: `Win` is the winner's way up
to the installation of the shootdown handler, `WinOver` the end of its callbacks, and
the others wait for it (`Through`).  `over` stands for `monitor_fini_thread_done` and
`monitor_fini_process_done`, which the code sets one after the other; once it is set
the shootdown handler does nothing (`DeliverShootdown`).  A handler whose signal ends
the process then sets the default action (`ResetAction`), empties its mask
(`ClearMask`), whereupon what was pending comes on top of it, and raises the signal
(`DeliverRaw`) or returns (`ReturnBare`); a process whose SIGSEGV was sent by `kill`
runs on after that.  `Fresh` is `monitor_signal_init` with the choice of
the shootdown signal, for the first image and for each `Exec`.

History: `inherited` is the mask with which the image started; `tangled` the signals
about which two calls of `sigaction` or `system` overlapped; `late` those that the
client registered in the middle of somebody's `sigprocmask`; `loose` those whose
disposition was changed while a handler was reading it.

### `SignalView`: signals without monitor

A disposition per signal, handlers that nest and return, a process that a signal ends
only by its default action, or that crashes when a disposition was changed as a signal
of that kind was on its way (`loose`).  `MonitorSignal` implements it, overlapping calls
included; this is proved.  The handlers that the application has running are those
frames of a stack that have one, in their order (`Handlers`), and its dispositions are
the table for what monitor catches and the kernel's for the rest (`ApplDisp`).  What a
dying process leaves on its stacks is not compared.

### `MonitorMpi`: nested overrides, size and rank

State: the two counts, `max_init_count`, size and rank, the two `first` marks, the
library (not there, up, over), and per thread a stack of the overrides it is in.
All names of a call have one body and one counter, so `Enter` with "init" is any
name of `MPI_Init` or `MPI_Init_thread`; the library's function may enter another
one.  `Enter`, `BeforeReturn`, `RealReturn`, `AfterReturn`, `Leave` are the lines of
an override.  `CommRank` and `Publish` are the two ways into
`monitor_set_size_rank`, whose tests are one step and whose stores are three.
Size and rank are named after the communicator they were asked of.  What the
application does is what MPI allows: one thread, main, calls `MPI_Init` and
`MPI_Finalize`, the latter when nobody is in an override.

History: `overlap` (two calls have set size and rank together) and `told` (the
application has been told a rank outside `MPI_Init`).

### `MpiCallbacks`: what a client is told of MPI

One callback before and one after the library's own code.  `MonitorMpi`
implements it at any depth of nesting.

### `*Proofs`, `MC*`

`MonitorExitProofs` and, on top of it, `MonitorGateProofs`; `MonitorProcessProofs`;
`PapiexClientProofs`; `PapiexOutputProofs`; `MonitorSignalProofs` and, on top of it,
`SignalViewProofs`; `MonitorMpiProofs`.  For TLC, the symmetry sets and the data of
the instances.

Operators that follow a "Fault:" comment are deliberate errors in the operator
below them.  Nothing in the specification uses them; substituting one for its
operator must break the property it is paired with in `PROJECT.json`, which
shows that the property can tell.

## Runs

| run | instance | shows |
|---|---|---|
| `exit_safety` | 2 created threads, 2 nodes, no client options, no key destructors, all react in time | types, node ownership, how a node is lost, the frozen list, what is finished before `fini_process`, no giving up, losers that wait, the refinement of `ExitGate`; no deadlock |
| `exit_live` | 1 created thread, 1 node, ignoring and blocking clients, key destructors, deaf threads, 1 fatal signal | shootdown ends and exits return when no signal strikes; who holds the lock |
| `process_threads` | 2 processes of 2 slots; create, fork, system, exit | each image gets its callbacks once and in order (`ImplementsLife`), and the thread list of a child has none of its parent's threads |
| `process_live` | 1 process of 2 slots; create, exec that may fail, exit | every call of `monitor_end_process_fcn` returns |
| `signals` | 2 threads; 3 signals: the shootdown signal; a fatal one that the client may take, which `system` ignores and blocks and which is not raised again; one to avoid; 2 calls, 2 handlers deep | no thread is closed to the shootdown or to the client's signal, `fini_thread` not inside monitor's handler, kernel and table agree, the refinement of `SignalView` |
| `mpi` | 2 threads, 2 communicators and one that is refused, 3 overrides deep, 5 calls | callbacks once at any depth, no rank of inside `MPI_Init`, a size and rank of one communicator, known once the application was told |
| `client` | 3 threads, builds with and without PAPI, a table that starts with one record or, if the initialisation fails, with none, 3 events of which PAPI does not know the last and may refuse the others, every call of PAPI may fail, fork, exit and exec, 2 calls of the application | table, rows, calipers, closed records, a child's rows |
| `output_session` | 4 processes, 2 of each format, 2 with one pid; 2 directories; kills | shared files and own files; every writer ends |
| `fini_twice`, `init_twice`, `client_side_exit`, `output_spills` | smallest that shows it | a comment or test of the repository that the code does not keep |

Bounds.  `Side` and `Pool` bound threads and nodes; `CreateBegin` needs a node left for
every creator under way, so the model never runs into the bound inside an override.  Two
created threads with main give every pair of roles (winner, loser, thread in cleanup,
thread being created), and two nodes with a node of the first thread reused by the
second give reuse.  `MaxSignals` bounds fatal signals; one can strike the winner, the
thread it waits for, or the holder of the lock.  With it the system may stop for good,
so `exit_live` does not check deadlock; nor does `mpi`, whose application may stop
calling.  `Proc` bounds forks (one that finds no process left fails, as in a full
process table) and `Thread` the slots of a process: a parent that lives on beside its
child, and two threads in each, are what the races of the flags need.  `InitThreads` is
1 for 128, so that the table grows with the first thread.  Three events are a gap and an
event after it to move, with one that is known to be missing before.  In `signals`,
`MaxCalls` of 2 lets two calls overlap, one undo another, or one change what a handler
reads, and `MaxFrames` of 2 lets the shootdown handler come on top of another; the
application (`Act`) ignores the shootdown signal, handles the one to avoid and does
either with the third; `OpenList` is empty, so that what is kept open besides the
shootdown signal is what the client registers in the run; in `mpi`, `MaxNest` of 3 is
Fortran over C over PMPI, and `MaxCalls` of 5 is init, two ranks, a rank of the client,
fini.  `BufLen` is 16, so that a row can end exactly at the end of the buffer.  Symmetry
is used where a run checks invariants and properties of single steps only.

Fairness.  `MonitorExit!FairSpec`: per thread, weak fairness of the steps inside
monitor's overrides, of the handler, and of the return from exit handlers;
strong fairness of the timeout.  A thread inside monitor runs code without a
wait other than the spinlock and the two polling loops; callbacks are assumed
to return, as the code assumes.  Application code has no fairness: it need not
create, end or call exit.  `MonitorProcess!FairSpec`: strong fairness of what
runs once an override was called, because the lock may be taken and released
by others in between; the spinlock is held for three assignments and each
waiting thread gets it in the end.  `PapiexOutput!FairSpec`: weak fairness of
each process's own steps; a killed process has none left.

## What the violated runs show

See `findings` in `PROJECT.json` for the quoted lines.  In short: the shootdown
signal between test and set of `tn_fini_started` gives a thread two
`fini_thread` callbacks; `pthread_create` beside a fork runs `init_process` a
second time and forgets the threads of the live parent; a created thread that
ends the process closes its own papiex record twice and main's never, and the
header is to be made from main's; a row one character longer than the buffer
is written without its newline, since `strlcat` never returns the buffer size.

## What the instances leave out

Some constants keep the runs to a part of what the code does; outside it the
code does what follows, which TLC finds when the constant is changed in the
run's cfg.  No comment of the repository denies most of it, so it is listed
here and not under `findings`.

| run, constant | property that fails | what the code does |
|---|---|---|
| `exit_live`, whose `ShootdownEnds` and `ExitReturns` leave out `sigs > 0` | both, without that | a crash inside `fini_thread` leaves the thread waiting for the winner and the winner for the thread; the timeout needs an unstarted thread (`pthread.c:597`) |
| same | same | a fatal signal on the holder of the thread-list lock: its own shootdown waits for it (`pthread.c:529`) |
| same | same | a fatal signal on the winner between its cookie and its mark: it is not known for the winner, and waits for itself (`main.c:308`, `main.c:314`) |
| `exit_safety`, `MaxSignals = 1` | `NeverGivesUp` | a loser inside monitor's signal handler has the shootdown signal blocked (`signal.c:737`) |
| `exit_safety`, `Patient = FALSE` | `NeverGivesUp` | after ten seconds without progress the shootdown goes on without the others (`pthread.c:597`) |
| `exit_safety`, `TsdCode = TRUE` | `ImplementsGate`, `LosersWait` | a key destructor still names the freed node of its thread; if the winner reuses it, exit from there opens the gate early (`main.c:325`, `pthread.c:436`), which the comment at `main.c:290` excludes; `exit_live` has such code, but one created thread only, and does not get there |
| `exit_safety`, `ClientIgnores = TRUE` or `MaxSignals = 2` | `ImplementsGate` | a winner without a node, a thread that is ignored or that a fatal signal hit before it was bound, is not known when it calls exit again, and waits for itself (`main.c:325`) |
| `exit_safety`, the exceptions in `NodesKept` | same, without them | the node of a `pthread_create` that fails is never returned (`pthread.c:1128`); that of a thread that comes too late for its routine, or whose shootdown the client blocks, stays on the thread list without a thread, since its cleanup routine returns before the unlink (`pthread.c:905`) |
| `exit_safety` | none | a thread that is linked and has not started its routine is neither signalled nor waited for, and its `init_thread` may come beside `fini_process` (`pthread.c:575`): `CoveredFinished` is about started ones |
| `exit_live` | none | `pthread_exit` of a thread created while the client ignores new threads is taken for main's (`pthread.c:1156`); the first thread may be created after the exit found none (`pthread.c:522`) |
| `process_threads`, `SerialFork = FALSE` | `OncePerImage`, `AppAfterInit` | `inside_fork` belongs to the process, not to the thread (`pthread.c:1056`, `fork.c:336`) |
| same | none | a fork copies a list lock that another thread holds (`fork.c:323`), and the child's reset of the list leaves it so (`pthread.c:316`): the first `pthread_create` of that child waits for ever |
| `process_threads`, `NoLateFork = FALSE` | `ImplementsLife` | a child inherits the cookie of a parent that has begun to exit (`main.c:277`) |
| `process_live`, `NoLateFork = FALSE`, two processes, fork | `EndReturns` | such a child waits for a winner it does not have (`main.c:338`) |
| `process_live`, `ExitInMain = FALSE` | `EndReturns` | after an exit before main, a first `pthread_create` in an exit handler clears the done flag again (`main.c:279`) |
| `process_live` | none | after a failed exec `monitor_in_exit_cleanup` stays set, and later threads do not run (`pthread.c:530`) |
| `signals`, signals in `late` | `OpenStays` | a client that registers a signal while a `sigprocmask` has prepared its set but not installed it (`signal.c:390`, `signal.c:907`) may have it blocked |
| `signals`, signals in `loose` | `ImplementsSignals` without `Crash` | a disposition that changes between the reads of a handler (`signal.c:228`, `234`, `273`): SIG_DFL or SIG_IGN is called as a function |
| `signals`, the thread `winner` | `NoNestedFini` for it | a handler whose signal ends the process has its callbacks, and after an exec that failed its own shootdown handler, inside monitor's handler |
| `signals` | none | a process whose SIGSEGV, SIGBUS or SIGILL was sent by `kill` runs on after the end of the process, with the default action and without a mask (`signal.c:260`) |
| `signals`, signals in `tangled` | `KernelAsTable`, `NoNestedFini` | two calls about one signal that overlap: the mask that is installed is copied before it is adjusted, or `system` puts back what another call has replaced (`signal.c:853`, `fork.c:563`) |
| `signals`, `InheritedMask` with the shootdown signal | `ShootOpen` without `inherited` | a mask that blocks the shootdown signal from the start is kept, and no call opens it (`signal.c:414`) |
| `signals`, signals in `Avoid` | `NoNestedFini` | their handlers are the application's own and do not block the shootdown signal (`signal.c:828`) |
| `signals`, `FromEnv` or `FromConfig` naming an `Invalid` signal | none | it is taken, as no signal is known to be invalid yet, and the first shootdown ends in `MONITOR_ERROR` (`signal.c:488`, `pthread.c:544`) |
| `signals` | none | after an exec that fails the shootdown handler stays, and a `sigaction` on that signal takes it away (`pthread.c:544`); a signal that is ignored is caught by monitor, so an exec resets it to the default (`signal.c:334`); `system` blocks `SIGCHLD` though it is kept open (`fork.c:565`), so `OpenStays` looks at the mask that comes back |
| `mpi`, `overlap` | `OneSource` | two threads that ask first together leave the size of one communicator with the rank of the other (`mpi.c:93`) |
| `mpi` | none | a call of `MPI_Comm_rank` that fails is recorded for good (`pmpi.c:299`), one made inside `MPI_Finalize` may be; the callbacks come although the real call failed (`pmpi.c:105`); papiex asks for size and rank inside the init callback, where monitor can have none but what a client published (`papiex/src/monitor.c:84`, where `src/README.md:82` has a rank) |
| `client` | none | the compaction copies an event into a gap and leaves it where it was too (`thread.c:97`): of [0,B,C] it makes [B,B,C], and C is counted under the name of B; so rows and columns need not match once an event but the last is refused |
| `client` | none | `eventcnt -= errcnt` without a lock (`thread.c:104`): an update that is lost brings events back, and a count below zero counts as having events (`thread.c:107`) |
| `client`, processes with `dropped` | `CalipersBalanced` | the count of events was zero at some time: a thread that looked then has no event set, and its caliper stays unused when others bring events back |
| `client`, `Builds` without PAPI | `ClosedSettled`, `CalipersBalanced` without `havePapi` | nothing is read there that could fail, and `papiex_start` of the application changes a record that was closed (`api.c:26`), though the comment at `thread.c:509` has it complete |
| `client`, no table (`size = 0`) | `TableWhole`, `ChildRowsOwn`, `AlwaysWritten` without it | after an initialisation that failed papiex stays enabled (`monitor.c:26`): the next thread stores behind the table of size zero, or its record is freed and used (`thread.c:28`) |
| `client`, ends by exec | `AlwaysWritten` without `how` | data are dropped before an exec, also one that fails (`process.c:183`) |
| `client`, `LateInit = TRUE` | `RowsClosed` | a thread in `init_thread` gets a row of an unfinished record |
| `client`, records that are `torn` | `CalipersBalanced`, `ClosedSettled` | the shutdown comes inside a call of `papiex_start` or `papiex_stop`, which then goes on with what it had found: depth -1, or a caliper started after the end (`api.c:78`) |
| `client`, location `crash` | none | a call of the application in a thread without a record, and the shutdown of a process whose set-up failed, follow a null pointer (`api.c:98`, `monitor.c:27`); `AlwaysWritten` and `RowsClosed` say nothing of it |
| `client` | none | `PAPIEX_START` names caliper 1, and the only one is 0, so the call is refused; `papiex_accum` refuses 0, so it accumulates nothing (`papiex.h:36`, `api.c:98`) |
| `client`, an unknown event before a known one | none | the number of mapped events is taken for that of the first events of the list (`process.c:146`), so the last events are never counted |
| `client` | none | the event set is overwritten by a mark before it is saved, so it is never released (`thread.c:510`, `thread.c:521`) |
| `client`, `raced` | `TableWhole`, `RowsClosed`, `ChildRowsOwn` | without PAPI there is no lock around the table (`thread.c:41`): two threads take one slot; where three are in it, each may have found room, and the last stores past the end |
| `output_session`, `HasFields` FALSE for `p1` | `HeaderFilled` | the header file is created before it is known whether a header can be made (`output.c:638`) |
| `output_session` | none | an exec does not raise the generation; only an existing file does (`output.c:156`, where `README.md:77` says "Incremented after every exec() or PID wrap") |

## Proofs

For any sets of threads and nodes, any number of signals, and every setting of
the options, under the assumptions named in the modules (main is not a created
thread, the special values are distinct):

- `TypeCorrect`, `NodesOwned`, `ShootdownCovers`, `LockAlwaysHeld`: the type
  invariant, `NodeOwnership`, `CoveredFinished` and `LockHeld` hold in every
  reachable state;
- `ListIsFrozen`, `FiniProcessOnce`, `NoNodeLost`: `FrozenList`, `OneFiniProcess`
  and `NodesKept` hold of every step.  The last rests on `NodesExpected`: until exit
  cleanup begins, a node about to be linked is on no list and one about to be unlinked
  is on the thread list (`KeptInv`), so that link and unlink do what they are for.

All follow from `Inductive`, for which the properties had to be strengthened:

- `LocationInv` ties a location to the thread's own variables (who can be
  there, what `mk` and `node` hold).
- `CreatorInv` says who can have a node in `mk` at all: what `MakeNode` and
  `Launch` overwrite is then known to be empty, and no node is lost there.
- `OwnershipInv` adds to `NodeOwnership` the two stages it does not see: a
  thread about to link owns its node though no list has it, and an active
  thread's node is linked and its own.  Without the first, linking could insert
  a free node; without the second, unlinking could free another's.
- `WinnerInv`: only the winner is in the callbacks, and `fini_process` is the
  last.
- `WalkInv`: in a pass that has counted nobody unfinished, every covered node is
  settled, still to be visited, or being signalled.  It needs the list to be
  frozen and `finiDone` never to be cleared on it, which is `OwnershipInv`
  again: nodes that creators clear and new threads rebind are not on the list.

Steps that move no node (`QuietStep`) and steps of the exit protocol
(`ExitFrame`) are handled together; each other action has a step of its own.

`MonitorGateProofs` proves who waits for whom, from `Inductive`:

- If no application code runs in key destructors, `GateInductive`: a living thread has
  its node to itself (`NodeInv`), the mark `exitWin` is on the winner's node and no
  other (`MarkInv`), and the done flag is not set before the winner is through
  (`WaitInv`).  `LosersAlwaysWait` follows.  `LosersWait` alone is not inductive: that a
  caller who passes as the winner *is* the winner is a fact about a mark on a node,
  and nodes are freed, cleared and bound again.
- `GateImplemented`: each step maps to a step of `ExitGate` or a stutter, if besides
  every thread at `endProcess` has a node (`NodedExit`) and no fatal signal takes the
  winner between its cookie and its mark (`MarkedInTime`); then the winner, and nobody
  else, is known when it asks again (`WonInv`).  `CallersHaveNodes` proves the premise
  of a client that ignores no thread, in a process that no fatal signal hits, and
  `ExitIsGate` puts the two together.
- `ShootdownPatient`: `NeverGivesUp`, for clients that block nothing, if reactions take
  less than the timeout (`Patient`) and no fatal signal strikes.  A pass gives up on
  a node whose thread cannot react, so three parts say that each can: a node in use is
  not cleared and names its thread (`ReadyInv`), no `fini_thread` is refused before the
  loop is left (`DoneInv`), and a thread on the list that has not begun its
  `fini_thread` runs, or is in exit, where the signal reaches it (`FinishInv`).

`MonitorProcessProofs` proves of any number of processes and threads, with any
set of overrides in use:

- Under `SerialFork`, `ProcessInvariant`: in every living process the thread list is
  that of its threads (`ListPart`), the lock is held only where it will be released
  (`LockPart`), `initCalled` and the count of callbacks agree but for a child that has
  not begun (`InitPart`), `inside_fork` is set exactly while one thread is in fork and
  then the others are idle or past the callbacks (`ForkPart`), and one thread wins the
  cookie (`OncePart`).  `OncePerImage`, `AppAfterInit` and `OwnThreads` follow
  (`CallbacksOnce`, `InitFirst`, `ListOwned`).  None of them is inductive alone, since a
  fork copies the image as it is: that the child's lock is free and its count of
  callbacks right is a fact about where the *other* threads of the parent are at that
  moment.
- Under `NoLateFork` too, `LifeInvariant` adds what makes fini come before the
  end: each thread has its own node or, one of them, main's (`NodePart`), so that
  nobody but the winner takes the branch of one who has won already; and
  exit handlers, the library destructor and `_exit` are reached after
  `fini_process` only (`EndPart`).  `LifeRefined` maps every step to a step of
  `ProcessLife` or to a stutter.

Both assumptions are premises of the theorems and not of the module; what happens
without them is in the table above.

`PapiexClientProofs` proves of any number of threads and events, any of which PAPI may
not know or may refuse, with every call of PAPI failing at any time, any forks, and
calls of the application anywhere, `ClientInvariant`:

- `TypeOK`, and `ListPart`: the event lists keep their length, and the count of events
  is never more than it, whoever compacts them and whatever updates of it are lost;
- `ThreadPart`: for each thread, its locals at each location of the set-up
  (`LocalPart`), what its record can be at each (`RecordPart`), that with a table it
  has one (`SelfPart`), how often the caliper was started and stopped (`CaliperPart`), and
  that unless events were dropped a thread that is set up has its event set, and has
  started the caliper (`StartedPart`);
- `BootPart` and `ExitPart`: who is first and who is last in the process, and where
  the others are then;
- `SizePart` and `TablePart`: the table is as long as it says, and the slots below the
  count belong to as many threads past their entry, one each, unless `raced`.  After an
  initialisation that failed the table has size zero, and a thread that is created then
  stores behind it (`thread.c:39`);
- `RowsPart`: the writer is given no more rows than the table has.

It gives `TypeCorrect`, `EveryThreadInTable`, `BalancedWhenClosed`, `RowsOfOwnThreads`
and `EndsWritten` without premises.  `TableWhole` is not inductive, as the entry of a
thread is three steps where there is no lock: what the other threads are about to
store is a part of it.  `BalancedWhenClosed` says nothing of a build without PAPI, nor
once the events were dropped (the count of events is shared, and threads that set up
at one time may bring it to zero, after which nobody starts a caliper or stops one).
`RecordsSettle` and `RowsOnceClosed` need premises, without which the
table above has what happens: `RecordsSettle` that only main ends the process
(`AnyExiter` is FALSE); `RowsOnceClosed` this, and that no thread is in `init_thread`
then (`LateInit` is FALSE).  `RecordsSettle` too is about a build with PAPI.

`PapiexOutputProofs` proves of any number of processes, with any sizes, pids
and kills:

- `OutputTypeCorrect`: the types, and that `mkdir_p` stays inside the prefix
  and no third open is tried (`WayInv`, which ties each location to what the
  writer has found so far, is what makes it inductive);
- `OutputImplementsLog`: the refinement of `OutputLog`.  A step maps to a step
  or a stutter once it is known (`LogInv`) that a writer about to write the
  header owns a header file with no line, and that whoever has a row in
  the file is done;
- `OutputFits`: if every line fits (`AllFit`, an assumption of the theorem, not
  of the module), `NeverFails` and `RowsWhole` hold.  `FitInv` adds that no
  buffer was ever enlarged: the branch of `write_buffer_v2` that asks for more
  space is never taken;
- `HeaderAlwaysFilled`: `HeaderFilled`, if a header can be made in every process
  (`HasFields`).  `MadeInv` says who has to fill a header file that is still empty;
- `FilesAlwaysOwned`: `FilesOwned`, though pids are used again.  `FileInv` says that
  of living processes no two have one pid, and that a writer of lines has the name of
  its file to itself.

`MonitorMpiProofs` proves of any number of threads and communicators, and any depth
of nesting:

- `NestInv` gives `MpiTypeCorrect`, `CountsAlwaysNest` and `CallbacksImplemented`.
  Besides the types it says what a stack looks like (`StackInv`: main's frames are
  all of one call, each with its depth as its number, all but the last inside the
  library), what the counters are (`CountInv`: the depth), and where the last callback
  leaves the outermost frame (`LastInv`).  `CountsNest` alone is not inductive: that
  the decrement belongs to the frame on top needs the order of the frames.
- `RankInv` adds how far a setting thread is (`SetInv`: one thread at most while no
  two overlapped, and what size and rank are at each of its places), that nobody is
  setting from inside `MPI_Init` (`InsideInv`), and that marks and answers are never
  ahead of the rank (`KnownInv`).  It gives `NeverInside`, `FirstAlwaysWins`,
  `AlwaysOneSource` and `AlwaysKnownOnceTold`.

`MonitorSignalProofs` proves of any threads, signals and lists, any number of calls
and any depth of handlers:

- `SignalInvariant`: the tables are typed (`TableTypes`), only a managed signal is
  caught by monitor and only the shootdown signal by the shootdown handler (`KernPart`),
  and every thread is a stack of which each frame is known (`StacksOK`), with a set that
  `sigprocmask` has prepared and not yet installed (`SetOK`: it leaves the signals that
  are kept open as they are in the mask).  A stack changes in four ways: a frame is
  pushed, popped or replaced, or the mask of the top frame is set; `PushKeeps`,
  `PopKeeps`, `ReplaceKeeps` and `MaskKeeps` say what each does to the mask of the
  thread's own code, and each action is one of them.
- `AlwaysOpen` and `NeverCloses`: `ShootOpen` and `OpenStays`.  Neither is inductive
  alone: that a return reopens what the handler blocked needs the saved masks of the
  whole stack, and that `system` puts back a mask that is open needs what it saved.
  `OpenStays` leaves out the signals of which a client's request came between the two
  steps of some `sigprocmask` (`late`): a set that was edited before the request may
  close a thread to them.
- `FullInvariant` is this and three parts more, the first two for signals that are not
  `tangled` (no two calls about them overlapped).  `TableInv`: the handler of monitor
  blocks the shootdown signal (`BlockPart`); outside the calls the kernel has what the
  table says (`SamePart`); a call inside `system` marks its signal (`OverlapPart`); and
  a call half way has stored the mask, adjusted it, or put the whole action aside
  (`CallOK`), which is why the agreement survives the three steps of `sigaction` and the
  two of `system`.  `NestInv`, for every thread but the winner: above a frame of
  monitor's handler the shootdown signal is in every mask (`NestOK`), whatever calls the
  handler makes.  Once the winner is through and a loser empties its mask in the handler
  (`signal.c:259`) that is no longer so, and what remains is that no shootdown handler
  makes its callback on top of monitor's (`FlatOK`): one that is entered now finds
  `monitor_fini_process_done` and returns.  `EndPart`: the frames of a handler at its
  last steps, and the default action in the kernel for a managed signal, are found only
  once a signal is ending the process.
- `FiniNeverNested` and `TableKept`: `NoNestedFini` and `KernelAsTable`.

`SignalViewProofs` proves `SignalsImplemented`, the refinement of `SignalView`, from
`SignalInvariant` and the `EndPart` of `FullInvariant` (a managed signal meets the
default action in the kernel only at the end).  Besides it needs `SeenInv`: monitor's
own handlers run for signals that it manages, and what a handler has read of a
disposition is still so, or the signal is `loose`: some call changed the disposition
between two of the reads.  `HandlersSame` and `HandlersMore` say what a change of a
stack shows of it: nothing, or one handler more on top; a return is the second read
backwards.  Each action is then one of `UnseenStep`, `SetStep`, `HandleStep`,
`ReturnStep`, `StrikeStep`, `ViewEnd`, `CrashStep` and `NewImageStep`.

Some of what is proved is in no run, as the theorem says it of every instance:
`OneFiniProcess`, `CountsNest`, `FirstWins`, `RowsWhole`, and the type invariants of
`MonitorProcess`, `MonitorMpi` and `PapiexOutput`.

Only model-checked: liveness (`ShootdownEnds`, `ExitReturns`, `EndReturns`,
`WriterEnds`), which is out of the prover's reach.

## Not modelled

Inside the modelled components: in `pthread.c` the stack-size adjustment,
`monitor_broadcast_signal`, and the sigwait overrides (`sigwait`, `sigwaitinfo`,
`sigtimedwait` take the shootdown signal from the set and run the handler's code
themselves, which for the shootdown is `HandlerEnter` at one more place); in
`fork.c` the client functions `monitor_real_fork`, `monitor_real_execve`,
`monitor_real_system`, and the test for an executable file with the copies of
arguments, for which a model of failing execs stands; in `signal.c` the flags of an
action (`SA_RESETHAND` and `SA_ONSTACK`, which monitor drops, `SA_NODEFER`), a
`longjmp` out of a handler, and `monitor_real_abort`; in the MPI files the failing
lookup of a real function, which ends the process; in papiex the MPI callbacks beyond
what they read, the parsing of options, what the plugins read,
`called_process_shutdown` between two threads (monitor lets one in), failing
`malloc`; in the output the escaping of strings, short writes and a full disk.

Left out for good: PAPI, libpfm and `queue.h`, which are vendored and are nearly all
of the lines of the tree; `dlopen.c` (callbacks around one call), `callback.c` (empty
defaults), debug output, the static linking variants.
