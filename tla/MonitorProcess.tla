--------------------------- MODULE MonitorProcess ---------------------------
(***************************************************************************)
(* Processes under libmonitor (src/monitor/src/main.c, fork.c, and the     *)
(* parts of pthread.c that they share): the start of a program image, the  *)
(* fork, exec, system, exit and pthread_create overrides, and the process  *)
(* globals that fork copies into a child and exec throws away.             *)
(*                                                                         *)
(* An image is the record of those globals.  A thread slot is control      *)
(* state in one process; fork copies the image and the calling thread,     *)
(* and nothing else.  What happens inside the shootdown and to threads     *)
(* that are not involved is the subject of MonitorExit; here a shootdown   *)
(* is the one step that takes the lock and closes the thread list.         *)
(***************************************************************************)
EXTENDS Naturals, FiniteSets

CONSTANTS
    Proc,         \* processes (a bound: when none is left, fork fails)
    Root,         \* the process that is there at the start
    Thread,       \* thread slots of each process
    Main,         \* the slot in which an image starts
    NoThread, MainTn, NoNode, NoProc,
    Uses,         \* the overrides that the application calls
    SerialFork,   \* no other override runs in a process while one is in fork
    NoLateFork,   \* nobody forks once the process has begun to exit
    ExitInMain,   \* nobody exits, or executes a program, before main
    ExecWorks     \* what looks executable is executed

ASSUME ProcessAssumption ==
    /\ Root \in Proc /\ NoProc \notin Proc
    /\ Main \in Thread /\ NoThread \notin Thread
    /\ MainTn \notin Thread /\ NoNode \notin Thread \cup {MainTn}
    /\ Uses \subseteq {"create", "fork", "system", "exec", "exit"}
    /\ {SerialFork, NoLateFork, ExitInMain, ExecWorks} \subseteq BOOLEAN

\* The node of a created thread is named after its slot.
Node == Thread \cup {MainTn}

VARIABLES
    mem,       \* the image of each process
    th,        \* the thread slots of each process
    status,    \* unborn, alive or dead
    calls      \* history: callbacks that each image has been given

vars == <<mem, th, status, calls>>

CreateLoc == {"mkLock", "mkLocked", "launch", "link", "linkLocked"}
ForkLoc   == {"forking", "forkParent", "forkChild"}
EndLoc    == {"endProcess", "shootdown", "finiProcess", "loser"}
Loc == {"none", "app", "libTest", "libCb", "libDone", "wait"}
         \cup CreateLoc \cup ForkLoc \cup EndLoc

\* Where application code runs: before main, from main on, in exit handlers.
Context == {"pre", "main", "exiting"}

Image == [initCalled : BOOLEAN,   \* monitor_init_process_called
          finiLib    : BOOLEAN,   \* monitor_fini_library_called
          finiDone   : BOOLEAN,   \* monitor_fini_process_done
          cookie     : BOOLEAN,   \* monitor_end_process_cookie
          insideFork : BOOLEAN,   \* inside_fork
          used       : BOOLEAN,   \* monitor_has_used_threads
          inCleanup  : BOOLEAN,   \* monitor_in_exit_cleanup
          lock       : Thread \cup {NoThread},
          linked     : SUBSET Thread,
          node       : [Thread -> Node \cup {NoNode}],
          exitWin    : SUBSET Node]

FreshImage == [initCalled |-> FALSE, finiLib |-> FALSE, finiDone |-> FALSE,
               cookie |-> FALSE, insideFork |-> FALSE, used |-> FALSE,
               inCleanup |-> FALSE, lock |-> NoThread, linked |-> {},
               node |-> [t \in Thread |-> NoNode], exitWin |-> {}]

Slot == [pc : Loc, ctx : Context, how : {"exit", "exec", "try"}, kid : Proc \cup {NoProc}]

Slots(t, slot) ==
    [u \in Thread |-> IF u = t THEN slot
                      ELSE [slot EXCEPT !.pc = "none", !.ctx = "main"]]

NoSlots == Slots(Main, [pc |-> "none", ctx |-> "main", how |-> "exit", kid |-> NoProc])
StartSlots == Slots(Main, [pc |-> "app", ctx |-> "pre", how |-> "exit", kid |-> NoProc])

NoCalls == [init |-> 0, fini |-> 0]

Init ==
    /\ mem = [p \in Proc |-> FreshImage]
    /\ th = [p \in Proc |-> IF p = Root THEN StartSlots ELSE NoSlots]
    /\ status = [p \in Proc |-> IF p = Root THEN "alive" ELSE "unborn"]
    /\ calls = [p \in Proc |-> NoCalls]

-----------------------------------------------------------------------------

At(p, t, l) == status[p] = "alive" /\ th[p][t].pc = l
Goto(p, t, l) == th' = [th EXCEPT ![p][t].pc = l]

InFork(p, t) == th[p][t].pc \in ForkLoc
InOverride(p, t) == th[p][t].pc \notin {"none", "app"}

\* Application code calls an override.
Call(p, t) ==
    /\ At(p, t, "app")
    /\ SerialFork => \A u \in Thread : ~InFork(p, u)

\* monitor_get_tn()
GetTn(m, t) == IF m.used THEN m.node[t] ELSE MainTn

\* Fault: the list of the parent's threads is kept.
ResetKeepsList(m, t) ==
    IF ~m.used THEN m
    ELSE [m EXCEPT !.used = FALSE, !.node = [u \in Thread |-> NoNode],
                   !.exitWin = IF GetTn(m, t) \in Thread THEN @ \ {MainTn} ELSE @]

\* monitor_reset_thread_list: the thread that forked is now the main thread.
ResetThreadList(m, t) ==
    IF ~m.used THEN m
    ELSE [m EXCEPT !.used = FALSE, !.linked = {},
                   !.node = [u \in Thread |-> NoNode],
                   !.exitWin = IF GetTn(m, t) \in Thread THEN @ \ {MainTn} ELSE @]

\* Fault: monitor_init_process_called is not tested.
RunsInitAlways(m, isFork) == TRUE

RunsInit(m, isFork) == isFork \/ ~m.initCalled

\* The image after monitor_begin_process_fcn in thread t.
BeginProcess(m, t, isFork) ==
    IF ~RunsInit(m, isFork) THEN m
    ELSE LET reset == IF isFork THEN [ResetThreadList(m, t) EXCEPT !.insideFork = FALSE]
                                ELSE m
         IN  [reset EXCEPT !.finiLib = FALSE, !.finiDone = FALSE, !.initCalled = TRUE]

\* init_process is called from it.
CountInit(p, isFork) ==
    calls' = IF RunsInit(mem[p], isFork)
               THEN [calls EXCEPT ![p].init = @ + 1] ELSE calls

\* monitor_main, up to the call of the application's main.
MainStart(p) ==
    /\ Call(p, Main) /\ th[p][Main].ctx = "pre"
    /\ mem' = [mem EXCEPT ![p] = BeginProcess(@, Main, FALSE)]
    /\ CountInit(p, FALSE)
    /\ th' = [th EXCEPT ![p][Main].ctx = "main"]
    /\ UNCHANGED status

-----------------------------------------------------------------------------
(***************************************************************************)
(* pthread_create, and the start and the end of the new thread.            *)
(***************************************************************************)

ThreadListInit(m, t) ==
    IF m.used THEN m
    ELSE [m EXCEPT !.used = TRUE, !.linked = {}, !.node[t] = MainTn]

\* The first pthread_create may come before main, from a constructor.
CreateEnter(p, t) ==
    /\ Call(p, t)
    /\ mem' = [mem EXCEPT ![p] = ThreadListInit(BeginProcess(@, t, @.insideFork), t)]
    /\ CountInit(p, mem[p].insideFork)
    /\ Goto(p, t, "mkLock")
    /\ UNCHANGED status

Acquire(p, t, from, to) ==
    /\ At(p, t, from)
    /\ mem[p].lock = NoThread
    /\ mem' = [mem EXCEPT ![p].lock = t]
    /\ Goto(p, t, to)
    /\ UNCHANGED <<status, calls>>

MakeNodeLock(p, t) == Acquire(p, t, "mkLock", "mkLocked")

MakeNode(p, t) ==
    /\ At(p, t, "mkLocked")
    /\ mem' = [mem EXCEPT ![p].lock = NoThread]
    /\ Goto(p, t, "launch")
    /\ UNCHANGED <<status, calls>>

\* real_pthread_create succeeds, and the new thread binds its node, cleared
\* when it was made; with no slot left, or otherwise, it fails.
Launch(p, t, u) ==
    /\ At(p, t, "launch")
    /\ th[p][u].pc = "none" /\ u \notin mem[p].linked
    /\ mem' = [mem EXCEPT ![p].node[u] = u, ![p].exitWin = @ \ {u}]
    /\ th' = [th EXCEPT ![p][t].pc = "app", ![p][u].pc = "link",
                        ![p][u].ctx = "main"]
    /\ UNCHANGED <<status, calls>>

LaunchFails(p, t) ==
    /\ At(p, t, "launch")
    /\ Goto(p, t, "app")
    /\ UNCHANGED <<mem, status, calls>>

LinkLock(p, t) == Acquire(p, t, "link", "linkLocked")

\* monitor_link_thread_node, and monitor_begin_thread up to the application.
LinkNode(p, t) ==
    /\ At(p, t, "linkLocked")
    /\ IF mem[p].inCleanup
         THEN /\ mem' = [mem EXCEPT ![p].lock = NoThread]
              /\ Goto(p, t, "none")
         ELSE /\ mem' = [mem EXCEPT ![p].lock = NoThread, ![p].linked = @ \cup {t}]
              /\ Goto(p, t, "app")
    /\ UNCHANGED <<status, calls>>

\* A wrapped thread ends; its cleanup routine unlinks it.
ThreadEnd(p, t) ==
    /\ Call(p, t) /\ mem[p].node[t] = t /\ th[p][t].ctx = "main"
    /\ mem[p].lock = NoThread
    /\ mem' = [mem EXCEPT ![p].linked = IF mem[p].inCleanup THEN @ ELSE @ \ {t},
                          ![p].node[t] = NoNode]
    /\ Goto(p, t, "none")
    /\ UNCHANGED <<status, calls>>

-----------------------------------------------------------------------------
(***************************************************************************)
(* fork and vfork.                                                         *)
(***************************************************************************)

\* pre_fork, and inside_fork is set.
ForkEnter(p, t) ==
    /\ Call(p, t)
    /\ SerialFork => \A u \in Thread \ {t} : ~InOverride(p, u)
    /\ NoLateFork => ~mem[p].cookie
    /\ mem' = [mem EXCEPT ![p].insideFork = TRUE]
    /\ Goto(p, t, "forking")
    /\ UNCHANGED <<status, calls>>

\* The child has a copy of the image, and of the threads only this one.
RealFork(p, t, c) ==
    /\ At(p, t, "forking")
    /\ status[c] = "unborn"
    /\ mem' = [mem EXCEPT ![c] = mem[p]]
    /\ th' = [th EXCEPT ![p][t].pc = "forkParent",
                        ![c] = Slots(t, [th[p][t] EXCEPT !.pc = "forkChild"])]
    /\ status' = [status EXCEPT ![c] = "alive"]
    /\ UNCHANGED calls

ForkFails(p, t) ==
    /\ At(p, t, "forking")
    /\ Goto(p, t, "forkParent")
    /\ UNCHANGED <<mem, status, calls>>

\* post_fork, and inside_fork is cleared.
ForkParent(p, t) ==
    /\ At(p, t, "forkParent")
    /\ mem' = [mem EXCEPT ![p].insideFork = FALSE]
    /\ Goto(p, t, "app")
    /\ UNCHANGED <<status, calls>>

\* Fault: the child passes FALSE to monitor_begin_process_fcn.
ForkChildFalse(p, t) ==
    /\ At(p, t, "forkChild")
    /\ mem' = [mem EXCEPT ![p] = [BeginProcess(@, t, FALSE) EXCEPT !.insideFork = FALSE]]
    /\ CountInit(p, FALSE)
    /\ Goto(p, t, "app")
    /\ UNCHANGED status

\* The child tests its own copy of inside_fork.
ForkChild(p, t) ==
    /\ At(p, t, "forkChild")
    /\ mem' = [mem EXCEPT ![p] = [BeginProcess(@, t, @.insideFork)
                                    EXCEPT !.insideFork = FALSE]]
    /\ CountInit(p, mem[p].insideFork)
    /\ Goto(p, t, "app")
    /\ UNCHANGED status

(***************************************************************************)
(* system: the child executes the shell, whose image starts afresh, or     *)
(* ends with status 127; the parent waits for it.                          *)
(***************************************************************************)
System(p, t, c) ==
    /\ Call(p, t)
    /\ status[c] = "unborn"
    /\ \E s \in {"alive", "dead"} :
         /\ status' = [status EXCEPT ![c] = s]
         /\ th' = [th EXCEPT ![p][t].pc = "wait", ![p][t].kid = c,
                             ![c] = IF s = "alive" THEN StartSlots ELSE NoSlots]
    /\ UNCHANGED <<mem, calls>>

SystemReturn(p, t) ==
    /\ At(p, t, "wait")
    /\ status[th[p][t].kid] = "dead"
    /\ th' = [th EXCEPT ![p][t].pc = "app", ![p][t].kid = NoProc]
    /\ UNCHANGED <<mem, status, calls>>

-----------------------------------------------------------------------------
(***************************************************************************)
(* monitor_end_process_fcn, called by exit and by exec.                    *)
(***************************************************************************)

Exit(p, t) ==
    /\ Call(p, t)
    /\ ExitInMain => mem[p].initCalled
    /\ th' = [th EXCEPT ![p][t].pc = "endProcess", ![p][t].how = "exit"]
    /\ UNCHANGED <<mem, status, calls>>

\* looksGood is the value of monitor_is_executable.
Exec(p, t, looksGood) ==
    /\ Call(p, t)
    /\ ExitInMain => mem[p].initCalled
    /\ th' = IF looksGood
               THEN [th EXCEPT ![p][t].pc = "endProcess", ![p][t].how = "exec"]
               ELSE [th EXCEPT ![p][t].pc = "libDone", ![p][t].how = "try"]
    /\ UNCHANGED <<mem, status, calls>>

WinEnd(p, t) ==
    /\ At(p, t, "endProcess") /\ ~mem[p].cookie
    /\ LET n == GetTn(mem[p], t) IN
         mem' = [mem EXCEPT ![p].cookie = TRUE,
                            ![p].exitWin = IF n = NoNode THEN @ ELSE @ \cup {n}]
    /\ Goto(p, t, "shootdown")
    /\ UNCHANGED <<status, calls>>

\* begin_process_exit and monitor_thread_shootdown; fini_process is called.
Shootdown(p, t) ==
    /\ At(p, t, "shootdown")
    /\ mem[p].used => mem[p].lock = NoThread
    /\ mem' = [mem EXCEPT ![p].inCleanup = @ \/ mem[p].used]
    /\ calls' = [calls EXCEPT ![p].fini = @ + 1]
    /\ Goto(p, t, "finiProcess")
    /\ UNCHANGED status

HasWon(m, t) == GetTn(m, t) \in m.exitWin

\* Fault: monitor_fini_process_done is not set.
EndReturnSilent(p, t) ==
    /\ th' = IF th[p][t].how = "exec"
               THEN [th EXCEPT ![p][t].pc = "libTest"]
               ELSE [th EXCEPT ![p][t].pc = "app", ![p][t].ctx = "exiting"]
    /\ UNCHANGED <<mem, status, calls>>

\* After the callbacks: exec goes on to the library, exit to its handlers.
EndReturn(p, t) ==
    /\ mem' = [mem EXCEPT ![p].finiDone = TRUE]
    /\ th' = IF th[p][t].how = "exec"
               THEN [th EXCEPT ![p][t].pc = "libTest"]
               ELSE [th EXCEPT ![p][t].pc = "app", ![p][t].ctx = "exiting"]
    /\ UNCHANGED <<status, calls>>

FiniProcessReturn(p, t) == At(p, t, "finiProcess") /\ EndReturn(p, t)

RepeatEnd(p, t) ==
    /\ At(p, t, "endProcess") /\ mem[p].cookie
    /\ HasWon(mem[p], t)
    /\ EndReturn(p, t)

LoseEnd(p, t) ==
    /\ At(p, t, "endProcess") /\ mem[p].cookie
    /\ ~HasWon(mem[p], t)
    /\ Goto(p, t, "loser")
    /\ UNCHANGED <<mem, status, calls>>

\* Fault: the losers do not wait.
LoserHurries(p, t) ==
    /\ At(p, t, "loser")
    /\ EndReturn(p, t)

LoserReleased(p, t) ==
    /\ At(p, t, "loser") /\ mem[p].finiDone
    /\ EndReturn(p, t)

\* The exit handlers return: the library destructor is next.
HandlersReturn(p, t) ==
    /\ At(p, t, "app") /\ th[p][t].ctx = "exiting"
    /\ th' = [th EXCEPT ![p][t].pc = "libTest", ![p][t].how = "exit"]
    /\ UNCHANGED <<mem, status, calls>>

\* monitor_end_library_fcn: test the flag, call fini_library, set the flag.
EndLibrary(p, t) ==
    /\ At(p, t, "libTest")
    /\ Goto(p, t, IF mem[p].finiLib THEN "libDone" ELSE "libCb")
    /\ UNCHANGED <<mem, status, calls>>

FiniLibraryReturn(p, t) ==
    /\ At(p, t, "libCb")
    /\ mem' = [mem EXCEPT ![p].finiLib = TRUE]
    /\ Goto(p, t, "libDone")
    /\ UNCHANGED <<status, calls>>

\* real_exit or real__exit.
Die(p, t) ==
    /\ At(p, t, "libDone") /\ th[p][t].how = "exit"
    /\ status' = [status EXCEPT ![p] = "dead"]
    /\ th' = [th EXCEPT ![p] = NoSlots]
    /\ mem' = [mem EXCEPT ![p] = FreshImage]
    /\ UNCHANGED calls

\* The real exec starts a new image, or fails and returns to the application.
RealExec(p, t) ==
    /\ At(p, t, "libDone") /\ th[p][t].how # "exit"
    /\ mem' = [mem EXCEPT ![p] = FreshImage]
    /\ th' = [th EXCEPT ![p] = StartSlots]
    /\ calls' = [calls EXCEPT ![p] = NoCalls]
    /\ UNCHANGED status

RealExecFails(p, t) ==
    /\ At(p, t, "libDone") /\ th[p][t].how # "exit"
    /\ ExecWorks => th[p][t].how = "try"
    /\ Goto(p, t, "app")
    /\ UNCHANGED <<mem, status, calls>>

-----------------------------------------------------------------------------

CreateStep(p, t) ==
    \/ MakeNodeLock(p, t) \/ MakeNode(p, t)
    \/ \E u \in Thread : Launch(p, t, u)
    \/ LaunchFails(p, t) \/ LinkLock(p, t) \/ LinkNode(p, t)

ForkStep(p, t) ==
    \/ \E c \in Proc : RealFork(p, t, c)
    \/ ForkFails(p, t) \/ ForkParent(p, t) \/ ForkChild(p, t)
    \/ SystemReturn(p, t)

EndStep(p, t) ==
    \/ WinEnd(p, t) \/ Shootdown(p, t) \/ FiniProcessReturn(p, t)
    \/ RepeatEnd(p, t) \/ LoseEnd(p, t) \/ LoserReleased(p, t)
    \/ HandlersReturn(p, t) \/ EndLibrary(p, t) \/ FiniLibraryReturn(p, t)
    \/ Die(p, t) \/ RealExec(p, t) \/ RealExecFails(p, t)

CallStep(p, t) ==
    \/ "create" \in Uses /\ CreateEnter(p, t)
    \/ ThreadEnd(p, t)
    \/ "fork" \in Uses /\ ForkEnter(p, t)
    \/ "system" \in Uses /\ \E c \in Proc : System(p, t, c)
    \/ "exec" \in Uses /\ \E looksGood \in BOOLEAN : Exec(p, t, looksGood)
    \/ "exit" \in Uses /\ Exit(p, t)

\* Every process has ended.
Terminated == (\A p \in Proc : status[p] # "alive") /\ UNCHANGED vars

Next ==
    \/ \E p \in Proc : MainStart(p)
    \/ \E p \in Proc, t \in Thread :
         CallStep(p, t) \/ CreateStep(p, t) \/ ForkStep(p, t) \/ EndStep(p, t)
    \/ Terminated

Spec == Init /\ [][Next]_vars

(***************************************************************************)
(* Fairness.  Overrides and callbacks go on, and a spinlock that is free   *)
(* again and again is taken; application code owes nothing, but an exit    *)
(* handler returns.                                                        *)
(***************************************************************************)
Driven(p, t) == CreateStep(p, t) \/ ForkStep(p, t) \/ EndStep(p, t)

Fairness == \A p \in Proc, t \in Thread : SF_vars(Driven(p, t))

FairSpec == Spec /\ Fairness

-----------------------------------------------------------------------------
(***************************************************************************)
(* Properties.                                                             *)
(***************************************************************************)

\* Every variable has its type; a process that is not alive has no threads,
\* and forgets what the threads of its last image did.
TypeOK ==
    /\ mem \in [Proc -> Image]
    /\ th \in [Proc -> [Thread -> Slot]]
    /\ status \in [Proc -> {"unborn", "alive", "dead"}]
    /\ calls \in [Proc -> [init : Nat, fini : Nat]]
    /\ \A p \in Proc : status[p] # "alive" => th[p] = NoSlots

\* "run the init process callback only on the first time" (main.c:269-271),
\* and one winner: no image gets two init_process or two fini_process.
OncePerImage == \A p \in Proc : calls[p].init <= 1 /\ calls[p].fini <= 1

\* "Fork() always runs the init process callback" (main.c:261): application
\* code from main on, in a child too, never runs before init_process.
AppAfterInit ==
    \A p \in Proc, t \in Thread :
        At(p, t, "app") /\ th[p][t].ctx = "main" => calls[p].init > 0

\* A node on the thread list belongs to a thread of this process: "the child
\* will have only one running thread, and monitor needs to understand that"
\* (tests/thread_fork.c:4-7).
OwnThreads ==
    \A p \in Proc : \A u \in mem[p].linked :
        \/ th[p][u].pc # "none" \/ mem[p].inCleanup
        \/ \E t \in Thread : th[p][t].pc = "forkChild"

\* A caller of exit or exec comes to the end of monitor_end_process_fcn; no
\* process goes "into an infinite loop" at its exit (tests/thread_fork.c:6).
EndReturns ==
    \A p \in Proc, t \in Thread :
        th[p][t].pc = "endProcess" ~> th[p][t].pc \notin EndLoc

\* Processes under monitor behave as ProcessLife.
LifeOf(p) ==
    CASE status[p] # "alive" -> status[p]
      [] status[p] = "alive" /\ calls[p].fini > 0 -> "ended"
      [] status[p] = "alive" /\ calls[p].fini = 0 /\ calls[p].init > 0 -> "running"
      [] OTHER -> "new"

Life == INSTANCE ProcessLife WITH life <- [p \in Proc |-> LifeOf(p)]

ImplementsLife == Life!Spec
=============================================================================
