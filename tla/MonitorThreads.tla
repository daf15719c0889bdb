--------------------------- MODULE MonitorThreads ---------------------------
(***************************************************************************)
(* The life of a thread under libmonitor (src/monitor/src/pthread.c): the  *)
(* pthread_create override that allocates a thread node, the wrapper that  *)
(* every new thread begins in, the cleanup routine that runs when it ends, *)
(* and the shootdown signal handler, which may interrupt a thread between  *)
(* any two of its steps.                                                   *)
(*                                                                         *)
(* A thread is control state (pc), the context its application code was    *)
(* called from (phase), and the thread node its thread-specific data names *)
(* (node).  Nodes are shared memory: the list of linked nodes, the free    *)
(* list and the spinlock that guards both are process globals.  The order  *)
(* inside a list never matters to the properties, so lists are sets.       *)
(*                                                                         *)
(* This module has no Spec of its own: MonitorExit composes its actions    *)
(* with the process exit protocol.                                         *)
(***************************************************************************)
EXTENDS Naturals, FiniteSets

CONSTANTS
    Main,        \* the thread that runs main()
    Side,        \* the threads that pthread_create may launch
    Pool,        \* thread nodes that monitor can hand out (a bound)
    MainNode,    \* monitor_main_tn, the static node of the main thread
    NoThread, NoNode,
    ClientIgnores,  \* may the client call monitor_disable_new_threads()?
    ClientBlocks,   \* may the client call monitor_block_shootdown()?
    TsdCode         \* does application code run in pthread-key destructors?

ASSUME ThreadsAssumption ==
    /\ Main \notin Side
    /\ NoThread \notin Side \cup {Main}
    /\ MainNode \notin Pool
    /\ NoNode \notin Pool \cup {MainNode}
    /\ {ClientIgnores, ClientBlocks, TsdCode} \subseteq BOOLEAN

Thread == Side \cup {Main}
Node   == Pool \cup {MainNode}

VARIABLES
    pc,        \* where each thread is
    phase,     \* which context its application code or exit was called from
    hnd,       \* the shootdown handler's frame on top of the thread, if any
    pending,   \* is the shootdown signal pending for the thread?
    node,      \* pthread_getspecific(monitor_pthread_key)
    mk,        \* the local variable tn of the pthread_create override
    tn,        \* the contents of the thread nodes
    linked,    \* monitor_thread_list
    free,      \* monitor_free_list
    fresh,     \* nodes of the tn arrays that were never handed out
    lock,      \* the holder of monitor_thread_lock
    hasUsedThreads,   \* monitor_has_used_threads
    inExitCleanup,    \* monitor_in_exit_cleanup
    finiThreadDone,   \* monitor_fini_thread_done
    finiCalls         \* history: fini_thread callbacks begun for each thread

frameVars == <<pc, phase, hnd, pending>>
nodeVars  == <<node, mk, tn, linked, free, fresh>>
flagVars  == <<hasUsedThreads, inExitCleanup, finiThreadDone>>
threadsVars == <<frameVars, nodeVars, lock, flagVars, finiCalls>>

(***************************************************************************)
(* Locations.  CreateLoc are inside the pthread_create override, BeginLoc  *)
(* inside monitor_begin_thread before the application routine, CleanupLoc  *)
(* inside the cleanup routine; "app" is application code.  The remaining   *)
(* locations belong to monitor_end_process_fcn and the shootdown loop.     *)
(***************************************************************************)
CreateLoc  == {"mkLock", "mkLocked", "launch"}
BeginLoc   == {"begin", "link", "linkLocked", "init"}
CleanupLoc == {"cleanup", "cleanupFini", "cleanupCb", "unlink", "unlinkLocked"}
WinnerLoc  == {"markWin", "beginExit", "sdLock", "sdLocked", "walk", "kill",
               "selfCb", "finiProcess"}
ExitLoc    == {"endProcess", "loser", "endReturn"} \cup WinnerLoc
Loc == {"none", "app", "raise", "gone"}
         \cup CreateLoc \cup BeginLoc \cup CleanupLoc \cup ExitLoc

\* Who called: the start routine or main, a pthread-key destructor, exit(),
\* pthread_exit(), or monitor_signal_handler for a signal that terminates.
Phase == {"run", "tsd", "exit", "pexit", "signal"}

TnRecord == [self : Thread \cup {NoThread}, magic : BOOLEAN,
             applStarted : BOOLEAN, finiStarted : BOOLEAN,
             finiDone : BOOLEAN, exitWin : BOOLEAN, block : BOOLEAN]

\* A node after memset(tn, 0, sizeof(struct monitor_thread_node)), without and
\* with its magic number.
ClearTn(m) == [self |-> NoThread, magic |-> m, applStarted |-> FALSE,
               finiStarted |-> FALSE, finiDone |-> FALSE, exitWin |-> FALSE,
               block |-> FALSE]
ZeroTn  == ClearTn(FALSE)
MagicTn == ClearTn(TRUE)

ThreadsInit ==
    /\ pc = [t \in Thread |-> IF t = Main THEN "app" ELSE "none"]
    /\ phase = [t \in Thread |-> "run"]
    /\ hnd = [t \in Thread |-> "none"]
    /\ pending = [t \in Thread |-> FALSE]
    /\ node = [t \in Thread |-> NoNode]
    /\ mk = [t \in Thread |-> NoNode]
    /\ tn = [n \in Node |-> IF n = MainNode THEN MagicTn ELSE ZeroTn]
    /\ linked = {}
    /\ free = {}
    /\ fresh = Pool
    /\ lock = NoThread
    /\ hasUsedThreads = FALSE
    /\ inExitCleanup = FALSE
    /\ finiThreadDone = FALSE
    /\ finiCalls = [t \in Thread |-> 0]

\* t is at location l and no signal handler runs on top of it.
At(t, l) == pc[t] = l /\ hnd[t] = "none"

Goto(t, l) == pc' = [pc EXCEPT ![t] = l]

\* monitor_get_tn(): with no threads yet, the main thread's static node.
GetTn(t) ==
    IF ~hasUsedThreads THEN MainNode
    ELSE IF node[t] # NoNode /\ tn[node[t]].magic THEN node[t] ELSE NoNode

Alive(t) == pc[t] \notin {"none", "gone"}

-----------------------------------------------------------------------------
(***************************************************************************)
(* The pthread_create override.  It runs in the thread that creates.       *)
(***************************************************************************)

Creating == {t \in Thread : pc[t] \in {"mkLock", "mkLocked"}}

\* The first pthread_create of the process initialises the thread list, and
\* binds the creator, the only thread there is, to the main thread's node.
ThreadListInit(t) ==
    /\ hasUsedThreads' = TRUE
    /\ IF hasUsedThreads
         THEN UNCHANGED <<node, tn>>
         ELSE /\ node' = [node EXCEPT ![t] = MainNode]
              /\ tn' = [tn EXCEPT ![MainNode].self = t]

CreateBegin(t) ==
    /\ At(t, "app")
    /\ Cardinality(free \cup fresh) > Cardinality(Creating)  \* bound: Pool
    /\ ThreadListInit(t)
    /\ Goto(t, "mkLock")
    /\ UNCHANGED <<phase, hnd, pending, mk, linked, free, fresh, lock,
                   inExitCleanup, finiThreadDone, finiCalls>>

\* A creator whose node is marked tn_ignore_threads calls the real function:
\* the new thread has no node, is on no list and has no cleanup routine.
CreateIgnored(t, u) ==
    /\ ClientIgnores
    /\ At(t, "app") /\ GetTn(t) # NoNode
    /\ u \in Side /\ pc[u] = "none"
    /\ ThreadListInit(t)
    /\ Goto(u, "app")
    /\ UNCHANGED <<phase, hnd, pending, mk, linked, free, fresh, lock,
                   inExitCleanup, finiThreadDone, finiCalls>>

Acquire(t, from, to) ==
    /\ At(t, from)
    /\ lock = NoThread
    /\ lock' = t
    /\ Goto(t, to)
    /\ UNCHANGED <<phase, hnd, pending, nodeVars, flagVars, finiCalls>>

MakeNodeLock(t) == Acquire(t, "mkLock", "mkLocked")

\* Fault: the node handed out stays on the free list.
MakeNodeKept(t) ==
    /\ At(t, "mkLocked")
    /\ \E n \in IF free # {} THEN free ELSE fresh :
         /\ fresh' = fresh \ {n}
         /\ tn' = [tn EXCEPT ![n] = MagicTn]
         /\ mk' = [mk EXCEPT ![t] = n]
    /\ lock' = NoThread
    /\ Goto(t, "launch")
    /\ UNCHANGED <<phase, hnd, pending, node, linked, free, flagVars, finiCalls>>

\* monitor_make_thread_node: the free list first, else a node of an array.
MakeNode(t) ==
    /\ At(t, "mkLocked")
    /\ \E n \in IF free # {} THEN free ELSE fresh :
         /\ free' = free \ {n}
         /\ fresh' = fresh \ {n}
         /\ tn' = [tn EXCEPT ![n] = MagicTn]
         /\ mk' = [mk EXCEPT ![t] = n]
    /\ lock' = NoThread
    /\ Goto(t, "launch")
    /\ UNCHANGED <<phase, hnd, pending, node, linked, flagVars, finiCalls>>

\* real_pthread_create succeeds: the new thread starts with tn as argument.
Launch(t, u) ==
    /\ At(t, "launch")
    /\ u \in Side /\ pc[u] = "none"
    /\ pc' = [pc EXCEPT ![t] = "app", ![u] = "begin"]
    /\ mk' = [mk EXCEPT ![t] = NoNode, ![u] = mk[t]]
    /\ UNCHANGED <<phase, hnd, pending, node, tn, linked, free, fresh, lock,
                   flagVars, finiCalls>>

\* real_pthread_create fails: the error is returned and the node is lost.
LaunchFails(t) ==
    /\ At(t, "launch")
    /\ mk' = [mk EXCEPT ![t] = NoNode]
    /\ Goto(t, "app")
    /\ UNCHANGED <<phase, hnd, pending, node, tn, linked, free, fresh, lock,
                   flagVars, finiCalls>>

-----------------------------------------------------------------------------
(***************************************************************************)
(* monitor_begin_thread, in the new thread; its argument is mk[t].         *)
(***************************************************************************)

\* Fault: pthread_setspecific is forgotten.
BeginThreadUnbound(t) ==
    /\ At(t, "begin")
    /\ mk' = [mk EXCEPT ![t] = NoNode]
    /\ tn' = [tn EXCEPT ![mk[t]].self = t]
    /\ Goto(t, "link")
    /\ UNCHANGED <<phase, hnd, pending, node, linked, free, fresh, lock, flagVars,
                   finiCalls>>

BeginThread(t) ==
    /\ At(t, "begin")
    /\ node' = [node EXCEPT ![t] = mk[t]]
    /\ mk' = [mk EXCEPT ![t] = NoNode]
    /\ tn' = [tn EXCEPT ![mk[t]].self = t]
    /\ Goto(t, "link")
    /\ UNCHANGED <<phase, hnd, pending, linked, free, fresh, lock, flagVars,
                   finiCalls>>

LinkLock(t) == Acquire(t, "link", "linkLocked")

\* Fault: new threads are linked during exit cleanup too.
LinkNodeAlways(t) ==
    /\ At(t, "linkLocked")
    /\ lock' = NoThread
    /\ Goto(t, "init") /\ linked' = linked \cup {node[t]}
    /\ UNCHANGED <<phase, hnd, pending, node, mk, tn, free, fresh, flagVars,
                   finiCalls>>

\* Fault: the early return during exit cleanup leaves the spinlock held.
LinkNodeLocked(t) ==
    /\ At(t, "linkLocked")
    /\ IF inExitCleanup
         THEN Goto(t, "gone") /\ UNCHANGED <<linked, lock>>
         ELSE /\ Goto(t, "init") /\ linked' = linked \cup {node[t]}
              /\ lock' = NoThread
    /\ UNCHANGED <<phase, hnd, pending, node, mk, tn, free, fresh, flagVars,
                   finiCalls>>

\* monitor_link_thread_node: refused once exit cleanup has begun, and then
\* the thread returns at once; otherwise monitor_init_thread is called.
LinkNode(t) ==
    /\ At(t, "linkLocked")
    /\ lock' = NoThread
    /\ IF inExitCleanup
         THEN Goto(t, "gone") /\ UNCHANGED linked
         ELSE Goto(t, "init") /\ linked' = linked \cup {node[t]}
    /\ UNCHANGED <<phase, hnd, pending, node, mk, tn, free, fresh, flagVars,
                   finiCalls>>

\* monitor_init_thread returns and the application routine starts.
ApplStart(t) ==
    /\ At(t, "init")
    /\ tn' = [tn EXCEPT ![node[t]].applStarted = TRUE]
    /\ Goto(t, "app")
    /\ UNCHANGED <<phase, hnd, pending, node, mk, linked, free, fresh, lock,
                   flagVars, finiCalls>>

\* A new thread is canceled while monitor_init_thread runs: the cleanup
\* routine is already pushed and runs.
CancelInit(t) ==
    /\ At(t, "init")
    /\ Goto(t, "cleanup")
    /\ UNCHANGED <<phase, hnd, pending, nodeVars, lock, flagVars, finiCalls>>

-----------------------------------------------------------------------------
(***************************************************************************)
(* The end of a thread.                                                    *)
(***************************************************************************)

\* Fault: the cleanup routine is popped without being run.
ThreadReturnUnclean(t) ==
    /\ At(t, "app") /\ t \in Side /\ phase[t] = "run"
    /\ Goto(t, "gone")
    /\ UNCHANGED <<phase, hnd, pending, nodeVars, lock, flagVars, finiCalls>>

\* The start routine returns or is canceled, or a thread on the list calls
\* pthread_exit.  A thread without a node has no cleanup routine.
ThreadReturn(t) ==
    /\ At(t, "app") /\ t \in Side /\ phase[t] = "run"
    /\ Goto(t, IF node[t] = NoNode THEN "gone" ELSE "cleanup")
    /\ UNCHANGED <<phase, hnd, pending, nodeVars, lock, flagVars, finiCalls>>

\* Where a thread goes when its cleanup routine returns.
AfterCleanup(t) ==
    IF TsdCode
      THEN /\ Goto(t, "app")
           /\ phase' = [phase EXCEPT ![t] = "tsd"]
      ELSE /\ Goto(t, "gone")
           /\ UNCHANGED phase

\* The tests at the head of monitor_pthread_cleanup_routine.  fini_thread is
\* due if the application routine started and nobody has delivered it.
FiniDue(n) ==
    /\ tn[n].magic
    /\ tn[n].applStarted /\ ~tn[n].finiStarted /\ ~tn[n].block
    /\ ~finiThreadDone

CleanupCheck(t) ==
    /\ At(t, "cleanup")
    /\ IF FiniDue(node[t])
         THEN Goto(t, "cleanupFini") /\ UNCHANGED phase
         ELSE AfterCleanup(t)
    /\ UNCHANGED <<hnd, pending, nodeVars, lock, flagVars, finiCalls>>

\* tn_fini_started is set and monitor_fini_thread is called.
StartFini(t) ==
    /\ tn' = [tn EXCEPT ![node[t]].finiStarted = TRUE]
    /\ finiCalls' = [finiCalls EXCEPT ![t] = @ + 1]

EndFini(t) == tn' = [tn EXCEPT ![node[t]].finiDone = TRUE]

CleanupFini(t) ==
    /\ At(t, "cleanupFini")
    /\ StartFini(t)
    /\ Goto(t, "cleanupCb")
    /\ UNCHANGED <<phase, hnd, pending, node, mk, linked, free, fresh, lock,
                   flagVars>>

CleanupFiniReturn(t) ==
    /\ At(t, "cleanupCb")
    /\ EndFini(t)
    /\ Goto(t, "unlink")
    /\ UNCHANGED <<phase, hnd, pending, node, mk, linked, free, fresh, lock,
                   flagVars, finiCalls>>

UnlinkLock(t) == Acquire(t, "unlink", "unlinkLocked")

\* Fault: the cleared node does not go to the free list.
UnlinkNodeLost(t) ==
    /\ At(t, "unlinkLocked")
    /\ IF inExitCleanup
         THEN /\ tn' = [tn EXCEPT ![node[t]].finiStarted = TRUE,
                                  ![node[t]].finiDone = TRUE]
              /\ UNCHANGED linked
         ELSE /\ linked' = linked \ {node[t]}
              /\ tn' = [tn EXCEPT ![node[t]] = ZeroTn]
    /\ lock' = NoThread
    /\ AfterCleanup(t)
    /\ UNCHANGED <<hnd, pending, node, mk, free, fresh, flagVars, finiCalls>>

\* monitor_unlink_thread_node: during exit cleanup the node stays on the
\* list, marked as finished; otherwise it is cleared and goes to the free
\* list.  The thread's thread-specific data still names it.
UnlinkNode(t) ==
    /\ At(t, "unlinkLocked")
    /\ IF inExitCleanup
         THEN /\ tn' = [tn EXCEPT ![node[t]].finiStarted = TRUE,
                                  ![node[t]].finiDone = TRUE]
              /\ UNCHANGED <<linked, free>>
         ELSE /\ linked' = linked \ {node[t]}
              /\ tn' = [tn EXCEPT ![node[t]] = ZeroTn]
              /\ free' = free \cup {node[t]}
    /\ lock' = NoThread
    /\ AfterCleanup(t)
    /\ UNCHANGED <<hnd, pending, node, mk, fresh, flagVars, finiCalls>>

\* The pthread-key destructors of the thread have run.
TsdReturn(t) ==
    /\ At(t, "app") /\ phase[t] = "tsd"
    /\ Goto(t, "gone")
    /\ UNCHANGED <<phase, hnd, pending, nodeVars, lock, flagVars, finiCalls>>

-----------------------------------------------------------------------------
(***************************************************************************)
(* The shootdown signal.  Its handler interrupts thread t wherever it is.  *)
(* The signal stays blocked while a handler that monitor installed for     *)
(* another signal runs on the thread (monitor_adjust_samask).              *)
(***************************************************************************)

HandlerEnter(t) ==
    /\ pending[t] /\ Alive(t)
    /\ hnd[t] = "none" /\ phase[t] # "signal"
    /\ pending' = [pending EXCEPT ![t] = FALSE]
    /\ hnd' = IF node[t] # NoNode /\ FiniDue(node[t])
                THEN [hnd EXCEPT ![t] = "fini"] ELSE hnd
    /\ UNCHANGED <<pc, phase, nodeVars, lock, flagVars, finiCalls>>

HandlerFini(t) ==
    /\ hnd[t] = "fini"
    /\ StartFini(t)
    /\ hnd' = [hnd EXCEPT ![t] = "callback"]
    /\ UNCHANGED <<pc, phase, pending, node, mk, linked, free, fresh, lock,
                   flagVars>>

HandlerReturn(t) ==
    /\ hnd[t] = "callback"
    /\ EndFini(t)
    /\ hnd' = [hnd EXCEPT ![t] = "none"]
    /\ UNCHANGED <<pc, phase, pending, node, mk, linked, free, fresh, lock,
                   flagVars, finiCalls>>

\* The client protects a sample of its own from the shootdown.
BlockShootdown(t, b) ==
    /\ ClientBlocks
    /\ At(t, "app") /\ GetTn(t) # NoNode
    /\ tn' = [tn EXCEPT ![GetTn(t)].block = b]
    /\ UNCHANGED <<frameVars, node, mk, linked, free, fresh, lock, flagVars,
                   finiCalls>>

-----------------------------------------------------------------------------

\* Steps that application code chooses to take.
AppStep(t) ==
    \/ CreateBegin(t)
    \/ \E u \in Side : CreateIgnored(t, u)
    \/ CancelInit(t)
    \/ ThreadReturn(t)
    \/ TsdReturn(t)
    \/ \E b \in BOOLEAN : BlockShootdown(t, b)

\* Steps inside the overrides: once there, a thread keeps going.
InnerStep(t) ==
    \/ MakeNodeLock(t) \/ MakeNode(t)
    \/ \E u \in Side : Launch(t, u)
    \/ LaunchFails(t)
    \/ BeginThread(t) \/ LinkLock(t) \/ LinkNode(t) \/ ApplStart(t)
    \/ CleanupCheck(t) \/ CleanupFini(t) \/ CleanupFiniReturn(t)
    \/ UnlinkLock(t) \/ UnlinkNode(t)

HandlerStep(t) == HandlerEnter(t) \/ HandlerFini(t) \/ HandlerReturn(t)

ThreadStep(t) == AppStep(t) \/ InnerStep(t) \/ HandlerStep(t)
=============================================================================
