----------------------------- MODULE MonitorExit -----------------------------
(***************************************************************************)
(* How a process ends under libmonitor: monitor_end_process_fcn            *)
(* (src/monitor/src/main.c), which any number of threads may enter at any  *)
(* time, from exit, _exit, the return of main, pthread_exit or the signal  *)
(* handler, and monitor_thread_shootdown (src/monitor/src/pthread.c), which*)
(* the winner of the race runs to force the other threads into their       *)
(* fini_thread callbacks before it calls fini_process.  Composed with the  *)
(* thread lifecycle of MonitorThreads.                                     *)
(*                                                                         *)
(* Time is abstract: the ten seconds of MONITOR_SHOOTDOWN_TIMEOUT may pass *)
(* at the end of any pass over the list that made no progress.  With       *)
(* Patient, they are longer than any thread needs to react to a signal     *)
(* that it can take, so they only run out on a thread that cannot.         *)
(***************************************************************************)
EXTENDS MonitorThreads

CONSTANTS
    MaxSignals,  \* bound: fatal signals the process receives
    Patient      \* is MONITOR_SHOOTDOWN_TIMEOUT longer than any reaction?

ASSUME ExitAssumption == MaxSignals \in Nat /\ Patient \in BOOLEAN

VARIABLES
    cookie,           \* monitor_end_process_cookie, set once
    finiProcessDone,  \* monitor_fini_process_done
    sd,               \* the local variables of monitor_thread_shootdown
    exited,           \* the process is gone
    sigs,             \* fatal signals so far
    winner,           \* history: the thread that set the cookie
    finiProc,         \* history: the fini_process callback
    covered,          \* history: nodes of the threads that were running
                      \* application code when the exit cleanup began
    timedOut          \* history: the shootdown gave up

exitVars == <<cookie, finiProcessDone, sd, exited, sigs, winner, finiProc,
              covered, timedOut>>
vars == <<threadsVars, exitVars>>

NewPass == [toVisit |-> linked, cur |-> NoNode, started |-> 0,
            unstarted |-> 0, unfinished |-> 0, last |-> sd.last, me |-> sd.me]

ExitInit ==
    /\ cookie = FALSE
    /\ finiProcessDone = FALSE
    /\ sd = [toVisit |-> {}, cur |-> NoNode, started |-> 0, unstarted |-> 0,
             unfinished |-> 0, last |-> 0, me |-> NoNode]
    /\ exited = FALSE
    /\ sigs = 0
    /\ winner = NoThread
    /\ finiProc = "no"
    /\ covered = {}
    /\ timedOut = FALSE

Init == ThreadsInit /\ ExitInit

-----------------------------------------------------------------------------
(***************************************************************************)
(* The ways into monitor_end_process_fcn.                                  *)
(***************************************************************************)

EnterEnd(t, ph) ==
    /\ Goto(t, "endProcess")
    /\ phase' = [phase EXCEPT ![t] = ph]

\* exit, _exit, _Exit, or the return of main; also from an exit handler.
Exit(t) ==
    /\ At(t, "app")
    /\ EnterEnd(t, "exit")
    /\ UNCHANGED <<hnd, pending, nodeVars, lock, flagVars, finiCalls,
                   exitVars>>

\* pthread_exit from the main thread, or from a thread without a node.
PthreadExit(t) ==
    /\ At(t, "app") /\ phase[t] = "run"
    /\ GetTn(t) \in {MainNode, NoNode}
    /\ EnterEnd(t, "pexit")
    /\ UNCHANGED <<hnd, pending, nodeVars, lock, flagVars, finiCalls,
                   exitVars>>

\* monitor_signal_handler, for a signal whose disposition is to terminate.
\* It may interrupt any step; what it interrupts is never resumed: the handler is
\* followed to the end of the process.  That a process runs on when it was sent the
\* signal of a fault by kill (signal.c:260) is in MonitorSignal.
FatalSignal(t) ==
    /\ sigs < MaxSignals
    /\ Alive(t)
    /\ sigs' = sigs + 1
    /\ hnd' = [hnd EXCEPT ![t] = "none"]
    /\ EnterEnd(t, "signal")
    /\ UNCHANGED <<pending, nodeVars, lock, flagVars, finiCalls, cookie,
                   finiProcessDone, sd, exited, winner, finiProc, covered,
                   timedOut>>

-----------------------------------------------------------------------------
(***************************************************************************)
(* monitor_end_process_fcn.                                                *)
(***************************************************************************)

\* The compare-and-swap finds 0: this thread runs the callbacks.
WinExit(t) ==
    /\ At(t, "endProcess")
    /\ ~cookie
    /\ cookie' = TRUE
    /\ winner' = t
    /\ Goto(t, "markWin")
    /\ UNCHANGED <<phase, hnd, pending, nodeVars, lock, flagVars, finiCalls,
                   finiProcessDone, sd, exited, sigs, finiProc, covered, timedOut>>

\* Its node, if it has one, says so from now on; a fatal signal may have come before.
\* Then monitor_begin_process_exit is called.
MarkWinner(t) ==
    /\ At(t, "markWin")
    /\ tn' = IF GetTn(t) = NoNode THEN tn
             ELSE [tn EXCEPT ![GetTn(t)].exitWin = TRUE]
    /\ Goto(t, "beginExit")
    /\ UNCHANGED <<phase, hnd, pending, node, mk, linked, free, fresh, lock,
                   flagVars, finiCalls, exitVars>>

\* Fault: any thread with a node counts as the repeated winner.
HasWonUntested(t) == GetTn(t) # NoNode

HasWon(t) == GetTn(t) # NoNode /\ tn[GetTn(t)].exitWin

RepeatExit(t) ==
    /\ At(t, "endProcess")
    /\ cookie /\ HasWon(t)
    /\ finiProcessDone' = TRUE
    /\ Goto(t, "endReturn")
    /\ UNCHANGED <<phase, hnd, pending, nodeVars, lock, flagVars, finiCalls,
                   cookie, sd, exited, sigs, winner, finiProc, covered,
                   timedOut>>

LoseExit(t) ==
    /\ At(t, "endProcess")
    /\ cookie /\ ~HasWon(t)
    /\ Goto(t, "loser")
    /\ UNCHANGED <<phase, hnd, pending, nodeVars, lock, flagVars, finiCalls,
                   exitVars>>

\* Fault: the loser does not wait.
LoserReleasedEarly(t) ==
    /\ At(t, "loser")
    /\ Goto(t, "endReturn")
    /\ UNCHANGED <<phase, hnd, pending, nodeVars, lock, flagVars, finiCalls,
                   exitVars>>

\* The loser polls monitor_fini_process_done, then sets it again.
LoserReleased(t) ==
    /\ At(t, "loser")
    /\ finiProcessDone
    /\ Goto(t, "endReturn")
    /\ UNCHANGED <<phase, hnd, pending, nodeVars, lock, flagVars, finiCalls,
                   exitVars>>

\* exit() goes on to the application's exit handlers; pthread_exit ends the
\* thread; the signal handler raises the signal again.
EndReturn(t) ==
    /\ At(t, "endReturn")
    /\ Goto(t, CASE phase[t] = "signal" -> "raise"
                 [] phase[t] = "pexit"  -> "gone"
                 [] OTHER               -> "app")
    /\ UNCHANGED <<phase, hnd, pending, nodeVars, lock, flagVars, finiCalls,
                   exitVars>>

\* The real exit or the raised signal ends the process.
Die(t) ==
    /\ At(t, "raise") \/ (At(t, "app") /\ phase[t] = "exit")
    /\ exited' = TRUE
    /\ UNCHANGED <<threadsVars, cookie, finiProcessDone, sd, sigs, winner,
                   finiProc, covered, timedOut>>

-----------------------------------------------------------------------------
(***************************************************************************)
(* The winner: monitor_begin_process_exit, monitor_thread_shootdown and    *)
(* monitor_fini_process, in this order.                                    *)
(***************************************************************************)

StartFiniProcess(t) ==
    /\ Goto(t, "finiProcess")
    /\ finiProc' = "running"

\* The begin_process_exit callback returns.  Without threads there is no
\* shootdown, and no cleanup flag is set.
BeginExitReturn(t) ==
    /\ At(t, "beginExit")
    /\ IF hasUsedThreads
         THEN Goto(t, "sdLock") /\ UNCHANGED finiProc
         ELSE StartFiniProcess(t)
    /\ UNCHANGED <<phase, hnd, pending, nodeVars, lock, flagVars, finiCalls,
                   cookie, finiProcessDone, sd, exited, sigs, winner, covered,
                   timedOut>>

ShootdownLock(t) ==
    /\ Acquire(t, "sdLock", "sdLocked")
    /\ UNCHANGED exitVars

ShootdownMark(t) ==
    /\ At(t, "sdLocked")
    /\ inExitCleanup' = TRUE
    /\ lock' = NoThread
    /\ covered' = {n \in linked : tn[n].applStarted}
    /\ sd' = NewPass
    /\ Goto(t, "walk")
    /\ UNCHANGED <<phase, hnd, pending, nodeVars, hasUsedThreads,
                   finiThreadDone, finiCalls, cookie, finiProcessDone, exited,
                   sigs, winner, finiProc, timedOut>>

\* Fault: a thread counts as finished as soon as its fini_thread has started.
CountUnstarted(n) ==
    IF tn[n].finiStarted THEN sd.unfinished ELSE sd.unfinished + 1

\* num_unfinished: the node is read after the kill, if there was one.
CountUnfinished(n) ==
    IF tn[n].finiDone THEN sd.unfinished ELSE sd.unfinished + 1

\* One node of the list: skip our own and those not yet started; count those
\* in their fini_thread; decide to signal the others.
Visit(t, n) ==
    /\ At(t, "walk")
    /\ n \in sd.toVisit
    /\ LET rest == [sd EXCEPT !.toVisit = @ \ {n}] IN
         CASE tn[n].self = t ->
                sd' = [rest EXCEPT !.me = n] /\ UNCHANGED pc
           [] tn[n].self # t /\ ~tn[n].applStarted ->
                sd' = rest /\ UNCHANGED pc
           [] tn[n].self # t /\ tn[n].applStarted /\ tn[n].finiStarted ->
                /\ sd' = [rest EXCEPT !.started = @ + 1,
                                      !.unfinished = CountUnfinished(n)]
                /\ UNCHANGED pc
           [] OTHER -> sd' = [rest EXCEPT !.cur = n] /\ Goto(t, "kill")
    /\ UNCHANGED <<phase, hnd, pending, nodeVars, lock, flagVars, finiCalls,
                   cookie, finiProcessDone, exited, sigs, winner, finiProc,
                   covered, timedOut>>

Kill(t) ==
    /\ At(t, "kill")
    /\ pending' = [pending EXCEPT ![tn[sd.cur].self] = TRUE]
    /\ sd' = [sd EXCEPT !.unstarted = @ + 1, !.cur = NoNode,
                        !.unfinished = CountUnfinished(sd.cur)]
    /\ Goto(t, "walk")
    /\ UNCHANGED <<phase, hnd, nodeVars, lock, flagVars, finiCalls, cookie,
                   finiProcessDone, exited, sigs, winner, finiProc, covered,
                   timedOut>>

PassEnd(t) == At(t, "walk") /\ sd.toVisit = {}

\* Somebody is unfinished: sleep and walk again.
NextPass(t) ==
    /\ PassEnd(t)
    /\ sd.unfinished > 0
    /\ sd' = IF sd.started > sd.last
               THEN [NewPass EXCEPT !.last = sd.started] ELSE NewPass
    /\ UNCHANGED <<threadsVars, cookie, finiProcessDone, exited, sigs, winner,
                   finiProc, covered, timedOut>>

\* After the loop: no further fini_thread may begin, except our own.
LeaveLoop(t) ==
    /\ finiThreadDone' = TRUE
    /\ IF sd.me # NoNode /\ ~tn[sd.me].finiStarted
         THEN /\ tn' = [tn EXCEPT ![sd.me].finiStarted = TRUE]
              /\ finiCalls' = [finiCalls EXCEPT ![t] = @ + 1]
              /\ Goto(t, "selfCb")
              /\ UNCHANGED finiProc
         ELSE /\ StartFiniProcess(t)
              /\ UNCHANGED <<tn, finiCalls>>
    /\ UNCHANGED <<phase, hnd, pending, node, mk, linked, free, fresh, lock,
                   hasUsedThreads, inExitCleanup, cookie, finiProcessDone, sd,
                   exited, sigs, winner, covered>>

AllFinished(t) ==
    /\ PassEnd(t)
    /\ sd.unfinished = 0
    /\ LeaveLoop(t)
    /\ UNCHANGED timedOut

\* The thread of node n can take the shootdown signal.
CanReact(n) ==
    /\ Alive(tn[n].self) /\ phase[tn[n].self] # "signal"
    /\ ~tn[n].block

\* Fault: the timeout needs threads that started, not threads that did not.
GiveUpOnStarted(t) ==
    /\ PassEnd(t)
    /\ sd.unfinished > 0
    /\ sd.started <= sd.last /\ sd.started > 0
    /\ LeaveLoop(t)
    /\ timedOut' = TRUE

\* No progress for MONITOR_SHOOTDOWN_TIMEOUT seconds: give up.
GiveUp(t) ==
    /\ PassEnd(t)
    /\ Patient => \E n \in linked : /\ tn[n].applStarted /\ ~tn[n].finiStarted
                                   /\ ~CanReact(n)
    /\ sd.unfinished > 0
    /\ sd.started <= sd.last /\ sd.unstarted > 0
    /\ LeaveLoop(t)
    /\ timedOut' = TRUE

SelfFiniReturn(t) ==
    /\ At(t, "selfCb")
    /\ tn' = [tn EXCEPT ![sd.me].finiDone = TRUE]
    /\ StartFiniProcess(t)
    /\ UNCHANGED <<phase, hnd, pending, node, mk, linked, free, fresh, lock,
                   flagVars, finiCalls, cookie, finiProcessDone, sd, exited,
                   sigs, winner, covered, timedOut>>

\* Fault: monitor_fini_process_done is not set.
FiniProcessReturnSilent(t) ==
    /\ At(t, "finiProcess")
    /\ finiProc' = "done"
    /\ Goto(t, "endReturn")
    /\ UNCHANGED <<phase, hnd, pending, nodeVars, lock, flagVars, finiCalls,
                   cookie, finiProcessDone, sd, exited, sigs, winner, covered,
                   timedOut>>

FiniProcessReturn(t) ==
    /\ At(t, "finiProcess")
    /\ finiProc' = "done"
    /\ finiProcessDone' = TRUE
    /\ Goto(t, "endReturn")
    /\ UNCHANGED <<phase, hnd, pending, nodeVars, lock, flagVars, finiCalls,
                   cookie, sd, exited, sigs, winner, covered, timedOut>>

-----------------------------------------------------------------------------

EnterStep(t) == Exit(t) \/ PthreadExit(t) \/ FatalSignal(t)

EndStep(t) ==
    \/ WinExit(t) \/ MarkWinner(t) \/ RepeatExit(t) \/ LoseExit(t)
    \/ LoserReleased(t) \/ EndReturn(t) \/ Die(t)

WinnerStep(t) ==
    \/ BeginExitReturn(t) \/ ShootdownLock(t) \/ ShootdownMark(t)
    \/ \E n \in Pool : Visit(t, n)
    \/ Kill(t) \/ NextPass(t) \/ AllFinished(t) \/ GiveUp(t)
    \/ SelfFiniReturn(t) \/ FiniProcessReturn(t)

ExitStep(t) == EnterStep(t) \/ EndStep(t) \/ WinnerStep(t)

\* The process is over: it died, or its last thread ended.
Terminated == (exited \/ \A t \in Thread : ~Alive(t)) /\ UNCHANGED vars

Next ==
    \/ /\ ~exited
       /\ \E t \in Thread :
            \/ ThreadStep(t) /\ UNCHANGED exitVars
            \/ ExitStep(t)
    \/ Terminated

Spec == Init /\ [][Next]_vars

(***************************************************************************)
(* Fairness.  A thread inside an override keeps running and the client's   *)
(* callbacks return; a pending unblocked signal is delivered; once exit    *)
(* has been called the process gets to the end of its exit handlers; and   *)
(* ten seconds of a repeated pass do pass.  Application code owes nothing. *)
(***************************************************************************)
Driven(t) ==
    \/ (InnerStep(t) \/ HandlerStep(t)) /\ UNCHANGED exitVars
    \/ EndStep(t)
    \/ WinnerStep(t)

Fairness ==
    \A t \in Thread : WF_vars(~exited /\ Driven(t))
                    /\ SF_vars(~exited /\ GiveUp(t))

FairSpec == Spec /\ Fairness
-----------------------------------------------------------------------------
(***************************************************************************)
(* Properties.                                                             *)
(***************************************************************************)

SdRecord == [toVisit : SUBSET Pool, cur : Pool \cup {NoNode}, started : Nat,
             unstarted : Nat, unfinished : Nat, last : Nat,
             me : Pool \cup {NoNode}]

\* Every variable holds a value of the type its declaration in the code has;
\* a node is handed out by at most one list.
TypeOK ==
    /\ pc \in [Thread -> Loc]
    /\ phase \in [Thread -> Phase]
    /\ hnd \in [Thread -> {"none", "fini", "callback"}]
    /\ pending \in [Thread -> BOOLEAN]
    /\ node \in [Thread -> Node \cup {NoNode}]
    /\ mk \in [Thread -> Pool \cup {NoNode}]
    /\ tn \in [Node -> TnRecord]
    /\ linked \subseteq Pool /\ free \subseteq Pool /\ fresh \subseteq Pool
    /\ lock \in Thread \cup {NoThread}
    /\ hasUsedThreads \in BOOLEAN /\ inExitCleanup \in BOOLEAN
    /\ finiThreadDone \in BOOLEAN
    /\ finiCalls \in [Thread -> Nat]
    /\ cookie \in BOOLEAN /\ finiProcessDone \in BOOLEAN
    /\ sd \in SdRecord
    /\ exited \in BOOLEAN /\ sigs \in Nat
    /\ winner \in Thread \cup {NoThread}
    /\ finiProc \in {"no", "running", "done"}
    /\ covered \subseteq Pool
    /\ timedOut \in BOOLEAN

\* The shootdown keeps its promise (pthread.c:549-551): unless it gave up,
\* by the time fini_process is called every thread that was running
\* application code when the exit cleanup began, other than the caller, has
\* been through its fini_thread callback.
CoveredFinished ==
    finiProc # "no" /\ ~timedOut =>
        \A n \in covered : tn[n].finiDone \/ tn[n].self = winner

\* The walk over the list holds no lock, so it is safe only because the list
\* never changes again once exit cleanup has begun: nothing is linked, nothing
\* is unlinked, and no node on the list is cleared (pthread.c:411-414, 426-435).
FrozenList ==
    [][inExitCleanup => /\ linked' = linked
                        /\ \A n \in linked : tn[n].magic => tn'[n].magic]_vars

\* No node has two owners: a creator's node, the free list, the unused part
\* of the arrays and the thread list are disjoint, and no two threads on the
\* list share a node, whatever the order of creates, ends and reuse.
NodeOwnership ==
    /\ free \cap fresh = {} /\ (free \cup fresh) \cap linked = {}
    /\ \A t \in Thread : mk[t] # NoNode => mk[t] \notin free \cup fresh \cup linked
    /\ \A t, u \in Thread :
         t # u /\ mk[t] # NoNode => mk[t] # mk[u]

\* The thread-list lock is held by the one thread that is at a place that
\* releases it, or by one that a fatal signal took from there and that will not
\* release it: whoever needs it then waits for ever (pthread.c:529).
LockLoc == {"mkLocked", "linkLocked", "unlinkLocked", "sdLocked"}
LockHeld ==
    /\ \A t \in Thread : pc[t] \in LockLoc => lock = t
    /\ lock # NoThread => pc[lock] \in LockLoc \/ phase[lock] = "signal"

\* Where a node is while somebody will still return it, or use it: unused, with a
\* creator or a new thread, or with the thread that is bound to it, up to the end of
\* the thread's cleanup routine.
Held(n) ==
    \/ n \in free \cup fresh
    \/ \E t \in Thread : mk[t] = n
    \/ \E t \in Thread : node[t] = n /\ Alive(t) /\ phase[t] # "tsd"

\* No node is lost before the exit, however threads come and go, except the one of a
\* creator whose pthread_create fails (pthread.c:1128), and that of a thread whose
\* cleanup routine returns before it unlinks the node, because init_thread was
\* canceled or the client blocks the shootdown of the thread (pthread.c:905): that
\* node stays on the list, without a thread.
NodesKept ==
    [][\A n \in Pool : Held(n) /\ ~Held(n)' =>
         \/ inExitCleanup
         \/ \E t \in Thread :
              \/ pc[t] = "launch" /\ mk[t] = n /\ pc'[t] = "app"
              \/ /\ pc[t] = "cleanup" /\ node[t] = n
                 /\ ~tn[n].applStarted \/ tn[n].block]_vars

\* The threads that lose the race to exit are not released while the winner
\* is still inside its callbacks (main.c:290-292).  A key destructor that calls
\* exit does it with the node of a thread that has ended: where such code runs
\* (TsdCode), that node may be the winner's by then, and this fails.
LosersWait ==
    finiProcessDone /\ cookie =>
        finiProc = "done" \/ pc[winner] \notin WinnerLoc

\* fini_process is called at most once, and only by the thread that set the
\* cookie, however many threads call exit and however often.
OneFiniProcess ==
    [][\A t \in Thread :
         pc[t] # "finiProcess" /\ pc'[t] = "finiProcess"
         => finiProc = "no" /\ winner = t]_vars

\* "send a signal to force them into their fini_thread functions, and wait
\* until they all finish" (pthread.c:549): if nobody is slow and the client
\* blocks nothing, the shootdown never gives up on a thread.
NeverGivesUp == ~timedOut

\* Once begun, the shootdown ends: the winner gets past its loop, in at most
\* MONITOR_SHOOTDOWN_TIMEOUT without progress (pthread.c:553-556); a fatal
\* signal in the middle, which may hit the winner itself, releases it from this.
ShootdownEnds == inExitCleanup ~> (finiThreadDone \/ exited \/ sigs > 0)

\* A thread that has called exit always comes to the end of it, so the process
\* can go on to end (main.c:286-301).
ExitReturns ==
    \A t \in Thread : pc[t] = "endProcess" ~> (exited \/ pc[t] \notin ExitLoc \/ sigs > 0)

(***************************************************************************)
(* The abstract gate that monitor_end_process_fcn implements, as long as   *)
(* every thread that calls it has its own node.                            *)
(***************************************************************************)
GateAt == [t \in Thread |->
             CASE pc[t] = "endProcess"  -> "asking"
               [] pc[t] \in WinnerLoc   -> "won"
               [] pc[t] = "loser"       -> "waiting"
               [] OTHER                 -> "out"]

Gate == INSTANCE ExitGate WITH at <- GateAt, open <- finiProcessDone

\* Whatever the threads and the shootdown do, calls of exit behave as the gate.
ImplementsGate == Gate!Spec

(***************************************************************************)
(* What the comments and the tests say, and the code does not do.          *)
(***************************************************************************)

\* "There should be one call to monitor_fini_thread() for each thread"
\* (tests/exit.c:5): no thread gets two.
OneFiniThread == \A t \in Thread : finiCalls[t] <= 1

-----------------------------------------------------------------------------
(***************************************************************************)
(* The inductive invariant behind NodeOwnership and CoveredFinished.       *)
(***************************************************************************)

\* A thread that monitor wraps, from the moment it is linked until it ends,
\* exits, or is hit by a fatal signal.
ActiveLoc == {"init", "app"} \cup CreateLoc \cup CleanupLoc
Active(t) == /\ t \in Side /\ phase[t] = "run"
             /\ node[t] # NoNode /\ pc[t] \in ActiveLoc

Linking(t) == pc[t] \in {"link", "linkLocked"}

\* What a thread's location says about its own variables.
LocationInv ==
    /\ \A t \in Thread :
         /\ pc[t] \in {"none"} \cup BeginLoc \cup CleanupLoc =>
              t \in Side /\ phase[t] = "run"
         /\ pc[t] \in {"launch", "begin"} => mk[t] \in Pool
         /\ pc[t] \in CleanupLoc \cup (BeginLoc \ {"begin"}) => node[t] \in Pool
         /\ pc[t] \in {"none", "begin"} => node[t] = NoNode
         /\ pc[t] \in ExitLoc => phase[t] # "run"
         /\ pc[t] \in CreateLoc => hasUsedThreads
         /\ node[t] = MainNode => t = Main
    /\ ~hasUsedThreads => \A t \in Side : pc[t] = "none"

\* Only a creator about to launch and a thread that has not begun hold a node
\* in mk, or what a fatal signal left of them.
CreatorInv ==
    \A t \in Thread :
      /\ mk[t] # NoNode => pc[t] \in {"launch", "begin"} \/ phase[t] = "signal"
      /\ phase[t] = "signal" => pc[t] \in ExitLoc \cup {"raise"}

\* Who holds which node; NodeOwnership is the visible part of it.
OwnershipInv ==
    /\ NodeOwnership
    /\ \A t \in Thread : Linking(t) =>
         /\ node[t] \in Pool \ (free \cup fresh \cup linked)
         /\ \A u \in Thread : mk[u] # node[t]
         /\ \A u \in Thread \ {t} : Linking(u) => node[u] # node[t]
    /\ \A t \in Thread : Active(t) =>
         /\ node[t] \in linked
         /\ \A u \in Thread \ {t} : Active(u) => node[u] # node[t]

\* There is one winner, and fini_process is its last callback.
WinnerInv ==
    /\ cookie <=> winner # NoThread
    /\ inExitCleanup \/ finiProc # "no" => cookie
    /\ \A t \in Thread : pc[t] \in WinnerLoc => winner = t
    /\ \A t \in Thread :
         /\ pc[t] \in WinnerLoc \ {"finiProcess"} => finiProc = "no"
         /\ pc[t] = "finiProcess" => finiProc = "running"

\* n is settled: its thread's fini_thread has returned, or it is the winner's.
Settled(n) == tn[n].finiDone \/ tn[n].self = winner

\* Each pass over the list settles the covered nodes that it leaves behind
\* without counting them as unfinished.
WalkInv ==
    /\ covered # {} => inExitCleanup
    /\ covered \subseteq linked
    /\ \A n \in covered : tn[n].applStarted
    /\ \A t \in Thread :
         /\ pc[t] \in {"markWin", "beginExit"} => covered = {}
         /\ pc[t] = "walk" => sd.cur = NoNode
         /\ pc[t] \in {"walk", "kill"} /\ sd.unfinished = 0 =>
              \A n \in covered : Settled(n) \/ n = sd.cur \/ n \in sd.toVisit
         /\ pc[t] = "selfCb" /\ ~timedOut => \A n \in covered : Settled(n)

IInv == /\ TypeOK /\ LocationInv /\ CreatorInv /\ OwnershipInv /\ WinnerInv /\ WalkInv
        /\ CoveredFinished

\* Until exit cleanup begins there is no shootdown signal: only the thread itself
\* starts its fini_thread, so a node that is to be linked has its magic number and no
\* fini_thread yet, and the cleanup routine of a thread on the list gets to the unlink.
Unused(n) == tn[n].magic /\ ~tn[n].finiStarted

KeptInv ==
    ~inExitCleanup =>
      /\ ~finiThreadDone /\ node[Main] \notin Pool
      /\ \A t \in Thread :
           /\ ~pending[t] /\ hnd[t] = "none"
           /\ pc[t] \notin {"walk", "kill", "selfCb"}
           /\ mk[t] # NoNode => Unused(mk[t])
           /\ Linking(t) => Unused(node[t])
           /\ Active(t) => /\ tn[node[t]].magic
                           /\ tn[node[t]].finiStarted =>
                                pc[t] \in {"cleanupCb", "unlink", "unlinkLocked"}
           /\ phase[t] = "pexit" => node[t] \notin Pool
=============================================================================
