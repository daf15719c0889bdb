-------------------------- MODULE MonitorExitProofs --------------------------
(***************************************************************************)
(* Proofs about MonitorExit, for any number of threads, nodes and signals. *)
(***************************************************************************)
EXTENDS MonitorExit, TLAPS

-----------------------------------------------------------------------------
(* Type correctness. *)

LEMMA InitTypeOK == Init => TypeOK
<1> SUFFICES ASSUME Init PROVE TypeOK
  OBVIOUS
<1>1. pc \in [Thread -> Loc]
  BY DEF Init, ThreadsInit, Loc
<1>2. phase \in [Thread -> Phase]
  BY DEF Init, ThreadsInit, Phase
<1>3. tn \in [Node -> TnRecord]
  BY DEF Init, ThreadsInit, TnRecord, MagicTn, ZeroTn, ClearTn
<1>4. sd \in SdRecord
  BY DEF Init, ExitInit, SdRecord
<1> QED
  BY <1>1, <1>2, <1>3, <1>4 DEF Init, ThreadsInit, ExitInit, TypeOK

\* No step writes anything but a thread node into a thread node.
LEMMA TypeTn ==
  ASSUME tn \in [Node -> TnRecord], NEW t \in Thread,
         (ThreadStep(t) /\ UNCHANGED exitVars) \/ ExitStep(t)
  PROVE  tn' \in [Node -> TnRecord]
<1>1. ASSUME ThreadListInit(t) PROVE tn' \in [Node -> TnRecord]
  BY <1>1 DEF ThreadListInit, TnRecord
<1>2. CASE AppStep(t)
  <2>1. ASSUME NEW b \in BOOLEAN, BlockShootdown(t, b)
        PROVE  tn' \in [Node -> TnRecord]
    BY <2>1 DEF BlockShootdown, TnRecord
  <2> QED
    BY <1>1, <1>2, <2>1 DEF AppStep, CreateBegin, CreateIgnored, CancelInit,
       ThreadReturn, TsdReturn, nodeVars
<1>3. CASE InnerStep(t)
  <2>1. CASE MakeNode(t)
    <3>1. PICK n : tn' = [tn EXCEPT ![n] = MagicTn]
      BY <2>1 DEF MakeNode
    <3>2. MagicTn \in TnRecord
      BY DEF TnRecord, MagicTn, ClearTn
    <3> QED
      BY <3>1, <3>2
  <2>2. CASE BeginThread(t)
    BY <2>2 DEF BeginThread, TnRecord
  <2>3. CASE ApplStart(t)
    BY <2>3 DEF ApplStart, TnRecord
  <2>4. CASE CleanupFini(t)
    BY <2>4 DEF CleanupFini, StartFini, TnRecord
  <2>5. CASE CleanupFiniReturn(t)
    BY <2>5 DEF CleanupFiniReturn, EndFini, TnRecord
  <2>6. CASE UnlinkNode(t)
    <3>1. ZeroTn \in TnRecord
      BY DEF TnRecord, ZeroTn, ClearTn
    <3>2. CASE inExitCleanup
      <4>1. tn' = [tn EXCEPT ![node[t]].finiStarted = TRUE,
                             ![node[t]].finiDone = TRUE]
        BY <2>6, <3>2 DEF UnlinkNode
      <4> QED
        BY <4>1 DEF TnRecord
    <3>3. CASE ~inExitCleanup
      BY <2>6, <3>1, <3>3 DEF UnlinkNode
    <3> QED
      BY <3>2, <3>3
  <2> QED
    BY <1>3, <2>1, <2>2, <2>3, <2>4, <2>5, <2>6 DEF InnerStep, MakeNodeLock,
       LinkLock, UnlinkLock, Acquire, Launch, LaunchFails, LinkNode,
       CleanupCheck, nodeVars
<1>4. CASE HandlerStep(t)
  <2>1. CASE HandlerFini(t)
    BY <2>1 DEF HandlerFini, StartFini, TnRecord
  <2>2. CASE HandlerReturn(t)
    BY <2>2 DEF HandlerReturn, EndFini, TnRecord
  <2> QED
    BY <1>4, <2>1, <2>2 DEF HandlerStep, HandlerEnter, nodeVars
<1>5. CASE EnterStep(t)
  BY <1>5 DEF EnterStep, Exit, PthreadExit, FatalSignal, nodeVars
<1>6. CASE EndStep(t)
  <2>1. CASE MarkWinner(t)
    BY <2>1 DEF MarkWinner, TnRecord
  <2> QED
    BY <1>6, <2>1 DEF EndStep, WinExit, RepeatExit, LoseExit, LoserReleased, EndReturn,
       Die, nodeVars, threadsVars
<1>7. CASE WinnerStep(t)
  <2>1. CASE LeaveLoop(t)
    <3>1. tn' = tn \/ tn' = [tn EXCEPT ![sd.me].finiStarted = TRUE]
      BY <2>1 DEF LeaveLoop
    <3> QED
      BY <3>1 DEF TnRecord
  <2>2. CASE SelfFiniReturn(t)
    BY <2>2 DEF SelfFiniReturn, TnRecord
  <2> QED
    BY <1>7, <2>1, <2>2 DEF WinnerStep, BeginExitReturn, ShootdownLock,
       Acquire, ShootdownMark, Visit, Kill, NextPass, AllFinished, GiveUp,
       FiniProcessReturn, nodeVars, threadsVars
<1> QED
  BY <1>2, <1>3, <1>4, <1>5, <1>6, <1>7 DEF ThreadStep, ExitStep

LEMMA TypeAppStep ==
  ASSUME TypeOK, NEW t \in Thread, AppStep(t), UNCHANGED exitVars
  PROVE  TypeOK'
<1>0. tn' \in [Node -> TnRecord]
  BY TypeTn DEF ThreadStep, ExitStep, TypeOK
<1> USE DEF TypeOK, Goto, At, exitVars, nodeVars, flagVars, frameVars
<1>1. CASE CreateBegin(t)
  BY <1>0, <1>1 DEF CreateBegin, ThreadListInit, Loc, CreateLoc, Node
<1>2. ASSUME NEW u \in Side, CreateIgnored(t, u) PROVE TypeOK'
  BY <1>0, <1>2 DEF CreateIgnored, ThreadListInit, Loc, Thread, Node
<1>3. CASE CancelInit(t)
  BY <1>0, <1>3 DEF CancelInit, Loc, CleanupLoc
<1>4. CASE ThreadReturn(t)
  BY <1>0, <1>4 DEF ThreadReturn, Loc, CleanupLoc
<1>5. CASE TsdReturn(t)
  BY <1>0, <1>5 DEF TsdReturn, Loc
<1>6. ASSUME NEW b \in BOOLEAN, BlockShootdown(t, b) PROVE TypeOK'
  BY <1>0, <1>6 DEF BlockShootdown, GetTn, Node
<1> QED
  BY <1>1, <1>2, <1>3, <1>4, <1>5, <1>6 DEF AppStep

LEMMA TypeInnerStep ==
  ASSUME TypeOK, LocationInv, NEW t \in Thread,
         InnerStep(t), UNCHANGED exitVars
  PROVE  TypeOK'
<1>0. tn' \in [Node -> TnRecord]
  BY TypeTn DEF ThreadStep, ExitStep, TypeOK
<1> USE DEF TypeOK, Goto, At, exitVars, nodeVars, flagVars, frameVars
<1>1. CASE MakeNodeLock(t) \/ LinkLock(t) \/ UnlinkLock(t)
  BY <1>0, <1>1 DEF MakeNodeLock, LinkLock, UnlinkLock, Acquire, Loc, CreateLoc,
     BeginLoc, CleanupLoc
<1>2. CASE MakeNode(t)
  BY <1>0, <1>2 DEF MakeNode, Loc, CreateLoc
<1>3. ASSUME NEW u \in Side, Launch(t, u) PROVE TypeOK'
  BY <1>0, <1>3 DEF Launch, Loc, BeginLoc, Thread
<1>4. CASE LaunchFails(t)
  BY <1>0, <1>4 DEF LaunchFails, Loc
<1>5. CASE BeginThread(t)
  BY <1>0, <1>5 DEF BeginThread, Loc, BeginLoc, Node
<1>6. CASE LinkNode(t)
  <2>1. pc' \in [Thread -> Loc]
    BY <1>6 DEF LinkNode, Loc, BeginLoc
  <2>2. node[t] \in Pool
    BY <1>6 DEF LinkNode, LocationInv, BeginLoc, CleanupLoc
  <2> QED
    BY <1>0, <1>6, <2>1, <2>2 DEF LinkNode
<1>7. CASE ApplStart(t)
  BY <1>0, <1>7 DEF ApplStart, Loc
<1>8. CASE CleanupCheck(t)
  BY <1>0, <1>8 DEF CleanupCheck, AfterCleanup, Loc, CleanupLoc, Phase
<1>9. CASE CleanupFini(t)
  BY <1>0, <1>9 DEF CleanupFini, StartFini, Loc, CleanupLoc
<1>10. CASE CleanupFiniReturn(t)
  BY <1>0, <1>10 DEF CleanupFiniReturn, EndFini, Loc, CleanupLoc
<1>11. CASE UnlinkNode(t)
  <2>1. pc' \in [Thread -> Loc] /\ phase' \in [Thread -> Phase]
    BY <1>0, <1>11 DEF UnlinkNode, AfterCleanup, Loc, Phase
  <2>2. node[t] \in Pool
    BY <1>0, <1>11 DEF UnlinkNode, LocationInv, CleanupLoc
  <2> QED
    BY <1>0, <1>11, <2>1, <2>2 DEF UnlinkNode, AfterCleanup
<1> QED
  BY <1>1, <1>2, <1>3, <1>4, <1>5, <1>6, <1>7, <1>8, <1>9, <1>10, <1>11
  DEF InnerStep

LEMMA TypeHandlerStep ==
  ASSUME TypeOK, NEW t \in Thread, HandlerStep(t), UNCHANGED exitVars
  PROVE  TypeOK'
<1>0. tn' \in [Node -> TnRecord]
  BY TypeTn DEF ThreadStep, ExitStep, TypeOK
<1> USE DEF TypeOK, exitVars, nodeVars, flagVars
<1>1. CASE HandlerEnter(t)
  BY <1>0, <1>1 DEF HandlerEnter
<1>2. CASE HandlerFini(t)
  BY <1>0, <1>2 DEF HandlerFini, StartFini
<1>3. CASE HandlerReturn(t)
  BY <1>0, <1>3 DEF HandlerReturn, EndFini
<1> QED
  BY <1>1, <1>2, <1>3 DEF HandlerStep

LEMMA TypeEnterStep ==
  ASSUME TypeOK, NEW t \in Thread, EnterStep(t)
  PROVE  TypeOK'
<1>0. tn' \in [Node -> TnRecord]
  BY TypeTn DEF ThreadStep, ExitStep, TypeOK
<1> USE DEF TypeOK, Goto, EnterEnd, Loc, ExitLoc, Phase, exitVars, nodeVars,
        flagVars
<1>1. CASE Exit(t)
  BY <1>0, <1>1 DEF Exit
<1>2. CASE PthreadExit(t)
  BY <1>0, <1>2 DEF PthreadExit
<1>3. CASE FatalSignal(t)
  BY <1>0, <1>3 DEF FatalSignal
<1> QED
  BY <1>1, <1>2, <1>3 DEF EnterStep

LEMMA TypeEndStep ==
  ASSUME TypeOK, NEW t \in Thread, EndStep(t)
  PROVE  TypeOK'
<1>0. tn' \in [Node -> TnRecord]
  BY TypeTn DEF ThreadStep, ExitStep, TypeOK
<1> USE DEF TypeOK, Goto, At, exitVars, nodeVars, flagVars
<1>1. CASE WinExit(t) \/ MarkWinner(t)
  BY <1>0, <1>1 DEF WinExit, MarkWinner, Loc, ExitLoc, WinnerLoc
<1>2. CASE RepeatExit(t)
  BY <1>0, <1>2 DEF RepeatExit, Loc, ExitLoc
<1>3. CASE LoseExit(t)
  BY <1>0, <1>3 DEF LoseExit, Loc, ExitLoc
<1>4. CASE LoserReleased(t)
  BY <1>0, <1>4 DEF LoserReleased, Loc, ExitLoc
<1>5. CASE EndReturn(t)
  BY <1>0, <1>5 DEF EndReturn, Loc
<1>6. CASE Die(t)
  BY <1>0, <1>6 DEF Die, threadsVars, frameVars
<1> QED
  BY <1>1, <1>2, <1>3, <1>4, <1>5, <1>6 DEF EndStep

LEMMA SdUpdates ==
  ASSUME NEW r \in SdRecord, NEW j \in Nat, NEW k \in Nat
  PROVE  /\ r.started + 1 \in Nat /\ r.unstarted + 1 \in Nat
         /\ [r EXCEPT !.started = j, !.unfinished = k] \in SdRecord
         /\ [r EXCEPT !.unstarted = j, !.cur = NoNode, !.unfinished = k]
              \in SdRecord
<1>1. r.started + 1 \in Nat /\ r.unstarted + 1 \in Nat
  BY DEF SdRecord
<1>2. [r EXCEPT !.started = j, !.unfinished = k] \in SdRecord
  BY DEF SdRecord
<1>3. [r EXCEPT !.unstarted = j, !.cur = NoNode, !.unfinished = k] \in SdRecord
  BY DEF SdRecord
<1> QED
  BY <1>1, <1>2, <1>3

LEMMA TypeWinnerStep ==
  ASSUME TypeOK, NEW t \in Thread, WinnerStep(t)
  PROVE  TypeOK'
<1>0. tn' \in [Node -> TnRecord]
  BY TypeTn DEF ThreadStep, ExitStep, TypeOK
<1> USE DEF TypeOK, Goto, At, exitVars, nodeVars, flagVars, Loc, ExitLoc,
        WinnerLoc, SdRecord
<1>1. CASE BeginExitReturn(t)
  BY <1>0, <1>1 DEF BeginExitReturn, StartFiniProcess
<1>2. CASE ShootdownLock(t)
  BY <1>0, <1>2 DEF ShootdownLock, Acquire
<1>3. CASE ShootdownMark(t)
  BY <1>0, <1>3 DEF ShootdownMark, NewPass
<1>4. ASSUME NEW n \in Pool, Visit(t, n) PROVE TypeOK'
  <2>1. CountUnfinished(n) \in Nat
    BY DEF CountUnfinished
  <2>2. pc' \in [Thread -> Loc]
    BY <1>4 DEF Visit
  <2>3. sd' \in SdRecord
    <3> DEFINE rest == [sd EXCEPT !.toVisit = @ \ {n}]
    <3>1. rest \in SdRecord
      OBVIOUS
    <3>2. \/ sd' = rest
          \/ sd' = [rest EXCEPT !.me = n]
          \/ sd' = [rest EXCEPT !.cur = n]
          \/ sd' = [rest EXCEPT !.started = rest.started + 1,
                               !.unfinished = CountUnfinished(n)]
      BY <1>4 DEF Visit
    <3> HIDE DEF rest
    <3>3. [rest EXCEPT !.me = n] \in SdRecord
      BY <3>1
    <3>4. [rest EXCEPT !.cur = n] \in SdRecord
      BY <3>1
    <3> HIDE DEF SdRecord
    <3>5. [rest EXCEPT !.started = rest.started + 1,
                       !.unfinished = CountUnfinished(n)] \in SdRecord
      BY <2>1, <3>1, SdUpdates
    <3> QED
      BY <3>1, <3>2, <3>3, <3>4, <3>5
  <2> QED
    BY <1>0, <1>4, <2>2, <2>3 DEF Visit
<1>5. CASE Kill(t)
  <2>1. CountUnfinished(sd.cur) \in Nat
    BY DEF CountUnfinished
  <2>2. sd' \in SdRecord
    <3>1. sd' = [sd EXCEPT !.unstarted = sd.unstarted + 1, !.cur = NoNode,
                           !.unfinished = CountUnfinished(sd.cur)]
      BY <1>5 DEF Kill
    <3> QED
      BY <2>1, <3>1, SdUpdates
  <2>3. pc' \in [Thread -> Loc]
    BY <1>5 DEF Kill
  <2>4. pending' \in [Thread -> BOOLEAN]
    BY <1>5 DEF Kill
  <2> HIDE DEF SdRecord, Loc, ExitLoc, WinnerLoc
  <2> QED
    BY <1>0, <1>5, <2>2, <2>3, <2>4 DEF Kill
<1>6. CASE NextPass(t)
  BY <1>0, <1>6 DEF NextPass, PassEnd, NewPass, threadsVars, frameVars
<1>7. ASSUME LeaveLoop(t), timedOut' \in BOOLEAN PROVE TypeOK'
  BY <1>0, <1>7 DEF LeaveLoop, StartFiniProcess
<1>8. CASE AllFinished(t) \/ GiveUp(t)
  BY <1>7, <1>8 DEF AllFinished, GiveUp
<1>9. CASE SelfFiniReturn(t)
  BY <1>0, <1>9 DEF SelfFiniReturn, StartFiniProcess
<1>10. CASE FiniProcessReturn(t)
  BY <1>0, <1>10 DEF FiniProcessReturn
<1> QED
  BY <1>1, <1>2, <1>3, <1>4, <1>5, <1>6, <1>8, <1>9, <1>10 DEF WinnerStep

-----------------------------------------------------------------------------
(* What a location says about the thread's own variables. *)

LEMMA LocationThreadStep ==
  ASSUME TypeOK, LocationInv, NEW t \in Thread, ThreadStep(t)
  PROVE  LocationInv'
<1> USE DEF TypeOK, LocationInv, At, Goto, CreateLoc, BeginLoc, CleanupLoc,
        ExitLoc, WinnerLoc, nodeVars, flagVars, frameVars
<1>1. CASE AppStep(t)
  <2>1. CASE CreateBegin(t)
    BY <2>1 DEF CreateBegin, ThreadListInit, Thread
  <2>2. ASSUME NEW u \in Side, CreateIgnored(t, u) PROVE LocationInv'
    BY <2>2 DEF CreateIgnored, ThreadListInit, Thread
  <2>3. CASE CancelInit(t)
    BY <2>3 DEF CancelInit
  <2>4. CASE ThreadReturn(t)
    BY <2>4, ThreadsAssumption DEF ThreadReturn, ThreadsAssumption, Node
  <2>5. CASE TsdReturn(t)
    BY <2>5 DEF TsdReturn
  <2>6. ASSUME NEW b \in BOOLEAN, BlockShootdown(t, b) PROVE LocationInv'
    BY <2>6 DEF BlockShootdown
  <2> QED
    BY <1>1, <2>1, <2>2, <2>3, <2>4, <2>5, <2>6 DEF AppStep
<1>2. CASE InnerStep(t)
  <2>1. CASE MakeNodeLock(t) \/ LinkLock(t) \/ UnlinkLock(t)
    BY <2>1 DEF MakeNodeLock, LinkLock, UnlinkLock, Acquire
  <2>2. CASE MakeNode(t)
    BY <2>2 DEF MakeNode
  <2>3. ASSUME NEW u \in Side, Launch(t, u) PROVE LocationInv'
    BY <2>3 DEF Launch, Thread
  <2>4. CASE LaunchFails(t)
    BY <2>4 DEF LaunchFails
  <2>5. CASE BeginThread(t)
    BY <2>5, ThreadsAssumption DEF BeginThread, ThreadsAssumption
  <2>6. CASE LinkNode(t)
    <3>1. CASE inExitCleanup
      BY <2>6, <3>1 DEF LinkNode
    <3>2. CASE ~inExitCleanup
      BY <2>6, <3>2 DEF LinkNode
    <3> QED
      BY <3>1, <3>2
  <2>7. CASE ApplStart(t)
    BY <2>7 DEF ApplStart
  <2>8. CASE CleanupCheck(t)
    BY <2>8 DEF CleanupCheck, AfterCleanup
  <2>9. CASE CleanupFini(t) \/ CleanupFiniReturn(t)
    BY <2>9 DEF CleanupFini, CleanupFiniReturn
  <2>10. CASE UnlinkNode(t)
    BY <2>10 DEF UnlinkNode, AfterCleanup
  <2> QED
    BY <1>2, <2>1, <2>2, <2>3, <2>4, <2>5, <2>6, <2>7, <2>8, <2>9, <2>10
    DEF InnerStep
<1>3. CASE HandlerStep(t)
  BY <1>3 DEF HandlerStep, HandlerEnter, HandlerFini, HandlerReturn
<1> QED
  BY <1>1, <1>2, <1>3 DEF ThreadStep

\* A step of the exit protocol by t leaves the node lists and the other
\* threads alone, and takes t to the protocol or out of it.
ExitFrame(t) ==
    /\ UNCHANGED <<node, mk, linked, free, fresh, hasUsedThreads>>
    /\ \A u \in Thread \ {t} : pc'[u] = pc[u] /\ phase'[u] = phase[u]
    /\ pc[t] # "none"
    /\ pc'[t] \in ExitLoc \cup {"app", "raise", "gone"}
    /\ pc'[t] \in ExitLoc \cup {"app"} => phase'[t] # "run"

LEMMA ExitStepFrame ==
  ASSUME TypeOK, LocationInv, NEW t \in Thread, ExitStep(t)
  PROVE  ExitFrame(t)
<1> USE DEF TypeOK, LocationInv, At, Goto, ExitLoc, WinnerLoc, nodeVars,
        flagVars, frameVars, threadsVars, ExitFrame
<1>1. CASE Exit(t) \/ PthreadExit(t)
  BY <1>1 DEF EnterEnd, Exit, PthreadExit
<1>2. CASE FatalSignal(t)
  BY <1>2 DEF EnterEnd, FatalSignal, Alive
<1>3. CASE WinExit(t) \/ MarkWinner(t) \/ RepeatExit(t) \/ LoseExit(t) \/ LoserReleased(t)
  BY <1>3 DEF WinExit, MarkWinner, RepeatExit, LoseExit, LoserReleased
<1>4. CASE EndReturn(t)
  BY <1>4 DEF EndReturn
<1>5. CASE Die(t)
  BY <1>5 DEF Die
<1>6. CASE BeginExitReturn(t) \/ SelfFiniReturn(t) \/ FiniProcessReturn(t)
  BY <1>6 DEF BeginExitReturn, SelfFiniReturn, FiniProcessReturn,
     StartFiniProcess
<1>7. CASE ShootdownLock(t) \/ ShootdownMark(t) \/ Kill(t) \/ NextPass(t)
  BY <1>7 DEF ShootdownLock, Acquire, ShootdownMark, Kill, NextPass, PassEnd
<1>8. ASSUME NEW n \in Pool, Visit(t, n) PROVE ExitFrame(t)
  BY <1>8 DEF Visit
<1>9. CASE AllFinished(t) \/ GiveUp(t)
  BY <1>9 DEF AllFinished, GiveUp, PassEnd, LeaveLoop, StartFiniProcess
<1> QED
  BY <1>1, <1>2, <1>3, <1>4, <1>5, <1>6, <1>7, <1>8, <1>9
  DEF ExitStep, EnterStep, EndStep, WinnerStep

LEMMA LocationExitStep ==
  ASSUME TypeOK, LocationInv, NEW t \in Thread, ExitStep(t)
  PROVE  LocationInv'
<1>1. ExitFrame(t)
  BY ExitStepFrame
<1>2. ASSUME NEW u \in Thread PROVE
        /\ pc'[u] \in {"none"} \cup BeginLoc \cup CleanupLoc =>
             u \in Side /\ phase'[u] = "run"
        /\ pc'[u] \in {"launch", "begin"} => mk'[u] \in Pool
        /\ pc'[u] \in CleanupLoc \cup (BeginLoc \ {"begin"}) => node'[u] \in Pool
        /\ pc'[u] \in {"none", "begin"} => node'[u] = NoNode
        /\ pc'[u] \in ExitLoc => phase'[u] # "run"
        /\ pc'[u] \in CreateLoc => hasUsedThreads'
        /\ node'[u] = MainNode => u = Main
  <2>1. CASE u = t
    BY <1>1, <2>1 DEF ExitFrame, LocationInv, CreateLoc, BeginLoc, CleanupLoc,
       ExitLoc, WinnerLoc
  <2>2. CASE u # t
    BY <1>1, <2>2 DEF ExitFrame, LocationInv
  <2> QED
    BY <2>1, <2>2
<1>3. ~hasUsedThreads' => \A u \in Side : pc'[u] = "none"
  BY <1>1 DEF ExitFrame, LocationInv, Thread
<1> QED
  BY <1>2, <1>3 DEF LocationInv

-----------------------------------------------------------------------------
(* Who holds a node in mk. *)

LEMMA CreatorThreadStep ==
  ASSUME TypeOK, LocationInv, CreatorInv, NEW t \in Thread, ThreadStep(t)
  PROVE  CreatorInv'
<1> USE DEF TypeOK, CreatorInv, At, Goto, ExitLoc, WinnerLoc, nodeVars,
        flagVars, frameVars
<1>1. CASE AppStep(t)
  <2>1. CASE CreateBegin(t)
    BY <2>1 DEF CreateBegin
  <2>2. ASSUME NEW u \in Side, CreateIgnored(t, u) PROVE CreatorInv'
    BY <2>2 DEF CreateIgnored, Thread
  <2>3. CASE CancelInit(t) \/ ThreadReturn(t) \/ TsdReturn(t)
    BY <2>3 DEF CancelInit, ThreadReturn, TsdReturn
  <2>4. ASSUME NEW b \in BOOLEAN, BlockShootdown(t, b) PROVE CreatorInv'
    BY <2>4 DEF BlockShootdown
  <2> QED
    BY <1>1, <2>1, <2>2, <2>3, <2>4 DEF AppStep
<1>2. CASE InnerStep(t)
  <2>1. CASE MakeNodeLock(t) \/ LinkLock(t) \/ UnlinkLock(t)
    BY <2>1 DEF MakeNodeLock, LinkLock, UnlinkLock, Acquire
  <2>2. CASE MakeNode(t)
    BY <2>2 DEF MakeNode
  <2>3. ASSUME NEW u \in Side, Launch(t, u) PROVE CreatorInv'
    BY <2>3 DEF Launch, Thread
  <2>4. CASE LaunchFails(t)
    BY <2>4 DEF LaunchFails
  <2>5. CASE BeginThread(t)
    BY <2>5 DEF BeginThread
  <2>6. CASE LinkNode(t)
    BY <2>6 DEF LinkNode
  <2>7. CASE ApplStart(t)
    BY <2>7 DEF ApplStart
  <2>8. CASE CleanupCheck(t)
    BY <2>8 DEF CleanupCheck, AfterCleanup
  <2>9. CASE CleanupFini(t) \/ CleanupFiniReturn(t)
    BY <2>9 DEF CleanupFini, CleanupFiniReturn
  <2>10. CASE UnlinkNode(t)
    BY <2>10 DEF UnlinkNode, AfterCleanup
  <2> QED
    BY <1>2, <2>1, <2>2, <2>3, <2>4, <2>5, <2>6, <2>7, <2>8, <2>9, <2>10
    DEF InnerStep
<1>3. CASE HandlerStep(t)
  BY <1>3 DEF HandlerStep, HandlerEnter, HandlerFini, HandlerReturn
<1> QED
  BY <1>1, <1>2, <1>3 DEF ThreadStep

LEMMA CreatorExitStep ==
  ASSUME TypeOK, LocationInv, CreatorInv, NEW t \in Thread, ExitStep(t)
  PROVE  CreatorInv'
<1>1. /\ mk' = mk
      /\ \A u \in Thread \ {t} : pc'[u] = pc[u] /\ phase'[u] = phase[u]
  BY ExitStepFrame DEF ExitFrame
<1>2. SUFFICES
        /\ mk[t] # NoNode =>
             pc'[t] \in {"launch", "begin"} \/ phase'[t] = "signal"
        /\ phase'[t] = "signal" => pc'[t] \in ExitLoc \cup {"raise"}
  BY <1>1 DEF CreatorInv
<1> USE DEF TypeOK, CreatorInv, At, Goto, ExitLoc, WinnerLoc, nodeVars,
        flagVars, frameVars, threadsVars
<1>3. CASE Exit(t) \/ PthreadExit(t)
  BY <1>3 DEF EnterEnd, Exit, PthreadExit
<1>4. CASE FatalSignal(t)
  BY <1>4 DEF EnterEnd, FatalSignal
<1>5. CASE EndReturn(t)
  BY <1>5 DEF EndReturn
<1>6. CASE \/ WinExit(t) \/ MarkWinner(t) \/ RepeatExit(t) \/ LoseExit(t) \/ LoserReleased(t)
           \/ Die(t)
  BY <1>6 DEF WinExit, MarkWinner, RepeatExit, LoseExit, LoserReleased, Die
<1>7. CASE WinnerStep(t)
  <2>1. ASSUME NEW n \in Pool, Visit(t, n)
        PROVE  /\ pc[t] \in ExitLoc /\ pc'[t] \in ExitLoc
               /\ phase'[t] = phase[t]
    BY <2>1 DEF Visit
  <2>2. pc[t] \in ExitLoc /\ pc'[t] \in ExitLoc /\ phase'[t] = phase[t]
    BY <1>7, <2>1 DEF WinnerStep, BeginExitReturn, SelfFiniReturn,
       FiniProcessReturn, StartFiniProcess, ShootdownLock, Acquire,
       ShootdownMark, Kill, NextPass, AllFinished, GiveUp, PassEnd, LeaveLoop
  <2> QED
    BY <2>2
<1> QED
  BY <1>3, <1>4, <1>5, <1>6, <1>7 DEF ExitStep, EnterStep, EndStep

-----------------------------------------------------------------------------
(* Who holds which node. *)

\* Steps that move no node and bring no thread to where it uses one.
QuietStep ==
    /\ UNCHANGED <<mk, linked, free, fresh>>
    /\ \A u \in Thread :
         /\ Linking(u)' => Linking(u) /\ node'[u] = node[u]
         /\ Active(u)' => Active(u) /\ node'[u] = node[u]

LEMMA QuietOwnership ==
  ASSUME OwnershipInv, QuietStep
  PROVE  OwnershipInv'
  BY DEF OwnershipInv, NodeOwnership, QuietStep

LEMMA AppStepQuiet ==
  ASSUME TypeOK, LocationInv, NEW t \in Thread, AppStep(t)
  PROVE  QuietStep
<1> USE DEF TypeOK, LocationInv, At, Goto, QuietStep, Linking, Active,
        ActiveLoc, CreateLoc, CleanupLoc, nodeVars, flagVars, frameVars
<1>1. CASE CreateBegin(t)
  BY <1>1, ThreadsAssumption DEF CreateBegin, ThreadListInit, ThreadsAssumption
<1>2. ASSUME NEW u \in Side, CreateIgnored(t, u) PROVE QuietStep
  BY <1>2, ThreadsAssumption
  DEF CreateIgnored, ThreadListInit, ThreadsAssumption, Thread
<1>3. CASE CancelInit(t)
  BY <1>3 DEF CancelInit
<1>4. CASE ThreadReturn(t)
  BY <1>4 DEF ThreadReturn
<1>5. CASE TsdReturn(t)
  BY <1>5 DEF TsdReturn
<1>6. ASSUME NEW b \in BOOLEAN, BlockShootdown(t, b) PROVE QuietStep
  BY <1>6 DEF BlockShootdown
<1> QED
  BY <1>1, <1>2, <1>3, <1>4, <1>5, <1>6 DEF AppStep

LEMMA HandlerStepQuiet ==
  ASSUME NEW t \in Thread, HandlerStep(t)
  PROVE  QuietStep
  BY DEF HandlerStep, HandlerEnter, HandlerFini, HandlerReturn, QuietStep,
     Linking, Active, nodeVars

LEMMA ExitStepQuiet ==
  ASSUME TypeOK, LocationInv, NEW t \in Thread, ExitStep(t)
  PROVE  QuietStep
  BY ExitStepFrame DEF ExitFrame, QuietStep, Linking, Active, ActiveLoc,
     CreateLoc, CleanupLoc, ExitLoc, WinnerLoc

LEMMA InnerStepOwnership ==
  ASSUME TypeOK, LocationInv, OwnershipInv, NEW t \in Thread, InnerStep(t)
  PROVE  OwnershipInv'
<1> USE DEF TypeOK, At, Goto, nodeVars
<1>1. CASE \/ MakeNodeLock(t) \/ LinkLock(t) \/ UnlinkLock(t) \/ ApplStart(t)
           \/ CleanupCheck(t) \/ CleanupFini(t) \/ CleanupFiniReturn(t)
  <2>1. QuietStep
    BY <1>1 DEF LocationInv, QuietStep, Linking, Active, ActiveLoc, CreateLoc,
       CleanupLoc, MakeNodeLock, LinkLock, UnlinkLock, Acquire, ApplStart,
       CleanupCheck, CleanupFini, CleanupFiniReturn, AfterCleanup
  <2> QED
    BY <2>1, QuietOwnership
<1>2. CASE MakeNode(t)
  BY <1>2 DEF MakeNode, OwnershipInv, NodeOwnership, Linking, Active,
     ActiveLoc, CreateLoc
<1>3. ASSUME NEW u \in Side, Launch(t, u) PROVE OwnershipInv'
  <2>1. /\ t # u /\ u \in Thread /\ mk[t] \in Pool
        /\ mk'[t] = NoNode /\ mk'[u] = mk[t]
        /\ \A v \in Thread \ {t, u} : mk'[v] = mk[v]
        /\ UNCHANGED <<node, linked, free, fresh>>
    BY <1>3 DEF Launch, LocationInv, Thread
  <2>2. \A v \in Thread : /\ Linking(v)' => Linking(v)
                          /\ Active(v)' => Active(v)
    BY <1>3 DEF Launch, Linking, Active, ActiveLoc, CreateLoc, CleanupLoc
  <2>3. NodeOwnership'
    BY <2>1 DEF OwnershipInv, NodeOwnership
  <2>4. \A v \in Thread : \E w \in Thread : mk'[v] = mk[w] \/ mk'[v] = NoNode
    BY <2>1
  <2> QED
    BY <2>1, <2>2, <2>3, <2>4, ThreadsAssumption
    DEF OwnershipInv, ThreadsAssumption
<1>4. CASE LaunchFails(t)
  <2>1. /\ mk'[t] = NoNode
        /\ \A v \in Thread \ {t} : mk'[v] = mk[v]
        /\ UNCHANGED <<node, linked, free, fresh>>
    BY <1>4 DEF LaunchFails
  <2>2. \A v \in Thread : /\ Linking(v)' => Linking(v)
                          /\ Active(v)' => Active(v)
    BY <1>4 DEF LaunchFails, Linking, Active, ActiveLoc, CreateLoc, CleanupLoc
  <2>3. NodeOwnership'
    BY <2>1 DEF OwnershipInv, NodeOwnership
  <2> QED
    BY <2>1, <2>2, <2>3, ThreadsAssumption DEF OwnershipInv, ThreadsAssumption
<1>5. CASE BeginThread(t)
  <2>1. /\ mk[t] \in Pool /\ mk'[t] = NoNode /\ node'[t] = mk[t]
        /\ \A v \in Thread \ {t} : mk'[v] = mk[v] /\ node'[v] = node[v]
        /\ UNCHANGED <<linked, free, fresh>>
    BY <1>5 DEF BeginThread, LocationInv
  <2>2. \A v \in Thread \ {t} : /\ Linking(v)' => Linking(v)
                                /\ Active(v)' => Active(v)
    BY <1>5 DEF BeginThread, Linking, Active, ActiveLoc, CreateLoc, CleanupLoc
  <2>3. ~Active(t)'
    BY <1>5 DEF BeginThread, Active, ActiveLoc, CreateLoc, CleanupLoc
  <2>4. NodeOwnership'
    BY <2>1 DEF OwnershipInv, NodeOwnership
  <2>5. mk[t] \notin free \cup fresh \cup linked /\ mk[t] # NoNode
    BY <2>1, ThreadsAssumption DEF OwnershipInv, NodeOwnership, ThreadsAssumption
  <2>6. \A v \in Thread \ {t} : mk[v] # mk[t]
    BY <2>5 DEF OwnershipInv, NodeOwnership
  <2>7. \A v \in Thread : Linking(v)' =>
         /\ node'[v] \in Pool \ (free \cup fresh \cup linked)
         /\ \A w \in Thread : mk'[w] # node'[v]
         /\ \A w \in Thread \ {v} : Linking(w)' => node'[w] # node'[v]
    <3>1. ASSUME NEW v \in Thread \ {t}, Linking(v)'
          PROVE  /\ node'[v] \in Pool \ (free \cup fresh \cup linked)
                 /\ \A w \in Thread : mk'[w] # node'[v]
                 /\ \A w \in Thread \ {v} : Linking(w)' => node'[w] # node'[v]
      BY <2>1, <2>2, <3>1, ThreadsAssumption
      DEF OwnershipInv, ThreadsAssumption
    <3>2. /\ node'[t] \in Pool \ (free \cup fresh \cup linked)
          /\ \A w \in Thread : mk'[w] # node'[t]
          /\ \A w \in Thread \ {t} : Linking(w)' => node'[w] # node'[t]
      BY <2>1, <2>2, <2>5, <2>6 DEF OwnershipInv
    <3> QED
      BY <3>1, <3>2
  <2>8. \A v \in Thread : Active(v)' =>
         /\ node'[v] \in linked
         /\ \A w \in Thread \ {v} : Active(w)' => node'[w] # node'[v]
    BY <2>1, <2>2, <2>3 DEF OwnershipInv
  <2> QED
    BY <2>1, <2>4, <2>7, <2>8 DEF OwnershipInv
<1>6. CASE LinkNode(t)
  BY <1>6 DEF LinkNode, OwnershipInv, NodeOwnership, Linking, Active,
     ActiveLoc, CreateLoc, CleanupLoc
<1>7. CASE UnlinkNode(t)
  <2>1. /\ UNCHANGED <<mk, node, fresh>>
        /\ \/ UNCHANGED <<linked, free>>
           \/ linked' = linked \ {node[t]} /\ free' = free \cup {node[t]}
    BY <1>7 DEF UnlinkNode
  <2>2. \A v \in Thread : /\ Linking(v)' => Linking(v)
                          /\ Active(v)' => Active(v) /\ v # t
    BY <1>7 DEF UnlinkNode, AfterCleanup, Linking, Active, ActiveLoc,
       CreateLoc, CleanupLoc
  <2>3. Active(t)
    BY <1>7, ThreadsAssumption DEF UnlinkNode, LocationInv, Active, ActiveLoc,
       CleanupLoc, ThreadsAssumption
  <2>4. node[t] \in linked
    BY <2>3 DEF OwnershipInv
  <2>5. NodeOwnership'
    BY <2>1, <2>4 DEF OwnershipInv, NodeOwnership
  <2>6. \A v \in Thread : Linking(v)' =>
         /\ node'[v] \in Pool \ (free' \cup fresh' \cup linked')
         /\ \A w \in Thread : mk'[w] # node'[v]
         /\ \A w \in Thread \ {v} : Linking(w)' => node'[w] # node'[v]
    BY <2>1, <2>2, <2>4 DEF OwnershipInv
  <2>7. \A v \in Thread : Active(v)' =>
         /\ node'[v] \in linked'
         /\ \A w \in Thread \ {v} : Active(w)' => node'[w] # node'[v]
    BY <2>1, <2>2, <2>3 DEF OwnershipInv
  <2> QED
    BY <2>5, <2>6, <2>7 DEF OwnershipInv
<1> QED
  BY <1>1, <1>2, <1>3, <1>4, <1>5, <1>6, <1>7 DEF InnerStep

-----------------------------------------------------------------------------
(* One winner. *)

\* A thread step takes nobody into the exit protocol.
LEMMA ThreadStepLoc ==
  ASSUME TypeOK, NEW t \in Thread, ThreadStep(t), NEW u \in Thread,
         pc'[u] \in ExitLoc
  PROVE  pc[u] = pc'[u]
<1> USE DEF TypeOK, At, Goto, ExitLoc, WinnerLoc, nodeVars, flagVars, frameVars
<1>1. CASE AppStep(t)
  BY <1>1 DEF AppStep, CreateBegin, CreateIgnored, CancelInit, ThreadReturn,
     TsdReturn, BlockShootdown
<1>2. CASE InnerStep(t)
  BY <1>2 DEF InnerStep, MakeNodeLock, LinkLock, UnlinkLock, Acquire, MakeNode,
     Launch, LaunchFails, BeginThread, LinkNode, ApplStart, CleanupCheck,
     AfterCleanup, CleanupFini, CleanupFiniReturn, UnlinkNode
<1>3. CASE HandlerStep(t)
  BY <1>3 DEF HandlerStep, HandlerEnter, HandlerFini, HandlerReturn
<1> QED
  BY <1>1, <1>2, <1>3 DEF ThreadStep

LEMMA ThreadStepFlags ==
  ASSUME NEW t \in Thread, ThreadStep(t)
  PROVE  inExitCleanup' = inExitCleanup
  BY DEF ThreadStep, AppStep, InnerStep, HandlerStep, CreateBegin,
     CreateIgnored, CancelInit, ThreadReturn, TsdReturn, BlockShootdown,
     MakeNodeLock, LinkLock, UnlinkLock, Acquire, MakeNode, Launch,
     LaunchFails, BeginThread, LinkNode, ApplStart, CleanupCheck, CleanupFini,
     CleanupFiniReturn, UnlinkNode, HandlerEnter, HandlerFini, HandlerReturn,
     flagVars

LEMMA WinnerThreadStep ==
  ASSUME TypeOK, WinnerInv, NEW t \in Thread, ThreadStep(t), UNCHANGED exitVars
  PROVE  WinnerInv'
<1>1. \A u \in Thread : pc'[u] \in ExitLoc => pc[u] = pc'[u]
  BY ThreadStepLoc
<1>2. inExitCleanup' = inExitCleanup
  BY ThreadStepFlags
<1> QED
  BY <1>1, <1>2 DEF WinnerInv, ExitLoc, WinnerLoc, exitVars

\* The winner moves on by itself: nobody else is in its callbacks.
LEMMA WinnerMoves ==
  ASSUME TypeOK, WinnerInv, NEW t \in Thread, pc[t] \in WinnerLoc,
         UNCHANGED <<cookie, winner>>,
         \A u \in Thread \ {t} : pc'[u] = pc[u],
         pc'[t] \in WinnerLoc \ {"finiProcess"} => finiProc' = "no",
         pc'[t] = "finiProcess" => finiProc' = "running"
  PROVE  WinnerInv'
<1>1. winner = t /\ cookie /\ winner' = t /\ cookie'
  BY ThreadsAssumption DEF WinnerInv, ThreadsAssumption, Thread, TypeOK
<1>2. \A u \in Thread \ {t} : pc'[u] \notin WinnerLoc
  BY <1>1 DEF WinnerInv
<1>3. t # NoThread
  BY ThreadsAssumption DEF ThreadsAssumption, Thread
<1> QED
  BY <1>1, <1>2, <1>3 DEF WinnerInv, WinnerLoc

LEMMA WinnerExitStep ==
  ASSUME TypeOK, LocationInv, WinnerInv, NEW t \in Thread, ExitStep(t)
  PROVE  WinnerInv'
<1> USE DEF TypeOK, WinnerInv, At, Goto, WinnerLoc, nodeVars, flagVars,
        frameVars, threadsVars, exitVars
<1>1. CASE Exit(t) \/ PthreadExit(t) \/ FatalSignal(t)
  BY <1>1 DEF EnterEnd, Exit, PthreadExit, FatalSignal
<1>2. CASE WinExit(t)
  BY <1>2, ThreadsAssumption DEF WinExit, ThreadsAssumption, Thread
<1>7. CASE MarkWinner(t)
  <2>1. /\ pc[t] \in WinnerLoc /\ pc'[t] = "beginExit" /\ finiProc = "no"
        /\ UNCHANGED <<cookie, winner, finiProc>>
        /\ \A u \in Thread \ {t} : pc'[u] = pc[u]
    BY <1>7 DEF MarkWinner
  <2> QED
    BY <2>1, WinnerMoves
<1>3. CASE RepeatExit(t) \/ LoseExit(t) \/ LoserReleased(t)
  BY <1>3 DEF RepeatExit, LoseExit, LoserReleased
<1>4. CASE EndReturn(t)
  BY <1>4 DEF EndReturn
<1>5. CASE Die(t)
  BY <1>5 DEF Die
<1>6. CASE WinnerStep(t)
  <2>1. /\ pc[t] \in WinnerLoc
        /\ UNCHANGED <<cookie, winner>>
        /\ pc'[t] \in WinnerLoc \ {"finiProcess"} => finiProc' = "no"
        /\ pc'[t] = "finiProcess" => finiProc' = "running"
    <3>1. CASE BeginExitReturn(t) \/ SelfFiniReturn(t) \/ FiniProcessReturn(t)
      BY <3>1 DEF BeginExitReturn, SelfFiniReturn, FiniProcessReturn,
         StartFiniProcess
    <3>2. CASE ShootdownLock(t) \/ ShootdownMark(t) \/ Kill(t) \/ NextPass(t)
      BY <3>2 DEF ShootdownLock, Acquire, ShootdownMark, Kill, NextPass, PassEnd
    <3>3. ASSUME NEW n \in Pool, Visit(t, n)
          PROVE  /\ pc[t] = "walk" /\ pc'[t] \in {"walk", "kill"}
                 /\ UNCHANGED <<cookie, winner, finiProc>>
      BY <3>3 DEF Visit
    <3>4. CASE AllFinished(t) \/ GiveUp(t)
      BY <3>4 DEF AllFinished, GiveUp, PassEnd, LeaveLoop, StartFiniProcess
    <3> QED
      BY <1>6, <3>1, <3>2, <3>3, <3>4 DEF WinnerStep
  <2>2. \A u \in Thread \ {t} : pc'[u] = pc[u]
    BY ExitStepFrame, <1>6 DEF ExitFrame, ExitStep
  <2> QED
    BY <2>1, <2>2, WinnerMoves
<1> QED
  BY <1>1, <1>2, <1>3, <1>4, <1>5, <1>6, <1>7 DEF ExitStep, EnterStep, EndStep

-----------------------------------------------------------------------------
(* The list is frozen once exit cleanup has begun. *)

\* What no step undoes on a node of the frozen list.
Kept(n) == /\ tn'[n].self = tn[n].self
           /\ tn[n].magic => tn'[n].magic
           /\ tn[n].applStarted => tn'[n].applStarted
           /\ tn[n].finiDone => tn'[n].finiDone

LEMMA KeptNode ==
  ASSUME NEW n, tn[n] \in TnRecord,
         \/ tn'[n] = tn[n]
         \/ tn'[n] = [tn[n] EXCEPT !.exitWin = TRUE]
         \/ tn'[n] = [tn[n] EXCEPT !.finiStarted = TRUE]
  PROVE  Kept(n)
<1>1. CASE tn'[n] = tn[n]
  BY <1>1 DEF Kept
<1>2. CASE tn'[n] = [tn[n] EXCEPT !.exitWin = TRUE]
  BY <1>2 DEF Kept, TnRecord
<1>3. CASE tn'[n] = [tn[n] EXCEPT !.finiStarted = TRUE]
  BY <1>3 DEF Kept, TnRecord
<1> QED
  BY <1>1, <1>2, <1>3

LEMMA FrozenThreadStep ==
  ASSUME TypeOK, LocationInv, OwnershipInv, inExitCleanup,
         NEW t \in Thread, ThreadStep(t)
  PROVE  linked' = linked /\ \A n \in linked : Kept(n)
<1>0. linked \subseteq Pool /\ MainNode \notin linked
  BY ThreadsAssumption DEF TypeOK, ThreadsAssumption
<1> USE DEF TypeOK, At, TnRecord, Node, Kept, nodeVars, frameVars
<1>1. CASE AppStep(t)
  <2>1. linked' = linked
    BY <1>1 DEF AppStep, CreateBegin, CreateIgnored, CancelInit, ThreadReturn,
       TsdReturn, BlockShootdown
  <2>2. ASSUME ThreadListInit(t) PROVE \A n \in linked : Kept(n)
    BY <1>0, <2>2 DEF ThreadListInit
  <2>3. ASSUME NEW b \in BOOLEAN, BlockShootdown(t, b)
        PROVE  \A n \in linked : Kept(n)
    BY <1>0, <2>3 DEF BlockShootdown
  <2> QED
    BY <1>1, <2>1, <2>2, <2>3 DEF AppStep, CreateBegin, CreateIgnored,
       CancelInit, ThreadReturn, TsdReturn
<1>2. CASE InnerStep(t)
  <2>1. linked' = linked
    BY <1>2 DEF InnerStep, MakeNodeLock, LinkLock, UnlinkLock, Acquire,
       MakeNode, Launch, LaunchFails, BeginThread, LinkNode, ApplStart,
       CleanupCheck, CleanupFini, CleanupFiniReturn, UnlinkNode
  <2>2. CASE MakeNode(t)
    <3>1. PICK m \in free \cup fresh : tn' = [tn EXCEPT ![m] = MagicTn]
      BY <2>2 DEF MakeNode
    <3>2. m \notin linked
      BY DEF OwnershipInv, NodeOwnership
    <3>3. \A n \in linked : tn'[n] = tn[n]
      BY <1>0, <3>1, <3>2
    <3> HIDE DEF TypeOK, TnRecord, Kept
    <3>4. \A n \in linked : tn[n] \in TnRecord
      BY <1>0 DEF TypeOK
    <3> QED
      BY <2>1, <3>3, <3>4, KeptNode
  <2>3. CASE BeginThread(t)
    <3>1. mk[t] \notin linked
      BY <1>0, ThreadsAssumption
      DEF OwnershipInv, NodeOwnership, ThreadsAssumption
    <3> QED
      BY <1>0, <2>3, <3>1 DEF BeginThread
  <2>4. CASE ApplStart(t)
    BY <1>0, <2>4 DEF ApplStart
  <2>5. CASE CleanupFini(t) \/ CleanupFiniReturn(t)
    BY <1>0, <2>5 DEF CleanupFini, StartFini, CleanupFiniReturn, EndFini
  <2>6. CASE UnlinkNode(t)
    <3>1. tn' = [tn EXCEPT ![node[t]].finiStarted = TRUE,
                           ![node[t]].finiDone = TRUE]
      BY <2>6 DEF UnlinkNode
    <3> QED
      BY <1>0, <2>1, <3>1
  <2> QED
    BY <1>2, <2>1, <2>2, <2>3, <2>4, <2>5, <2>6 DEF InnerStep, MakeNodeLock,
       LinkLock, UnlinkLock, Acquire, Launch, LaunchFails, LinkNode,
       CleanupCheck
<1>3. CASE HandlerStep(t)
  BY <1>0, <1>3 DEF HandlerStep, HandlerEnter, HandlerFini, HandlerReturn,
     StartFini, EndFini
<1> QED
  BY <1>1, <1>2, <1>3 DEF ThreadStep

LEMMA FrozenExitStep ==
  ASSUME TypeOK, LocationInv, NEW t \in Thread, ExitStep(t)
  PROVE  linked' = linked /\ \A n \in linked : Kept(n)
<1>0. linked \subseteq Node
  BY DEF TypeOK, Node
<1>1. linked' = linked
  BY ExitStepFrame DEF ExitFrame
<1> USE DEF TypeOK, TnRecord, Kept, nodeVars, threadsVars
<1>2. CASE EnterStep(t)
  BY <1>2 DEF EnterStep, Exit, PthreadExit, FatalSignal
<1>3. CASE EndStep(t)
  <2>1. CASE MarkWinner(t)
    <3>1. tn' = tn \/ tn' = [tn EXCEPT ![GetTn(t)].exitWin = TRUE]
      BY <2>1 DEF MarkWinner
    <3>2. \A n \in linked : \/ tn'[n] = tn[n]
                            \/ tn'[n] = [tn[n] EXCEPT !.exitWin = TRUE]
      BY <1>0, <3>1
    <3> HIDE DEF TypeOK, TnRecord, Kept
    <3>3. \A n \in linked : tn[n] \in TnRecord
      BY <1>0 DEF TypeOK
    <3> QED
      BY <1>1, <3>2, <3>3, KeptNode
  <2> QED
    BY <1>3, <2>1 DEF EndStep, WinExit, RepeatExit, LoseExit, LoserReleased,
       EndReturn, Die
<1>4. CASE WinnerStep(t)
  <2>1. CASE AllFinished(t) \/ GiveUp(t)
    <3>1. tn' = tn \/ tn' = [tn EXCEPT ![sd.me].finiStarted = TRUE]
      BY <2>1 DEF AllFinished, GiveUp, LeaveLoop
    <3>2. \A n \in linked : \/ tn'[n] = tn[n]
                            \/ tn'[n] = [tn[n] EXCEPT !.finiStarted = TRUE]
      BY <1>0, <3>1
    <3> HIDE DEF TypeOK, TnRecord, Kept
    <3>3. \A n \in linked : tn[n] \in TnRecord
      BY <1>0 DEF TypeOK
    <3> QED
      BY <1>1, <3>2, <3>3, KeptNode
  <2>2. CASE SelfFiniReturn(t)
    BY <1>0, <2>2 DEF SelfFiniReturn
  <2> QED
    BY <1>4, <2>1, <2>2 DEF WinnerStep, BeginExitReturn, ShootdownLock,
       Acquire, ShootdownMark, Visit, Kill, NextPass, FiniProcessReturn
<1> QED
  BY <1>1, <1>2, <1>3, <1>4 DEF ExitStep

-----------------------------------------------------------------------------
(* The walk settles every covered node. *)

\* The steps that leave the walk alone: covered nodes stay what they are.
LEMMA WalkKept ==
  ASSUME WalkInv, CoveredFinished, linked' = linked,
         inExitCleanup => inExitCleanup',
         \A n \in covered : Kept(n),
         UNCHANGED <<covered, sd, winner, timedOut, finiProc>>,
         \A u \in Thread : pc'[u] \in WinnerLoc => pc'[u] = pc[u]
  PROVE  WalkInv' /\ CoveredFinished'
<1>1. \A n \in covered : Settled(n) => Settled(n)'
  BY DEF Settled, Kept
<1>2. CoveredFinished'
  BY <1>1 DEF CoveredFinished, Settled
<1>3. \A n \in covered' : tn'[n].applStarted
  BY DEF WalkInv, Kept
<1>4. ASSUME NEW u \in Thread PROVE
         /\ pc'[u] \in {"markWin", "beginExit"} => covered' = {}
         /\ pc'[u] = "walk" => sd'.cur = NoNode
         /\ pc'[u] \in {"walk", "kill"} /\ sd'.unfinished = 0 =>
              \A n \in covered' :
                Settled(n)' \/ n = sd'.cur \/ n \in sd'.toVisit
         /\ pc'[u] = "selfCb" /\ ~timedOut' => \A n \in covered' : Settled(n)'
  BY <1>1 DEF WalkInv, WinnerLoc
<1> QED
  BY <1>2, <1>3, <1>4 DEF WalkInv

LEMMA WalkThreadStep ==
  ASSUME IInv, NEW t \in Thread, ThreadStep(t), UNCHANGED exitVars
  PROVE  WalkInv' /\ CoveredFinished'
<1> USE DEF IInv
<1>1. \A u \in Thread : pc'[u] \in WinnerLoc => pc'[u] = pc[u]
  BY ThreadStepLoc DEF ExitLoc
<1>2. inExitCleanup' = inExitCleanup
  BY ThreadStepFlags
<1>3. CASE inExitCleanup
  <2>1. linked' = linked /\ \A n \in linked : Kept(n)
    BY <1>3, FrozenThreadStep
  <2> QED
    BY <1>1, <1>2, <2>1, WalkKept DEF WalkInv, exitVars
<1>4. CASE ~inExitCleanup
  <2>1. covered = {} /\ covered' = {}
    BY <1>4 DEF WalkInv, exitVars
  <2> QED
    BY <1>1, <2>1 DEF WalkInv, CoveredFinished, exitVars, WinnerLoc
<1> QED
  BY <1>3, <1>4

\* A winner's step that ends or restarts a walk: what it must have settled.
LEMMA WalkMoves ==
  ASSUME TypeOK, WinnerInv, WalkInv, NEW t \in Thread, pc[t] \in WinnerLoc,
         \A u \in Thread \ {t} : pc'[u] = pc[u],
         linked' = linked, \A n \in linked : Kept(n),
         UNCHANGED <<winner, covered, inExitCleanup>>,
         pc'[t] \in {"markWin", "beginExit"} => covered = {},
         pc'[t] = "walk" => sd'.cur = NoNode,
         pc'[t] \in {"walk", "kill"} /\ sd'.unfinished = 0 =>
            \A n \in covered : Settled(n) \/ n = sd'.cur \/ n \in sd'.toVisit,
         pc'[t] = "selfCb" /\ ~timedOut' => \A n \in covered : Settled(n)
  PROVE  WalkInv'
<1>1. \A n \in covered : Settled(n) => Settled(n)'
  BY DEF Settled, Kept, WalkInv
<1>2. \A u \in Thread \ {t} : pc'[u] \notin WinnerLoc
  BY DEF WinnerInv
<1>3. \A n \in covered' : tn'[n].applStarted
  BY DEF WalkInv, Kept
<1>4. ASSUME NEW u \in Thread PROVE
         /\ pc'[u] \in {"markWin", "beginExit"} => covered' = {}
         /\ pc'[u] = "walk" => sd'.cur = NoNode
         /\ pc'[u] \in {"walk", "kill"} /\ sd'.unfinished = 0 =>
              \A n \in covered' :
                Settled(n)' \/ n = sd'.cur \/ n \in sd'.toVisit
         /\ pc'[u] = "selfCb" /\ ~timedOut' => \A n \in covered' : Settled(n)'
  <2>1. CASE u = t
    BY <1>1, <2>1
  <2>2. CASE u # t
    BY <1>2, <2>2 DEF WinnerLoc
  <2> QED
    BY <2>1, <2>2
<1>5. (covered' # {} => inExitCleanup') /\ covered' \subseteq linked'
  BY DEF WalkInv
<1> QED
  BY <1>3, <1>4, <1>5 DEF WalkInv

LEMMA CoveredMoves ==
  ASSUME CoveredFinished, WalkInv, linked' = linked,
         \A n \in linked : Kept(n), UNCHANGED <<winner, covered>>,
         ~timedOut' => ~timedOut,
         finiProc' # "no" /\ ~timedOut' =>
            finiProc # "no" \/ \A n \in covered : Settled(n)
  PROVE  CoveredFinished'
  BY DEF CoveredFinished, WalkInv, Settled, Kept

LEMMA WalkExitStep ==
  ASSUME IInv, NEW t \in Thread, ExitStep(t)
  PROVE  WalkInv' /\ CoveredFinished'
<1> USE DEF IInv
<1>1. linked' = linked /\ \A n \in linked : Kept(n)
  BY FrozenExitStep
<1>2. \A n \in covered : Kept(n)
  BY <1>1 DEF WalkInv
<1>3. \A u \in Thread \ {t} : pc'[u] = pc[u]
  BY ExitStepFrame DEF ExitFrame
<1> USE DEF At, Goto, nodeVars, flagVars, frameVars, threadsVars, exitVars
<1>4. CASE \/ Exit(t) \/ PthreadExit(t) \/ FatalSignal(t)
           \/ RepeatExit(t) \/ LoseExit(t) \/ LoserReleased(t)
           \/ EndReturn(t) \/ Die(t)
  <2>1. /\ inExitCleanup' = inExitCleanup
        /\ UNCHANGED <<covered, sd, winner, timedOut, finiProc>>
    BY <1>4 DEF EnterEnd, Exit, PthreadExit, FatalSignal, RepeatExit, LoseExit,
       LoserReleased, EndReturn, Die
  <2>2. pc'[t] \in WinnerLoc => pc'[t] = pc[t]
    BY <1>4 DEF TypeOK, WinnerLoc, EnterEnd, Exit, PthreadExit, FatalSignal,
       RepeatExit, LoseExit, LoserReleased, EndReturn, Die
  <2> QED
    BY <1>1, <1>2, <1>3, <2>1, <2>2, WalkKept
<1>5. CASE WinExit(t)
  <2>1. /\ inExitCleanup' = inExitCleanup /\ ~cookie
        /\ UNCHANGED <<covered, finiProc>>
    BY <1>5 DEF WinExit
  <2>2. covered' = {} /\ finiProc' = "no"
    BY <2>1 DEF WalkInv, WinnerInv
  <2>3. \A u \in Thread : pc'[u] # "walk"
    <3>1. \A u \in Thread : pc[u] # "walk"
      BY <2>1, ThreadsAssumption
      DEF WinnerInv, WinnerLoc, ThreadsAssumption, Thread
    <3> QED
      BY <1>3, <1>5, <3>1 DEF WinExit, TypeOK
  <2> QED
    BY <2>2, <2>3 DEF WalkInv, CoveredFinished
<1>6. CASE ShootdownMark(t)
  <2>1. /\ covered' = {n \in linked : tn[n].applStarted}
        /\ inExitCleanup' /\ tn' = tn /\ finiProc' = finiProc
        /\ pc'[t] = "walk" /\ sd' = NewPass
    BY <1>6 DEF ShootdownMark, TypeOK
  <2>2. winner = t /\ finiProc = "no"
    BY <1>6 DEF ShootdownMark, WinnerInv, WinnerLoc
  <2>3. sd'.cur = NoNode /\ sd'.toVisit = linked
    BY <2>1 DEF NewPass
  <2>4. \A u \in Thread \ {t} : pc'[u] \notin WinnerLoc
    BY <1>3, <2>2 DEF WinnerInv
  <2>5. WalkInv'
    BY <1>1, <2>1, <2>3, <2>4 DEF WalkInv, WinnerLoc
  <2> QED
    BY <2>1, <2>2, <2>5 DEF CoveredFinished
<1>7. ASSUME pc[t] \in WinnerLoc,
             pc'[t] \in {"markWin", "beginExit"} => covered = {},
             UNCHANGED <<winner, covered, inExitCleanup>>,
             ~timedOut' => ~timedOut,
             pc'[t] = "walk" => sd'.cur = NoNode,
             pc'[t] \in {"walk", "kill"} /\ sd'.unfinished = 0 =>
               \A n \in covered :
                 Settled(n) \/ n = sd'.cur \/ n \in sd'.toVisit,
             pc'[t] = "selfCb" /\ ~timedOut' => \A n \in covered : Settled(n),
             finiProc' # "no" /\ ~timedOut' =>
               finiProc # "no" \/ \A n \in covered : Settled(n)
      PROVE  WalkInv' /\ CoveredFinished'
  <2>1. WalkInv'
    BY <1>1, <1>3, <1>7, WalkMoves
  <2>2. CoveredFinished'
    BY <1>1, <1>7, CoveredMoves
  <2> QED
    BY <2>1, <2>2
<1> USE DEF TypeOK
<1>8. CASE BeginExitReturn(t)
  <2>1. covered = {}
    BY <1>8 DEF BeginExitReturn, WalkInv
  <2> QED
    BY <1>7, <1>8, <2>1 DEF BeginExitReturn, StartFiniProcess, WinnerLoc
<1>17. CASE MarkWinner(t)
  <2>1. covered = {}
    BY <1>17 DEF MarkWinner, WalkInv
  <2> QED
    BY <1>7, <1>17, <2>1 DEF MarkWinner, WinnerLoc
<1>9. CASE ShootdownLock(t)
  BY <1>7, <1>9 DEF ShootdownLock, Acquire, WinnerLoc
<1>10. CASE NextPass(t)
  <2>1. sd'.cur = NoNode /\ sd'.toVisit = linked
    BY <1>10 DEF NextPass, NewPass
  <2> QED
    BY <1>7, <1>10, <2>1 DEF NextPass, PassEnd, WalkInv, WinnerLoc
<1>11. CASE Kill(t)
  <2>1. sd' = [sd EXCEPT !.unstarted = sd.unstarted + 1, !.cur = NoNode,
                         !.unfinished = CountUnfinished(sd.cur)]
    BY <1>11 DEF Kill
  <2>2. /\ sd'.cur = NoNode /\ sd'.toVisit = sd.toVisit
        /\ sd'.unfinished = CountUnfinished(sd.cur)
    BY <2>1 DEF SdRecord
  <2>3. sd'.unfinished = 0 => tn[sd.cur].finiDone /\ sd.unfinished = 0
    BY <2>2 DEF CountUnfinished, SdRecord
  <2>4. sd'.unfinished = 0 =>
          \A n \in covered : Settled(n) \/ n = sd'.cur \/ n \in sd'.toVisit
    BY <1>11, <2>2, <2>3 DEF Kill, WalkInv, Settled
  <2> QED
    BY <1>7, <1>11, <2>2, <2>4 DEF Kill, WinnerLoc
<1>12. CASE AllFinished(t)
  <2>1. \A n \in covered : Settled(n)
    BY <1>12, ThreadsAssumption
    DEF AllFinished, PassEnd, WalkInv, ThreadsAssumption
  <2> QED
    BY <1>7, <1>12, <2>1
    DEF AllFinished, PassEnd, LeaveLoop, StartFiniProcess, WinnerLoc
<1>13. CASE GiveUp(t)
  BY <1>7, <1>13 DEF GiveUp, PassEnd, LeaveLoop, StartFiniProcess, WinnerLoc
<1>14. CASE SelfFiniReturn(t)
  BY <1>7, <1>14 DEF SelfFiniReturn, StartFiniProcess, WalkInv, WinnerLoc
<1>15. CASE FiniProcessReturn(t)
  BY <1>7, <1>15 DEF FiniProcessReturn, WinnerInv, WinnerLoc
<1>16. ASSUME NEW n \in Pool, Visit(t, n)
       PROVE  WalkInv' /\ CoveredFinished'
  <2> DEFINE rest == [sd EXCEPT !.toVisit = @ \ {n}]
  <2>1. /\ pc[t] = "walk" /\ pc'[t] \in {"walk", "kill"}
        /\ UNCHANGED <<winner, covered, inExitCleanup, timedOut, finiProc>>
    BY <1>16 DEF Visit
  <2>2. /\ sd.cur = NoNode
        /\ sd.unfinished = 0 =>
             \A m \in covered : Settled(m) \/ m \in sd.toVisit
    BY <2>1, ThreadsAssumption DEF WalkInv, ThreadsAssumption
  <2>3. /\ rest \in SdRecord /\ rest.cur = NoNode
        /\ rest.toVisit = sd.toVisit \ {n} /\ rest.unfinished = sd.unfinished
    BY <2>2 DEF SdRecord
  <2>4. winner = t
    BY <2>1 DEF WinnerInv, WinnerLoc
  <2>5. \/ /\ tn[n].self = t
           /\ sd' = [rest EXCEPT !.me = n] /\ pc'[t] = "walk"
        \/ /\ ~tn[n].applStarted
           /\ sd' = rest /\ pc'[t] = "walk"
        \/ /\ sd' = [rest EXCEPT !.started = rest.started + 1,
                                 !.unfinished = CountUnfinished(n)]
           /\ pc'[t] = "walk"
        \/ /\ sd' = [rest EXCEPT !.cur = n] /\ pc'[t] = "kill"
    BY <1>16 DEF Visit
  <2> HIDE DEF rest
  <2>6. /\ sd'.toVisit = sd.toVisit \ {n}
        /\ pc'[t] = "walk" => sd'.cur = NoNode
        /\ sd'.unfinished = 0 => sd.unfinished = 0
        /\ \/ n \in covered /\ sd'.unfinished = 0 => Settled(n)
           \/ sd'.cur = n
    <3>1. CASE tn[n].self = t /\ sd' = [rest EXCEPT !.me = n]
      BY <2>3, <2>4, <3>1 DEF SdRecord, Settled
    <3>2. CASE ~tn[n].applStarted /\ sd' = rest
      BY <2>3, <3>2 DEF WalkInv
    <3>3. CASE sd' = [rest EXCEPT !.started = rest.started + 1,
                                  !.unfinished = CountUnfinished(n)]
      <4>1. /\ sd'.toVisit = rest.toVisit /\ sd'.cur = rest.cur
            /\ sd'.unfinished = CountUnfinished(n)
        BY <2>3, <3>3 DEF SdRecord
      <4>2. CountUnfinished(n) = 0 => tn[n].finiDone /\ sd.unfinished = 0
        BY DEF CountUnfinished, SdRecord
      <4> QED
        BY <2>3, <4>1, <4>2 DEF Settled
    <3>4. CASE sd' = [rest EXCEPT !.cur = n] /\ pc'[t] = "kill"
      BY <2>3, <3>4 DEF SdRecord
    <3> QED
      BY <2>5, <3>1, <3>2, <3>3, <3>4
  <2>7. sd'.unfinished = 0 =>
          \A m \in covered : Settled(m) \/ m = sd'.cur \/ m \in sd'.toVisit
    BY <2>2, <2>6
  <2> QED
    BY <1>7, <2>1, <2>6, <2>7 DEF WinnerLoc
<1> QED
  BY <1>4, <1>5, <1>6, <1>8, <1>9, <1>10, <1>11, <1>12, <1>13, <1>14, <1>15,
     <1>16, <1>17 DEF ExitStep, EnterStep, EndStep, WinnerStep

-----------------------------------------------------------------------------
(* The theorems. *)

LEMMA InitIInv == Init => IInv
<1> SUFFICES ASSUME Init PROVE IInv
  OBVIOUS
<1>1. TypeOK
  BY InitTypeOK
<1>2. LocationInv
  BY ThreadsAssumption DEF Init, ThreadsInit, LocationInv, CreateLoc, BeginLoc,
     CleanupLoc, ExitLoc, WinnerLoc, Thread, ThreadsAssumption
<1>6. CreatorInv
  BY DEF Init, ThreadsInit, CreatorInv
<1>3. OwnershipInv
  BY DEF Init, ThreadsInit, OwnershipInv, NodeOwnership, Linking, Active
<1>4. WinnerInv
  BY DEF Init, ThreadsInit, ExitInit, WinnerInv, WinnerLoc
<1>5. WalkInv /\ CoveredFinished
  BY DEF Init, ThreadsInit, ExitInit, WalkInv, CoveredFinished
<1> QED
  BY <1>1, <1>2, <1>3, <1>4, <1>5, <1>6 DEF IInv

LEMMA NextIInv == IInv /\ [Next]_vars => IInv'
<1> SUFFICES ASSUME IInv, [Next]_vars PROVE IInv'
  OBVIOUS
<1> USE DEF IInv
<1>1. ASSUME NEW t \in Thread, ThreadStep(t), UNCHANGED exitVars
      PROVE  IInv'
  <2>1. TypeOK'
    BY <1>1, TypeAppStep, TypeInnerStep, TypeHandlerStep DEF ThreadStep
  <2>2. LocationInv' /\ CreatorInv'
    BY <1>1, LocationThreadStep, CreatorThreadStep
  <2>3. OwnershipInv'
    BY <1>1, AppStepQuiet, HandlerStepQuiet, QuietOwnership,
       InnerStepOwnership DEF ThreadStep
  <2>4. WinnerInv'
    BY <1>1, WinnerThreadStep
  <2>5. WalkInv' /\ CoveredFinished'
    BY <1>1, WalkThreadStep
  <2> QED
    BY <2>1, <2>2, <2>3, <2>4, <2>5
<1>2. ASSUME NEW t \in Thread, ExitStep(t)
      PROVE  IInv'
  <2>1. TypeOK'
    BY <1>2, TypeEnterStep, TypeEndStep, TypeWinnerStep DEF ExitStep
  <2>2. LocationInv' /\ CreatorInv'
    BY <1>2, LocationExitStep, CreatorExitStep
  <2>3. OwnershipInv'
    BY <1>2, ExitStepQuiet, QuietOwnership
  <2>4. WinnerInv'
    BY <1>2, WinnerExitStep
  <2>5. WalkInv' /\ CoveredFinished'
    BY <1>2, WalkExitStep
  <2> QED
    BY <2>1, <2>2, <2>3, <2>4, <2>5
<1>3. CASE UNCHANGED vars
  BY <1>3 DEF vars, threadsVars, frameVars, nodeVars, flagVars, exitVars,
     TypeOK, LocationInv, CreatorInv, OwnershipInv, NodeOwnership, Linking, Active,
     WinnerInv, WalkInv, Settled, CoveredFinished
<1> QED
  BY <1>1, <1>2, <1>3 DEF Next, Terminated

\* Every reachable state satisfies the inductive invariant: the types, who
\* owns which thread node, who has won, and what the walk has settled.
THEOREM Inductive == Spec => []IInv
<1>1. Init => IInv
  BY InitIInv
<1>2. IInv /\ [Next]_vars => IInv'
  BY NextIInv
<1> QED
  BY <1>1, <1>2, PTL DEF Spec

\* pthread.c: every variable of the thread lifecycle and of the exit protocol
\* keeps its type, for any number of threads, nodes and signals.
THEOREM TypeCorrect == Spec => []TypeOK
<1>1. IInv => TypeOK
  BY DEF IInv
<1> QED
  BY <1>1, Inductive, PTL

\* The node of a creator, the free list, the unused nodes and the thread list
\* never overlap (monitor_make_thread_node, link and unlink), however creates,
\* ends, reuse, exits and fatal signals interleave.
THEOREM NodesOwned == Spec => []NodeOwnership
<1>1. IInv => NodeOwnership
  BY DEF IInv, OwnershipInv
<1> QED
  BY <1>1, Inductive, PTL

\* monitor_thread_shootdown: a shootdown that did not give up has sent every
\* covered thread through its fini_thread callback before fini_process.
THEOREM ShootdownCovers == Spec => []CoveredFinished
<1>1. IInv => CoveredFinished
  BY DEF IInv
<1> QED
  BY <1>1, Inductive, PTL

\* The list that the shootdown walks without the lock does not change.
THEOREM ListIsFrozen == Spec => FrozenList
<1> DEFINE Frozen == inExitCleanup => /\ linked' = linked
                                      /\ \A n \in linked :
                                           tn[n].magic => tn'[n].magic
<1>1. IInv /\ [Next]_vars => [Frozen]_vars
  <2> SUFFICES ASSUME IInv, Next, inExitCleanup
               PROVE  linked' = linked /\ \A n \in linked :
                                            tn[n].magic => tn'[n].magic
    OBVIOUS
  <2> USE DEF IInv
  <2>1. ASSUME NEW t \in Thread, ThreadStep(t)
        PROVE  linked' = linked /\ \A n \in linked : Kept(n)
    BY <2>1, FrozenThreadStep
  <2>2. ASSUME NEW t \in Thread, ExitStep(t)
        PROVE  linked' = linked /\ \A n \in linked : Kept(n)
    BY <2>2, FrozenExitStep
  <2>3. CASE Terminated
    BY <2>3 DEF Terminated, vars, threadsVars, nodeVars
  <2> QED
    BY <2>1, <2>2, <2>3 DEF Next, Kept
<1> QED
  BY <1>1, Inductive, PTL DEF Spec, FrozenList

\* monitor_end_process_fcn: fini_process is started once, by the thread that
\* set the cookie, for any number of threads that call exit.
THEOREM FiniProcessOnce == Spec => OneFiniProcess
<1> DEFINE Once == \A t \in Thread :
                     pc[t] # "finiProcess" /\ pc'[t] = "finiProcess"
                     => finiProc = "no" /\ winner = t
<1>1. IInv /\ [Next]_vars => [Once]_vars
  <2> SUFFICES ASSUME IInv, Next, NEW t \in Thread,
                      pc[t] # "finiProcess", pc'[t] = "finiProcess"
               PROVE  finiProc = "no" /\ winner = t
    OBVIOUS
  <2> USE DEF IInv
  <2>1. ASSUME NEW u \in Thread, ThreadStep(u) PROVE FALSE
    BY <2>1, ThreadStepLoc DEF ExitLoc, WinnerLoc
  <2>2. ~ UNCHANGED vars
    BY DEF vars, threadsVars, frameVars
  <2>3. PICK u \in Thread : ExitStep(u)
    BY <2>1, <2>2 DEF Next, Terminated
  <2>4. u = t
    BY <2>3, ExitStepFrame DEF ExitFrame
  <2>5. pc[t] \in WinnerLoc
    <3> USE DEF TypeOK, WinnerLoc, Goto, At, nodeVars, threadsVars, frameVars
    <3>1. EnterStep(t) \/ EndStep(t) => FALSE
      BY DEF EnterStep, EnterEnd, Exit, PthreadExit, FatalSignal, EndStep,
         WinExit, MarkWinner, RepeatExit, LoseExit, LoserReleased, EndReturn, Die
    <3>2. WinnerStep(t) => pc[t] \in WinnerLoc
      BY DEF WinnerStep, BeginExitReturn, ShootdownLock, Acquire,
         ShootdownMark, Visit, Kill, NextPass, PassEnd, AllFinished, GiveUp,
         SelfFiniReturn, FiniProcessReturn
    <3> QED
      BY <2>3, <2>4, <3>1, <3>2 DEF ExitStep
  <2> QED
    BY <2>5 DEF WinnerInv
<1> QED
  BY <1>1, Inductive, PTL DEF Spec, OneFiniProcess
-----------------------------------------------------------------------------
(* No node is lost: until exit cleanup, nobody but the thread itself starts its *)
(* fini_thread, so the cleanup routine gets to the unlink.                      *)

FiniLoc == {"cleanupCb", "unlink", "unlinkLocked"}

\* Steps that bring no thread and no node to a place where KeptInv asks for more.
LEMMA KeptFrame ==
  ASSUME TypeOK, LocationInv, KeptInv, ~inExitCleanup,
         UNCHANGED <<finiThreadDone, pending, hnd>>, node'[Main] \notin Pool,
         \A u \in Thread :
            /\ pc'[u] \notin {"walk", "kill", "selfCb"}
            /\ mk'[u] \in {mk[u], NoNode}
            /\ Linking(u)' => Linking(u) /\ node'[u] = node[u]
            /\ Active(u)' => /\ Active(u) /\ node'[u] = node[u]
                             /\ pc[u] \in FiniLoc => pc'[u] \in FiniLoc
            /\ phase'[u] = "pexit" => node'[u] \notin Pool,
         \A n \in Node : /\ tn'[n].magic = tn[n].magic
                         /\ tn'[n].finiStarted = tn[n].finiStarted
  PROVE  KeptInv'
<1>1. ~finiThreadDone'
  BY DEF KeptInv
<1>2. ASSUME NEW u \in Thread
      PROVE  /\ ~pending'[u] /\ hnd'[u] = "none"
             /\ mk'[u] # NoNode => Unused(mk[u])' /\ mk'[u] = mk[u]
             /\ Linking(u)' => Unused(node[u])' /\ node'[u] = node[u]
  <2>1. ~pending'[u] /\ hnd'[u] = "none"
    BY DEF KeptInv
  <2>2. mk'[u] # NoNode => mk[u] \in Node /\ Unused(mk[u]) /\ mk'[u] = mk[u]
    BY DEF KeptInv, TypeOK, Node
  <2>3. Linking(u)' => node[u] \in Node /\ Unused(node[u]) /\ node'[u] = node[u]
    BY DEF KeptInv, LocationInv, Linking, BeginLoc, Node
  <2> QED
    BY <2>1, <2>2, <2>3 DEF Unused
<1>3. ASSUME NEW u \in Thread, Active(u)'
      PROVE  /\ tn'[node'[u]].magic
             /\ tn'[node'[u]].finiStarted => pc'[u] \in FiniLoc
  BY <1>3 DEF KeptInv, Active, TypeOK, FiniLoc
<1> QED
  BY <1>1, <1>2, <1>3 DEF KeptInv, Unused, FiniLoc

LEMMA KeptAppStep ==
  ASSUME IInv, KeptInv, ~inExitCleanup, NEW t \in Thread, AppStep(t)
  PROVE  KeptInv'
<1> USE DEF IInv, TypeOK, At, Goto, nodeVars, flagVars, frameVars
<1>1. UNCHANGED <<finiThreadDone, pending, hnd, mk, phase>>
  BY DEF AppStep, CreateBegin, CreateIgnored, CancelInit, ThreadReturn,
     TsdReturn, BlockShootdown
<1>2. \A n \in Node : /\ tn'[n].magic = tn[n].magic
                      /\ tn'[n].finiStarted = tn[n].finiStarted
  <2>1. ASSUME ThreadListInit(t)
        PROVE  tn' = tn \/ tn' = [tn EXCEPT ![MainNode].self = t]
    BY <2>1 DEF ThreadListInit
  <2>2. \/ tn' = tn
        \/ tn' = [tn EXCEPT ![MainNode].self = t]
        \/ \E b \in BOOLEAN : tn' = [tn EXCEPT ![GetTn(t)].block = b]
    BY <2>1 DEF AppStep, CreateBegin, CreateIgnored, CancelInit, ThreadReturn,
       TsdReturn, BlockShootdown
  <2> QED
    BY <2>2 DEF TnRecord
<1>3. \/ node' = node
      \/ node' = [node EXCEPT ![t] = MainNode] /\ ~hasUsedThreads
  <2>1. ASSUME ThreadListInit(t)
        PROVE  \/ node' = node
               \/ node' = [node EXCEPT ![t] = MainNode] /\ ~hasUsedThreads
    BY <2>1 DEF ThreadListInit
  <2>2. ThreadListInit(t) \/ node' = node
    BY DEF AppStep, CreateBegin, CreateIgnored, CancelInit, ThreadReturn, TsdReturn,
       BlockShootdown
  <2> QED
    BY <2>1, <2>2
<1>4. /\ node'[Main] \notin Pool
      /\ \A u \in Thread : phase'[u] = "pexit" => node'[u] \notin Pool
  BY <1>1, <1>3, ThreadsAssumption DEF KeptInv, ThreadsAssumption, Thread
<1>5. ASSUME NEW u \in Thread
      PROVE  /\ pc'[u] \notin {"walk", "kill", "selfCb"}
             /\ Linking(u)' => Linking(u) /\ node'[u] = node[u]
             /\ Active(u)' => /\ Active(u) /\ node'[u] = node[u]
                              /\ pc[u] \in FiniLoc => pc'[u] \in FiniLoc
  <2>1. QuietStep
    BY AppStepQuiet
  <2>2. /\ pc[u] \in FiniLoc => pc'[u] = pc[u]
        /\ pc'[u] \in {pc[u], "mkLock", "app", "cleanup", "gone"}
    BY DEF FiniLoc, AppStep, CreateBegin, CreateIgnored, CancelInit,
       ThreadReturn, TsdReturn, BlockShootdown
  <2> QED
    BY <2>1, <2>2 DEF QuietStep, KeptInv
<1> HIDE DEF TypeOK
<1> QED
  BY <1>1, <1>2, <1>4, <1>5, KeptFrame

\* The node of a creator, of a thread that is about to link, and of one on the list
\* are three different nodes.
LEMMA OtherNodes ==
  ASSUME TypeOK, LocationInv, OwnershipInv, NEW t \in Thread, Active(t)
  PROVE  /\ \A u \in Thread : mk[u] # node[t]
         /\ \A u \in Thread : Linking(u) => node[u] # node[t]
         /\ \A u \in Thread \ {t} : Active(u) => node[u] # node[t]
BY DEF OwnershipInv, NodeOwnership, Active, TypeOK

LEMMA KeptInnerStep ==
  ASSUME IInv, KeptInv, ~inExitCleanup, NEW t \in Thread, InnerStep(t)
  PROVE  KeptInv'
<1> USE DEF IInv
<1> DEFINE Same(n) == /\ tn'[n].magic = tn[n].magic
                      /\ tn'[n].finiStarted = tn[n].finiStarted
<1>1. CASE \/ MakeNodeLock(t) \/ LinkLock(t) \/ UnlinkLock(t) \/ ApplStart(t)
           \/ CleanupCheck(t) \/ CleanupFiniReturn(t) \/ LaunchFails(t)
  <2> USE DEF TypeOK, At, Goto, nodeVars, flagVars, frameVars
  <2>1. UNCHANGED <<finiThreadDone, pending, hnd, node>>
    BY <1>1 DEF MakeNodeLock, LinkLock, UnlinkLock, Acquire, ApplStart,
       CleanupCheck, CleanupFiniReturn, LaunchFails
  <2>2. \A n \in Node : Same(n)
    <3>1. \/ tn' = tn \/ tn' = [tn EXCEPT ![node[t]].applStarted = TRUE]
          \/ tn' = [tn EXCEPT ![node[t]].finiDone = TRUE]
      BY <1>1 DEF MakeNodeLock, LinkLock, UnlinkLock, Acquire, ApplStart, EndFini,
         CleanupCheck, CleanupFiniReturn, LaunchFails
    <3> QED
      BY <3>1 DEF TnRecord
  <2>3. \A u \in Thread : mk'[u] \in {mk[u], NoNode}
    BY <1>1 DEF MakeNodeLock, LinkLock, UnlinkLock, Acquire, ApplStart,
       CleanupCheck, CleanupFiniReturn, LaunchFails
  <2>4. ASSUME NEW u \in Thread
        PROVE  /\ pc'[u] \notin {"walk", "kill", "selfCb"}
               /\ Linking(u)' => Linking(u)
               /\ Active(u)' => /\ Active(u)
                                /\ pc[u] \in FiniLoc => pc'[u] \in FiniLoc
               /\ phase'[u] = "pexit" => phase[u] = "pexit"
    BY <1>1, <2>1 DEF KeptInv, LocationInv, FiniLoc, Linking, Active, ActiveLoc,
       CreateLoc, CleanupLoc, MakeNodeLock, LinkLock, UnlinkLock, Acquire,
       ApplStart, CleanupCheck, AfterCleanup, CleanupFiniReturn, LaunchFails
  <2>5. /\ node'[Main] \notin Pool
        /\ \A u \in Thread : phase'[u] = "pexit" => node'[u] \notin Pool
    BY <2>1, <2>4 DEF KeptInv
  <2> HIDE DEF TypeOK
  <2> QED
    BY <2>1, <2>2, <2>3, <2>4, <2>5, KeptFrame
<1>2. CASE MakeNode(t)
  <2>1. PICK n \in free \cup fresh : /\ tn' = [tn EXCEPT ![n] = MagicTn]
                                     /\ mk' = [mk EXCEPT ![t] = n]
    BY <1>2 DEF MakeNode
  <2>2. /\ UNCHANGED <<finiThreadDone, pending, hnd, node, phase>>
        /\ pc' = [pc EXCEPT ![t] = "launch"] /\ pc[t] = "mkLocked"
    BY <1>2 DEF MakeNode, At, Goto, flagVars
  <2>3. n \in Node /\ Unused(n)'
    BY <2>1 DEF TypeOK, Node, Unused, MagicTn, ClearTn
  <2>4. \A u \in Thread : /\ mk[u] # n
                          /\ Linking(u) => node[u] # n
                          /\ Active(u) => node[u] # n
    BY <2>1, ThreadsAssumption DEF OwnershipInv, NodeOwnership, TypeOK, ThreadsAssumption
  <2>5. \A u \in Thread : /\ Linking(u)' => Linking(u)
                          /\ Active(u)' => Active(u)
                          /\ pc'[u] \in {pc[u], "launch"}
                          /\ pc'[u] = pc[u] \/ pc[u] \notin FiniLoc
    BY <2>2 DEF TypeOK, Linking, Active, ActiveLoc, CreateLoc, FiniLoc
  <2>6. \A m : m # n => tn'[m] = tn[m]
    BY <2>1 DEF TypeOK
  <2> QED
    BY <2>1, <2>2, <2>3, <2>4, <2>5, <2>6 DEF KeptInv, Unused, TypeOK, FiniLoc
<1>3. ASSUME NEW u \in Side, Launch(t, u) PROVE KeptInv'
  <2>1. /\ t # u /\ u \in Thread /\ mk' = [mk EXCEPT ![t] = NoNode, ![u] = mk[t]]
        /\ pc' = [pc EXCEPT ![t] = "app", ![u] = "begin"]
        /\ UNCHANGED <<finiThreadDone, pending, hnd, node, phase, tn>>
        /\ pc[t] = "launch"
    BY <1>3 DEF Launch, At, flagVars, Thread
  <2>2. \A v \in Thread : /\ Linking(v)' => Linking(v)
                          /\ Active(v)' => Active(v)
                          /\ pc'[v] = pc[v] \/ pc'[v] \in {"app", "begin"}
                          /\ pc'[v] = pc[v] \/ pc[v] \notin FiniLoc \/ ~Active(v)'
    BY <2>1 DEF TypeOK, Linking, Active, ActiveLoc, CreateLoc, FiniLoc, CleanupLoc
  <2>3. \A v \in Thread : mk'[v] # NoNode => \E w \in Thread : mk'[v] = mk[w]
    BY <2>1 DEF TypeOK
  <2> QED
    BY <2>1, <2>2, <2>3 DEF KeptInv, Unused, FiniLoc
<1>4. CASE BeginThread(t)
  <2>1. /\ node' = [node EXCEPT ![t] = mk[t]] /\ mk' = [mk EXCEPT ![t] = NoNode]
        /\ tn' = [tn EXCEPT ![mk[t]].self = t]
        /\ pc' = [pc EXCEPT ![t] = "link"] /\ pc[t] = "begin"
        /\ UNCHANGED <<finiThreadDone, pending, hnd, phase>>
    BY <1>4 DEF BeginThread, At, Goto, flagVars
  <2>2. mk[t] \in Node /\ mk[t] # NoNode /\ t # Main /\ phase[t] = "run"
    BY <2>1, ThreadsAssumption
    DEF LocationInv, BeginLoc, Node, ThreadsAssumption
  <2>3. \A n \in Node : Same(n)
    BY <2>1 DEF TypeOK, TnRecord
  <2>4. \A u \in Thread \ {t} :
          /\ pc'[u] = pc[u] /\ node'[u] = node[u] /\ mk'[u] = mk[u]
          /\ Linking(u)' <=> Linking(u)
          /\ Active(u)' <=> Active(u)
    BY <2>1 DEF TypeOK, Linking, Active
  <2>5. ~Active(t)' /\ mk'[t] = NoNode /\ node'[t] = mk[t] /\ pc'[t] = "link"
    BY <2>1 DEF TypeOK, Active, ActiveLoc, CreateLoc, CleanupLoc
  <2>6. \A u \in Thread : /\ mk[u] # NoNode => mk[u] \in Node
                          /\ Linking(u) => node[u] \in Node
                          /\ Active(u) => node[u] \in Node
    BY DEF TypeOK, LocationInv, Linking, Active, BeginLoc, Node
  <2>7. node'[Main] \notin Pool
    BY <2>2, <2>4 DEF KeptInv, Thread
  <2>8. ASSUME NEW u \in Thread \ {t}
        PROVE  /\ ~pending'[u] /\ hnd'[u] = "none"
               /\ pc'[u] \notin {"walk", "kill", "selfCb"}
               /\ mk'[u] # NoNode => Unused(mk[u])'
               /\ Linking(u)' => Unused(node[u])'
               /\ Active(u)' => /\ tn'[node'[u]].magic
                                /\ tn'[node'[u]].finiStarted => pc'[u] \in FiniLoc
               /\ phase'[u] = "pexit" => node'[u] \notin Pool
    BY <2>1, <2>3, <2>4, <2>6 DEF KeptInv, Unused, FiniLoc
  <2>9. /\ ~pending'[t] /\ hnd'[t] = "none" /\ Unused(node[t])'
        /\ phase'[t] # "pexit"
    BY <2>1, <2>2, <2>3, <2>5 DEF KeptInv, Unused
  <2> QED
    BY <2>1, <2>5, <2>7, <2>8, <2>9 DEF KeptInv, FiniLoc
<1>5. CASE LinkNode(t)
  <2>1. /\ pc[t] = "linkLocked" /\ pc' = [pc EXCEPT ![t] = "init"]
        /\ UNCHANGED <<finiThreadDone, pending, hnd, phase, node, mk, tn>>
    BY <1>5 DEF LinkNode, At, Goto, flagVars
  <2>2. Linking(t) /\ pc'[t] = "init" /\ node[t] \in Node
    BY <2>1 DEF Linking, TypeOK, LocationInv, BeginLoc, Node
  <2>3. \A u \in Thread \ {t} : /\ pc'[u] = pc[u]
                                /\ Linking(u)' <=> Linking(u)
                                /\ Active(u)' <=> Active(u)
    BY <2>1 DEF TypeOK, Linking, Active
  <2>4. ~Linking(t)'
    BY <2>2 DEF Linking
  <2> QED
    BY <2>1, <2>2, <2>3, <2>4 DEF KeptInv, Unused
<1>6. CASE CleanupFini(t)
  <2>1. /\ pc[t] = "cleanupFini" /\ pc' = [pc EXCEPT ![t] = "cleanupCb"]
        /\ UNCHANGED <<finiThreadDone, pending, hnd, phase, node, mk>>
        /\ tn' = [tn EXCEPT ![node[t]].finiStarted = TRUE]
    BY <1>6 DEF CleanupFini, StartFini, At, Goto, flagVars
  <2>2. Active(t) /\ Active(t)' /\ node[t] \in Node /\ pc'[t] = "cleanupCb"
    BY <2>1, ThreadsAssumption
    DEF TypeOK, LocationInv, CleanupLoc, Active, ActiveLoc, Node, ThreadsAssumption
  <2>3. \A u \in Thread \ {t} : /\ pc'[u] = pc[u]
                                /\ Linking(u)' <=> Linking(u)
                                /\ Active(u)' <=> Active(u)
    BY <2>1 DEF TypeOK, Linking, Active
  <2>4. ~Linking(t)'
    BY <2>2 DEF Linking
  <2>5. \A n : n # node[t] => tn'[n] = tn[n]
    BY <2>1 DEF TypeOK
  <2>6. tn'[node[t]].magic = tn[node[t]].magic
    BY <2>1, <2>2 DEF TypeOK, TnRecord
  <2> QED
    BY <2>1, <2>2, <2>3, <2>4, <2>5, <2>6, OtherNodes DEF KeptInv, Unused
<1>7. CASE UnlinkNode(t)
  <2>1. /\ pc[t] = "unlinkLocked" /\ pc' \in {[pc EXCEPT ![t] = "app"], [pc EXCEPT ![t] = "gone"]}
        /\ UNCHANGED <<finiThreadDone, pending, hnd, node, mk>>
        /\ pc'[t] = "gone" \/ phase'[t] = "tsd"
        /\ phase' \in {phase, [phase EXCEPT ![t] = "tsd"]}
        /\ tn' = [tn EXCEPT ![node[t]] = ZeroTn]
    BY <1>7 DEF UnlinkNode, AfterCleanup, At, Goto, flagVars, TypeOK
  <2>2. Active(t) /\ phase[t] = "run"
    BY <2>1, ThreadsAssumption
    DEF TypeOK, LocationInv, CleanupLoc, Active, ActiveLoc, Node, ThreadsAssumption
  <2>3. \A u \in Thread \ {t} : /\ pc'[u] = pc[u] /\ phase'[u] = phase[u]
                                /\ Linking(u)' <=> Linking(u)
                                /\ Active(u)' <=> Active(u)
    BY <2>1 DEF TypeOK, Linking, Active
  <2>4. /\ ~Linking(t)' /\ ~Active(t)' /\ phase'[t] # "pexit"
        /\ pc'[t] \in {"app", "gone"}
    BY <2>1, <2>2 DEF TypeOK, Linking, Active, ActiveLoc, CreateLoc, CleanupLoc
  <2>5. \A n : n # node[t] => tn'[n] = tn[n]
    BY <2>1 DEF TypeOK
  <2> QED
    BY <2>1, <2>2, <2>3, <2>4, <2>5, OtherNodes DEF KeptInv, Unused
<1> QED
  BY <1>1, <1>2, <1>3, <1>4, <1>5, <1>6, <1>7 DEF InnerStep

LEMMA KeptExitStep ==
  ASSUME IInv, KeptInv, ~inExitCleanup, NEW t \in Thread, ExitStep(t)
  PROVE  KeptInv'
<1> USE DEF IInv
<1>1. CASE ShootdownMark(t)
  BY <1>1 DEF ShootdownMark, KeptInv
<1>2. ~Kill(t) /\ ~NextPass(t) /\ ~AllFinished(t) /\ ~GiveUp(t) /\ ~SelfFiniReturn(t)
      /\ \A n \in Pool : ~Visit(t, n)
  BY DEF KeptInv, Kill, NextPass, AllFinished, GiveUp, PassEnd, SelfFiniReturn,
     Visit, At
<1>3. CASE \/ EnterStep(t) \/ EndStep(t) \/ BeginExitReturn(t) \/ ShootdownLock(t)
           \/ FiniProcessReturn(t)
  <2>1. UNCHANGED <<finiThreadDone, pending, node>>
    BY <1>3 DEF EnterStep, Exit, PthreadExit, FatalSignal, EnterEnd, EndStep, WinExit,
       MarkWinner, RepeatExit, LoseExit, LoserReleased, EndReturn, Die,
       BeginExitReturn, ShootdownLock, Acquire, FiniProcessReturn, flagVars,
       nodeVars, threadsVars, frameVars
  <2>2. hnd' = hnd
    <3>1. hnd' = hnd \/ hnd' = [hnd EXCEPT ![t] = "none"]
      BY <1>3 DEF EnterStep, Exit, PthreadExit, FatalSignal, EnterEnd, EndStep,
         WinExit, MarkWinner, RepeatExit, LoseExit, LoserReleased, EndReturn, Die,
         BeginExitReturn, ShootdownLock, Acquire, FiniProcessReturn, threadsVars,
         frameVars
    <3> QED
      BY <3>1 DEF KeptInv, TypeOK
  <2>3. \A n \in Node : /\ tn'[n].magic = tn[n].magic
                        /\ tn'[n].finiStarted = tn[n].finiStarted
    <3>1. tn' = tn \/ tn' = [tn EXCEPT ![GetTn(t)].exitWin = TRUE]
      BY <1>3 DEF EnterStep, Exit, PthreadExit, FatalSignal, EnterEnd, EndStep,
         WinExit, MarkWinner, RepeatExit, LoseExit, LoserReleased, EndReturn, Die,
         BeginExitReturn, ShootdownLock, Acquire, FiniProcessReturn, nodeVars,
         threadsVars
    <3> QED
      BY <3>1 DEF TypeOK, TnRecord
  <2>4. QuietStep
    BY ExitStepQuiet
  <2>5. ExitFrame(t)
    BY ExitStepFrame
  <2>6. /\ pc'[t] \notin {"walk", "kill", "selfCb"} \cup FiniLoc
        /\ pc'[t] \in ExitLoc \cup {"app", "raise", "gone"}
    <3>1. pc'[t] \in {pc[t], "endProcess", "markWin", "beginExit", "endReturn",
                      "loser", "raise", "gone", "app", "sdLock", "sdLocked",
                      "finiProcess"}
      BY <1>3 DEF TypeOK, At, Goto, EnterStep, Exit, PthreadExit, FatalSignal, EnterEnd,
         EndStep, WinExit, MarkWinner, RepeatExit, LoseExit, LoserReleased, EndReturn,
         Die, BeginExitReturn, StartFiniProcess, ShootdownLock, Acquire,
         FiniProcessReturn, threadsVars, frameVars
    <3> QED
      BY <2>5, <3>1 DEF ExitFrame, KeptInv, FiniLoc, ExitLoc, WinnerLoc
  <2>7. ~Active(t)'
    BY <2>5 DEF ExitFrame, Active, ActiveLoc, ExitLoc, WinnerLoc, CreateLoc, CleanupLoc
  <2>8. phase'[t] = "pexit" => node[t] \notin Pool
    <3>1. phase'[t] = "pexit" => phase[t] = "pexit" \/ PthreadExit(t)
      BY <1>3 DEF TypeOK, At, Goto, EnterStep, Exit, PthreadExit, FatalSignal, EnterEnd,
         EndStep, WinExit, MarkWinner, RepeatExit, LoseExit, LoserReleased, EndReturn,
         Die, BeginExitReturn, StartFiniProcess, ShootdownLock, Acquire,
         FiniProcessReturn, threadsVars, frameVars
    <3>2. ASSUME PthreadExit(t), node[t] \in Pool PROVE FALSE
      <4>1. pc[t] = "app" /\ phase[t] = "run" /\ GetTn(t) \in {MainNode, NoNode}
        BY <3>2 DEF PthreadExit, At
      <4>2. t \in Side
        BY <3>2 DEF KeptInv, Thread
      <4>3. Active(t) /\ hasUsedThreads
        BY <3>2, <4>1, <4>2, ThreadsAssumption
        DEF Active, ActiveLoc, LocationInv, ThreadsAssumption
      <4>4. tn[node[t]].magic
        BY <4>3 DEF KeptInv
      <4> QED
        BY <3>2, <4>1, <4>3, <4>4, ThreadsAssumption DEF GetTn, ThreadsAssumption
    <3> QED
      BY <3>1, <3>2 DEF KeptInv
  <2>9. ASSUME NEW u \in Thread
        PROVE  /\ pc'[u] \notin {"walk", "kill", "selfCb"}
               /\ mk'[u] \in {mk[u], NoNode}
               /\ Linking(u)' => Linking(u) /\ node'[u] = node[u]
               /\ Active(u)' => /\ Active(u) /\ node'[u] = node[u]
                                /\ pc[u] \in FiniLoc => pc'[u] \in FiniLoc
               /\ phase'[u] = "pexit" => node'[u] \notin Pool
    <3>1. CASE u = t
      BY <2>1, <2>4, <2>6, <2>7, <2>8, <3>1 DEF QuietStep
    <3>2. CASE u # t
      BY <2>1, <2>4, <2>5, <3>2 DEF QuietStep, ExitFrame, KeptInv
    <3> QED
      BY <3>1, <3>2
  <2>10. node'[Main] \notin Pool
    BY <2>1 DEF KeptInv
  <2> QED
    BY <2>1, <2>2, <2>3, <2>9, <2>10, KeptFrame
<1> QED
  BY <1>1, <1>2, <1>3 DEF ExitStep, WinnerStep

LEMMA ExitStepCleanup ==
  ASSUME NEW t \in Thread, ExitStep(t)
  PROVE  inExitCleanup => inExitCleanup'
BY DEF ExitStep, EnterStep, Exit, PthreadExit, FatalSignal, EndStep, WinExit,
   MarkWinner, RepeatExit, LoseExit, LoserReleased, EndReturn, Die, WinnerStep,
   BeginExitReturn, ShootdownLock, Acquire, ShootdownMark, Visit, Kill, NextPass,
   AllFinished, GiveUp, LeaveLoop, SelfFiniReturn, FiniProcessReturn, threadsVars,
   flagVars

\* Until exit cleanup begins, the nodes that somebody will link or unlink are what
\* monitor_link_thread_node and the cleanup routine expect.
THEOREM NodesExpected == Spec => []KeptInv
<1>1. Init => KeptInv
  BY ThreadsAssumption
  DEF Init, ThreadsInit, KeptInv, Linking, Active, Thread, ThreadsAssumption
<1>2. IInv /\ KeptInv /\ [Next]_vars => KeptInv'
  <2> SUFFICES ASSUME IInv, KeptInv, [Next]_vars PROVE KeptInv'
    OBVIOUS
  <2>1. ASSUME NEW t \in Thread, ThreadStep(t) PROVE KeptInv'
    <3>1. CASE inExitCleanup
      BY <2>1, <3>1, ThreadStepFlags DEF KeptInv
    <3>2. CASE ~inExitCleanup
      <4>1. ~HandlerStep(t)
        BY <3>2 DEF KeptInv, HandlerStep, HandlerEnter, HandlerFini, HandlerReturn
      <4> QED
        BY <2>1, <3>2, <4>1, KeptAppStep, KeptInnerStep DEF ThreadStep
    <3> QED
      BY <3>1, <3>2
  <2>2. ASSUME NEW t \in Thread, ExitStep(t) PROVE KeptInv'
    <3>1. inExitCleanup => inExitCleanup'
      BY <2>2, ExitStepCleanup
    <3> QED
      BY <2>2, <3>1, KeptExitStep DEF KeptInv
  <2>3. CASE UNCHANGED vars
    BY <2>3 DEF vars, threadsVars, frameVars, nodeVars, flagVars, KeptInv, Unused,
       Linking, Active
  <2> QED
    BY <2>1, <2>2, <2>3 DEF Next, Terminated
<1> QED
  BY <1>1, <1>2, Inductive, PTL DEF Spec

\* What may become of a node that somebody holds.
NodeKept(n) ==
    Held(n) => \/ Held(n)'
               \/ inExitCleanup
               \/ \E t \in Thread :
                    \/ pc[t] = "launch" /\ mk[t] = n /\ pc'[t] = "app"
                    \/ /\ pc[t] = "cleanup" /\ node[t] = n
                       /\ ~tn[n].applStarted \/ tn[n].block

\* Steps that hand no node on: a thread that ends has none.
LEMMA QuietKept ==
  ASSUME TypeOK, UNCHANGED <<mk, free, fresh>>, NEW n \in Pool,
         \A u \in Thread : node[u] = n /\ Alive(u) /\ phase[u] # "tsd" =>
            node'[u] = n /\ Alive(u)' /\ phase'[u] # "tsd"
  PROVE  NodeKept(n)
BY DEF NodeKept, Held

LEMMA KeptThread ==
  ASSUME IInv, KeptInv, ~inExitCleanup, NEW t \in Thread, ThreadStep(t), NEW n \in Pool
  PROVE  NodeKept(n)
<1>0. n # NoNode
  BY ThreadsAssumption DEF ThreadsAssumption
<1> USE DEF IInv, TypeOK, At, Goto, nodeVars, flagVars, frameVars
<1>1. CASE AppStep(t)
  <2>1. UNCHANGED <<mk, free, fresh, phase>>
    BY <1>1 DEF AppStep, CreateBegin, CreateIgnored, CancelInit, ThreadReturn,
       TsdReturn, BlockShootdown
  <2>2. \A u \in Thread : node[u] = n => node'[u] = n
    <3>1. ASSUME ThreadListInit(t), pc[t] = "app"
          PROVE  \/ node' = node
                 \/ node' = [node EXCEPT ![t] = MainNode] /\ t = Main
      BY <3>1 DEF ThreadListInit, LocationInv, Thread
    <3>2. \/ ThreadListInit(t) /\ pc[t] = "app"
          \/ node' = node
      BY <1>1 DEF AppStep, CreateBegin, CreateIgnored, CancelInit, ThreadReturn,
         TsdReturn, BlockShootdown
    <3> QED
      BY <3>1, <3>2 DEF KeptInv
  <2>3. \A u \in Thread : Alive(u) /\ node[u] = n /\ phase[u] # "tsd" => Alive(u)'
    BY <1>0, <1>1 DEF Alive, AppStep, CreateBegin, CreateIgnored, CancelInit,
       ThreadReturn, TsdReturn, BlockShootdown
  <2> QED
    BY <2>1, <2>2, <2>3, QuietKept
<1>2. CASE InnerStep(t)
  <2>1. CASE \/ MakeNodeLock(t) \/ LinkLock(t) \/ LinkNode(t) \/ UnlinkLock(t)
             \/ ApplStart(t) \/ CleanupFini(t) \/ CleanupFiniReturn(t)
    <3>1. UNCHANGED <<mk, free, fresh, phase, node>>
      BY <2>1 DEF MakeNodeLock, LinkLock, LinkNode, UnlinkLock, Acquire, ApplStart,
         CleanupFini, CleanupFiniReturn
    <3>2. \A u \in Thread : Alive(u) => Alive(u)'
      BY <2>1 DEF Alive, MakeNodeLock, LinkLock, LinkNode, UnlinkLock, Acquire,
         ApplStart, CleanupFini, CleanupFiniReturn
    <3> QED
      BY <3>1, <3>2, QuietKept
  <2>2. CASE CleanupCheck(t)
    <3>1. /\ pc[t] = "cleanup" /\ UNCHANGED <<mk, free, fresh, node>>
          /\ \A u \in Thread \ {t} : pc'[u] = pc[u] /\ phase'[u] = phase[u]
      BY <2>2 DEF CleanupCheck, AfterCleanup
    <3>2. CASE FiniDue(node[t])
      BY <2>2, <3>1, <3>2, QuietKept DEF CleanupCheck, Alive
    <3>3. CASE ~FiniDue(node[t])
      <4>1. Active(t)
        BY <3>1, ThreadsAssumption
        DEF LocationInv, CleanupLoc, Active, ActiveLoc, ThreadsAssumption
      <4>2. ~tn[node[t]].applStarted \/ tn[node[t]].block
        BY <3>1, <3>3, <4>1 DEF FiniDue, KeptInv
      <4>3. CASE node[t] = n
        BY <3>1, <4>2, <4>3 DEF NodeKept
      <4>4. CASE node[t] # n
        BY <3>1, <4>4, QuietKept DEF Alive
      <4> QED
        BY <4>3, <4>4
    <3> QED
      BY <3>2, <3>3
  <2>3. CASE MakeNode(t)
    <3>1. PICK m \in free \cup fresh :
            /\ free' = free \ {m} /\ fresh' = fresh \ {m}
            /\ mk' = [mk EXCEPT ![t] = m]
      BY <2>3 DEF MakeNode
    <3>2. mk[t] = NoNode
      BY <2>3 DEF MakeNode, CreatorInv, ExitLoc, WinnerLoc
    <3>3. UNCHANGED <<node, phase>> /\ pc' = [pc EXCEPT ![t] = "launch"]
      BY <2>3 DEF MakeNode
    <3> QED
      BY <1>0, <3>1, <3>2, <3>3 DEF NodeKept, Held, Alive
  <2>4. ASSUME NEW u \in Side, Launch(t, u) PROVE NodeKept(n)
    <3>1. /\ u \in Thread /\ u # t /\ mk[u] = NoNode
          /\ mk' = [mk EXCEPT ![t] = NoNode, ![u] = mk[t]]
          /\ pc' = [pc EXCEPT ![t] = "app", ![u] = "begin"]
          /\ UNCHANGED <<node, free, fresh, phase>>
      BY <2>4 DEF Launch, CreatorInv, ExitLoc, WinnerLoc, Thread
    <3> QED
      BY <1>0, <3>1 DEF NodeKept, Held, Alive
  <2>5. CASE LaunchFails(t)
    BY <1>0, <2>5 DEF LaunchFails, NodeKept, Held, Alive
  <2>6. CASE BeginThread(t)
    <3>1. /\ pc[t] = "begin" /\ node' = [node EXCEPT ![t] = mk[t]]
          /\ mk' = [mk EXCEPT ![t] = NoNode]
          /\ pc' = [pc EXCEPT ![t] = "link"]
          /\ UNCHANGED <<free, fresh, phase>> /\ phase[t] = "run" /\ node[t] = NoNode
      BY <2>6 DEF BeginThread, LocationInv, BeginLoc
    <3> QED
      BY <1>0, <3>1 DEF NodeKept, Held, Alive
  <2>7. CASE UnlinkNode(t)
    <3>1. /\ pc[t] = "unlinkLocked" /\ UNCHANGED <<node, mk, fresh>>
          /\ free' = free \cup {node[t]}
          /\ \A u \in Thread \ {t} : pc'[u] = pc[u] /\ phase'[u] = phase[u]
      BY <2>7 DEF UnlinkNode, AfterCleanup
    <3> QED
      BY <3>1 DEF NodeKept, Held, Alive
  <2> QED
    BY <1>2, <2>1, <2>2, <2>3, <2>4, <2>5, <2>6, <2>7 DEF InnerStep
<1>3. ~HandlerStep(t)
  BY DEF KeptInv, HandlerStep, HandlerEnter, HandlerFini, HandlerReturn
<1> QED
  BY <1>1, <1>2, <1>3 DEF ThreadStep

\* The one exit step that ends a thread is pthread_exit of one without a list node.
LEMMA KeptExit ==
  ASSUME IInv, KeptInv, ~inExitCleanup, NEW t \in Thread, ExitStep(t), NEW n \in Pool
  PROVE  NodeKept(n)
<1> USE DEF IInv
<1>1. ExitFrame(t)
  BY ExitStepFrame
<1>2. phase[t] # "tsd" => phase'[t] # "tsd"
  BY DEF TypeOK, At, Goto, ExitStep, EnterStep, Exit, PthreadExit, FatalSignal,
     EnterEnd, EndStep, WinExit, MarkWinner, RepeatExit, LoseExit, LoserReleased,
     EndReturn, Die, WinnerStep, BeginExitReturn, StartFiniProcess, ShootdownLock,
     Acquire, ShootdownMark, Visit, Kill, NextPass, AllFinished, GiveUp, LeaveLoop,
     SelfFiniReturn, FiniProcessReturn, threadsVars, frameVars
<1>3. node[t] = n /\ pc[t] # "gone" => pc'[t] # "gone"
  <2>1. ASSUME pc'[t] = "gone", pc[t] # "gone" PROVE phase[t] = "pexit"
    BY <2>1 DEF TypeOK, At, Goto, ExitStep, EnterStep, Exit, PthreadExit, FatalSignal,
       EnterEnd, EndStep, WinExit, MarkWinner, RepeatExit, LoseExit, LoserReleased,
       EndReturn, Die, WinnerStep, BeginExitReturn, StartFiniProcess, ShootdownLock,
       Acquire, ShootdownMark, Visit, Kill, NextPass, AllFinished, GiveUp, PassEnd,
       LeaveLoop, SelfFiniReturn, FiniProcessReturn, threadsVars, frameVars
  <2> QED
    BY <2>1 DEF KeptInv
<1>4. ASSUME NEW u \in Thread, node[u] = n, Alive(u), phase[u] # "tsd"
      PROVE  node'[u] = n /\ Alive(u)' /\ phase'[u] # "tsd"
  <2>1. CASE u = t
    <3>1. pc[t] # "gone"
      BY <1>4, <2>1 DEF Alive
    <3> QED
      BY <1>1, <1>2, <1>3, <1>4, <2>1, <3>1 DEF ExitFrame, Alive, ExitLoc, WinnerLoc
  <2>2. CASE u # t
    BY <1>1, <1>4, <2>2 DEF ExitFrame, Alive
  <2> QED
    BY <2>1, <2>2
<1>5. UNCHANGED <<mk, free, fresh>>
  BY <1>1 DEF ExitFrame
<1> QED
  BY <1>4, <1>5, QuietKept

\* monitor_make_thread_node, link and unlink: before exit cleanup begins, a node is
\* lost only with a pthread_create that fails, or by a cleanup routine that returns
\* before the unlink because the application routine never started or the client
\* blocks the shootdown, and leaves the node on the list.
THEOREM NoNodeLost == Spec => NodesKept
<1> DEFINE Keeps ==
      \A n \in Pool : Held(n) /\ ~Held(n)' =>
         \/ inExitCleanup
         \/ \E t \in Thread :
              \/ pc[t] = "launch" /\ mk[t] = n /\ pc'[t] = "app"
              \/ /\ pc[t] = "cleanup" /\ node[t] = n
                 /\ ~tn[n].applStarted \/ tn[n].block
<1>1. IInv /\ KeptInv /\ [Next]_vars => [Keeps]_vars
  <2> SUFFICES ASSUME IInv, KeptInv, Next, ~inExitCleanup, NEW n \in Pool
               PROVE  NodeKept(n)
    BY DEF NodeKept
  <2>1. ASSUME NEW t \in Thread, ThreadStep(t) PROVE NodeKept(n)
    BY <2>1, KeptThread
  <2>2. ASSUME NEW t \in Thread, ExitStep(t) PROVE NodeKept(n)
    BY <2>2, KeptExit
  <2>3. CASE Terminated
    BY <2>3 DEF Terminated, vars, threadsVars, nodeVars, frameVars, NodeKept,
       Held, Alive
  <2> QED
    BY <2>1, <2>2, <2>3 DEF Next
<1> QED
  BY <1>1, Inductive, NodesExpected, PTL DEF Spec, NodesKept
-----------------------------------------------------------------------------
(* Who holds the lock. *)

\* Steps of t that leave the lock alone keep t out of the places that hold it.
LEMMA LockKept ==
  ASSUME TypeOK, LockHeld, NEW t \in Thread, lock' = lock,
         \A u \in Thread \ {t} : pc'[u] \in LockLoc => pc[u] = pc'[u],
         \A u \in Thread \ {t} : pc[u] \in LockLoc => pc[u] = pc'[u],
         \A u \in Thread \ {t} : phase'[u] = phase[u],
         pc'[t] \notin LockLoc,
         pc[t] \in LockLoc => phase'[t] = "signal",
         phase[t] = "signal" => phase'[t] = "signal"
  PROVE  LockHeld'
BY DEF LockHeld, TypeOK

LEMMA LockAcquired ==
  ASSUME TypeOK, LockHeld, NEW t \in Thread, NEW from, NEW to \in LockLoc,
         Acquire(t, from, to)
  PROVE  LockHeld'
BY ThreadsAssumption DEF LockHeld, TypeOK, Acquire, Goto, Thread, ThreadsAssumption

\* The steps that release: t is at such a place, and nobody else is.
LEMMA LockReleased ==
  ASSUME TypeOK, LockHeld, NEW t \in Thread, pc[t] \in LockLoc,
         lock' = NoThread, pc'[t] \notin LockLoc,
         \A u \in Thread \ {t} : pc'[u] = pc[u]
  PROVE  LockHeld'
BY DEF LockHeld, TypeOK

LEMMA LockThreadStep ==
  ASSUME TypeOK, CreatorInv, LockHeld, NEW t \in Thread, ThreadStep(t)
  PROVE  LockHeld'
<1> USE DEF TypeOK, At, Goto, nodeVars, flagVars, frameVars
<1>1. CASE AppStep(t)
  <2>1. ASSUME NEW u \in Side, CreateIgnored(t, u) PROVE LockHeld'
    <3>1. /\ u \in Thread /\ lock' = lock /\ phase' = phase
          /\ \A v \in Thread \ {u} : pc'[v] = pc[v]
          /\ pc[u] = "none" /\ pc'[u] = "app"
      BY <2>1 DEF CreateIgnored, Thread
    <3> QED
      BY <3>1, LockKept DEF LockLoc
  <2>2. CASE CreateBegin(t) \/ CancelInit(t) \/ ThreadReturn(t) \/ TsdReturn(t)
    <3>1. /\ lock' = lock /\ phase' = phase
          /\ \A v \in Thread \ {t} : pc'[v] = pc[v]
          /\ pc[t] \in {"app", "init"}
          /\ pc'[t] \in {"mkLock", "cleanup", "gone"}
      BY <2>2 DEF CreateBegin, CancelInit, ThreadReturn, TsdReturn
    <3> QED
      BY <3>1, LockKept DEF LockLoc
  <2>3. ASSUME NEW b \in BOOLEAN, BlockShootdown(t, b) PROVE LockHeld'
    BY <2>3 DEF BlockShootdown, LockHeld
  <2> QED
    BY <1>1, <2>1, <2>2, <2>3 DEF AppStep
<1>2. CASE InnerStep(t)
  <2>1. CASE MakeNodeLock(t) \/ LinkLock(t) \/ UnlinkLock(t)
    BY <2>1, LockAcquired DEF MakeNodeLock, LinkLock, UnlinkLock, LockLoc
  <2>2. CASE MakeNode(t) \/ LinkNode(t) \/ UnlinkNode(t)
    <3>1. /\ pc[t] \in LockLoc /\ lock' = NoThread /\ pc'[t] \notin LockLoc
          /\ \A u \in Thread \ {t} : pc'[u] = pc[u]
      BY <2>2 DEF MakeNode, LinkNode, UnlinkNode, AfterCleanup, LockLoc
    <3> QED
      BY <3>1, LockReleased
  <2>3. ASSUME NEW u \in Side, Launch(t, u) PROVE LockHeld'
    <3>1. /\ lock' = lock /\ phase' = phase
          /\ \A v \in Thread \ {t, u} : pc'[v] = pc[v]
          /\ pc[t] = "launch" /\ pc'[t] = "app"
          /\ u \in Thread /\ pc[u] = "none" /\ pc'[u] = "begin"
      BY <2>3 DEF Launch, Thread
    <3> QED
      BY <3>1 DEF LockHeld, LockLoc
  <2>4. CASE \/ LaunchFails(t) \/ BeginThread(t) \/ ApplStart(t)
             \/ CleanupCheck(t) \/ CleanupFini(t) \/ CleanupFiniReturn(t)
    <3>1. /\ lock' = lock /\ pc[t] \notin LockLoc \cup ExitLoc \cup {"raise"}
          /\ pc'[t] \notin LockLoc
          /\ \A u \in Thread \ {t} : pc'[u] = pc[u] /\ phase'[u] = phase[u]
      BY <2>4 DEF LaunchFails, BeginThread, ApplStart, CleanupCheck,
         AfterCleanup, CleanupFini, CleanupFiniReturn, LockLoc, ExitLoc, WinnerLoc
    <3>2. phase[t] # "signal"
      BY <3>1 DEF CreatorInv
    <3> QED
      BY <3>1, <3>2, LockKept
  <2> QED
    BY <1>2, <2>1, <2>2, <2>3, <2>4 DEF InnerStep
<1>3. CASE HandlerStep(t)
  BY <1>3 DEF HandlerStep, HandlerEnter, HandlerFini, HandlerReturn, LockHeld
<1> QED
  BY <1>1, <1>2, <1>3 DEF ThreadStep

LEMMA LockExitStep ==
  ASSUME TypeOK, LocationInv, CreatorInv, LockHeld,
         NEW t \in Thread, ExitStep(t)
  PROVE  LockHeld'
<1>1. \A u \in Thread \ {t} : pc'[u] = pc[u] /\ phase'[u] = phase[u]
  BY ExitStepFrame DEF ExitFrame
<1> USE DEF TypeOK, At, Goto, nodeVars, flagVars, frameVars, threadsVars
<1>2. CASE ShootdownLock(t)
  BY <1>2, LockAcquired DEF ShootdownLock, LockLoc
<1>3. CASE ShootdownMark(t)
  BY <1>1, <1>3, LockReleased DEF ShootdownMark, LockLoc
<1>4. CASE EnterStep(t)
  <2>1. /\ lock' = lock /\ pc'[t] = "endProcess"
        /\ \/ phase'[t] = "signal"
           \/ pc[t] = "app"
    BY <1>4 DEF EnterStep, EnterEnd, Exit, PthreadExit, FatalSignal
  <2>2. pc[t] = "app" => phase[t] # "signal"
    BY DEF CreatorInv, ExitLoc, WinnerLoc
  <2> QED
    BY <1>1, <2>1, <2>2, LockKept DEF LockLoc
<1>5. CASE EndStep(t)
  <2>1. lock' = lock /\ phase' = phase
    BY <1>5 DEF EndStep, WinExit, MarkWinner, RepeatExit, LoseExit, LoserReleased,
       EndReturn, Die
  <2>2. pc[t] \notin LockLoc /\ pc'[t] \notin LockLoc
    BY <1>5 DEF LockLoc, EndStep, WinExit, MarkWinner, RepeatExit, LoseExit, LoserReleased,
       EndReturn, Die
  <2> QED
    BY <1>1, <2>1, <2>2, LockKept
<1>6. CASE /\ WinnerStep(t) /\ ~ShootdownLock(t) /\ ~ShootdownMark(t)
  <2>1. ASSUME NEW n \in Pool, Visit(t, n)
        PROVE  /\ lock' = lock /\ phase' = phase
               /\ pc[t] \notin LockLoc /\ pc'[t] \notin LockLoc
    BY <2>1 DEF Visit, LockLoc
  <2>2. lock' = lock /\ phase' = phase
    BY <1>6, <2>1 DEF WinnerStep, BeginExitReturn, SelfFiniReturn,
       FiniProcessReturn, Kill, NextPass, AllFinished, GiveUp, LeaveLoop
  <2>3. pc[t] \notin LockLoc /\ pc'[t] \notin LockLoc
    BY <1>6, <2>1 DEF LockLoc, WinnerStep, BeginExitReturn, SelfFiniReturn,
       FiniProcessReturn, StartFiniProcess, Kill, NextPass, AllFinished,
       GiveUp, PassEnd, LeaveLoop
  <2> QED
    BY <1>1, <2>2, <2>3, LockKept
<1> QED
  BY <1>2, <1>3, <1>4, <1>5, <1>6 DEF ExitStep

\* The spinlock of the thread list is never held by two threads, and no return
\* of the code leaves it held, with fatal signals at any place.
THEOREM LockAlwaysHeld == Spec => []LockHeld
<1>1. Init => LockHeld
  BY DEF Init, ThreadsInit, LockHeld, LockLoc
<1>2. IInv /\ LockHeld /\ [Next]_vars => LockHeld'
  <2> SUFFICES ASSUME IInv, LockHeld, [Next]_vars PROVE LockHeld'
    OBVIOUS
  <2> USE DEF IInv
  <2>1. ASSUME NEW t \in Thread, ThreadStep(t) PROVE LockHeld'
    BY <2>1, LockThreadStep
  <2>2. ASSUME NEW t \in Thread, ExitStep(t) PROVE LockHeld'
    BY <2>2, LockExitStep
  <2>3. CASE UNCHANGED vars
    BY <2>3 DEF vars, threadsVars, frameVars, LockHeld
  <2> QED
    BY <2>1, <2>2, <2>3 DEF Next, Terminated
<1> QED
  BY <1>1, <1>2, Inductive, PTL DEF Spec
=============================================================================
