------------------------- MODULE MonitorGateProofs -------------------------
(***************************************************************************)
(* Proofs about who waits for whom in MonitorExit, for any number of       *)
(* threads, nodes and signals: the losers of the race to exit wait for the *)
(* winner, calls of exit behave as ExitGate, and the shootdown gives up on *)
(* nobody who can react.                                                   *)
(***************************************************************************)
EXTENDS MonitorExitProofs

-----------------------------------------------------------------------------
(* Threads and their nodes, as long as no application code runs in a       *)
(* destructor of a pthread key.                                            *)

\* A thread that is alive has its node to itself, and it is not cleared.
NodeInv ==
    /\ tn[MainNode].magic
    /\ \A t \in Thread : mk[t] # NoNode => tn[mk[t]].magic
    /\ \A t \in Thread : Alive(t) /\ node[t] # NoNode =>
         /\ tn[node[t]].magic
         /\ node[t] \notin free \cup fresh
         /\ \A u \in Thread : mk[u] # node[t]
         /\ \A u \in Thread \ {t} : Alive(u) => node[u] # node[t]

\* The mark of the winner is on the winner's node, and on nobody else's.
MarkInv ==
    /\ ~cookie => \A n \in Node : ~tn[n].exitWin
    /\ cookie => phase[winner] # "run"
    /\ tn[MainNode].exitWin => winner = Main
    /\ \A t \in Thread : mk[t] # NoNode => ~tn[mk[t]].exitWin
    /\ \A t \in Thread : Alive(t) /\ node[t] # NoNode /\ tn[node[t]].exitWin
                         => winner = t

\* A thread step that gives no thread another node, and clears none.
NodeStill ==
    /\ UNCHANGED <<node, mk, free, fresh>>
    /\ \A n \in Node : tn'[n].magic = tn[n].magic
    /\ \A u \in Thread : Alive(u)' /\ node[u] # NoNode => Alive(u)

\* And does not touch the marks.
MarkStill ==
    /\ \A n \in Node : tn'[n].exitWin = tn[n].exitWin
    /\ UNCHANGED <<cookie, winner>>
    /\ \A u \in Thread : phase[u] # "run" => phase'[u] # "run"

LEMMA NodesTyped ==
  ASSUME TypeOK
  PROVE  /\ MainNode \in Node
         /\ \A u \in Thread : /\ mk[u] # NoNode => mk[u] \in Pool /\ mk[u] \in Node
                              /\ node[u] # NoNode => node[u] \in Node
                              /\ GetTn(u) \in Node \cup {NoNode}
         /\ \A n \in Node : tn[n] \in TnRecord /\ n # NoNode
         /\ \A n \in Pool : n # MainNode /\ n \in Node
  BY ThreadsAssumption DEF TypeOK, Node, GetTn, ThreadsAssumption

LEMMA StillNodes ==
  ASSUME TypeOK, NodeInv, NodeStill
  PROVE  NodeInv'
<1>1. tn'[MainNode].magic
  BY NodesTyped DEF NodeInv, NodeStill
<1>2. \A u \in Thread : mk'[u] # NoNode => tn'[mk'[u]].magic
  BY NodesTyped DEF NodeInv, NodeStill
<1>3. ASSUME NEW u \in Thread, Alive(u)', node'[u] # NoNode
      PROVE  /\ tn'[node'[u]].magic
             /\ node'[u] \notin free' \cup fresh'
             /\ \A v \in Thread : mk'[v] # node'[u]
             /\ \A v \in Thread \ {u} : Alive(v)' => node'[v] # node'[u]
  <2>1. Alive(u) /\ node'[u] = node[u] /\ node[u] \in Node
    BY <1>3, NodesTyped DEF NodeStill
  <2>2. \A v \in Thread \ {u} : Alive(v)' => node'[v] # node'[u]
    BY <1>3, <2>1 DEF NodeInv, NodeStill
  <2> QED
    BY <1>3, <2>1, <2>2 DEF NodeInv, NodeStill
<1> QED
  BY <1>1, <1>2, <1>3 DEF NodeInv

LEMMA StillMarks ==
  ASSUME TypeOK, WinnerInv, MarkInv, NodeStill, MarkStill
  PROVE  MarkInv'
<1>1. \A u \in Thread : mk'[u] # NoNode => ~tn'[mk'[u]].exitWin
  BY NodesTyped DEF MarkInv, NodeStill, MarkStill
<1>2. ~cookie' => \A n \in Node : ~tn'[n].exitWin
  BY DEF MarkInv, MarkStill
<1>3. cookie' => phase'[winner'] # "run"
  BY DEF MarkInv, MarkStill, WinnerInv, TypeOK
<1>4. tn'[MainNode].exitWin => winner' = Main
  BY NodesTyped DEF MarkInv, MarkStill
<1>5. \A u \in Thread : Alive(u)' /\ node'[u] # NoNode /\ tn'[node'[u]].exitWin => winner' = u
  BY NodesTyped DEF MarkInv, MarkStill, NodeStill
<1> QED
  BY <1>1, <1>2, <1>3, <1>4, <1>5 DEF MarkInv

\* The first pthread_create of the process: main is the only thread there is.
LEMMA OnlyMain ==
  ASSUME TypeOK, LocationInv, ~hasUsedThreads, NEW t \in Thread, Alive(t)
  PROVE  t = Main
  BY DEF LocationInv, Alive, Thread

LEMMA ListInit ==
  ASSUME TypeOK, LocationInv, NEW t \in Thread, Alive(t), ThreadListInit(t)
  PROVE  /\ \A n \in Node : tn'[n].magic = tn[n].magic /\ tn'[n].exitWin = tn[n].exitWin
         /\ \A u \in Thread : node'[u] = node[u] \/ (u = Main /\ node'[u] = MainNode)
         /\ node' # node => ~hasUsedThreads
<1>1. CASE hasUsedThreads
  BY <1>1 DEF ThreadListInit
<1>2. CASE ~hasUsedThreads
  <2>1. t = Main
    BY <1>2, OnlyMain
  <2>2. node' = [node EXCEPT ![t] = MainNode] /\ tn' = [tn EXCEPT ![MainNode].self = t]
    BY <1>2 DEF ThreadListInit
  <2> QED
    BY <1>2, <2>1, <2>2, NodesTyped DEF TypeOK, TnRecord
<1> QED
  BY <1>1, <1>2

LEMMA CreateNodes ==
  ASSUME TypeOK, LocationInv, WinnerInv, NodeInv, MarkInv,
         NEW t \in Thread, Alive(t), ThreadListInit(t),
         UNCHANGED <<mk, free, fresh, phase, cookie, winner>>,
         \A u \in Thread : Alive(u)' /\ ~Alive(u) => pc[u] = "none"
  PROVE  NodeInv' /\ MarkInv'
<1>1. /\ \A n \in Node : tn'[n].magic = tn[n].magic /\ tn'[n].exitWin = tn[n].exitWin
      /\ \A u \in Thread : node'[u] = node[u] \/ (u = Main /\ node'[u] = MainNode)
      /\ node' # node => ~hasUsedThreads
  BY ListInit
<1>2. \A u \in Thread : Alive(u)' /\ node[u] # NoNode => Alive(u)
  BY DEF LocationInv
<1>3. CASE node' = node
  <2>1. NodeStill /\ MarkStill
    BY <1>1, <1>2, <1>3 DEF NodeStill, MarkStill
  <2> QED
    BY <2>1, StillNodes, StillMarks
<1>4. CASE ~hasUsedThreads
  <2>1. ASSUME NEW u \in Thread, Alive(u)', node'[u] # NoNode
        PROVE  u = Main
    <3>1. CASE Alive(u)
      BY <1>4, <3>1, OnlyMain
    <3>2. CASE ~Alive(u)
      BY <1>1, <1>2, <2>1, <3>2
    <3> QED
      BY <3>1, <3>2
  <2>2. \A u \in Thread : mk[u] = NoNode \/ mk[u] \in Pool
    BY NodesTyped
  <2>3. free \subseteq Pool /\ fresh \subseteq Pool
    BY DEF TypeOK
  <2>4. \A u \in Thread : mk[u] # NoNode => tn'[mk[u]].magic /\ ~tn'[mk[u]].exitWin
    BY <1>1, NodesTyped DEF NodeInv, MarkInv
  <2>5. tn'[MainNode].magic
    BY <1>1, NodesTyped DEF NodeInv
  <2>6. ASSUME NEW u \in Thread, Alive(u)', node'[u] # NoNode
        PROVE  /\ tn'[node'[u]].magic
               /\ node'[u] \notin free \cup fresh
               /\ \A v \in Thread : mk[v] # node'[u]
               /\ \A v \in Thread \ {u} : Alive(v)' => node'[v] # node'[u]
               /\ tn'[node'[u]].exitWin => winner = u
    <3>1. u = Main
      BY <2>1, <2>6
    <3>2. CASE node'[u] = MainNode
      BY <1>1, <2>1, <2>2, <2>3, <2>5, <2>6, <3>1, <3>2, NodesTyped DEF MarkInv
    <3>3. CASE node'[u] = node[u]
      <4>1. Alive(u) /\ node[u] \in Node
        BY <1>2, <2>6, <3>3, NodesTyped
      <4>2. \A v \in Thread \ {u} : Alive(v)' => node'[v] # node'[u]
        BY <2>1, <2>6, <3>1
      <4> QED
        BY <1>1, <2>6, <3>3, <4>1, <4>2 DEF NodeInv, MarkInv
    <3> QED
      BY <1>1, <3>2, <3>3
  <2>7. NodeInv'
    BY <2>4, <2>5, <2>6 DEF NodeInv
  <2>8. ~cookie' => \A n \in Node : ~tn'[n].exitWin
    BY <1>1 DEF MarkInv
  <2>9. (cookie' => phase'[winner'] # "run") /\ (tn'[MainNode].exitWin => winner' = Main)
    BY <1>1, NodesTyped DEF MarkInv
  <2> QED
    BY <2>4, <2>6, <2>7, <2>8, <2>9 DEF MarkInv
<1> QED
  BY <1>1, <1>3, <1>4

\* The quiet steps of a thread: they set flags of its node, but no mark.
LEMMA QuietThreadStep ==
  ASSUME TypeOK, LocationInv, NEW t \in Thread, UNCHANGED exitVars, TsdCode = FALSE,
         \/ CancelInit(t) \/ ThreadReturn(t) \/ TsdReturn(t)
         \/ \E b \in BOOLEAN : BlockShootdown(t, b)
         \/ MakeNodeLock(t) \/ LinkLock(t) \/ UnlinkLock(t) \/ LinkNode(t) \/ ApplStart(t)
         \/ CleanupCheck(t) \/ CleanupFini(t) \/ CleanupFiniReturn(t) \/ HandlerStep(t)
         \/ UnlinkNode(t) /\ inExitCleanup
  PROVE  NodeStill /\ MarkStill
<1> USE NodesTyped DEF TypeOK, LocationInv, At, Goto, NodeStill, MarkStill, TnRecord, exitVars,
        nodeVars, frameVars, BeginLoc, CleanupLoc, Alive
<1>1. CASE \/ CancelInit(t) \/ ThreadReturn(t) \/ TsdReturn(t) \/ MakeNodeLock(t) \/ LinkLock(t)
           \/ UnlinkLock(t) \/ LinkNode(t) \/ CleanupCheck(t)
  BY <1>1 DEF CancelInit, ThreadReturn, TsdReturn, MakeNodeLock, LinkLock, UnlinkLock, Acquire,
     LinkNode, CleanupCheck, AfterCleanup
<1>2. ASSUME NEW b \in BOOLEAN, BlockShootdown(t, b) PROVE NodeStill /\ MarkStill
  BY <1>2 DEF BlockShootdown
<1>3. CASE ApplStart(t)
  BY <1>3 DEF ApplStart
<1>4. CASE CleanupFini(t)
  BY <1>4 DEF CleanupFini, StartFini
<1>5. CASE CleanupFiniReturn(t)
  BY <1>5 DEF CleanupFiniReturn, EndFini
<1>6. CASE HandlerStep(t)
  BY <1>6 DEF HandlerStep, HandlerEnter, HandlerFini, HandlerReturn, StartFini, EndFini
<1>7. CASE UnlinkNode(t) /\ inExitCleanup
  <2>1. /\ tn' = [tn EXCEPT ![node[t]].finiStarted = TRUE, ![node[t]].finiDone = TRUE]
        /\ UNCHANGED <<node, mk, free, fresh, phase>> /\ pc' = [pc EXCEPT ![t] = "gone"]
    BY <1>7 DEF UnlinkNode, AfterCleanup
  <2>2. \A n \in Node : tn'[n].magic = tn[n].magic /\ tn'[n].exitWin = tn[n].exitWin
    BY <2>1
  <2> QED
    BY <2>1, <2>2
<1> QED
  BY <1>1, <1>2, <1>3, <1>4, <1>5, <1>6, <1>7

LEMMA GateThreadStep ==
  ASSUME TypeOK, LocationInv, CreatorInv, OwnershipInv, WinnerInv, NodeInv, MarkInv,
         NEW t \in Thread, ThreadStep(t), UNCHANGED exitVars, TsdCode = FALSE
  PROVE  NodeInv' /\ MarkInv'
<1>0. UNCHANGED <<cookie, winner>>
  BY DEF exitVars
<1>1. CASE \/ CancelInit(t) \/ ThreadReturn(t) \/ TsdReturn(t)
           \/ \E b \in BOOLEAN : BlockShootdown(t, b)
           \/ MakeNodeLock(t) \/ LinkLock(t) \/ UnlinkLock(t) \/ LinkNode(t) \/ ApplStart(t)
           \/ CleanupCheck(t) \/ CleanupFini(t) \/ CleanupFiniReturn(t) \/ HandlerStep(t)
           \/ UnlinkNode(t) /\ inExitCleanup
  BY <1>1, QuietThreadStep, StillNodes, StillMarks
<1>2. CASE CreateBegin(t) \/ \E u \in Side : CreateIgnored(t, u)
  <2>1. /\ Alive(t) /\ ThreadListInit(t) /\ UNCHANGED <<mk, free, fresh, phase>>
        /\ \A u \in Thread : Alive(u)' /\ ~Alive(u) => pc[u] = "none"
    BY <1>2 DEF CreateBegin, CreateIgnored, At, Goto, Alive, TypeOK, Thread
  <2> QED
    BY <1>0, <2>1, CreateNodes
<1>3. CASE MakeNode(t)
  <2>1. PICK n \in free \cup fresh :
          /\ free' = free \ {n} /\ fresh' = fresh \ {n}
          /\ tn' = [tn EXCEPT ![n] = MagicTn] /\ mk' = [mk EXCEPT ![t] = n]
    BY <1>3 DEF MakeNode
  <2>2. /\ pc' = [pc EXCEPT ![t] = "launch"] /\ pc[t] = "mkLocked"
        /\ UNCHANGED <<phase, node>>
    BY <1>3 DEF MakeNode, At, Goto
  <2>3. n \in Pool /\ n \in Node /\ n # MainNode
    BY <2>1, NodesTyped DEF TypeOK
  <2>4. /\ tn'[n] = MagicTn /\ \A m \in Node \ {n} : tn'[m] = tn[m]
        /\ mk'[t] = n /\ \A u \in Thread \ {t} : mk'[u] = mk[u]
    BY <2>1, <2>3 DEF TypeOK
  <2>5. MagicTn.magic /\ ~MagicTn.exitWin
    BY DEF MagicTn, ClearTn
  <2>6. \A u \in Thread : Alive(u)' => Alive(u)
    BY <2>2 DEF Alive, TypeOK
  <2>7. \A u \in Thread : mk'[u] # NoNode => tn'[mk'[u]].magic /\ ~tn'[mk'[u]].exitWin
    BY <2>4, <2>5, NodesTyped DEF NodeInv, MarkInv
  <2>8. ASSUME NEW u \in Thread, Alive(u)', node'[u] # NoNode
        PROVE  /\ tn'[node'[u]].magic
               /\ node'[u] \notin free' \cup fresh'
               /\ \A v \in Thread : mk'[v] # node'[u]
               /\ \A v \in Thread \ {u} : Alive(v)' => node'[v] # node'[u]
               /\ tn'[node'[u]].exitWin => winner = u
    <3>1. Alive(u) /\ node'[u] = node[u] /\ node[u] # n /\ node[u] \in Node
      BY <2>1, <2>2, <2>6, <2>8, NodesTyped DEF NodeInv
    <3>2. tn'[node'[u]] = tn[node[u]]
      BY <2>4, <3>1
    <3>3. \A v \in Thread \ {u} : Alive(v)' => node'[v] # node'[u]
      BY <2>2, <2>6, <2>8, <3>1 DEF NodeInv
    <3>4. \A v \in Thread : mk'[v] # node'[u]
      BY <2>4, <2>8, <3>1 DEF NodeInv
    <3>5. node'[u] \notin free' \cup fresh'
      BY <2>1, <2>8, <3>1 DEF NodeInv
    <3> QED
      BY <2>8, <3>1, <3>2, <3>3, <3>4, <3>5 DEF NodeInv, MarkInv
  <2>9. tn'[MainNode] = tn[MainNode]
    BY <2>3, <2>4, NodesTyped
  <2>10. NodeInv'
    BY <2>7, <2>8, <2>9 DEF NodeInv
  <2>11. ~cookie' => \A m \in Node : ~tn'[m].exitWin
    BY <1>0, <2>4, <2>5 DEF MarkInv
  <2> QED
    BY <1>0, <2>2, <2>7, <2>8, <2>9, <2>10, <2>11 DEF MarkInv
<1>4. ASSUME NEW u \in Side, Launch(t, u) PROVE NodeInv' /\ MarkInv'
  <2>1. /\ mk'[t] = NoNode /\ mk'[u] = mk[t] /\ u # t /\ u \in Thread
        /\ \A v \in Thread \ {t, u} : mk'[v] = mk[v]
        /\ UNCHANGED <<node, tn, free, fresh, phase>>
    BY <1>4 DEF Launch, TypeOK, At, Thread
  <2>2. \A v \in Thread : Alive(v)' /\ node[v] # NoNode => Alive(v)
    BY <1>4 DEF Launch, TypeOK, At, Alive, LocationInv, Thread
  <2>3. \A v \in Thread : mk'[v] # NoNode => \E w \in Thread : mk'[v] = mk[w]
    BY <2>1
  <2>4. NodeInv'
    BY <2>1, <2>2, <2>3 DEF NodeInv
  <2> QED
    BY <1>0, <2>1, <2>2, <2>3, <2>4 DEF MarkInv
<1>5. CASE LaunchFails(t)
  <2>1. /\ mk'[t] = NoNode /\ \A v \in Thread \ {t} : mk'[v] = mk[v]
        /\ UNCHANGED <<node, tn, free, fresh, phase>>
        /\ \A v \in Thread : Alive(v)' => Alive(v)
    BY <1>5 DEF LaunchFails, TypeOK, At, Goto, Alive
  <2>2. NodeInv'
    BY <2>1 DEF NodeInv
  <2> QED
    BY <1>0, <2>1, <2>2 DEF MarkInv
<1>6. CASE BeginThread(t)
  <2>1. /\ mk[t] \in Pool /\ mk[t] \in Node /\ mk[t] # NoNode /\ mk[t] # MainNode
        /\ node'[t] = mk[t] /\ \A v \in Thread \ {t} : node'[v] = node[v]
        /\ mk'[t] = NoNode /\ \A v \in Thread \ {t} : mk'[v] = mk[v]
        /\ UNCHANGED <<free, fresh, phase>>
        /\ \A v \in Thread : Alive(v)' => Alive(v)
    BY <1>6, NodesTyped DEF BeginThread, TypeOK, At, Goto, Alive, LocationInv
  <2>2. \A m \in Node : tn'[m].magic = tn[m].magic /\ tn'[m].exitWin = tn[m].exitWin
    BY <1>6, <2>1 DEF BeginThread, TypeOK, TnRecord
  <2>3. \A v \in Thread : mk'[v] # NoNode => tn'[mk'[v]].magic /\ ~tn'[mk'[v]].exitWin
    BY <2>1, <2>2, NodesTyped DEF NodeInv, MarkInv
  <2>4. /\ mk[t] \notin free \cup fresh
        /\ \A v \in Thread \ {t} : mk[v] # mk[t]
    BY <2>1 DEF OwnershipInv, NodeOwnership
  <2>5. ASSUME NEW v \in Thread, Alive(v)', node'[v] # NoNode
        PROVE  /\ tn'[node'[v]].magic
               /\ node'[v] \notin free' \cup fresh'
               /\ \A w \in Thread : mk'[w] # node'[v]
               /\ \A w \in Thread \ {v} : Alive(w)' => node'[w] # node'[v]
               /\ tn'[node'[v]].exitWin => winner = v
    <3>1. CASE v = t
      <4>1. tn'[node'[v]].magic /\ ~tn'[node'[v]].exitWin
        BY <2>1, <2>2, <3>1 DEF NodeInv, MarkInv
      <4>2. \A w \in Thread \ {v} : Alive(w)' => node'[w] # node'[v]
        BY <2>1, <3>1 DEF NodeInv
      <4>3. \A w \in Thread : mk'[w] # node'[v]
        BY <2>1, <2>4, <3>1
      <4> QED
        BY <2>1, <2>4, <3>1, <4>1, <4>2, <4>3
    <3>2. CASE v # t
      <4>1. Alive(v) /\ node'[v] = node[v] /\ node[v] # NoNode /\ node[v] \in Node
        BY <2>1, <2>5, <3>2, NodesTyped
      <4>2. \A w \in Thread : mk[w] # node[v]
        BY <4>1 DEF NodeInv
      <4>3. \A w \in Thread \ {v} : Alive(w)' => node'[w] # node'[v]
        BY <2>1, <4>1, <4>2 DEF NodeInv
      <4>4. \A w \in Thread : mk'[w] # node'[v]
        BY <2>1, <4>1, <4>2
      <4> QED
        BY <2>1, <2>2, <4>1, <4>3, <4>4 DEF NodeInv, MarkInv
    <3> QED
      BY <3>1, <3>2
  <2>6. NodeInv'
    BY <2>2, <2>3, <2>5, NodesTyped DEF NodeInv
  <2>7. ~cookie' => \A m \in Node : ~tn'[m].exitWin
    BY <1>0, <2>2 DEF MarkInv
  <2> QED
    BY <1>0, <2>1, <2>2, <2>3, <2>5, <2>6, <2>7, NodesTyped DEF MarkInv
<1>7. CASE UnlinkNode(t) /\ ~inExitCleanup
  <2>1. /\ node[t] \in Pool /\ node[t] \in Node /\ node[t] # NoNode /\ node[t] # MainNode
        /\ Alive(t) /\ node[t] \in linked
    BY <1>7, NodesTyped DEF UnlinkNode, LocationInv, CleanupLoc, At, Alive, OwnershipInv, Active,
       ActiveLoc
  <2>2. /\ tn'[node[t]] = ZeroTn /\ \A m \in Node \ {node[t]} : tn'[m] = tn[m]
        /\ free' = free \cup {node[t]} /\ UNCHANGED <<node, mk, fresh, phase>>
        /\ pc' = [pc EXCEPT ![t] = "gone"]
    BY <1>7, <2>1 DEF UnlinkNode, AfterCleanup, Goto, TypeOK
  <2>3. ~Alive(t)' /\ \A v \in Thread : Alive(v)' => Alive(v)
    BY <2>2 DEF Alive, TypeOK
  <2>4. ~ZeroTn.exitWin
    BY DEF ZeroTn, ClearTn
  <2>5. \A v \in Thread : mk[v] # node[t]
    BY <2>1 DEF NodeInv
  <2>6. \A v \in Thread : mk'[v] # NoNode => tn'[mk'[v]].magic /\ ~tn'[mk'[v]].exitWin
    BY <2>2, <2>5, NodesTyped DEF NodeInv, MarkInv
  <2>7. ASSUME NEW v \in Thread, Alive(v)', node'[v] # NoNode
        PROVE  /\ tn'[node'[v]].magic
               /\ node'[v] \notin free' \cup fresh'
               /\ \A w \in Thread : mk'[w] # node'[v]
               /\ \A w \in Thread \ {v} : Alive(w)' => node'[w] # node'[v]
               /\ tn'[node'[v]].exitWin => winner = v
    <3>1. Alive(v) /\ v # t /\ node'[v] = node[v] /\ node[v] \in Node /\ node[v] # NoNode
      BY <2>2, <2>3, <2>7, NodesTyped
    <3>2. node[v] # node[t]
      BY <2>1, <3>1 DEF NodeInv
    <3>3. \A w \in Thread \ {v} : Alive(w)' => node'[w] # node'[v]
      BY <2>2, <2>3, <3>1 DEF NodeInv
    <3>4. tn'[node'[v]] = tn[node[v]]
      BY <2>2, <3>1, <3>2
    <3> QED
      BY <2>2, <3>1, <3>2, <3>3, <3>4 DEF NodeInv, MarkInv
  <2>8. tn'[MainNode] = tn[MainNode]
    BY <2>1, <2>2, NodesTyped
  <2>9. NodeInv'
    BY <2>6, <2>7, <2>8 DEF NodeInv
  <2>10. ~cookie' => \A m \in Node : ~tn'[m].exitWin
    BY <1>0, <2>2, <2>4 DEF MarkInv
  <2> QED
    BY <1>0, <2>2, <2>6, <2>7, <2>8, <2>9, <2>10 DEF MarkInv
<1> QED
  BY <1>1, <1>2, <1>3, <1>4, <1>5, <1>6, <1>7 DEF ThreadStep, AppStep, InnerStep


\* A step of the exit protocol sets flags of nodes, and a mark only if it wins.
SameNode(n) ==
    /\ tn'[n].self = tn[n].self
    /\ tn'[n].magic = tn[n].magic
    /\ tn'[n].applStarted = tn[n].applStarted
    /\ tn'[n].block = tn[n].block
    /\ tn[n].finiStarted => tn'[n].finiStarted

LEMMA SetFlag ==
  ASSUME TypeOK, NEW m \in Node \cup {NoNode},
         \/ tn' = tn
         \/ tn' = [tn EXCEPT ![m].finiStarted = TRUE]
         \/ tn' = [tn EXCEPT ![m].finiDone = TRUE]
         \/ tn' = [tn EXCEPT ![m].exitWin = TRUE]
  PROVE  \A n \in Node : SameNode(n)
<1>1. CASE tn' = tn
  BY <1>1 DEF SameNode
<1>2. ASSUME NEW n \in Node,
             \/ tn' = [tn EXCEPT ![m].finiStarted = TRUE]
             \/ tn' = [tn EXCEPT ![m].finiDone = TRUE]
             \/ tn' = [tn EXCEPT ![m].exitWin = TRUE]
      PROVE  SameNode(n)
  <2>1. tn[n] \in TnRecord
    BY DEF TypeOK
  <2>2. \/ tn'[n] = tn[n]
        \/ tn'[n] = [tn[n] EXCEPT !.finiStarted = TRUE]
        \/ tn'[n] = [tn[n] EXCEPT !.finiDone = TRUE]
        \/ tn'[n] = [tn[n] EXCEPT !.exitWin = TRUE]
    BY <1>2 DEF TypeOK
  <2> QED
    BY <2>1, <2>2 DEF SameNode, TnRecord
<1> QED
  BY <1>1, <1>2

\* Which of these a step of the exit protocol does.
LEMMA ExitStepFlag ==
  ASSUME TypeOK, NEW t \in Thread, ExitStep(t)
  PROVE  \/ tn' = tn
         \/ tn' = [tn EXCEPT ![sd.me].finiStarted = TRUE]
         \/ tn' = [tn EXCEPT ![sd.me].finiDone = TRUE]
         \/ MarkWinner(t) /\ tn' = [tn EXCEPT ![GetTn(t)].exitWin = TRUE]
<1>1. CASE EnterStep(t)
  BY <1>1 DEF EnterStep, Exit, PthreadExit, FatalSignal, nodeVars
<1>2. CASE EndStep(t)
  BY <1>2 DEF EndStep, WinExit, MarkWinner, RepeatExit, LoseExit, LoserReleased, EndReturn, Die, threadsVars,
     nodeVars
<1>3. CASE WinnerStep(t)
  BY <1>3 DEF WinnerStep, BeginExitReturn, ShootdownLock, Acquire, ShootdownMark, Visit, Kill,
     NextPass, AllFinished, GiveUp, LeaveLoop, SelfFiniReturn, FiniProcessReturn, threadsVars,
     nodeVars
<1> QED
  BY <1>1, <1>2, <1>3 DEF ExitStep

LEMMA ExitStepAlive ==
  ASSUME NEW t \in Thread, ExitStep(t)
  PROVE  Alive(t)
<1> USE DEF At, Alive
<1>1. CASE EnterStep(t)
  BY <1>1 DEF EnterStep, Exit, PthreadExit, FatalSignal
<1>2. CASE EndStep(t)
  BY <1>2 DEF EndStep, WinExit, MarkWinner, RepeatExit, LoseExit, LoserReleased, EndReturn, Die
<1>3. CASE WinnerStep(t)
  BY <1>3 DEF WinnerStep, BeginExitReturn, ShootdownLock, Acquire, ShootdownMark, Visit, Kill,
     NextPass, AllFinished, GiveUp, PassEnd, SelfFiniReturn, FiniProcessReturn
<1> QED
  BY <1>1, <1>2, <1>3 DEF ExitStep

LEMMA ExitStepNodes ==
  ASSUME TypeOK, NEW t \in Thread, ExitStep(t)
  PROVE  /\ \A n \in Node : SameNode(n)
         /\ ~MarkWinner(t) => \A n \in Node : tn'[n].exitWin = tn[n].exitWin
<1>1. sd.me \in Node \cup {NoNode} /\ GetTn(t) \in Node \cup {NoNode}
  BY NodesTyped DEF TypeOK, SdRecord
<1>2. CASE MarkWinner(t) /\ tn' = [tn EXCEPT ![GetTn(t)].exitWin = TRUE]
  BY <1>1, <1>2, SetFlag
<1>3. CASE tn' = tn
  BY <1>1, <1>3, SetFlag
<1>4. CASE tn' = [tn EXCEPT ![sd.me].finiStarted = TRUE]
  <2>1. \A n \in Node : tn'[n].exitWin = tn[n].exitWin
    BY <1>4 DEF TypeOK, TnRecord
  <2> QED
    BY <1>1, <1>4, <2>1, SetFlag
<1>5. CASE tn' = [tn EXCEPT ![sd.me].finiDone = TRUE]
  <2>1. \A n \in Node : tn'[n].exitWin = tn[n].exitWin
    BY <1>5 DEF TypeOK, TnRecord
  <2> QED
    BY <1>1, <1>5, <2>1, SetFlag
<1> QED
  BY <1>2, <1>3, <1>4, <1>5, ExitStepFlag

LEMMA WinMarks ==
  ASSUME TypeOK, LocationInv, WinnerInv, NodeInv, MarkInv, NEW t \in Thread,
         MarkWinner(t)
  PROVE  MarkInv'
<1>1. /\ pc[t] = "markWin" /\ cookie /\ winner = t /\ UNCHANGED <<cookie, winner>>
      /\ UNCHANGED <<phase, node, mk>>
      /\ pc' = [pc EXCEPT ![t] = "beginExit"]
      /\ tn' = IF GetTn(t) = NoNode THEN tn ELSE [tn EXCEPT ![GetTn(t)].exitWin = TRUE]
  BY ThreadsAssumption
  DEF MarkWinner, At, Goto, exitVars, WinnerInv, WinnerLoc, ThreadsAssumption, Thread
<1>2. phase[t] # "run" /\ Alive(t)
  BY <1>1 DEF LocationInv, ExitLoc, WinnerLoc, Alive
<1>3. \A n \in Node : tn'[n].exitWin => n = GetTn(t) \/ tn[n].exitWin
  BY <1>1, NodesTyped DEF TypeOK, TnRecord, MarkInv
<1>4. ~hasUsedThreads => \A u \in Thread : Alive(u) => u = Main
  BY OnlyMain
<1>5. \A u \in Thread : Alive(u)' => Alive(u)
  BY <1>1 DEF Alive, TypeOK
<1>6. GetTn(t) = MainNode => t = Main
  <2>1. CASE hasUsedThreads
    BY <2>1, NodesTyped DEF GetTn, LocationInv
  <2>2. CASE ~hasUsedThreads
    BY <1>2, <1>4, <2>2
  <2> QED
    BY <2>1, <2>2
<1>7. \A u \in Thread : mk[u] # NoNode => mk[u] # GetTn(t)
  BY <1>2, NodesTyped DEF GetTn, NodeInv
<1>8. ASSUME NEW u \in Thread, Alive(u)', node'[u] # NoNode, tn'[node'[u]].exitWin
      PROVE  winner' = u
  <2>0. CASE node[u] # GetTn(t)
    BY <1>1, <1>3, <1>5, <1>8, <2>0, NodesTyped DEF MarkInv
  <2> SUFFICES ASSUME node[u] = GetTn(t) PROVE winner' = u
    BY <2>0
  <2>1. Alive(u) /\ node[u] = GetTn(t) /\ node[u] # NoNode
    BY <1>1, <1>5, <1>8, NodesTyped
  <2>2. CASE ~hasUsedThreads
    BY <1>1, <1>2, <1>4, <2>1, <2>2
  <2>3. CASE hasUsedThreads
    BY <1>1, <1>2, <2>1, <2>3 DEF GetTn, NodeInv
  <2> QED
    BY <2>2, <2>3
<1> QED
  BY <1>1, <1>2, <1>3, <1>6, <1>7, <1>8, NodesTyped DEF MarkInv

LEMMA GateExitStep ==
  ASSUME TypeOK, LocationInv, WinnerInv, NodeInv, MarkInv, NEW t \in Thread, ExitStep(t)
  PROVE  NodeInv' /\ MarkInv'
<1>1. ExitFrame(t)
  BY ExitStepFrame
<1>2. /\ Alive(t) /\ \A n \in Node : SameNode(n)
      /\ ~MarkWinner(t) => \A n \in Node : tn'[n].exitWin = tn[n].exitWin
  BY ExitStepAlive, ExitStepNodes
<1>3. NodeStill
  BY <1>1, <1>2 DEF ExitFrame, SameNode, NodeStill, Alive
<1>4. NodeInv'
  BY <1>3, StillNodes
<1>5. CASE MarkWinner(t)
  BY <1>4, <1>5, WinMarks
<1>7. CASE WinExit(t)
  <2>1. /\ ~cookie /\ winner' = t /\ phase' = phase /\ phase[t] # "run"
        /\ UNCHANGED <<tn, mk, node>>
    BY <1>7 DEF WinExit, At, LocationInv, ExitLoc, nodeVars
  <2>2. \A n \in Node : ~tn'[n].exitWin
    BY <2>1 DEF MarkInv
  <2>3. MarkInv'
    BY <1>7, <2>1, <2>2, NodesTyped DEF MarkInv
  <2> QED
    BY <1>4, <2>3
<1>6. CASE ~MarkWinner(t) /\ ~WinExit(t)
  <2>1. cookie' = cookie /\ winner' = winner
    BY <1>6 DEF ExitStep, EnterStep, EndStep, WinnerStep, Exit, PthreadExit, FatalSignal,
       RepeatExit, LoseExit, LoserReleased, EndReturn, Die, BeginExitReturn, ShootdownLock,
       ShootdownMark, Visit, Kill, NextPass, AllFinished, GiveUp, LeaveLoop, SelfFiniReturn,
       FiniProcessReturn, exitVars
  <2>2. phase[t] # "run" => phase'[t] # "run"
    <3>1. CASE EnterStep(t)
      BY <3>1 DEF EnterStep, Exit, PthreadExit, FatalSignal, EnterEnd, TypeOK
    <3>2. CASE EndStep(t)
      BY <3>2 DEF EndStep, WinExit, MarkWinner, RepeatExit, LoseExit, LoserReleased, EndReturn, Die,
         threadsVars, frameVars
    <3>3. CASE WinnerStep(t)
      BY <3>3 DEF WinnerStep, BeginExitReturn, ShootdownLock, Acquire, ShootdownMark, Visit, Kill,
         NextPass, AllFinished, GiveUp, LeaveLoop, SelfFiniReturn, FiniProcessReturn, threadsVars,
         frameVars
    <3> QED
      BY <3>1, <3>2, <3>3 DEF ExitStep
  <2>3. MarkStill
    BY <1>1, <1>2, <1>6, <2>1, <2>2 DEF MarkStill, ExitFrame
  <2> QED
    BY <1>3, <1>4, <2>3, StillMarks
<1> QED
  BY <1>4, <1>5, <1>6, <1>7

-----------------------------------------------------------------------------
(* The losers wait. *)

WaitInv == (finiProcessDone => cookie) /\ LosersWait

GateInv == NodeInv /\ MarkInv /\ WaitInv

LEMMA WonIsWinner ==
  ASSUME TypeOK, LocationInv, MarkInv, NEW t \in Thread, Alive(t), HasWon(t)
  PROVE  winner = t
<1>1. CASE hasUsedThreads
  BY <1>1 DEF HasWon, GetTn, MarkInv
<1>2. CASE ~hasUsedThreads
  BY <1>2, OnlyMain DEF HasWon, GetTn, MarkInv
<1> QED
  BY <1>1, <1>2

LEMMA WaitThreadStep ==
  ASSUME TypeOK, WinnerInv, WaitInv, NEW t \in Thread, ThreadStep(t), UNCHANGED exitVars
  PROVE  WaitInv'
<1>1. \A u \in Thread : pc'[u] \in WinnerLoc => pc[u] = pc'[u]
  BY ThreadStepLoc DEF ExitLoc
<1>2. cookie => winner \in Thread
  BY DEF WinnerInv, TypeOK
<1> QED
  BY <1>1, <1>2 DEF WaitInv, LosersWait, exitVars

LEMMA WaitExitStep ==
  ASSUME TypeOK, LocationInv, WinnerInv, MarkInv, WaitInv, NEW t \in Thread, ExitStep(t)
  PROVE  WaitInv'
<1>0. cookie => winner \in Thread
  BY DEF WinnerInv, TypeOK
<1>1. ExitFrame(t) /\ Alive(t)
  BY ExitStepFrame, ExitStepAlive
<1>2. \A u \in Thread \ {t} : pc'[u] = pc[u]
  BY <1>1 DEF ExitFrame
<1>3. CASE WinExit(t)
  BY <1>3 DEF WinExit, WaitInv, LosersWait
<1>7. CASE MarkWinner(t)
  <2>1. /\ pc[t] = "markWin" /\ winner = t /\ finiProc # "done" /\ cookie
        /\ UNCHANGED <<cookie, winner, finiProcessDone, finiProc>>
    BY <1>7, ThreadsAssumption
    DEF MarkWinner, At, exitVars, WinnerInv, WinnerLoc, ThreadsAssumption, Thread
  <2> QED
    BY <2>1 DEF WaitInv, LosersWait, WinnerLoc
<1>4. CASE RepeatExit(t)
  <2>1. winner = t
    BY <1>1, <1>4, WonIsWinner DEF RepeatExit
  <2> QED
    BY <1>4, <2>1 DEF RepeatExit, WaitInv, LosersWait, Goto, TypeOK, WinnerLoc
<1>5. CASE EnterStep(t) \/ LoseExit(t) \/ LoserReleased(t) \/ EndReturn(t) \/ Die(t)
  <2>1. UNCHANGED <<cookie, winner, finiProcessDone, finiProc>>
    BY <1>5 DEF EnterStep, Exit, PthreadExit, FatalSignal, LoseExit, LoserReleased, EndReturn, Die,
       exitVars
  <2>2. pc'[t] \in WinnerLoc => pc[t] \in WinnerLoc
    BY <1>5 DEF EnterStep, Exit, PthreadExit, FatalSignal, EnterEnd, LoseExit, LoserReleased,
       EndReturn, Die, threadsVars, frameVars, Goto, TypeOK, WinnerLoc
  <2> QED
    BY <1>0, <1>2, <2>1, <2>2 DEF WaitInv, LosersWait
<1>6. CASE WinnerStep(t)
  <2>1. pc[t] \in WinnerLoc
    BY <1>6 DEF WinnerStep, BeginExitReturn, ShootdownLock, Acquire, ShootdownMark, Visit, Kill,
       NextPass, AllFinished, GiveUp, PassEnd, SelfFiniReturn, FiniProcessReturn, At, WinnerLoc
  <2>2. winner = t /\ finiProc # "done" /\ cookie
    BY <2>1, ThreadsAssumption DEF WinnerInv, WinnerLoc, ThreadsAssumption, Thread
  <2>3. ~finiProcessDone
    BY <2>1, <2>2 DEF WaitInv, LosersWait
  <2>4. cookie' = cookie /\ (finiProcessDone' = finiProcessDone \/ finiProc' = "done")
    BY <1>6 DEF WinnerStep, BeginExitReturn, ShootdownLock, Acquire, ShootdownMark, Visit, Kill,
       NextPass, AllFinished, GiveUp, LeaveLoop, SelfFiniReturn, FiniProcessReturn, exitVars
  <2> QED
    BY <2>2, <2>3, <2>4 DEF WaitInv, LosersWait
<1> QED
  BY <1>3, <1>4, <1>5, <1>6, <1>7 DEF ExitStep, EndStep

LEMMA InitGate == Init => GateInv
<1> SUFFICES ASSUME Init PROVE GateInv
  OBVIOUS
<1>1. \A n \in Node : ~tn[n].exitWin
  BY DEF Init, ThreadsInit, MagicTn, ZeroTn, ClearTn
<1>2. tn[MainNode].magic
  BY DEF Init, ThreadsInit, MagicTn, ClearTn, Node
<1>3. \A t \in Thread : mk[t] = NoNode /\ node[t] = NoNode
  BY DEF Init, ThreadsInit
<1>4. ~cookie /\ ~finiProcessDone
  BY DEF Init, ExitInit
<1>5. MainNode \in Node
  BY DEF Node
<1> QED
  BY <1>1, <1>2, <1>3, <1>4, <1>5 DEF GateInv, NodeInv, MarkInv, WaitInv, LosersWait

LEMMA NextGate ==
  ASSUME TsdCode = FALSE
  PROVE  IInv /\ GateInv /\ [Next]_vars => GateInv'
<1> SUFFICES ASSUME IInv, GateInv, [Next]_vars PROVE GateInv'
  OBVIOUS
<1> USE DEF IInv, GateInv
<1>1. ASSUME NEW t \in Thread, ThreadStep(t), UNCHANGED exitVars PROVE GateInv'
  BY <1>1, GateThreadStep, WaitThreadStep
<1>2. ASSUME NEW t \in Thread, ExitStep(t) PROVE GateInv'
  BY <1>2, GateExitStep, WaitExitStep
<1>3. CASE UNCHANGED vars
  BY <1>3 DEF vars, threadsVars, exitVars, frameVars, nodeVars, flagVars, NodeInv, MarkInv,
     WaitInv, LosersWait, Alive
<1> QED
  BY <1>1, <1>2, <1>3 DEF Next, Terminated

\* The invariant behind LosersWait and the gate.
THEOREM GateInductive ==
  ASSUME TsdCode = FALSE
  PROVE  Spec => []GateInv
<1>1. Init => GateInv
  BY InitGate
<1>2. IInv /\ GateInv /\ [Next]_vars => GateInv'
  BY NextGate
<1> QED
  BY <1>1, <1>2, Inductive, PTL DEF Spec

\* main.c, monitor_end_process_fcn: whatever the threads, their signals and the
\* shootdown do, nobody that has lost the race to exit is released while the
\* winner is in its callbacks, unless the winner itself calls exit again from
\* there.  Code in key destructors is excepted: it may run with the node of another
\* thread.
THEOREM LosersAlwaysWait ==
  ASSUME TsdCode = FALSE
  PROVE  Spec => []LosersWait
<1>1. GateInv => LosersWait
  BY DEF GateInv, WaitInv
<1> QED
  BY <1>1, GateInductive, PTL

-----------------------------------------------------------------------------
(* Calls of exit behave as the gate. *)

\* Every thread that calls exit has a node.  Without, it could not be told from the
\* others when it calls again.
NodedExit ==
    \A t \in Thread : pc[t] \in {"endProcess", "markWin"} => GetTn(t) # NoNode

\* No fatal signal takes the winner away between the compare-and-swap of the cookie and
\* the mark on its node (main.c:308-314).  If one does, the winner asks again, is not
\* known, and waits for itself.
InTime == \A t \in Thread : pc[t] = "markWin" => pc'[t] # "endProcess"

MarkedInTime == [][InTime]_vars

\* The winner is known by its mark whenever it calls exit again.
WonInv == cookie /\ Alive(winner) /\ pc[winner] # "markWin" => HasWon(winner)

\* A thread step moves nobody out of the exit protocol, and wakes nobody up.
LEMMA ThreadStepStays ==
  ASSUME TypeOK, NEW t \in Thread, ThreadStep(t), NEW u \in Thread,
         pc[u] \in ExitLoc \cup {"gone"}
  PROVE  pc'[u] = pc[u]
<1> USE DEF TypeOK, At, Goto, ExitLoc, WinnerLoc, nodeVars, flagVars, frameVars
<1>1. CASE AppStep(t)
  BY <1>1 DEF AppStep, CreateBegin, CreateIgnored, CancelInit, ThreadReturn, TsdReturn,
     BlockShootdown
<1>2. CASE InnerStep(t)
  BY <1>2 DEF InnerStep, MakeNodeLock, LinkLock, UnlinkLock, Acquire, MakeNode, Launch,
     LaunchFails, BeginThread, LinkNode, ApplStart, CleanupCheck, AfterCleanup, CleanupFini,
     CleanupFiniReturn, UnlinkNode
<1>3. CASE HandlerStep(t)
  BY <1>3 DEF HandlerStep, HandlerEnter, HandlerFini, HandlerReturn
<1> QED
  BY <1>1, <1>2, <1>3 DEF ThreadStep

\* What a thread step does to the nodes that are in use by others.
LEMMA ThreadStepMarks ==
  ASSUME TypeOK, LocationInv, NEW t \in Thread, ThreadStep(t), UNCHANGED exitVars,
         TsdCode = FALSE, NEW n \in Node, n \notin free \cup fresh,
         pc[t] = "unlinkLocked" => node[t] # n
  PROVE  tn'[n].magic = tn[n].magic /\ tn'[n].exitWin = tn[n].exitWin
<1>1. CASE \/ CancelInit(t) \/ ThreadReturn(t) \/ TsdReturn(t)
           \/ \E b \in BOOLEAN : BlockShootdown(t, b)
           \/ MakeNodeLock(t) \/ LinkLock(t) \/ UnlinkLock(t) \/ LinkNode(t) \/ ApplStart(t)
           \/ CleanupCheck(t) \/ CleanupFini(t) \/ CleanupFiniReturn(t) \/ HandlerStep(t)
           \/ UnlinkNode(t) /\ inExitCleanup
  BY <1>1, QuietThreadStep DEF NodeStill, MarkStill
<1>2. CASE CreateBegin(t) \/ \E u \in Side : CreateIgnored(t, u)
  <2>1. Alive(t) /\ ThreadListInit(t)
    BY <1>2 DEF CreateBegin, CreateIgnored, At, Alive
  <2> QED
    BY <2>1, ListInit
<1>3. CASE MakeNode(t)
  BY <1>3 DEF MakeNode, TypeOK
<1>4. CASE LaunchFails(t) \/ \E u \in Side : Launch(t, u)
  BY <1>4 DEF Launch, LaunchFails
<1>5. CASE BeginThread(t)
  BY <1>5 DEF BeginThread, TypeOK, TnRecord
<1>6. CASE UnlinkNode(t) /\ ~inExitCleanup
  BY <1>6 DEF UnlinkNode, TypeOK, At
<1> QED
  BY <1>1, <1>2, <1>3, <1>4, <1>5, <1>6 DEF ThreadStep, AppStep, InnerStep

LEMMA ThreadStepNode ==
  ASSUME TypeOK, LocationInv, NEW t \in Thread, ThreadStep(t), NEW u \in Thread,
         pc[u] # "begin"
  PROVE  /\ hasUsedThreads => hasUsedThreads' /\ node'[u] = node[u]
         /\ ~hasUsedThreads => ~hasUsedThreads' \/ node'[Main] = MainNode
<1>1. CASE CreateBegin(t) \/ \E v \in Side : CreateIgnored(t, v)
  <2>1. Alive(t) /\ ThreadListInit(t)
    BY <1>1 DEF CreateBegin, CreateIgnored, At, Alive
  <2>2. ~hasUsedThreads => t = Main
    BY <2>1, OnlyMain
  <2> QED
    BY <2>1, <2>2 DEF ThreadListInit, TypeOK
<1>2. CASE BeginThread(t)
  BY <1>2 DEF BeginThread, At, TypeOK, flagVars
<1>3. CASE ~(CreateBegin(t) \/ \E v \in Side : CreateIgnored(t, v)) /\ ~BeginThread(t)
  <2>1. node' = node /\ hasUsedThreads' = hasUsedThreads
    BY <1>3 DEF ThreadStep, AppStep, InnerStep, HandlerStep, CancelInit, ThreadReturn,
       TsdReturn, BlockShootdown, MakeNodeLock, LinkLock, UnlinkLock, Acquire, MakeNode, Launch,
       LaunchFails, LinkNode, ApplStart, CleanupCheck, CleanupFini, CleanupFiniReturn, UnlinkNode,
       HandlerEnter, HandlerFini, HandlerReturn, nodeVars, flagVars
  <2> QED
    BY <2>1
<1> QED
  BY <1>1, <1>2, <1>3

LEMMA WonThreadStep ==
  ASSUME TypeOK, LocationInv, WinnerInv, NodeInv, MarkInv, WonInv, NEW t \in Thread,
         ThreadStep(t), UNCHANGED exitVars, TsdCode = FALSE
  PROVE  WonInv'
<1>0. cookie' = cookie /\ winner' = winner
  BY DEF exitVars
<1> SUFFICES ASSUME cookie, Alive(winner)', pc'[winner] # "markWin" PROVE HasWon(winner)'
  BY <1>0 DEF WonInv
<1>1. winner \in Thread /\ phase[winner] # "run"
  BY DEF WinnerInv, TypeOK, MarkInv
<1>2. Alive(winner) /\ pc[winner] \notin {"begin", "unlinkLocked"}
  <2>1. pc[winner] = "gone" => pc'[winner] = "gone"
    BY <1>1, ThreadStepStays
  <2>2. pc'[winner] # "gone"
    BY <1>0 DEF Alive
  <2> QED
    BY <1>1, <2>1, <2>2 DEF Alive, LocationInv, BeginLoc, CleanupLoc
<1>3. HasWon(winner)
  <2>1. pc[winner] = "markWin" => pc'[winner] = "markWin"
    BY <1>1, ThreadStepStays DEF ExitLoc, WinnerLoc
  <2> QED
    BY <1>2, <2>1 DEF WonInv
<1>4. CASE hasUsedThreads
  <2>1. /\ node[winner] # NoNode /\ node[winner] \in Node /\ tn[node[winner]].magic
        /\ tn[node[winner]].exitWin
    BY <1>1, <1>3, <1>4, NodesTyped DEF HasWon, GetTn
  <2>2. node[winner] \notin free \cup fresh
    BY <1>1, <1>2, <2>1 DEF NodeInv
  <2>3. pc[t] = "unlinkLocked" => node[t] # node[winner]
    BY <1>1, <1>2, <2>1 DEF NodeInv, Alive
  <2>4. tn'[node[winner]].magic = tn[node[winner]].magic
        /\ tn'[node[winner]].exitWin = tn[node[winner]].exitWin
    BY <2>1, <2>2, <2>3, ThreadStepMarks
  <2>5. hasUsedThreads' /\ node'[winner] = node[winner]
    BY <1>1, <1>2, <1>4, ThreadStepNode
  <2> QED
    BY <1>0, <2>1, <2>4, <2>5 DEF HasWon, GetTn
<1>5. CASE ~hasUsedThreads
  <2>1. winner = Main /\ tn[MainNode].exitWin /\ tn[MainNode].magic
    BY <1>1, <1>2, <1>3, <1>5, OnlyMain DEF HasWon, GetTn, NodeInv
  <2>2. MainNode \in Node /\ MainNode \notin free \cup fresh /\ MainNode # NoNode
    BY ThreadsAssumption DEF TypeOK, Node, ThreadsAssumption
  <2>3. pc[t] = "unlinkLocked" => node[t] # MainNode
    BY ThreadsAssumption DEF LocationInv, CleanupLoc, ThreadsAssumption
  <2>4. tn'[MainNode].magic /\ tn'[MainNode].exitWin
    BY <2>1, <2>2, <2>3, ThreadStepMarks
  <2>5. ~hasUsedThreads' \/ node'[Main] = MainNode
    BY <1>1, <1>2, <1>5, ThreadStepNode
  <2> QED
    BY <1>0, <2>1, <2>2, <2>4, <2>5 DEF HasWon, GetTn
<1> QED
  BY <1>4, <1>5

LEMMA WonExitStep ==
  ASSUME TypeOK, LocationInv, WinnerInv, WonInv, NodedExit, NEW t \in Thread, ExitStep(t),
         pc[t] = "markWin" => pc'[t] # "endProcess"
  PROVE  WonInv'
<1>1. ExitFrame(t) /\ Alive(t)
  BY ExitStepFrame, ExitStepAlive
<1>2. \A n \in Node : SameNode(n)
  BY ExitStepNodes
<1>3. \A u \in Thread : GetTn(u)' = GetTn(u)
  BY <1>1, <1>2, NodesTyped DEF ExitFrame, GetTn, SameNode
<1>4. CASE MarkWinner(t)
  <2>1. GetTn(t) \in Node
    BY <1>4, NodesTyped DEF NodedExit, MarkWinner, At
  <2>2. winner' = t /\ tn' = [tn EXCEPT ![GetTn(t)].exitWin = TRUE]
    BY <1>4, <2>1, NodesTyped DEF MarkWinner, At, exitVars, WinnerInv, WinnerLoc
  <2>3. tn'[GetTn(t)].exitWin
    BY <2>1, <2>2 DEF TypeOK, TnRecord
  <2> QED
    BY <1>3, <2>1, <2>2, <2>3, NodesTyped DEF WonInv, HasWon
<1>6. CASE WinExit(t)
  BY <1>6 DEF WinExit, WonInv, Goto, TypeOK
<1>5. CASE ~WinExit(t) /\ ~MarkWinner(t)
  <2>1. cookie' = cookie /\ winner' = winner
    BY <1>5 DEF ExitStep, EnterStep, EndStep, WinnerStep, Exit, PthreadExit, FatalSignal,
       RepeatExit, LoseExit, LoserReleased, EndReturn, Die, BeginExitReturn, ShootdownLock,
       ShootdownMark, Visit, Kill, NextPass, AllFinished, GiveUp, LeaveLoop, SelfFiniReturn,
       FiniProcessReturn, exitVars
  <2>2. \A n \in Node : tn'[n].exitWin = tn[n].exitWin
    BY <1>5, ExitStepNodes
  <2>3. cookie => winner \in Thread
    BY DEF WinnerInv, TypeOK
  <2>4. cookie /\ Alive(winner)' => Alive(winner)
    BY <1>1, <2>1, <2>3 DEF ExitFrame, Alive
  <2>5. cookie /\ pc[winner] = "markWin" => pc'[winner] = "markWin" \/ ~Alive(winner)'
    <3>1. ASSUME pc[t] = "markWin" PROVE pc'[t] = "markWin"
      BY <1>5, <3>1, <1>1
      DEF ExitStep, EnterStep, EndStep, WinnerStep, Exit, PthreadExit, FatalSignal, EnterEnd,
         RepeatExit, LoseExit, LoserReleased, EndReturn, Die, BeginExitReturn, ShootdownLock,
         Acquire, ShootdownMark, Visit, Kill, NextPass, AllFinished, GiveUp, PassEnd,
         SelfFiniReturn, FiniProcessReturn, At, Goto, TypeOK, threadsVars, frameVars
    <3> QED
      BY <1>1, <2>3, <3>1 DEF ExitFrame
  <2> QED
    BY <1>3, <2>1, <2>2, <2>3, <2>4, <2>5, NodesTyped DEF WonInv, HasWon
<1> QED
  BY <1>4, <1>5, <1>6

LEMMA NextWon ==
  ASSUME TsdCode = FALSE
  PROVE  IInv /\ GateInv /\ WonInv /\ NodedExit /\ [InTime]_vars /\ [Next]_vars => WonInv'
<1> SUFFICES ASSUME IInv, GateInv, WonInv, NodedExit, [InTime]_vars, [Next]_vars
             PROVE  WonInv'
  OBVIOUS
<1> USE DEF IInv, GateInv
<1>1. ASSUME NEW t \in Thread, ThreadStep(t), UNCHANGED exitVars PROVE WonInv'
  BY <1>1, WonThreadStep
<1>2. ASSUME NEW t \in Thread, ExitStep(t) PROVE WonInv'
  <2>1. pc[t] = "markWin" => pc'[t] # "endProcess"
    BY DEF InTime, vars, threadsVars, frameVars
  <2> QED
    BY <1>2, <2>1, WonExitStep
<1>3. CASE UNCHANGED vars
  BY <1>3 DEF vars, threadsVars, exitVars, frameVars, nodeVars, flagVars, WonInv, HasWon, GetTn,
     Alive
<1> QED
  BY <1>1, <1>2, <1>3 DEF Next, Terminated

\* Where a thread is at the gate, by its location.
GateOf(l) == CASE l = "endProcess"  -> "asking"
               [] l \in WinnerLoc   -> "won"
               [] l = "loser"       -> "waiting"
               [] OTHER             -> "out"

LEMMA GateAtOf ==
  /\ \A t \in Thread : GateAt[t] = GateOf(pc[t])
  /\ \A t \in Thread : GateAt'[t] = GateOf(pc'[t])
  BY DEF GateAt, GateOf

LEMMA GateMoves ==
  ASSUME NEW t \in Thread, \A u \in Thread \ {t} : GateOf(pc'[u]) = GateOf(pc[u])
  PROVE  GateAt' = [GateAt EXCEPT ![t] = GateOf(pc'[t])]
<1>1. /\ GateAt = [u \in Thread |-> GateOf(pc[u])]
      /\ GateAt' = [u \in Thread |-> GateOf(pc'[u])]
  BY DEF GateAt, GateOf
<1> QED
  BY <1>1

LEMMA GateStill ==
  ASSUME \A u \in Thread : GateOf(pc'[u]) = GateOf(pc[u])
  PROVE  GateAt' = GateAt
<1>1. /\ GateAt = [u \in Thread |-> GateOf(pc[u])]
      /\ GateAt' = [u \in Thread |-> GateOf(pc'[u])]
  BY DEF GateAt, GateOf
<1> QED
  BY <1>1

LEMMA GateLocations ==
  /\ GateOf("endProcess") = "asking" /\ GateOf("loser") = "waiting"
  /\ \A l \in WinnerLoc : GateOf(l) = "won"
  /\ \A l \in Loc \ ({"endProcess", "loser"} \cup WinnerLoc) : GateOf(l) = "out"
  BY DEF GateOf, WinnerLoc

LEMMA GateStepThread ==
  ASSUME TypeOK, NEW t \in Thread, ThreadStep(t), UNCHANGED exitVars
  PROVE  UNCHANGED Gate!gateVars
<1>1. ASSUME NEW u \in Thread PROVE GateOf(pc'[u]) = GateOf(pc[u])
  <2>1. CASE pc[u] \in ExitLoc
    BY <2>1, ThreadStepStays
  <2>2. CASE pc'[u] \in ExitLoc
    BY <2>2, ThreadStepLoc
  <2>3. CASE pc[u] \notin ExitLoc /\ pc'[u] \notin ExitLoc
    BY <2>3 DEF GateOf, ExitLoc
  <2> QED
    BY <2>1, <2>2, <2>3
<1> QED
  BY <1>1, GateStill DEF Gate!gateVars, exitVars

LEMMA GateStepExit ==
  ASSUME TypeOK, LocationInv, WinnerInv, MarkInv, WonInv, NEW t \in Thread, ExitStep(t)
  PROVE  Gate!Next \/ UNCHANGED Gate!gateVars
<1>1. ExitFrame(t) /\ Alive(t)
  BY ExitStepFrame, ExitStepAlive
<1>2. GateAt' = [GateAt EXCEPT ![t] = GateOf(pc'[t])]
  BY <1>1, GateMoves DEF ExitFrame
<1>3. GateAt[t] = GateOf(pc[t]) /\ GateAt' = [GateAt EXCEPT ![t] = GateOf(pc'[t])]
  BY <1>2, GateAtOf
<1>4. ASSUME UNCHANGED <<winner, finiProcessDone>>, GateOf(pc'[t]) = GateOf(pc[t])
      PROVE  UNCHANGED Gate!gateVars
  <2>1. \A u \in Thread : GateOf(pc'[u]) = GateOf(pc[u])
    BY <1>1, <1>4 DEF ExitFrame
  <2> QED
    BY <1>4, <2>1, GateStill DEF Gate!gateVars
<1>5. t # NoThread /\ (cookie <=> winner # NoThread)
  BY ThreadsAssumption DEF ThreadsAssumption, Thread, WinnerInv
<1>6. CASE EnterStep(t)
  <2>1. pc'[t] = "endProcess" /\ UNCHANGED <<winner, finiProcessDone>>
    BY <1>6 DEF EnterStep, Exit, PthreadExit, FatalSignal, EnterEnd, Goto, TypeOK, exitVars
  <2>2. GateOf(pc[t]) \in {"out", "asking", "won", "waiting"}
    BY DEF GateOf
  <2>3. Gate!Ask(t)
    BY <1>3, <2>1, <2>2, GateLocations DEF Gate!Ask, Gate!Move
  <2> QED
    BY <2>3 DEF Gate!Next
<1>7. CASE WinExit(t)
  <2>1. pc[t] = "endProcess" /\ pc'[t] = "markWin" /\ winner' = t /\ ~cookie
        /\ finiProcessDone' = finiProcessDone
    BY <1>7 DEF WinExit, At, Goto, TypeOK
  <2>2. GateOf(pc'[t]) = "won"
    BY <2>1, GateLocations DEF WinnerLoc
  <2>3. Gate!Win(t)
    BY <1>3, <1>5, <2>1, <2>2, GateLocations DEF Gate!Win, Gate!Move
  <2> QED
    BY <2>3 DEF Gate!Next
<1>15. CASE MarkWinner(t)
  <2>1. pc[t] = "markWin" /\ pc'[t] = "beginExit" /\ UNCHANGED <<winner, finiProcessDone>>
    BY <1>15 DEF MarkWinner, At, Goto, TypeOK, exitVars
  <2>2. GateOf(pc[t]) = "won" /\ GateOf(pc'[t]) = "won"
    BY <2>1, GateLocations DEF WinnerLoc
  <2> QED
    BY <1>4, <2>1, <2>2
<1>8. CASE RepeatExit(t)
  <2>1. pc[t] = "endProcess" /\ pc'[t] = "endReturn" /\ winner' = winner /\ finiProcessDone' = TRUE
    BY <1>8 DEF RepeatExit, At, Goto, TypeOK
  <2>2. winner = t
    BY <1>1, <1>8, WonIsWinner DEF RepeatExit
  <2>3. GateOf(pc'[t]) = "out"
    BY <2>1, GateLocations DEF WinnerLoc, Loc, ExitLoc
  <2>4. Gate!Open(t)
    BY <1>3, <2>1, <2>2, <2>3, GateLocations DEF Gate!Open, Gate!Move
  <2> QED
    BY <2>4 DEF Gate!Next
<1>9. CASE LoseExit(t)
  <2>1. pc[t] = "endProcess" /\ pc'[t] = "loser" /\ UNCHANGED <<winner, finiProcessDone>>
        /\ cookie /\ ~HasWon(t)
    BY <1>9 DEF LoseExit, At, Goto, TypeOK, exitVars
  <2>2. winner \notin {NoThread, t}
    BY <1>1, <1>5, <2>1 DEF WonInv
  <2>3. Gate!Wait(t)
    BY <1>3, <2>1, <2>2, GateLocations DEF Gate!Wait, Gate!Move
  <2> QED
    BY <2>3 DEF Gate!Next
<1>10. CASE LoserReleased(t)
  <2>1. pc[t] = "loser" /\ pc'[t] = "endReturn" /\ UNCHANGED <<winner, finiProcessDone>>
        /\ finiProcessDone
    BY <1>10 DEF LoserReleased, At, Goto, TypeOK, exitVars
  <2>2. GateOf(pc'[t]) = "out"
    BY <2>1, GateLocations DEF WinnerLoc, Loc, ExitLoc
  <2>3. Gate!Pass(t)
    BY <1>3, <2>1, <2>2, GateLocations DEF Gate!Pass, Gate!Move
  <2> QED
    BY <2>3 DEF Gate!Next
<1>11. CASE EndReturn(t)
  <2>1. pc[t] = "endReturn" /\ pc'[t] \in {"raise", "gone", "app"}
        /\ UNCHANGED <<winner, finiProcessDone>>
    BY <1>11 DEF EndReturn, At, Goto, TypeOK, exitVars
  <2>2. GateOf(pc[t]) = "out" /\ GateOf(pc'[t]) = "out"
    BY <2>1, GateLocations DEF WinnerLoc, Loc, ExitLoc
  <2> QED
    BY <1>4, <2>1, <2>2
<1>12. CASE Die(t)
  BY <1>4, <1>12 DEF Die, threadsVars, frameVars
<1>13. CASE FiniProcessReturn(t)
  <2>1. pc[t] = "finiProcess" /\ pc'[t] = "endReturn" /\ winner' = winner /\ finiProcessDone' = TRUE
    BY <1>13 DEF FiniProcessReturn, At, Goto, TypeOK
  <2>2. winner = t
    BY <2>1 DEF WinnerInv, WinnerLoc
  <2>3. GateOf(pc[t]) = "won" /\ GateOf(pc'[t]) = "out"
    BY <2>1, GateLocations DEF WinnerLoc, Loc, ExitLoc
  <2>4. Gate!Open(t)
    BY <1>3, <2>1, <2>2, <2>3 DEF Gate!Open, Gate!Move
  <2> QED
    BY <2>4 DEF Gate!Next
<1>14. CASE WinnerStep(t) /\ ~FiniProcessReturn(t)
  <2>1. pc[t] \in WinnerLoc /\ pc'[t] \in WinnerLoc /\ UNCHANGED <<winner, finiProcessDone>>
    <3> USE DEF At, Goto, WinnerLoc, TypeOK, StartFiniProcess, threadsVars, frameVars, exitVars
    <3>1. CASE BeginExitReturn(t) \/ ShootdownLock(t) \/ ShootdownMark(t) \/ Kill(t)
      BY <3>1 DEF BeginExitReturn, ShootdownLock, Acquire, ShootdownMark, Kill
    <3>2. ASSUME NEW n \in Pool, Visit(t, n)
          PROVE  pc[t] \in WinnerLoc /\ pc'[t] \in WinnerLoc /\ UNCHANGED <<winner, finiProcessDone>>
      BY <3>2 DEF Visit
    <3>3. CASE NextPass(t) \/ AllFinished(t) \/ GiveUp(t) \/ SelfFiniReturn(t)
      BY <3>3 DEF NextPass, PassEnd, AllFinished, GiveUp, LeaveLoop, SelfFiniReturn
    <3> QED
      BY <1>14, <3>1, <3>2, <3>3 DEF WinnerStep
  <2> QED
    BY <1>4, <2>1, GateLocations
<1> QED
  BY <1>6, <1>7, <1>8, <1>9, <1>10, <1>11, <1>12, <1>13, <1>14, <1>15 DEF ExitStep, EndStep

LEMMA InitMapsGate == Init => Gate!Init /\ WonInv
<1> SUFFICES ASSUME Init PROVE Gate!Init /\ WonInv
  OBVIOUS
<1>1. \A t \in Thread : pc[t] \in {"app", "none"}
  BY DEF Init, ThreadsInit
<1>2. winner = NoThread /\ finiProcessDone = FALSE /\ ~cookie
  BY DEF Init, ExitInit
<1>3. GateAt = [t \in Thread |-> "out"]
  BY <1>1 DEF GateAt, WinnerLoc
<1> QED
  BY <1>2, <1>3 DEF Gate!Init, WonInv

\* main.c, monitor_end_process_fcn: as long as threads that call exit have a node, and
\* no fatal signal takes the winner between its cookie and its mark, all calls of exit,
\* from wherever they are made and however often, behave as the gate: one asker wins,
\* the others wait until its callbacks have returned or it asks again, and the winner
\* never waits for itself.
THEOREM GateImplemented ==
  ASSUME TsdCode = FALSE
  PROVE  Spec /\ []NodedExit /\ MarkedInTime => ImplementsGate
<1>1. Init => Gate!Init /\ WonInv
  BY InitMapsGate
<1>2. IInv /\ GateInv /\ WonInv /\ NodedExit /\ [InTime]_vars /\ [Next]_vars => WonInv'
  BY NextWon
<1>3. IInv /\ GateInv /\ WonInv /\ [Next]_vars => [Gate!Next]_Gate!gateVars
  <2> SUFFICES ASSUME IInv, GateInv, WonInv, [Next]_vars
               PROVE  Gate!Next \/ UNCHANGED Gate!gateVars
    OBVIOUS
  <2> USE DEF IInv, GateInv
  <2>1. ASSUME NEW t \in Thread, ThreadStep(t), UNCHANGED exitVars
        PROVE  Gate!Next \/ UNCHANGED Gate!gateVars
    BY <2>1, GateStepThread
  <2>2. ASSUME NEW t \in Thread, ExitStep(t) PROVE Gate!Next \/ UNCHANGED Gate!gateVars
    BY <2>2, GateStepExit
  <2>3. CASE UNCHANGED vars
    BY <2>3 DEF vars, threadsVars, exitVars, frameVars, GateAt, Gate!gateVars
  <2> QED
    BY <2>1, <2>2, <2>3 DEF Next, Terminated
<1> QED
  BY <1>1, <1>2, <1>3, Inductive, GateInductive, PTL
  DEF Spec, MarkedInTime, ImplementsGate, Gate!Spec

\* Without ignored threads and fatal signals, a thread has its node from the moment it
\* is about to link.
HasNode == \A t \in Thread : hasUsedThreads /\ pc[t] \notin {"none", "begin", "gone"}
                             => node[t] # NoNode

LEMMA HasNodeThreadStep ==
  ASSUME TypeOK, LocationInv, HasNode, ClientIgnores = FALSE, NEW t \in Thread, ThreadStep(t)
  PROVE  HasNode'
<1> USE DEF TypeOK, At, Goto, HasNode, nodeVars, flagVars, frameVars
<1>1. CASE CreateBegin(t)
  <2>1. pc[t] = "app" /\ pc' = [pc EXCEPT ![t] = "mkLock"] /\ ThreadListInit(t)
    BY <1>1 DEF CreateBegin
  <2>2. CASE hasUsedThreads
    BY <2>1, <2>2 DEF ThreadListInit
  <2>3. CASE ~hasUsedThreads
    <3>1. t = Main
      BY <2>1, <2>3, OnlyMain DEF Alive
    <3>2. \A u \in Thread \ {t} : pc'[u] = "none"
      BY <2>1, <2>3, <3>1 DEF LocationInv, Thread
    <3>3. node'[t] = MainNode /\ MainNode # NoNode
      BY <2>1, <2>3, ThreadsAssumption DEF ThreadListInit, ThreadsAssumption
    <3> QED
      BY <3>2, <3>3
  <2> QED
    BY <2>2, <2>3
<1>2. CASE \/ CancelInit(t) \/ ThreadReturn(t) \/ TsdReturn(t)
           \/ \E b \in BOOLEAN : BlockShootdown(t, b)
  BY <1>2 DEF CancelInit, ThreadReturn, TsdReturn, BlockShootdown
<1>3. CASE MakeNodeLock(t) \/ LinkLock(t) \/ UnlinkLock(t) \/ MakeNode(t) \/ LaunchFails(t)
  BY <1>3 DEF MakeNodeLock, LinkLock, UnlinkLock, Acquire, MakeNode, LaunchFails
<1>4. ASSUME NEW u \in Side, Launch(t, u) PROVE HasNode'
  BY <1>4 DEF Launch, Thread
<1>5. CASE BeginThread(t)
  <2>1. mk[t] \in Pool /\ mk[t] # NoNode
    BY <1>5, ThreadsAssumption DEF BeginThread, LocationInv, ThreadsAssumption
  <2> QED
    BY <1>5, <2>1 DEF BeginThread
<1>6. CASE LinkNode(t) \/ ApplStart(t) \/ CleanupCheck(t) \/ CleanupFini(t) \/ CleanupFiniReturn(t)
  BY <1>6 DEF LinkNode, ApplStart, CleanupCheck, AfterCleanup, CleanupFini, CleanupFiniReturn
<1>7. CASE UnlinkNode(t)
  BY <1>7 DEF UnlinkNode, AfterCleanup
<1>8. CASE HandlerStep(t)
  BY <1>8 DEF HandlerStep, HandlerEnter, HandlerFini, HandlerReturn
<1> QED
  BY <1>1, <1>2, <1>3, <1>4, <1>5, <1>6, <1>7, <1>8
  DEF ThreadStep, AppStep, InnerStep, CreateIgnored

LEMMA NoSignal ==
  ASSUME TypeOK, MaxSignals = 0, NEW t \in Thread
  PROVE  ~FatalSignal(t)
  BY DEF FatalSignal, TypeOK

LEMMA HasNodeExitStep ==
  ASSUME TypeOK, LocationInv, HasNode, MaxSignals = 0, NEW t \in Thread, ExitStep(t)
  PROVE  HasNode'
<1>1. ExitFrame(t) /\ Alive(t)
  BY ExitStepFrame, ExitStepAlive
<1>2. pc[t] # "begin"
  BY NoSignal DEF ExitStep, EnterStep, Exit, PthreadExit, EndStep, WinExit, MarkWinner, RepeatExit, LoseExit,
     LoserReleased, EndReturn, Die, WinnerStep, BeginExitReturn, ShootdownLock, Acquire,
     ShootdownMark, Visit, Kill, NextPass, AllFinished, GiveUp, PassEnd, SelfFiniReturn,
     FiniProcessReturn, At
<1> QED
  BY <1>1, <1>2 DEF HasNode, ExitFrame, Alive

\* pthread.c, monitor_get_tn: in a process whose client ignores no threads, and that
\* no fatal signal hits, every thread that calls exit is found by its node.
THEOREM CallersHaveNodes ==
  ASSUME TsdCode = FALSE, ClientIgnores = FALSE, MaxSignals = 0
  PROVE  Spec => []NodedExit
<1>1. Init => HasNode
  BY DEF Init, ThreadsInit, HasNode
<1>2. IInv /\ HasNode /\ [Next]_vars => HasNode'
  <2> SUFFICES ASSUME IInv, HasNode, [Next]_vars PROVE HasNode'
    OBVIOUS
  <2> USE DEF IInv
  <2>1. ASSUME NEW t \in Thread, ThreadStep(t) PROVE HasNode'
    BY <2>1, HasNodeThreadStep
  <2>2. ASSUME NEW t \in Thread, ExitStep(t) PROVE HasNode'
    BY <2>2, HasNodeExitStep
  <2>3. CASE UNCHANGED vars
    BY <2>3 DEF vars, threadsVars, frameVars, nodeVars, flagVars, HasNode
  <2> QED
    BY <2>1, <2>2, <2>3 DEF Next, Terminated
<1>3. TypeOK /\ NodeInv /\ HasNode => NodedExit
  BY ThreadsAssumption DEF NodeInv, HasNode, NodedExit, GetTn, Alive, ThreadsAssumption
<1>4. IInv => TypeOK
  BY DEF IInv
<1>5. GateInv => NodeInv
  BY DEF GateInv
<1> QED
  BY <1>1, <1>2, <1>3, <1>4, <1>5, Inductive, GateInductive, PTL DEF Spec

\* The same of such a process as a whole: its calls of exit are the gate.
THEOREM ExitIsGate ==
  ASSUME TsdCode = FALSE, ClientIgnores = FALSE, MaxSignals = 0
  PROVE  Spec => ImplementsGate
<1>1. Spec => []NodedExit
  BY CallersHaveNodes
<1>2. Spec /\ []NodedExit /\ MarkedInTime => ImplementsGate
  BY GateImplemented
<1>3. IInv /\ [Next]_vars => [InTime]_vars
  <2> SUFFICES ASSUME IInv, Next, NEW t \in Thread, pc[t] = "markWin" PROVE pc'[t] # "endProcess"
    BY DEF InTime
  <2> USE DEF IInv
  <2>1. ASSUME NEW u \in Thread, ThreadStep(u) PROVE pc'[t] # "endProcess"
    BY <2>1, ThreadStepStays DEF ExitLoc, WinnerLoc
  <2>2. ASSUME NEW u \in Thread, ExitStep(u) PROVE pc'[t] # "endProcess"
    <3>1. CASE u # t
      BY <2>2, <3>1, ExitStepFrame DEF ExitFrame
    <3>2. CASE u = t
      BY <2>2, <3>2, NoSignal
      DEF ExitStep, EnterStep, EndStep, WinnerStep, Exit, PthreadExit, WinExit, MarkWinner,
         RepeatExit, LoseExit, LoserReleased, EndReturn, Die, BeginExitReturn, ShootdownLock,
         Acquire, ShootdownMark, Visit, Kill, NextPass, AllFinished, GiveUp, PassEnd,
         SelfFiniReturn, FiniProcessReturn, At, Goto, TypeOK, threadsVars, frameVars
    <3> QED
      BY <3>1, <3>2
  <2>3. CASE Terminated
    BY <2>3 DEF Terminated, vars, threadsVars, frameVars
  <2> QED
    BY <2>1, <2>2, <2>3 DEF Next
<1> QED
  BY <1>1, <1>2, <1>3, Inductive, PTL DEF Spec, MarkedInTime

-----------------------------------------------------------------------------
(* The shootdown gives up on nobody who can react. *)

\* The thread of node n will still get to its fini_thread: it runs, or is in exit.
CanFinish(n) ==
    /\ tn[n].self \in Side
    /\ node[tn[n].self] = n
    /\ Alive(tn[n].self)
    /\ phase[tn[n].self] \in {"run", "exit"}

Unfinished(n) == tn[n].applStarted /\ ~tn[n].finiStarted

\* What is true of the nodes when the client blocks nothing: those that somebody
\* uses are not cleared, and name their thread.
ReadyInv ==
    /\ \A n \in Node : ~tn[n].block
    /\ \A t \in Thread : mk[t] # NoNode => tn[mk[t]].magic
    /\ \A t \in Thread : Linking(t) => tn[node[t]].magic /\ tn[node[t]].self = t
    /\ \A t \in Thread : Active(t) => tn[node[t]].self = t
    /\ \A n \in linked : tn[n].magic

\* No further fini_thread is refused before the loop of the shootdown is left.
BeforeLeave == {"markWin", "beginExit", "sdLock", "sdLocked", "walk", "kill"}
DoneInv ==
    /\ ~cookie => ~finiThreadDone
    /\ \A t \in Thread : pc[t] \in BeforeLeave => ~finiThreadDone

FinishInv == ~finiThreadDone => \A n \in linked : Unfinished(n) => CanFinish(n)

\* A step that moves no node and starts no application routine.
ReadyStill ==
    /\ UNCHANGED <<mk, node, linked>>
    /\ \A n \in Node : SameNode(n)
    /\ \A u \in Thread : (Linking(u)' => Linking(u)) /\ (Active(u)' => Active(u))

\* A thread that can finish goes on.
GoesOn ==
    \A u \in Side : Alive(u) /\ phase[u] \in {"run", "exit"} =>
                      Alive(u)' /\ phase'[u] \in {"run", "exit"}

LEMMA PoolNodes ==
  ASSUME TypeOK
  PROVE  linked \subseteq Node /\ linked \subseteq Pool /\ Pool \subseteq Node
         /\ \A u \in Thread : mk[u] # NoNode => mk[u] \in Node
  BY NodesTyped DEF TypeOK, Node

LEMMA StillReady ==
  ASSUME TypeOK, LocationInv, OwnershipInv, ReadyInv, ReadyStill
  PROVE  ReadyInv'
<1>1. \A u \in Thread : Linking(u) => node[u] \in Node
  BY PoolNodes DEF OwnershipInv
<1>2. \A u \in Thread : Active(u) => node[u] \in Node
  BY PoolNodes DEF OwnershipInv
<1> QED
  BY <1>1, <1>2, PoolNodes DEF ReadyInv, ReadyStill, SameNode

LEMMA StillFinish ==
  ASSUME TypeOK, FinishInv, ReadyStill, GoesOn, finiThreadDone' = finiThreadDone
  PROVE  FinishInv'
<1> SUFFICES ASSUME ~finiThreadDone, NEW n \in linked, Unfinished(n)' PROVE CanFinish(n)'
  BY DEF FinishInv, ReadyStill
<1>1. SameNode(n)
  BY PoolNodes DEF ReadyStill
<1>2. Unfinished(n)
  BY <1>1, PoolNodes DEF Unfinished, SameNode, TypeOK, TnRecord
<1>3. CanFinish(n)
  BY <1>2 DEF FinishInv
<1> QED
  BY <1>1, <1>3 DEF CanFinish, GoesOn, SameNode, ReadyStill

LEMMA SettledFlags ==
  ASSUME TypeOK, NEW m \in Node,
         \/ tn' = tn
         \/ tn' = [tn EXCEPT ![m].finiStarted = TRUE]
         \/ tn' = [tn EXCEPT ![m].finiDone = TRUE]
         \/ tn' = [tn EXCEPT ![m].finiStarted = TRUE, ![m].finiDone = TRUE]
  PROVE  \A n \in Node : SameNode(n)
<1>1. CASE tn' = [tn EXCEPT ![m].finiStarted = TRUE, ![m].finiDone = TRUE]
  <2>1. \A n \in Node : tn[n] \in TnRecord
    BY DEF TypeOK
  <2>2. \A n \in Node : tn'[n] = tn[n]
                        \/ tn'[n] = [tn[n] EXCEPT !.finiStarted = TRUE, !.finiDone = TRUE]
    BY <1>1, <2>1 DEF TypeOK, TnRecord
  <2>3. ASSUME NEW n \in Node PROVE SameNode(n)
    <3>1. CASE tn'[n] = tn[n]
      BY <3>1 DEF SameNode
    <3>2. CASE tn'[n] = [tn[n] EXCEPT !.finiStarted = TRUE, !.finiDone = TRUE]
      <4>1. PICK r \in TnRecord : r = tn[n]
        BY <2>1
      <4>2. /\ tn'[n].self = r.self /\ tn'[n].magic = r.magic
            /\ tn'[n].applStarted = r.applStarted /\ tn'[n].block = r.block
            /\ tn'[n].finiStarted = TRUE
        BY <3>2, <4>1 DEF TnRecord
      <4> QED
        BY <4>1, <4>2 DEF SameNode
    <3> QED
      BY <2>2, <3>1, <3>2
  <2> QED
    BY <2>3
<1> QED
  BY <1>1, SetFlag

\* The steps of a thread that touch no list and at most set a flag.
LEMMA ReadyQuietStep ==
  ASSUME TypeOK, LocationInv, OwnershipInv, ReadyInv, NEW t \in Thread,
         \/ CancelInit(t)
         \/ MakeNodeLock(t) \/ LinkLock(t) \/ UnlinkLock(t)
         \/ CleanupFini(t) \/ CleanupFiniReturn(t) \/ HandlerStep(t)
  PROVE  ReadyStill /\ GoesOn
<1>1. /\ UNCHANGED <<mk, node, linked, phase>>
      /\ \A u \in Thread : Alive(u) => Alive(u)'
    BY DEF CancelInit, MakeNodeLock, LinkLock, UnlinkLock, Acquire, CleanupFini, CleanupFiniReturn,
       HandlerStep, HandlerEnter, HandlerFini, HandlerReturn, At, Goto, TypeOK, nodeVars, Alive
<1>2. QuietStep
  BY AppStepQuiet, HandlerStepQuiet
     DEF AppStep, LocationInv, QuietStep, Linking, Active, ActiveLoc, CreateLoc, CleanupLoc,
     MakeNodeLock, LinkLock, UnlinkLock, Acquire, CleanupFini, CleanupFiniReturn, At, Goto, TypeOK,
     nodeVars
<1>3. \A n \in Node : SameNode(n)
  <2>1. CASE tn' = tn
    BY <2>1 DEF SameNode
  <2>2. CASE tn' = [tn EXCEPT ![node[t]].finiStarted = TRUE]
             \/ tn' = [tn EXCEPT ![node[t]].finiDone = TRUE]
    <3>1. node[t] \in Node \cup {NoNode}
      BY DEF TypeOK
    <3> QED
      BY <2>2, <3>1, SetFlag
  <2> QED
    BY <2>1, <2>2 DEF CancelInit, MakeNodeLock, LinkLock, UnlinkLock, Acquire, CleanupFini,
       CleanupFiniReturn, StartFini, EndFini, HandlerStep, HandlerEnter, HandlerFini,
       HandlerReturn, nodeVars
<1>4. \A u \in Thread : (Linking(u)' => Linking(u)) /\ (Active(u)' => Active(u))
  BY <1>2 DEF QuietStep
<1> QED
  BY <1>1, <1>3, <1>4 DEF ReadyStill, GoesOn, Thread

LEMMA ReadyThreadStep ==
  ASSUME TypeOK, LocationInv, OwnershipInv, ReadyInv, FinishInv,
         ClientBlocks = FALSE, NEW t \in Thread, ThreadStep(t)
  PROVE  ReadyInv' /\ FinishInv'
<1>0. finiThreadDone' = finiThreadDone
  BY DEF ThreadStep, AppStep, InnerStep, HandlerStep, CreateBegin, CreateIgnored, CancelInit,
     ThreadReturn, TsdReturn, BlockShootdown, MakeNodeLock, LinkLock, UnlinkLock, Acquire, MakeNode,
     Launch, LaunchFails, BeginThread, LinkNode, ApplStart, CleanupCheck, CleanupFini,
     CleanupFiniReturn, UnlinkNode, HandlerEnter, HandlerFini, HandlerReturn, flagVars
<1>1. CASE \/ CancelInit(t) \/ MakeNodeLock(t) \/ LinkLock(t) \/ UnlinkLock(t)
           \/ CleanupFini(t) \/ CleanupFiniReturn(t) \/ HandlerStep(t)
  <2>1. ReadyStill /\ GoesOn
    BY <1>1, ReadyQuietStep
  <2> QED
    BY <1>0, <2>1, StillReady, StillFinish
<1>2. CASE ThreadReturn(t) \/ TsdReturn(t) \/ CleanupCheck(t)
  <2>1. /\ UNCHANGED <<mk, node, linked, tn>>
        /\ \A u \in Thread \ {t} : pc'[u] = pc[u] /\ phase'[u] = phase[u]
        /\ pc'[t] \in {"gone", "cleanup", "cleanupFini", "app"}
        /\ pc[t] \in {"app", "cleanup"}
    BY <1>2 DEF ThreadReturn, TsdReturn, CleanupCheck, AfterCleanup, At, Goto, TypeOK, nodeVars
  <2>2. /\ Linking(t)' => FALSE
        /\ Active(t)' => Active(t)
    BY <1>2, <2>1 DEF Linking, Active, ActiveLoc, CreateLoc, CleanupLoc, CleanupCheck, AfterCleanup,
       ThreadReturn, TsdReturn, At, Goto, LocationInv, TypeOK
  <2>3. ReadyInv'
    BY <2>1, <2>2 DEF ReadyInv, Linking, Active
  <2>4. ASSUME ~finiThreadDone, NEW n \in linked, Unfinished(n) PROVE CanFinish(n)'
    <3>1. CanFinish(n) /\ tn[n].magic /\ ~tn[n].block /\ n # NoNode
      BY <2>4, PoolNodes, NodesTyped DEF FinishInv, ReadyInv
    <3>2. CASE tn[n].self # t
      BY <2>1, <3>1, <3>2 DEF CanFinish, Alive, Thread
    <3>3. CASE tn[n].self = t
      <4>1. node[t] = n /\ phase[t] \in {"run", "exit"} /\ t \in Side
        BY <3>1, <3>3 DEF CanFinish
      <4>2. FiniDue(n)
        BY <2>4, <3>1 DEF FiniDue, Unfinished
      <4>3. pc'[t] \in {"cleanup", "cleanupFini"} /\ phase'[t] = phase[t]
        BY <1>2, <3>1, <4>1, <4>2 DEF ThreadReturn, TsdReturn, CleanupCheck, At, Goto, TypeOK
      <4> QED
        BY <2>1, <3>3, <4>1, <4>3 DEF CanFinish, Alive
    <3> QED
      BY <3>2, <3>3
  <2>5. FinishInv'
    BY <1>0, <2>1, <2>4 DEF FinishInv, Unfinished
  <2> QED
    BY <2>3, <2>5
<1>3. CASE CreateBegin(t) \/ \E u \in Side : CreateIgnored(t, u)
  <2>1. Alive(t) /\ ThreadListInit(t) /\ UNCHANGED <<mk, linked, phase>>
        /\ \A u \in Thread : Alive(u) => Alive(u)'
    BY <1>3 DEF CreateBegin, CreateIgnored, At, Goto, Alive, TypeOK, Thread
  <2>2. QuietStep
    BY <1>3, AppStepQuiet DEF AppStep
  <2>3. CASE hasUsedThreads
    <3>1. UNCHANGED <<node, tn>>
      BY <2>1, <2>3 DEF ThreadListInit
    <3>2. ReadyStill /\ GoesOn
      BY <2>1, <2>2, <3>1 DEF QuietStep, ReadyStill, GoesOn, SameNode, Thread
    <3> QED
      BY <1>0, <3>2, StillReady, StillFinish
  <2>4. CASE ~hasUsedThreads
    <3>1. tn' = [tn EXCEPT ![MainNode].self = t] /\ t = Main
      BY <2>1, <2>4, OnlyMain DEF ThreadListInit
    <3>2. \A n \in Pool : tn'[n] = tn[n]
      BY <3>1, NodesTyped DEF TypeOK
    <3>3. \A n \in Node : tn'[n].block = tn[n].block
      BY <3>1 DEF TypeOK, TnRecord
    <3>4. \A u \in Thread : Linking(u) => node[u] \in Pool
      BY DEF OwnershipInv
    <3>5. \A u \in Thread : Active(u) => node[u] \in Pool
      BY PoolNodes DEF OwnershipInv
    <3>6. /\ \A u \in Thread : Linking(u)' => Linking(u) /\ node'[u] = node[u]
          /\ \A u \in Thread : Active(u)' => Active(u) /\ node'[u] = node[u]
      BY <2>2 DEF QuietStep
    <3>7. \A u \in Thread : mk[u] # NoNode => mk[u] \in Pool
      BY NodesTyped
    <3>8. ReadyInv'
      BY <2>1, <3>2, <3>3, <3>4, <3>5, <3>6, <3>7, PoolNodes DEF ReadyInv
    <3>9. \A n \in linked : ~CanFinish(n)
      BY <2>4 DEF CanFinish, LocationInv, Alive
    <3>10. FinishInv'
      BY <1>0, <2>1, <3>2, <3>9, PoolNodes DEF FinishInv, Unfinished
    <3> QED
      BY <3>8, <3>10
  <2> QED
    BY <2>3, <2>4
<1>4. CASE MakeNode(t)
  <2>1. PICK n \in free \cup fresh :
          tn' = [tn EXCEPT ![n] = MagicTn] /\ mk' = [mk EXCEPT ![t] = n]
    BY <1>4 DEF MakeNode
  <2>2. /\ pc' = [pc EXCEPT ![t] = "launch"] /\ pc[t] = "mkLocked"
        /\ UNCHANGED <<phase, node, linked>>
    BY <1>4 DEF MakeNode, At, Goto
  <2>3. n \in Pool /\ n \in Node /\ n \notin linked
    BY <2>1, PoolNodes DEF TypeOK, OwnershipInv, NodeOwnership
  <2>4. /\ tn'[n] = MagicTn /\ \A m \in Node \ {n} : tn'[m] = tn[m]
        /\ mk'[t] = n /\ \A u \in Thread \ {t} : mk'[u] = mk[u]
    BY <2>1, <2>3 DEF TypeOK
  <2>5. MagicTn.magic /\ ~MagicTn.block
    BY DEF MagicTn, ClearTn
  <2>6. \A u \in Thread : Linking(u)' => Linking(u) /\ node[u] # n /\ node[u] \in Node
    BY <2>1, <2>2, PoolNodes DEF Linking, OwnershipInv, TypeOK
  <2>7. \A u \in Thread : Active(u)' => Active(u) /\ node[u] # n /\ node[u] \in Node
    BY <2>2, <2>3, PoolNodes DEF Active, ActiveLoc, CreateLoc, OwnershipInv, TypeOK
  <2>8. ReadyInv'
    BY <2>2, <2>3, <2>4, <2>5, <2>6, <2>7, PoolNodes DEF ReadyInv
  <2>9. \A m \in linked : tn'[m] = tn[m]
    BY <2>3, <2>4, PoolNodes
  <2>10. \A u \in Thread : Alive(u) => Alive(u)'
    BY <2>2 DEF Alive, TypeOK
  <2>11. FinishInv'
    BY <1>0, <2>2, <2>9, <2>10 DEF FinishInv, Unfinished, CanFinish, Thread
  <2> QED
    BY <2>8, <2>11
<1>5. CASE LaunchFails(t) \/ \E u \in Side : Launch(t, u)
  <2>1. /\ UNCHANGED <<node, linked, tn, phase>>
        /\ \A u \in Thread : mk'[u] # NoNode => \E v \in Thread : mk'[u] = mk[v]
        /\ \A u \in Thread : Linking(u)' => Linking(u)
        /\ \A u \in Thread : Active(u)' => Active(u)
        /\ \A u \in Thread : Alive(u) => Alive(u)'
    <3>1. CASE LaunchFails(t)
      BY <3>1 DEF LaunchFails, At, Goto, TypeOK, Linking, Active, ActiveLoc, CreateLoc, CleanupLoc,
         Alive
    <3>2. ASSUME NEW w \in Side, Launch(t, w)
          PROVE  /\ UNCHANGED <<node, linked, tn, phase>>
                 /\ \A u \in Thread : mk'[u] # NoNode => \E v \in Thread : mk'[u] = mk[v]
                 /\ \A u \in Thread : Linking(u)' => Linking(u)
                 /\ \A u \in Thread : Active(u)' => Active(u)
                 /\ \A u \in Thread : Alive(u) => Alive(u)'
      <4>1. w \in Thread /\ mk' = [mk EXCEPT ![t] = NoNode, ![w] = mk[t]]
        BY <3>2 DEF Launch, Thread
      <4>2. \A u \in Thread : mk'[u] # NoNode => \E v \in Thread : mk'[u] = mk[v]
        BY <4>1 DEF TypeOK
      <4> QED
        BY <3>2, <4>2 DEF Launch, At, TypeOK, Linking, Active, ActiveLoc, CreateLoc, CleanupLoc, Alive
    <3> QED
      BY <1>5, <3>1, <3>2
  <2>2. ReadyInv'
    BY <2>1 DEF ReadyInv
  <2>3. FinishInv'
    BY <1>0, <2>1 DEF FinishInv, Unfinished, CanFinish, Thread
  <2> QED
    BY <2>2, <2>3
<1>6. CASE BeginThread(t)
  <2>1. /\ mk[t] \in Pool /\ mk[t] # NoNode /\ mk[t] \in Node
        /\ node'[t] = mk[t] /\ \A v \in Thread \ {t} : node'[v] = node[v]
        /\ mk'[t] = NoNode /\ \A v \in Thread \ {t} : mk'[v] = mk[v]
        /\ UNCHANGED <<linked, phase>>
        /\ tn' = [tn EXCEPT ![mk[t]].self = t]
        /\ pc' = [pc EXCEPT ![t] = "link"] /\ pc[t] = "begin" /\ node[t] = NoNode
    BY <1>6, NodesTyped DEF BeginThread, TypeOK, At, Goto, LocationInv
  <2>2. /\ tn'[mk[t]].self = t /\ \A m \in Node \ {mk[t]} : tn'[m].self = tn[m].self
        /\ \A m \in Node : /\ tn'[m].magic = tn[m].magic /\ tn'[m].block = tn[m].block
                           /\ Unfinished(m)' = Unfinished(m)
    BY <2>1 DEF TypeOK, TnRecord, Unfinished
  <2>3. mk[t] \notin linked /\ \A u \in Thread \ {t} : Linking(u) => node[u] # mk[t]
    BY <2>1 DEF OwnershipInv, NodeOwnership
  <2>4. /\ \A u \in Thread \ {t} : Linking(u)' => Linking(u) /\ node[u] \in Node
        /\ \A u \in Thread : Active(u)' => Active(u) /\ u # t /\ node[u] \in linked
    BY <2>1, PoolNodes DEF Linking, Active, ActiveLoc, CreateLoc, CleanupLoc, TypeOK, OwnershipInv
  <2>5. \A u \in Thread : mk'[u] # NoNode => tn'[mk'[u]].magic
    BY <2>1, <2>2, PoolNodes DEF ReadyInv
  <2>6. \A u \in Thread : Linking(u)' => tn'[node'[u]].magic /\ tn'[node'[u]].self = u
    BY <2>1, <2>2, <2>3, <2>4 DEF ReadyInv
  <2>7. \A u \in Thread : Active(u)' => tn'[node'[u]].self = u
    BY <2>1, <2>2, <2>3, <2>4, PoolNodes DEF ReadyInv
  <2>8. ReadyInv'
    BY <2>1, <2>2, <2>5, <2>6, <2>7, PoolNodes DEF ReadyInv
  <2>9. \A n \in linked : CanFinish(n) => CanFinish(n)'
    BY <2>1, <2>2, <2>3, PoolNodes, NodesTyped DEF CanFinish, Alive, TypeOK, Thread
  <2>10. FinishInv'
    BY <1>0, <2>1, <2>2, <2>9, PoolNodes DEF FinishInv
  <2> QED
    BY <2>8, <2>10
<1>7. CASE LinkNode(t)
  <2>1. /\ pc[t] = "linkLocked" /\ pc' = [pc EXCEPT ![t] = IF inExitCleanup THEN "gone" ELSE "init"]
        /\ linked' = IF inExitCleanup THEN linked ELSE linked \cup {node[t]}
        /\ UNCHANGED <<mk, node, tn, phase>>
    BY <1>7 DEF LinkNode, At, Goto
  <2>2. Linking(t) /\ node[t] \in Pool /\ node[t] \notin linked /\ tn[node[t]].magic
        /\ tn[node[t]].self = t /\ t \in Side /\ phase[t] = "run"
    BY <2>1 DEF Linking, OwnershipInv, ReadyInv, LocationInv, BeginLoc
  <2>3. /\ \A u \in Thread : Linking(u)' => Linking(u)
        /\ \A u \in Thread : Active(u)' => Active(u) \/ u = t
    BY <2>1 DEF Linking, Active, ActiveLoc, CreateLoc, CleanupLoc, TypeOK
  <2>4. ReadyInv'
    BY <2>1, <2>2, <2>3 DEF ReadyInv
  <2>5. \A n \in linked : CanFinish(n) => CanFinish(n)'
    BY <2>1, <2>2 DEF CanFinish, Alive, TypeOK, Thread
  <2>6. ~inExitCleanup => CanFinish(node[t])'
    BY <2>1, <2>2 DEF CanFinish, Alive, TypeOK
  <2>7. FinishInv'
    BY <1>0, <2>1, <2>5, <2>6 DEF FinishInv, Unfinished
  <2> QED
    BY <2>4, <2>7
<1>8. CASE ApplStart(t)
  <2>1. /\ pc[t] = "init" /\ pc' = [pc EXCEPT ![t] = "app"]
        /\ tn' = [tn EXCEPT ![node[t]].applStarted = TRUE]
        /\ UNCHANGED <<mk, node, linked, phase>>
    BY <1>8 DEF ApplStart, At, Goto
  <2>2. /\ t \in Side /\ phase[t] = "run" /\ node[t] \in Pool /\ Active(t)
        /\ node[t] \in linked /\ tn[node[t]].self = t
    BY <2>1, NodesTyped DEF LocationInv, BeginLoc, Active, ActiveLoc, OwnershipInv, ReadyInv
  <2>3. \A m \in Node : /\ tn'[m].self = tn[m].self /\ tn'[m].magic = tn[m].magic
                        /\ tn'[m].block = tn[m].block
                        /\ m # node[t] => Unfinished(m)' = Unfinished(m)
    BY <2>1 DEF TypeOK, TnRecord, Unfinished
  <2>4. /\ \A u \in Thread : Linking(u)' => Linking(u) /\ node[u] \in Node
        /\ \A u \in Thread : Active(u)' => Active(u) /\ node[u] \in Node
    BY <2>1, <2>2, PoolNodes DEF Linking, Active, ActiveLoc, CreateLoc, CleanupLoc, TypeOK,
       OwnershipInv
  <2>5. ReadyInv'
    BY <2>1, <2>3, <2>4, PoolNodes DEF ReadyInv
  <2>6. \A n \in linked : CanFinish(n) => CanFinish(n)'
    BY <2>1, <2>3, PoolNodes DEF CanFinish, Alive, TypeOK, Thread
  <2>7. CanFinish(node[t])'
    BY <2>1, <2>2, <2>3, PoolNodes DEF CanFinish, Alive, TypeOK
  <2>8. FinishInv'
    BY <1>0, <2>1, <2>3, <2>6, <2>7, PoolNodes DEF FinishInv
  <2> QED
    BY <2>5, <2>8
<1>9. CASE UnlinkNode(t)
  <2>1. /\ t \in Side /\ phase[t] = "run" /\ node[t] \in Pool /\ node[t] \in Node /\ Active(t)
        /\ node[t] \in linked /\ tn[node[t]].self = t /\ pc[t] = "unlinkLocked"
    BY <1>9, PoolNodes, NodesTyped
    DEF UnlinkNode, LocationInv, CleanupLoc, At, Active, ActiveLoc, OwnershipInv, ReadyInv
  <2>2. /\ UNCHANGED <<mk, node>> /\ pc'[t] \in {"app", "gone"} /\ Active(t)' = FALSE
        /\ \A u \in Thread \ {t} : pc'[u] = pc[u] /\ phase'[u] = phase[u]
    BY <1>9 DEF UnlinkNode, AfterCleanup, Goto, TypeOK, Active, ActiveLoc, CreateLoc, CleanupLoc
  <2>3. /\ \A u \in Thread : Linking(u)' => Linking(u) /\ node[u] # node[t] /\ node[u] \in Node
        /\ \A u \in Thread : Active(u)' => Active(u) /\ node[u] # node[t] /\ node[u] \in Node
    BY <2>1, <2>2, PoolNodes DEF Linking, Active, TypeOK, OwnershipInv
  <2>4. \A u \in Thread : mk[u] # NoNode => mk[u] # node[t]
    BY <2>1 DEF OwnershipInv, NodeOwnership
  <2>5. \A n \in linked \ {node[t]} : CanFinish(n) /\ tn'[n] = tn[n] => CanFinish(n)'
    BY <2>1, <2>2 DEF CanFinish, Alive, Thread
  <2>6. CASE inExitCleanup
    <3>1. tn' = [tn EXCEPT ![node[t]].finiStarted = TRUE, ![node[t]].finiDone = TRUE]
          /\ linked' = linked
      BY <1>9, <2>6 DEF UnlinkNode
    <3>2. \A n \in Node : SameNode(n)
      BY <2>1, <3>1, SettledFlags
    <3>3. ReadyStill
      BY <2>2, <2>3, <3>1, <3>2 DEF ReadyStill
    <3>4. ReadyInv'
      BY <3>3, StillReady
    <3>5. ~Unfinished(node[t])'
      BY <2>1, <2>2, <3>1 DEF Unfinished, TypeOK, TnRecord
    <3>6. \A n \in linked \ {node[t]} : tn'[n] = tn[n]
      BY <2>1, <3>1, PoolNodes DEF TypeOK
    <3>7. FinishInv'
      <4> SUFFICES ASSUME ~finiThreadDone, NEW n \in linked, Unfinished(n)' PROVE CanFinish(n)'
        BY <1>0, <3>1 DEF FinishInv
      <4>1. n # node[t]
        BY <2>2, <3>5 DEF Unfinished
      <4> QED
        BY <2>5, <3>6, <4>1 DEF FinishInv, Unfinished
    <3> QED
      BY <3>4, <3>7
  <2>7. CASE ~inExitCleanup
    <3>1. tn' = [tn EXCEPT ![node[t]] = ZeroTn] /\ linked' = linked \ {node[t]}
      BY <1>9, <2>7 DEF UnlinkNode
    <3>2. tn'[node[t]] = ZeroTn /\ ~ZeroTn.block /\ \A m \in Node \ {node[t]} : tn'[m] = tn[m]
      BY <2>1, <3>1 DEF TypeOK, ZeroTn, ClearTn
    <3>3. ReadyInv'
      BY <2>1, <2>2, <2>3, <2>4, <3>1, <3>2, PoolNodes DEF ReadyInv
    <3>4. FinishInv'
      BY <1>0, <2>5, <3>1, <3>2, PoolNodes DEF FinishInv, Unfinished
    <3> QED
      BY <3>3, <3>4
  <2> QED
    BY <2>6, <2>7
<1> QED
  BY <1>1, <1>2, <1>3, <1>4, <1>5, <1>6, <1>7, <1>8, <1>9
  DEF ThreadStep, AppStep, InnerStep, BlockShootdown

LEMMA ReadyExitStep ==
  ASSUME TypeOK, LocationInv, OwnershipInv, WinnerInv, ReadyInv, DoneInv, FinishInv, MaxSignals = 0,
         NEW t \in Thread, ExitStep(t)
  PROVE  ReadyInv' /\ FinishInv'
<1>1. ExitFrame(t) /\ Alive(t) /\ ~FatalSignal(t)
  BY ExitStepFrame, ExitStepAlive, NoSignal
<1>2. \A n \in Node : SameNode(n)
  BY ExitStepNodes
<1>3. ReadyStill
  BY <1>1, <1>2, ExitStepQuiet DEF ExitFrame, QuietStep, ReadyStill
<1>4. ReadyInv'
  BY <1>3, StillReady
<1>5. finiThreadDone => finiThreadDone'
  BY DEF ExitStep, EnterStep, EndStep, WinnerStep, Exit, PthreadExit, FatalSignal,
     WinExit, MarkWinner, RepeatExit, LoseExit, LoserReleased, EndReturn, Die, BeginExitReturn, ShootdownLock,
     Acquire, ShootdownMark, Visit, Kill, NextPass, AllFinished, GiveUp, LeaveLoop, SelfFiniReturn,
     FiniProcessReturn, threadsVars, flagVars
<1>6. ASSUME ~finiThreadDone, NEW n \in linked, Unfinished(n)' PROVE CanFinish(n)'
  <2>1. Unfinished(n)
    BY <1>2, <1>6, PoolNodes DEF Unfinished, SameNode, TypeOK, TnRecord
  <2>2. CanFinish(n) /\ tn[n].magic /\ n \in Pool /\ n # NoNode /\ n # MainNode
    BY <1>6, <2>1, PoolNodes, NodesTyped DEF FinishInv, ReadyInv
  <2>3. tn'[n].self = tn[n].self /\ node' = node
    BY <1>1, <1>2, <1>6, PoolNodes DEF SameNode, ExitFrame
  <2>4. CASE tn[n].self # t
    BY <1>1, <2>2, <2>3, <2>4 DEF CanFinish, ExitFrame, Alive, Thread
  <2>5. CASE tn[n].self = t
    <3>1. node[t] = n /\ phase[t] \in {"run", "exit"} /\ t \in Side
      BY <2>2, <2>5 DEF CanFinish
    <3>2. hasUsedThreads
      BY <1>1, <3>1 DEF LocationInv, Alive
    <3>3. GetTn(t) = n
      BY <2>2, <3>1, <3>2 DEF GetTn
    <3>4. ~PthreadExit(t)
      BY <2>2, <3>3 DEF PthreadExit
    <3>5. phase'[t] \in {"run", "exit"}
      <4>1. CASE EnterStep(t)
        BY <1>1, <3>4, <4>1 DEF EnterStep, Exit, EnterEnd, TypeOK
      <4>2. CASE EndStep(t)
        BY <3>1, <4>2 DEF EndStep, WinExit, MarkWinner, RepeatExit, LoseExit, LoserReleased, EndReturn, Die,
           threadsVars, frameVars
      <4>3. CASE WinnerStep(t)
        BY <3>1, <4>3 DEF WinnerStep, BeginExitReturn, ShootdownLock, Acquire, ShootdownMark, Visit,
           Kill, NextPass, AllFinished, GiveUp, LeaveLoop, SelfFiniReturn, FiniProcessReturn,
           threadsVars, frameVars
      <4> QED
        BY <4>1, <4>2, <4>3 DEF ExitStep
    <3>6. pc'[t] \notin {"none", "gone"}
      <4>1. CASE EndReturn(t)
        BY <3>1, <4>1 DEF EndReturn, Goto, TypeOK
      <4>2. CASE Die(t)
        BY <1>1, <4>2 DEF Die, threadsVars, frameVars, Alive
      <4>3. CASE EnterStep(t) \/ WinExit(t) \/ MarkWinner(t) \/ RepeatExit(t) \/ LoseExit(t) \/ LoserReleased(t)
        BY <4>3 DEF EnterStep, Exit, PthreadExit, FatalSignal, EnterEnd, WinExit, MarkWinner, RepeatExit,
           LoseExit, LoserReleased, Goto, TypeOK
      <4>4. CASE WinnerStep(t)
        BY <1>1, <4>4 DEF WinnerStep, BeginExitReturn, ShootdownLock, Acquire, ShootdownMark, Visit,
           Kill, NextPass, AllFinished, GiveUp, LeaveLoop, StartFiniProcess, SelfFiniReturn,
           FiniProcessReturn, threadsVars, frameVars, Goto, TypeOK, Alive
      <4> QED
        BY <4>1, <4>2, <4>3, <4>4 DEF ExitStep, EndStep
    <3> QED
      BY <2>3, <2>5, <3>1, <3>5, <3>6 DEF CanFinish, Alive
  <2> QED
    BY <2>4, <2>5
<1>7. FinishInv'
  BY <1>3, <1>5, <1>6 DEF FinishInv, ReadyStill
<1> QED
  BY <1>4, <1>7

LEMMA DoneThreadStep ==
  ASSUME TypeOK, DoneInv, NEW t \in Thread, ThreadStep(t), UNCHANGED exitVars
  PROVE  DoneInv'
<1>1. \A u \in Thread : pc'[u] \in BeforeLeave => pc[u] = pc'[u]
  BY ThreadStepLoc DEF BeforeLeave, ExitLoc, WinnerLoc
<1>2. finiThreadDone' = finiThreadDone
  BY DEF ThreadStep, AppStep, InnerStep, HandlerStep, CreateBegin, CreateIgnored, CancelInit,
     ThreadReturn, TsdReturn, BlockShootdown, MakeNodeLock, LinkLock, UnlinkLock, Acquire, MakeNode,
     Launch, LaunchFails, BeginThread, LinkNode, ApplStart, CleanupCheck, CleanupFini,
     CleanupFiniReturn, UnlinkNode, HandlerEnter, HandlerFini, HandlerReturn, flagVars
<1> QED
  BY <1>1, <1>2 DEF DoneInv, exitVars

LEMMA DoneExitStep ==
  ASSUME TypeOK, LocationInv, WinnerInv, DoneInv, NEW t \in Thread, ExitStep(t)
  PROVE  DoneInv'
<1>1. \A u \in Thread \ {t} : pc'[u] = pc[u]
  BY ExitStepFrame DEF ExitFrame
<1>2. CASE AllFinished(t) \/ GiveUp(t)
  <2>1. pc[t] = "walk" /\ pc'[t] \notin BeforeLeave /\ cookie' = cookie
    BY <1>2 DEF AllFinished, GiveUp, PassEnd, LeaveLoop, StartFiniProcess, At, Goto, TypeOK,
       BeforeLeave
  <2>2. winner = t /\ cookie
    BY <2>1, ThreadsAssumption DEF WinnerInv, WinnerLoc, ThreadsAssumption, Thread
  <2>3. \A u \in Thread \ {t} : pc[u] \notin BeforeLeave
    BY <2>2 DEF WinnerInv, WinnerLoc, BeforeLeave
  <2> QED
    BY <1>1, <2>1, <2>2, <2>3 DEF DoneInv
<1>3. CASE ~(AllFinished(t) \/ GiveUp(t))
  <2>1. finiThreadDone' = finiThreadDone /\ (cookie => cookie')
    <3>1. CASE EnterStep(t)
      BY <3>1 DEF EnterStep, Exit, PthreadExit, FatalSignal, flagVars, exitVars
    <3>2. CASE EndStep(t)
      BY <3>2 DEF EndStep, WinExit, MarkWinner, RepeatExit, LoseExit, LoserReleased, EndReturn, Die,
         threadsVars, flagVars, exitVars
    <3>3. CASE BeginExitReturn(t) \/ ShootdownLock(t) \/ ShootdownMark(t) \/ Kill(t) \/ NextPass(t)
      BY <3>3 DEF BeginExitReturn, ShootdownLock, Acquire, ShootdownMark, Kill, NextPass,
         threadsVars, flagVars, exitVars
    <3>4. ASSUME NEW n \in Pool, Visit(t, n)
          PROVE  finiThreadDone' = finiThreadDone /\ (cookie => cookie')
      BY <3>4 DEF Visit, flagVars
    <3>5. CASE SelfFiniReturn(t)
      BY <3>5 DEF SelfFiniReturn, flagVars
    <3>6. CASE FiniProcessReturn(t)
      BY <3>6 DEF FiniProcessReturn, flagVars
    <3> QED
      BY <1>3, <3>1, <3>2, <3>3, <3>4, <3>5, <3>6 DEF ExitStep, WinnerStep
  <2>2. pc'[t] \in BeforeLeave => ~finiThreadDone
    <3> USE DEF At, Goto, TypeOK, BeforeLeave, threadsVars, frameVars, DoneInv
    <3>1. CASE EnterStep(t)
      BY <3>1 DEF EnterStep, Exit, PthreadExit, FatalSignal, EnterEnd
    <3>2. CASE EndStep(t)
      BY <3>2 DEF EndStep, WinExit, MarkWinner, RepeatExit, LoseExit, LoserReleased, EndReturn, Die
    <3>3. CASE BeginExitReturn(t) \/ ShootdownLock(t) \/ ShootdownMark(t) \/ Kill(t) \/ NextPass(t)
      BY <3>3 DEF BeginExitReturn, StartFiniProcess, ShootdownLock, Acquire, ShootdownMark, Kill,
         NextPass, PassEnd
    <3>4. ASSUME NEW n \in Pool, Visit(t, n) PROVE pc'[t] \in BeforeLeave => ~finiThreadDone
      BY <3>4 DEF Visit
    <3>5. CASE SelfFiniReturn(t) \/ FiniProcessReturn(t)
      BY <3>5 DEF SelfFiniReturn, StartFiniProcess, FiniProcessReturn
    <3> QED
      BY <1>3, <3>1, <3>2, <3>3, <3>4, <3>5 DEF ExitStep, WinnerStep
  <2> QED
    BY <1>1, <2>1, <2>2 DEF DoneInv
<1> QED
  BY <1>2, <1>3

ReactInv == ReadyInv /\ DoneInv /\ FinishInv /\ NeverGivesUp

\* Whoever has not started its fini_thread can take the signal: no pass gives up.
LEMMA NobodyDeaf ==
  ASSUME IInv, ReactInv, Patient = TRUE, NEW t \in Thread
  PROVE  ~GiveUp(t)
<1> SUFFICES ASSUME GiveUp(t) PROVE FALSE
  OBVIOUS
<1>1. pc[t] = "walk" /\ \E n \in linked : tn[n].applStarted /\ ~tn[n].finiStarted /\ ~CanReact(n)
  BY DEF GiveUp, PassEnd, At
<1>2. PICK n \in linked : Unfinished(n) /\ ~CanReact(n)
  BY <1>1 DEF Unfinished
<1>3. ~finiThreadDone
  BY <1>1 DEF ReactInv, DoneInv, BeforeLeave
<1>4. CanFinish(n) /\ ~tn[n].block
  BY <1>2, <1>3, PoolNodes DEF ReactInv, FinishInv, ReadyInv, IInv
<1> QED
  BY <1>2, <1>4 DEF CanReact, CanFinish

\* "send a signal to force them into their fini_thread functions, and wait until they
\* all finish" (pthread.c:549): for any number of threads, with key destructors and
\* ignored threads, the shootdown gives up on nobody, as long as ten seconds are longer
\* than any reaction, the client blocks no shootdown and no fatal signal strikes.
THEOREM ShootdownPatient ==
  ASSUME Patient = TRUE, ClientBlocks = FALSE, MaxSignals = 0
  PROVE  Spec => []NeverGivesUp
<1>1. Init => ReactInv
  <2> SUFFICES ASSUME Init PROVE ReactInv
    OBVIOUS
  <2>1. /\ linked = {} /\ ~finiThreadDone /\ ~timedOut /\ ~cookie
        /\ \A t \in Thread : mk[t] = NoNode /\ node[t] = NoNode /\ pc[t] \in {"app", "none"}
    BY DEF Init, ThreadsInit, ExitInit
  <2>2. \A n \in Node : ~tn[n].block
    BY DEF Init, ThreadsInit, MagicTn, ZeroTn, ClearTn
  <2> QED
    BY <2>1, <2>2 DEF ReactInv, ReadyInv, DoneInv, FinishInv, NeverGivesUp, Linking, Active
<1>2. IInv /\ ReactInv /\ [Next]_vars => ReactInv'
  <2> SUFFICES ASSUME IInv, ReactInv, [Next]_vars PROVE ReactInv'
    OBVIOUS
  <2> USE DEF IInv, ReactInv
  <2>1. ASSUME NEW t \in Thread, ThreadStep(t), UNCHANGED exitVars PROVE ReactInv'
    <3>1. NeverGivesUp'
      BY <2>1 DEF NeverGivesUp, exitVars
    <3> QED
      BY <2>1, <3>1, ReadyThreadStep, DoneThreadStep
  <2>2. ASSUME NEW t \in Thread, ExitStep(t) PROVE ReactInv'
    <3>1. ~GiveUp(t)
      BY NobodyDeaf
    <3>2. timedOut' = timedOut
      BY <2>2, <3>1 DEF ExitStep, EnterStep, EndStep, WinnerStep, Exit, PthreadExit, FatalSignal,
         WinExit, MarkWinner, RepeatExit, LoseExit, LoserReleased, EndReturn, Die, BeginExitReturn,
         ShootdownLock, ShootdownMark, Visit, Kill, NextPass, AllFinished, SelfFiniReturn,
         FiniProcessReturn, exitVars
    <3> QED
      BY <2>2, <3>2, ReadyExitStep, DoneExitStep DEF NeverGivesUp
  <2>3. CASE UNCHANGED vars
    BY <2>3 DEF vars, threadsVars, exitVars, frameVars, nodeVars, flagVars, ReadyInv, DoneInv,
       FinishInv, NeverGivesUp, Linking, Active, Unfinished, CanFinish, Alive
  <2> QED
    BY <2>1, <2>2, <2>3 DEF Next, Terminated
<1>3. ReactInv => NeverGivesUp
  BY DEF ReactInv
<1> QED
  BY <1>1, <1>2, <1>3, Inductive, PTL DEF Spec
=============================================================================
