-------------------------- MODULE MonitorMpiProofs --------------------------
(***************************************************************************)
(* Proofs about MonitorMpi, for any number of threads and communicators,   *)
(* any depth of nesting and any number of calls.                           *)
(***************************************************************************)
EXTENDS MonitorMpi, FiniteSetTheorems, TLAPS

CallLoc == {"before", "real", "after", "leave"}
RankLoc == {"test", "size", "rank", "close"}

\* A frame of MPI_Init or MPI_Finalize, and one of the other two.
CallFrame(f) == f.op \in Op /\ f.at \in CallLoc
RankFrame(f) ==
    /\ f.op \notin Op /\ f.at \in RankLoc
    /\ f.op = "rank" => f.from \in Comm \cup {Bad}
    /\ f.op = "publish" => f.from = Client /\ ~f.appl

Types ==
    /\ count \in [Op -> Nat] /\ maxInit \in Nat
    /\ size \in Source \ {Bad} /\ rank \in Source
    /\ {firstMpi, firstSet, overlap, told} \subseteq BOOLEAN
    /\ stack \in [Thread -> Seq(Frame)]
    /\ lib \in {"none", "up", "over"} /\ calls \in Nat
    /\ last \in {"none", "pre_init", "init", "fini", "post_fini"}

\* How many frames of MPI_Init or MPI_Finalize are open.
Depth ==
    LET s == stack[Main] IN
    IF s = <<>> THEN 0 ELSE IF s[Len(s)].op \in Op THEN Len(s) ELSE Len(s) - 1

\* A thread other than Main is in one call at most, and that is none of MPI_Init
\* and MPI_Finalize.  The frames of Main are those of one of the two, with their
\* depths, and on top of them at most one that asks for a rank.
StackInv ==
    /\ \A t \in Thread : \A i \in 1..Len(stack[t]) :
         CallFrame(stack[t][i]) \/ RankFrame(stack[t][i])
    /\ \A t \in Thread \ {Main} : \A i \in 1..Len(stack[t]) :
         i = 1 /\ stack[t][i].op \notin Op
    /\ \A i \in 1..Len(stack[Main]) :
         \/ stack[Main][i].op \notin Op /\ i = Len(stack[Main])
         \/ /\ stack[Main][i].op \in Op /\ stack[Main][i].op = stack[Main][1].op
            /\ stack[Main][i].count = i
            /\ i > 1 => stack[Main][i].at \in {"real", "leave"}
            /\ i < Len(stack[Main]) =>
                 IF stack[Main][i + 1].op = "publish"
                 THEN stack[Main][i].at \in {"before", "after"}
                 ELSE stack[Main][i].at = "real"

\* The counters are the depth.
CountInv ==
    \A o \in Op :
        count[o] = IF stack[Main] # <<>> /\ stack[Main][1].op = o THEN Depth ELSE 0

\* What the library and the client have seen fits what Main is in.
LastInv ==
    /\ Depth = 0 /\ lib = "none" => last \in {"none", "init"}
    /\ Depth = 0 /\ lib = "up" => last \in {"init", "post_fini"}
    /\ Depth > 0 =>
         LET f == stack[Main][1] IN
         /\ f.op = "fini" => lib # "none"
         /\ f.op = "init" => lib # "over"
         /\ f.at \in {"before", "real"} => last = BeforeName(f.op)
         /\ f.at \in {"after", "leave"} => last = AfterName(f.op)

NestInv == Types /\ StackInv /\ CountInv /\ LastInv

LEMMA Constants ==
  /\ Main \in Thread
  /\ Bad \notin Comm /\ Client \notin Comm \cup {Bad} /\ Unset \notin Comm \cup {Bad, Client}
  /\ MaxCalls \in Nat /\ MaxNest \in Nat
BY MpiAssumption DEF MpiAssumption

-----------------------------------------------------------------------------
(* Stacks. *)

LEMMA FrontSeq ==
  ASSUME NEW S, NEW q \in Seq(S), q # <<>>
  PROVE  /\ Front(q) \in Seq(S) /\ Len(Front(q)) = Len(q) - 1
         /\ Len(q) \in Nat \ {0}
         /\ \A i \in 1..(Len(q) - 1) : Front(q)[i] = q[i]
<1>1. Len(q) \in Nat \ {0} /\ \A i \in 1..Len(q) : q[i] \in S
  OBVIOUS
<1>2. Front(q) = [i \in 1..(Len(q) - 1) |-> q[i]]
  BY <1>1 DEF Front
<1>3. Front(q) \in Seq(S)
  BY <1>1, <1>2
<1>4. Len(Front(q)) = Len(q) - 1
  BY <1>1, <1>2
<1> QED
  BY <1>1, <1>2, <1>3, <1>4

LEMMA AppendSeq ==
  ASSUME NEW S, NEW q \in Seq(S), NEW f \in S
  PROVE  /\ Append(q, f) \in Seq(S) /\ Len(Append(q, f)) = Len(q) + 1
         /\ Len(q) \in Nat
         /\ \A i \in 1..Len(q) : Append(q, f)[i] = q[i]
         /\ Append(q, f)[Len(q) + 1] = f
OBVIOUS

LEMMA ExceptSeq ==
  ASSUME NEW S, NEW q \in Seq(S), q # <<>>, NEW f \in S
  PROVE  LET r == [q EXCEPT ![Len(q)] = f] IN
         /\ r \in Seq(S) /\ Len(r) = Len(q) /\ Len(q) \in Nat \ {0}
         /\ \A i \in 1..(Len(q) - 1) : r[i] = q[i]
         /\ r[Len(q)] = f
OBVIOUS

\* Pushing a frame adds it on top.
LEMMA PushStack ==
  ASSUME Types, NEW t \in Thread, NEW f \in Frame, Push(t, f)
  PROVE  /\ stack' \in [Thread -> Seq(Frame)]
         /\ \A u \in Thread \ {t} : stack'[u] = stack[u]
         /\ Len(stack'[t]) = Len(stack[t]) + 1 /\ Len(stack[t]) \in Nat
         /\ \A i \in 1..Len(stack[t]) : stack'[t][i] = stack[t][i]
         /\ stack'[t][Len(stack[t]) + 1] = f
<1>1. stack[t] \in Seq(Frame) /\ stack'[t] = Append(stack[t], f)
  BY DEF Types, Push
<1> QED
  BY <1>1, AppendSeq DEF Types, Push

\* Popping one removes the top.
LEMMA PopStack ==
  ASSUME Types, NEW t \in Thread, stack[t] # <<>>, Pop(t)
  PROVE  /\ stack' \in [Thread -> Seq(Frame)]
         /\ \A u \in Thread \ {t} : stack'[u] = stack[u]
         /\ Len(stack'[t]) = Len(stack[t]) - 1 /\ Len(stack[t]) \in Nat \ {0}
         /\ \A i \in 1..(Len(stack[t]) - 1) : stack'[t][i] = stack[t][i]
<1>1. stack[t] \in Seq(Frame) /\ stack'[t] = Front(stack[t])
  BY DEF Types, Pop
<1> QED
  BY <1>1, FrontSeq DEF Types, Pop

\* Going on changes the place of the top, and nothing else.
LEMMA GotoStack ==
  ASSUME Types, NEW t \in Thread, stack[t] # <<>>, NEW l \in CallLoc \cup RankLoc, Goto(t, l)
  PROVE  /\ stack' \in [Thread -> Seq(Frame)]
         /\ \A u \in Thread \ {t} : stack'[u] = stack[u]
         /\ Len(stack'[t]) = Len(stack[t]) /\ Len(stack[t]) \in Nat \ {0}
         /\ \A i \in 1..(Len(stack[t]) - 1) : stack'[t][i] = stack[t][i]
         /\ stack'[t][Len(stack[t])] = [stack[t][Len(stack[t])] EXCEPT !.at = l]
<1>1. stack[t] \in Seq(Frame) /\ Len(stack[t]) \in Nat \ {0}
  BY DEF Types
<1>2. stack[t][Len(stack[t])] \in Frame
  BY <1>1
<1>3. [stack[t][Len(stack[t])] EXCEPT !.at = l] \in Frame
  BY <1>2 DEF Frame, CallLoc, RankLoc
<1>4. stack' = [stack EXCEPT ![t] = [stack[t] EXCEPT ![Len(stack[t])] =
                  [stack[t][Len(stack[t])] EXCEPT !.at = l]]]
  BY Zenon DEF Goto
<1>5. stack'[t] = [stack[t] EXCEPT ![Len(stack[t])] =
                  [stack[t][Len(stack[t])] EXCEPT !.at = l]]
  BY <1>4 DEF Types
<1>6. /\ stack'[t] \in Seq(Frame) /\ Len(stack'[t]) = Len(stack[t])
      /\ \A i \in 1..(Len(stack[t]) - 1) : stack'[t][i] = stack[t][i]
      /\ stack'[t][Len(stack[t])] = [stack[t][Len(stack[t])] EXCEPT !.at = l]
  BY <1>1, <1>3, <1>5, ExceptSeq
<1>7. /\ stack' \in [Thread -> Seq(Frame)]
      /\ \A u \in Thread \ {t} : stack'[u] = stack[u]
  BY <1>1, <1>4, <1>5, <1>6 DEF Types
<1> QED
  BY <1>1, <1>6, <1>7

\* The top of a stack.
LEMMA TopOf ==
  ASSUME Types, NEW t \in Thread, stack[t] # <<>>
  PROVE  /\ Top(t) = stack[t][Len(stack[t])]
         /\ Len(stack[t]) \in Nat \ {0} /\ Top(t) \in Frame
<1>1. stack[t] \in Seq(Frame) /\ Len(stack[t]) \in Nat \ {0}
  BY DEF Types
<1> QED
  BY <1>1 DEF Top, Last

-----------------------------------------------------------------------------
(* Types, the shape of the stacks, and the counters. *)

LEMMA InitNest == Init => NestInv
<1> SUFFICES ASSUME Init PROVE NestInv
  OBVIOUS
<1> USE Constants DEF Init
<1>1. Types
  <2>1. stack \in [Thread -> Seq(Frame)]
    OBVIOUS
  <2>2. count \in [Op -> Nat]
    OBVIOUS
  <2>3. size \in Source \ {Bad} /\ rank \in Source
    BY DEF Source
  <2> QED
    BY <2>1, <2>2, <2>3 DEF Types
<1>2. stack[Main] = <<>> /\ \A t \in Thread : Len(stack[t]) = 0
  OBVIOUS
<1>3. StackInv
  BY <1>2 DEF StackInv
<1>4. CountInv
  BY <1>2 DEF CountInv
<1>5. LastInv
  BY <1>2 DEF LastInv, Depth
<1> QED
  BY <1>1, <1>3, <1>4, <1>5 DEF NestInv

\* An override is entered by Main, at the top of a stack of its own kind.
LEMMA EnterMain ==
  ASSUME NestInv, NEW t \in Thread, NEW o \in Op, MayEnter(t, o)
  PROVE  /\ t = Main
         /\ Depth = Len(stack[Main]) /\ Len(stack[Main]) \in Nat
         /\ \A i \in 1..Len(stack[Main]) : stack[Main][i].op = o
         /\ stack[Main] # <<>> => stack[Main][Len(stack[Main])].at = "real"
         /\ count[o] = Len(stack[Main])
         /\ \A q \in Op \ {o} : count[q] = 0
<1> USE Constants DEF NestInv
<1>1. CASE Idle(t) /\ t = Main
  <2>1. stack[Main] = <<>> /\ Len(stack[Main]) = 0 /\ Depth = 0
    BY <1>1 DEF Idle, Depth
  <2> QED
    BY <1>1, <2>1 DEF CountInv
<1>2. CASE InLibrary(t, {o})
  <2>1. /\ stack[t] # <<>> /\ Top(t) = stack[t][Len(stack[t])]
        /\ Len(stack[t]) \in Nat \ {0}
        /\ Top(t).op = o /\ Top(t).at = "real"
    BY <1>2, TopOf DEF InLibrary, At
  <2>2. t = Main
    BY <2>1 DEF StackInv
  <2>3. stack[Main][1].op = o
    BY <2>1, <2>2 DEF StackInv
  <2>4. Depth = Len(stack[Main])
    BY <2>1, <2>2 DEF Depth
  <2>5. \A i \in 1..Len(stack[Main]) : stack[Main][i].op = o
    BY <2>1, <2>2, <2>3 DEF StackInv
  <2>6. count[o] = Len(stack[Main]) /\ \A q \in Op \ {o} : count[q] = 0
    BY <2>1, <2>2, <2>3, <2>4 DEF CountInv
  <2> QED
    BY <2>1, <2>2, <2>4, <2>5, <2>6
<1> QED
  BY <1>1, <1>2 DEF MayEnter

LEMMA EnterNest ==
  ASSUME NestInv, NEW t \in Thread, NEW o \in Op, Enter(t, o)
  PROVE  NestInv'
<1> USE Constants DEF NestInv
<1> DEFINE n == Len(stack[Main])
           at == IF CalledBack(count'[o]) THEN "before" ELSE "real"
           f == [op |-> o, at |-> at, count |-> count'[o], from |-> Unset, appl |-> Idle(t)]
<1>1. MayEnter(t, o)
  BY DEF Enter
<1>2. /\ t = Main /\ Depth = n /\ n \in Nat
      /\ \A i \in 1..n : stack[Main][i].op = o
      /\ stack[Main] # <<>> => stack[Main][n].at = "real"
      /\ count[o] = n /\ \A q \in Op \ {o} : count[q] = 0
  BY <1>1, EnterMain
<1>3. count' = [count EXCEPT ![o] = n + 1] /\ count' \in [Op -> Nat] /\ count'[o] = n + 1
  BY <1>2 DEF Enter, Types
<1>4. f \in Frame
  BY <1>3 DEF Frame, Idle, Source
<1>5. Push(Main, f)
  BY <1>2 DEF Enter
<1> HIDE DEF f, at
<1>6. /\ stack' \in [Thread -> Seq(Frame)]
      /\ \A u \in Thread \ {Main} : stack'[u] = stack[u]
      /\ Len(stack'[Main]) = n + 1
      /\ \A i \in 1..n : stack'[Main][i] = stack[Main][i]
      /\ stack'[Main][n + 1] = f
      /\ stack'[Main] # <<>>
  BY <1>4, <1>5, PushStack
<1>7. f.op = o /\ f.at = (IF n = 0 THEN "before" ELSE "real") /\ f.count = n + 1
  BY <1>2, <1>3 DEF f, at, CalledBack
<1>8. Types'
  BY <1>3, <1>6 DEF Types, Enter, MayEnter, Call, Op, BeforeName, rankVars
<1>9. StackInv'
  <2>1. CallFrame(f)
    BY <1>7 DEF CallFrame, CallLoc
  <2>2. \A u \in Thread : \A i \in 1..Len(stack'[u]) :
          CallFrame(stack'[u][i]) \/ RankFrame(stack'[u][i])
    <3>1. ASSUME NEW i \in 1..(n + 1) PROVE CallFrame(stack'[Main][i]) \/ RankFrame(stack'[Main][i])
      <4>1. CASE i = n + 1
        BY <4>1, <2>1, <1>6
      <4>2. CASE i \in 1..n
        BY <4>2, <1>2, <1>6 DEF StackInv
      <4> QED
        BY <4>1, <4>2, <1>2
    <3>2. ASSUME NEW u \in Thread \ {Main}, NEW i \in 1..Len(stack'[u])
          PROVE  CallFrame(stack'[u][i]) \/ RankFrame(stack'[u][i])
      BY <3>2, <1>6 DEF StackInv
    <3> QED
      BY <3>1, <3>2, <1>6
  <2>3. \A u \in Thread \ {Main} : \A i \in 1..Len(stack'[u]) :
          i = 1 /\ stack'[u][i].op \notin Op
    BY <1>6 DEF StackInv
  <2>4. ASSUME NEW i \in 1..(n + 1)
        PROVE  /\ stack'[Main][i].op \in Op /\ stack'[Main][i].op = stack'[Main][1].op
               /\ stack'[Main][i].count = i
               /\ i > 1 => stack'[Main][i].at \in {"real", "leave"}
               /\ i < n + 1 =>
                    IF stack'[Main][i + 1].op = "publish"
                    THEN stack'[Main][i].at \in {"before", "after"}
                    ELSE stack'[Main][i].at = "real"
    <3>0. stack'[Main][1].op = o
      BY <1>2, <1>6, <1>7
    <3>1. CASE i = n + 1
      BY <3>0, <3>1, <1>2, <1>6, <1>7
    <3>2. CASE i \in 1..n
      <4>1. /\ stack'[Main][i] = stack[Main][i] /\ stack[Main][i].op = o
            /\ stack[Main][i].count = i
            /\ i > 1 => stack[Main][i].at \in {"real", "leave"}
        BY <3>2, <1>2, <1>6 DEF StackInv
      <4>2. stack[Main][i].at = "real" /\ stack'[Main][i + 1].op = o
        <5>1. CASE i = n
          BY <5>1, <1>2, <1>6, <1>7
        <5>2. CASE i < n
          <6>1. i + 1 \in 1..n
            BY <5>2, <3>2, <1>2
          <6>2. stack[Main][i + 1].op = o /\ stack'[Main][i + 1] = stack[Main][i + 1]
            BY <6>1, <1>2, <1>6
          <6> QED
            BY <6>2, <5>2, <3>2, <1>2 DEF StackInv, Op
        <5> QED
          BY <5>1, <5>2, <3>2, <1>2
      <4> QED
        BY <3>0, <4>1, <4>2 DEF Op
    <3> QED
      BY <3>1, <3>2, <1>2
  <2> QED
    BY <2>2, <2>3, <2>4, <1>6 DEF StackInv
<1>10. stack'[Main][1].op = o /\ Depth' = n + 1
  BY <1>2, <1>6, <1>7 DEF Depth
<1>11. CountInv'
  BY <1>2, <1>3, <1>6, <1>10 DEF CountInv, Types
<1>12. LastInv'
  <2>1. CASE n = 0
    <3>1. stack'[Main][1] = f /\ last' = BeforeName(o)
      BY <2>1, <1>3, <1>6 DEF Enter, CalledBack
    <3>2. Idle(Main) /\ lib' = lib
      <4>1. stack[Main] \in Seq(Frame) /\ Len(stack[Main]) = 0
        BY <2>1 DEF Types
      <4>2. stack[Main] = <<>>
        BY <4>1
      <4> QED
        BY <4>2 DEF Idle, Enter
    <3>3. lib = IF o = "init" THEN "none" ELSE "up"
      BY <3>2, <1>1, <1>2 DEF MayEnter, InLibrary, At, Idle
    <3> QED
      BY <3>1, <3>2, <3>3, <1>7, <1>10, <2>1 DEF LastInv, Op, BeforeName
  <2>2. CASE n # 0
    <3>1. stack'[Main][1] = stack[Main][1] /\ stack[Main][1].op = o
      BY <2>2, <1>2, <1>6
    <3>2. last' = last /\ lib' = lib
      BY <2>2, <1>2, <1>3 DEF Enter, CalledBack
    <3> QED
      BY <3>1, <3>2, <1>2, <1>10, <2>2 DEF LastInv
  <2> QED
    BY <2>1, <2>2
<1> QED
  BY <1>8, <1>9, <1>11, <1>12

\* Going on within a kind of frame keeps the shape and the depth.
LEMMA MoveNest ==
  ASSUME NestInv, NEW t \in Thread, stack[t] # <<>>, NEW l, Goto(t, l), UNCHANGED count,
         \/ Top(t).op \in Op /\ l \in CallLoc /\ (Len(stack[t]) > 1 => l \in {"real", "leave"})
         \/ Top(t).op \notin Op /\ l \in RankLoc
  PROVE  /\ stack' \in [Thread -> Seq(Frame)]
         /\ StackInv' /\ CountInv' /\ Depth' = Depth
         /\ stack[Main] # <<>> =>
              /\ stack'[Main][1].op = stack[Main][1].op
              /\ stack'[Main][1].at =
                   IF t = Main /\ Len(stack[Main]) = 1 THEN l ELSE stack[Main][1].at
<1> USE Constants DEF NestInv
<1> DEFINE n == Len(stack[t])
<1>1. /\ Top(t) = stack[t][n] /\ n \in Nat \ {0} /\ Top(t) \in Frame
      /\ Len(stack[t]) = n
  BY TopOf
<1>2. l \in CallLoc \cup RankLoc
  OBVIOUS
<1>3. /\ stack' \in [Thread -> Seq(Frame)]
      /\ \A u \in Thread \ {t} : stack'[u] = stack[u]
      /\ Len(stack'[t]) = n
      /\ \A i \in 1..(n - 1) : stack'[t][i] = stack[t][i]
      /\ stack'[t][n] = [stack[t][n] EXCEPT !.at = l]
  BY <1>2, GotoStack
<1> HIDE DEF n
<1>4. /\ stack'[t][n].op = stack[t][n].op /\ stack'[t][n].at = l
      /\ stack'[t][n].from = stack[t][n].from /\ stack'[t][n].appl = stack[t][n].appl
      /\ stack'[t][n].count = stack[t][n].count
  BY <1>1, <1>3 DEF Frame
<1>5. CallFrame(stack'[t][n]) \/ RankFrame(stack'[t][n])
  BY <1>1, <1>4 DEF StackInv, CallFrame, RankFrame, Op
<1>6. ASSUME NEW u \in Thread, NEW i \in 1..Len(stack'[u])
      PROVE  CallFrame(stack'[u][i]) \/ RankFrame(stack'[u][i])
  <2>1. CASE u # t
    BY <2>1, <1>3 DEF StackInv
  <2>2. ASSUME NEW k \in 1..n PROVE CallFrame(stack'[t][k]) \/ RankFrame(stack'[t][k])
    <3>1. CASE k = n
      BY <3>1, <1>5
    <3>2. CASE k # n
      <4>1. k \in 1..(n - 1) /\ k \in 1..Len(stack[t])
        BY <3>2, <1>1
      <4>2. CallFrame(stack[t][k]) \/ RankFrame(stack[t][k])
        BY <4>1 DEF StackInv
      <4> QED
        BY <4>1, <4>2, <1>3
    <3> QED
      BY <3>1, <3>2
  <2> QED
    BY <2>1, <2>2, <1>3
<1>7. ASSUME NEW u \in Thread \ {Main}, NEW i \in 1..Len(stack'[u])
      PROVE  i = 1 /\ stack'[u][i].op \notin Op
  <2>1. CASE u # t
    BY <2>1, <1>3 DEF StackInv
  <2>2. CASE u = t
    <3>1. n = 1 /\ stack[t][n].op \notin Op
      <4>1. n \in 1..Len(stack[t])
        BY <1>1
      <4> QED
        BY <2>2, <4>1 DEF StackInv
    <3>2. i = 1
      BY <2>2, <3>1, <1>3
    <3> QED
      BY <2>2, <3>1, <3>2, <1>4
  <2> QED
    BY <2>1, <2>2
<1>8. CASE t # Main
  <2>1. stack'[Main] = stack[Main]
    BY <1>3, <1>8
  <2>2. StackInv'
    BY <2>1, <1>6, <1>7 DEF StackInv
  <2>3. CountInv' /\ Depth' = Depth
    BY <2>1 DEF CountInv, Depth
  <2> QED
    BY <2>1, <2>2, <2>3, <1>3, <1>8
<1>9. CASE t = Main
  <2>0. Len(stack[Main]) = n /\ Len(stack'[Main]) = n
    BY <1>1, <1>3, <1>9
  <2>1. ASSUME NEW i \in 1..n PROVE stack'[Main][i].op = stack[Main][i].op
    <3>1. i = n \/ i \in 1..(n - 1)
      BY <1>1
    <3> QED
      BY <3>1, <1>3, <1>4, <1>9
  <2>2. ASSUME NEW i \in 1..n
        PROVE  \/ stack'[Main][i].op \notin Op /\ i = n
               \/ /\ stack'[Main][i].op \in Op /\ stack'[Main][i].op = stack'[Main][1].op
                  /\ stack'[Main][i].count = i
                  /\ i > 1 => stack'[Main][i].at \in {"real", "leave"}
                  /\ i < n =>
                       IF stack'[Main][i + 1].op = "publish"
                       THEN stack'[Main][i].at \in {"before", "after"}
                       ELSE stack'[Main][i].at = "real"
    <3>1. CASE i = n
      <4>1. /\ stack'[Main][1].op = stack[Main][1].op /\ stack'[Main][n].op = stack[Main][n].op
            /\ n \in 1..Len(stack[Main])
        BY <2>0, <2>1, <1>1
      <4> QED
        BY <3>1, <4>1, <2>0, <1>1, <1>4, <1>9 DEF StackInv
    <3>2. CASE i # n
      <4>1. /\ stack'[Main][i] = stack[Main][i] /\ i < n /\ i + 1 \in 1..n /\ 1 \in 1..n
            /\ stack'[Main][i + 1].op = stack[Main][i + 1].op
            /\ stack'[Main][1].op = stack[Main][1].op
        BY <3>2, <2>1, <1>1, <1>3, <1>9
      <4> QED
        BY <4>1, <2>0 DEF StackInv
    <3> QED
      BY <3>1, <3>2
  <2>3. StackInv'
    BY <2>0, <2>2, <1>6, <1>7 DEF StackInv
  <2>4. stack'[Main] # <<>> /\ stack'[Main][1].op = stack[Main][1].op
    BY <2>1, <1>1, <1>3, <1>9
  <2>5. Depth' = Depth
    <3>1. stack'[Main][n].op = stack[Main][n].op /\ stack[Main] # <<>>
      BY <2>1, <1>1, <1>9
    <3> QED
      BY <3>1, <2>0, <2>4 DEF Depth
  <2>6. CountInv'
    BY <2>4, <2>5, <1>9 DEF CountInv
  <2>7. stack'[Main][1].at = IF n = 1 THEN l ELSE stack[Main][1].at
    <3>1. n = 1 \/ 1 \in 1..(n - 1)
      BY <1>1
    <3> QED
      BY <3>1, <1>1, <1>3, <1>4, <1>9
  <2> QED
    BY <2>0, <2>3, <2>4, <2>5, <2>6, <2>7, <1>3, <1>9
<1> QED
  BY <1>8, <1>9

\* Leaving a frame keeps the shape; the depth goes with the counter.
LEMMA PopNest ==
  ASSUME NestInv, NEW t \in Thread, stack[t] # <<>>, Pop(t),
         Top(t).op \in Op => count' = [count EXCEPT ![Top(t).op] = @ - 1],
         Top(t).op \notin Op => count' = count
  PROVE  /\ stack' \in [Thread -> Seq(Frame)] /\ count' \in [Op -> Nat]
         /\ StackInv' /\ CountInv'
         /\ Depth' = IF Top(t).op \in Op THEN Depth - 1 ELSE Depth
         /\ Top(t).op \in Op => t = Main /\ Depth = Len(stack[Main])
         /\ Depth' > 0 => stack'[Main][1] = stack[Main][1]
<1> USE Constants DEF NestInv
<1> DEFINE n == Len(stack[t])
<1>1. /\ Top(t) = stack[t][n] /\ n \in Nat \ {0} /\ Top(t) \in Frame
      /\ Len(stack[t]) = n
  BY TopOf
<1>3. /\ stack' \in [Thread -> Seq(Frame)]
      /\ \A u \in Thread \ {t} : stack'[u] = stack[u]
      /\ Len(stack'[t]) = n - 1
      /\ \A i \in 1..(n - 1) : stack'[t][i] = stack[t][i]
  BY PopStack
<1> HIDE DEF n
<1>4. ASSUME NEW u \in Thread, NEW i \in 1..Len(stack'[u])
      PROVE  /\ CallFrame(stack'[u][i]) \/ RankFrame(stack'[u][i])
             /\ u # Main => i = 1 /\ stack'[u][i].op \notin Op
  <2>1. CASE u # t
    BY <2>1, <1>3 DEF StackInv
  <2>2. CASE u = t
    <3>1. i \in 1..(n - 1) /\ i \in 1..Len(stack[t])
      BY <2>2, <1>1, <1>3
    <3>2. stack'[t][i] = stack[t][i]
      BY <3>1, <1>3
    <3> QED
      BY <2>2, <3>1, <3>2 DEF StackInv
  <2> QED
    BY <2>1, <2>2
<1>5. CASE t # Main
  <2>1. stack'[Main] = stack[Main] /\ Top(t).op \notin Op
    BY <1>1, <1>3, <1>5 DEF StackInv
  <2>2. StackInv'
    BY <2>1, <1>4 DEF StackInv
  <2>3. CountInv' /\ Depth' = Depth
    BY <2>1 DEF CountInv, Depth
  <2> QED
    BY <2>1, <2>2, <2>3, <1>3 DEF Types
<1>6. CASE t = Main
  <2>1. ASSUME NEW i \in 1..(n - 1)
        PROVE  /\ stack'[Main][i] = stack[Main][i] /\ stack'[Main][1] = stack[Main][1]
               /\ stack[Main][i].op \in Op /\ stack[Main][i].op = stack[Main][1].op
               /\ stack[Main][i].count = i
               /\ i > 1 => stack[Main][i].at \in {"real", "leave"}
               /\ i < n - 1 => /\ stack'[Main][i + 1] = stack[Main][i + 1]
                               /\ IF stack[Main][i + 1].op = "publish"
                                  THEN stack[Main][i].at \in {"before", "after"}
                                  ELSE stack[Main][i].at = "real"
    <3>1. /\ i \in 1..Len(stack[Main]) /\ i # Len(stack[Main]) /\ i < Len(stack[Main])
          /\ Len(stack[Main]) = n /\ 1 \in 1..(n - 1)
          /\ i < n - 1 => i + 1 \in 1..(n - 1)
      BY <1>1, <1>6
    <3>2. /\ stack'[Main][i] = stack[Main][i] /\ stack'[Main][1] = stack[Main][1]
          /\ i < n - 1 => stack'[Main][i + 1] = stack[Main][i + 1]
      BY <3>1, <1>3, <1>6
    <3> QED
      BY <3>1, <3>2 DEF StackInv
  <2>2. StackInv'
    <3>1. Len(stack'[Main]) = n - 1
      BY <1>3, <1>6
    <3>2. \A u \in Thread \ {Main} : \A i \in 1..Len(stack'[u]) :
            i = 1 /\ stack'[u][i].op \notin Op
      BY <1>4
    <3>3. ASSUME NEW i \in 1..(n - 1)
          PROVE  /\ stack'[Main][i].op \in Op /\ stack'[Main][i].op = stack'[Main][1].op
                 /\ stack'[Main][i].count = i
                 /\ i > 1 => stack'[Main][i].at \in {"real", "leave"}
                 /\ i < n - 1 =>
                      IF stack'[Main][i + 1].op = "publish"
                      THEN stack'[Main][i].at \in {"before", "after"}
                      ELSE stack'[Main][i].at = "real"
      BY <2>1
    <3> QED
      BY <3>1, <3>2, <3>3, <1>4 DEF StackInv
  <2>3. Depth = IF Top(Main).op \in Op THEN n ELSE n - 1
    BY <1>1, <1>6 DEF Depth
  <2>4. Depth' = n - 1
    <3>1. CASE n = 1
      <4>1. stack'[Main] = <<>>
        BY <3>1, <1>3, <1>6
      <4> QED
        BY <4>1, <3>1 DEF Depth
    <3>2. CASE n # 1
      <4>1. /\ stack'[Main] # <<>> /\ Len(stack'[Main]) = n - 1 /\ n - 1 \in 1..(n - 1)
            /\ stack'[Main][n - 1].op \in Op
        <5>1. n - 1 \in 1..(n - 1) /\ Len(stack'[Main]) = n - 1
          BY <3>2, <1>1, <1>3, <1>6
        <5>2. stack'[Main][n - 1].op \in Op
          BY <5>1, <2>1
        <5> QED
          BY <5>1, <5>2
      <4> QED
        BY <4>1 DEF Depth
    <3> QED
      BY <3>1, <3>2
  <2>5. n > 1 => stack'[Main] # <<>> /\ stack'[Main][1] = stack[Main][1]
    BY <2>1, <1>1, <1>3, <1>6
  <2>6. n = 1 => stack'[Main] = <<>>
    BY <1>3, <1>6
  <2>7. Top(t).op \in Op => Top(t).op = stack[Main][1].op
    BY <1>1, <1>6 DEF StackInv
  <2>8. CASE Top(t).op \in Op
    <3>1. \A o \in Op : count[o] = IF stack[Main][1].op = o THEN n ELSE 0
      BY <2>3, <2>8, <1>6 DEF CountInv
    <3>2. count' = [count EXCEPT ![stack[Main][1].op] = n - 1] /\ count \in [Op -> Nat]
      BY <3>1, <2>7, <2>8 DEF Types
    <3>3. CountInv'
      <4>1. CASE n = 1
        BY <4>1, <3>1, <3>2, <2>4, <2>6 DEF CountInv
      <4>2. CASE n > 1
        BY <4>2, <3>1, <3>2, <2>4, <2>5, <2>7, <2>8 DEF CountInv
      <4> QED
        BY <4>1, <4>2, <1>1
    <3>4. count' \in [Op -> Nat]
      BY <3>2, <2>7, <2>8, <1>1
    <3>5. Depth = n /\ Depth' = Depth - 1 /\ t = Main /\ Depth = Len(stack[Main])
      BY <2>3, <2>4, <2>8, <1>1, <1>6
    <3>6. Depth' > 0 => stack'[Main][1] = stack[Main][1]
      BY <2>4, <2>5, <1>1
    <3> QED
      BY <3>3, <3>4, <3>5, <3>6, <2>2, <2>8, <1>3
  <2>9. CASE Top(t).op \notin Op
    <3>1. CountInv'
      <4>1. CASE n = 1
        <5>1. stack[Main][1].op \notin Op /\ Depth' = 0
          BY <4>1, <2>4, <2>9, <1>1, <1>6
        <5> QED
          BY <5>1, <2>6, <2>9, <4>1 DEF CountInv
      <4>2. CASE n > 1
        BY <4>2, <2>3, <2>4, <2>5, <2>9, <1>6 DEF CountInv
      <4> QED
        BY <4>1, <4>2, <1>1
    <3> QED
      BY <3>1, <2>2, <2>3, <2>4, <2>5, <2>9, <1>1, <1>3, <1>6 DEF Types
  <2> QED
    BY <2>8, <2>9
<1> QED
  BY <1>5, <1>6

\* A call of MPI_Comm_rank or of monitor_set_size_rank goes on top of nothing, or
\* of a frame of Main that may make it.
LEMMA PushNest ==
  ASSUME NestInv, NEW t \in Thread, NEW f \in Frame, RankFrame(f), Push(t, f), UNCHANGED count,
         \/ Idle(t)
         \/ At(t, "real") /\ f.op = "rank"
         \/ (At(t, "before") \/ At(t, "after")) /\ f.op = "publish"
  PROVE  /\ stack' \in [Thread -> Seq(Frame)]
         /\ StackInv' /\ CountInv' /\ Depth' = Depth
         /\ Depth > 0 => stack'[Main][1] = stack[Main][1]
         /\ ~Idle(t) => t = Main /\ Depth = Len(stack[Main])
<1> USE Constants DEF NestInv
<1> DEFINE n == Len(stack[t])
<1>1. /\ stack' \in [Thread -> Seq(Frame)]
      /\ \A u \in Thread \ {t} : stack'[u] = stack[u]
      /\ Len(stack'[t]) = n + 1 /\ n \in Nat /\ Len(stack[t]) = n
      /\ \A i \in 1..n : stack'[t][i] = stack[t][i]
      /\ stack'[t][n + 1] = f
  BY PushStack
<1>2. CASE Idle(t)
  <2>1. stack[t] = <<>> /\ n = 0
    BY <1>2 DEF Idle
  <2> HIDE DEF n
  <2>2. /\ Len(stack'[t]) = 1 /\ stack'[t][1] = f /\ stack'[t] # <<>>
    <3>1. Len(stack'[t]) = 1 /\ stack'[t][1] = f
      BY <1>1, <2>1
    <3> QED
      BY <3>1
  <2>3. StackInv'
    <3>1. ASSUME NEW u \in Thread, NEW i \in 1..Len(stack'[u])
          PROVE  CallFrame(stack'[u][i]) \/ RankFrame(stack'[u][i])
      <4>1. CASE u # t
        BY <4>1, <1>1 DEF StackInv
      <4>2. CASE u = t
        <5>1. stack'[u][i] = f
          BY <4>2, <2>2
        <5> QED
          BY <5>1
      <4> QED
        BY <4>1, <4>2
    <3>2. ASSUME NEW u \in Thread \ {Main}, NEW i \in 1..Len(stack'[u])
          PROVE  i = 1 /\ stack'[u][i].op \notin Op
      <4>1. CASE u # t
        BY <4>1, <1>1 DEF StackInv
      <4>2. CASE u = t
        <5>1. i = 1 /\ stack'[u][i] = f
          BY <4>2, <2>2
        <5> QED
          BY <5>1 DEF RankFrame
      <4> QED
        BY <4>1, <4>2
    <3>3. CASE t = Main
      <4>1. stack'[Main][1].op \notin Op /\ Len(stack'[Main]) = 1
        BY <3>3, <2>2 DEF RankFrame
      <4>2. \A i \in 1..Len(stack'[Main]) : i = 1
        BY <4>1
      <4> QED
        BY <3>1, <3>2, <4>1, <4>2 DEF StackInv
    <3>4. CASE t # Main
      <4>1. stack'[Main] = stack[Main]
        BY <3>4, <1>1
      <4> QED
        BY <3>1, <3>2, <4>1 DEF StackInv
    <3> QED
      BY <3>3, <3>4
  <2>4. CASE t = Main
    <3>1. Depth = 0 /\ Depth' = 0
      BY <2>1, <2>2, <2>4 DEF Depth, RankFrame
    <3> QED
      BY <3>1, <2>1, <2>2, <2>3, <2>4, <1>1, <1>2 DEF CountInv
  <2>5. CASE t # Main
    <3>1. stack'[Main] = stack[Main]
      BY <2>5, <1>1
    <3>2. Depth' = Depth /\ CountInv'
      BY <3>1 DEF CountInv, Depth
    <3> QED
      BY <3>1, <3>2, <2>3, <1>1, <1>2
  <2> QED
    BY <2>4, <2>5
<1>3. CASE ~Idle(t)
  <2>1. stack[t] # <<>> /\ n # 0
    BY <1>1, <1>3 DEF Idle, Types
  <2>2. /\ Top(t) = stack[t][n] /\ n \in Nat \ {0}
    BY <2>1, TopOf
  <2> HIDE DEF n
  <2>3. /\ n \in 1..Len(stack[t]) /\ n = Len(stack[t])
    BY <2>2, <1>1
  <2>4. stack[t][n].at \in CallLoc /\ stack[t][n].op \in Op
    <3>1. stack[t][n].at \in CallLoc
      BY <1>3, <2>2 DEF At, CallLoc
    <3> QED
      BY <3>1, <2>3 DEF StackInv, CallFrame, RankFrame, CallLoc, RankLoc
  <2>5. t = Main
    BY <2>3, <2>4 DEF StackInv
  <2>6. Depth = n /\ Depth' = n
    <3>1. stack'[Main] # <<>> /\ Len(stack'[Main]) = n + 1 /\ stack'[Main][n + 1].op \notin Op
      BY <1>1, <2>5 DEF RankFrame
    <3> QED
      BY <3>1, <2>1, <2>2, <2>3, <2>4, <2>5 DEF Depth
  <2>7. /\ stack'[Main][1] = stack[Main][1] /\ stack'[Main] # <<>>
        /\ Len(stack[Main]) = n /\ Len(stack'[Main]) = n + 1
    BY <1>1, <2>2, <2>3, <2>5
  <2>8. StackInv'
    <3>1. ASSUME NEW u \in Thread, NEW i \in 1..Len(stack'[u])
          PROVE  CallFrame(stack'[u][i]) \/ RankFrame(stack'[u][i])
      <4>1. CASE u # t
        BY <4>1, <1>1 DEF StackInv
      <4>2. CASE u = t
        <5>1. i = n + 1 \/ i \in 1..n
          BY <4>2, <1>1
        <5>2. CASE i \in 1..n
          <6>1. i \in 1..Len(stack[t]) /\ stack'[u][i] = stack[t][i]
            BY <5>2, <4>2, <1>1
          <6> QED
            BY <6>1 DEF StackInv
        <5> QED
          BY <5>1, <5>2, <4>2, <1>1
      <4> QED
        BY <4>1, <4>2
    <3>2. ASSUME NEW u \in Thread \ {Main}, NEW i \in 1..Len(stack'[u])
          PROVE  i = 1 /\ stack'[u][i].op \notin Op
      BY <2>5, <1>1 DEF StackInv
    <3>3. ASSUME NEW i \in 1..(n + 1)
          PROVE  \/ stack'[Main][i].op \notin Op /\ i = n + 1
                 \/ /\ stack'[Main][i].op \in Op /\ stack'[Main][i].op = stack'[Main][1].op
                    /\ stack'[Main][i].count = i
                    /\ i > 1 => stack'[Main][i].at \in {"real", "leave"}
                    /\ i < n + 1 =>
                         IF stack'[Main][i + 1].op = "publish"
                         THEN stack'[Main][i].at \in {"before", "after"}
                         ELSE stack'[Main][i].at = "real"
      <4>1. CASE i = n + 1
        BY <4>1, <1>1, <2>5 DEF RankFrame
      <4>2. CASE i = n
        <5>1. /\ stack'[Main][n] = stack[Main][n] /\ stack'[Main][n + 1] = f
              /\ n \in 1..Len(stack[Main])
          BY <1>1, <2>2, <2>3, <2>5
        <5>2. IF f.op = "publish" THEN stack[Main][n].at \in {"before", "after"}
                                  ELSE stack[Main][n].at = "real"
          <6>1. f.op = "publish" => At(t, "before") \/ At(t, "after")
            BY <1>3
          <6>2. f.op # "publish" => At(t, "real")
            BY <1>3
          <6> QED
            BY <6>1, <6>2, <2>2, <2>5 DEF At
        <5>3. /\ stack[Main][n].op \in Op /\ stack[Main][n].op = stack[Main][1].op
              /\ stack[Main][n].count = n
              /\ n > 1 => stack[Main][n].at \in {"real", "leave"}
          BY <5>1, <2>4, <2>5 DEF StackInv
        <5>4. /\ stack'[Main][n].op \in Op /\ stack'[Main][n].op = stack'[Main][1].op
              /\ stack'[Main][n].count = n
              /\ n > 1 => stack'[Main][n].at \in {"real", "leave"}
          BY <5>1, <5>3, <2>7
        <5>5. IF stack'[Main][n + 1].op = "publish"
              THEN stack'[Main][n].at \in {"before", "after"}
              ELSE stack'[Main][n].at = "real"
          BY <5>1, <5>2
        <5> QED
          BY <5>4, <5>5, <4>2
      <4>3. CASE i # n /\ i # n + 1
        <5>1. i \in 1..Len(stack[Main]) /\ i \in 1..n /\ i + 1 \in 1..n /\ i < Len(stack[Main])
          BY <4>3, <2>2, <2>7
        <5>2. stack'[Main][i] = stack[Main][i] /\ stack'[Main][i + 1] = stack[Main][i + 1]
          BY <5>1, <1>1, <2>5
        <5>3. /\ stack[Main][i].op \in Op /\ stack[Main][i].op = stack[Main][1].op
              /\ stack[Main][i].count = i
              /\ i > 1 => stack[Main][i].at \in {"real", "leave"}
              /\ IF stack[Main][i + 1].op = "publish"
                 THEN stack[Main][i].at \in {"before", "after"}
                 ELSE stack[Main][i].at = "real"
          BY <5>1 DEF StackInv
        <5> QED
          BY <5>2, <5>3, <2>7
      <4> QED
        BY <4>1, <4>2, <4>3
    <3> QED
      BY <3>1, <3>2, <3>3, <2>7 DEF StackInv
  <2>9. CountInv'
    BY <2>1, <2>5, <2>6, <2>7 DEF CountInv
  <2> QED
    BY <2>5, <2>6, <2>7, <2>8, <2>9, <2>3, <1>1
<1> QED
  BY <1>2, <1>3

\* In MPI_Init or MPI_Finalize is only Main, and its callbacks are those of the
\* outermost of them.
LEMMA AtCall ==
  ASSUME NestInv, NEW t \in Thread, NEW l \in CallLoc, At(t, l)
  PROVE  /\ t = Main /\ stack[Main] # <<>> /\ Len(stack[Main]) \in Nat \ {0}
         /\ Top(t).op \in Op /\ Top(t).op = stack[Main][1].op
         /\ Top(t).count = Len(stack[Main])
         /\ Top(t) = stack[Main][Len(stack[Main])] /\ Top(t).at = l
         /\ Depth = Len(stack[Main])
         /\ l \in {"before", "after"} => Len(stack[Main]) = 1
         /\ \A o \in Op : count[o] = IF o = Top(t).op THEN Len(stack[Main]) ELSE 0
<1> USE Constants DEF NestInv
<1> DEFINE n == Len(stack[t])
<1>1. /\ stack[t] # <<>> /\ Top(t) = stack[t][n] /\ n \in Nat \ {0} /\ Len(stack[t]) = n
      /\ Top(t).at = l
  BY TopOf DEF At
<1> HIDE DEF n
<1>2. n \in 1..Len(stack[t])
  BY <1>1
<1>3. stack[t][n].op \in Op
  BY <1>1, <1>2 DEF StackInv, CallFrame, RankFrame, CallLoc, RankLoc
<1>4. t = Main
  BY <1>2, <1>3 DEF StackInv
<1>5. /\ stack[Main][n].op = stack[Main][1].op /\ stack[Main][n].count = n
      /\ n > 1 => stack[Main][n].at \in {"real", "leave"}
  BY <1>2, <1>3, <1>4 DEF StackInv
<1>6. Depth = n
  BY <1>1, <1>3, <1>4 DEF Depth
<1>7. l \in {"before", "after"} => n = 1
  BY <1>1, <1>4, <1>5
<1>8. \A o \in Op : count[o] = IF o = Top(t).op THEN n ELSE 0
  BY <1>1, <1>4, <1>5, <1>6 DEF CountInv
<1> QED
  BY <1>1, <1>3, <1>4, <1>5, <1>6, <1>7, <1>8

\* The places from "test" on are those of the other two.
LEMMA AtRank ==
  ASSUME NestInv, NEW t \in Thread, NEW l \in RankLoc, At(t, l)
  PROVE  /\ stack[t] # <<>> /\ RankFrame(Top(t)) /\ Top(t) \in Frame /\ Top(t).at = l
         /\ Top(t) = stack[t][Len(stack[t])] /\ Len(stack[t]) \in Nat \ {0}
<1> USE Constants DEF NestInv
<1>1. /\ stack[t] # <<>> /\ Top(t) = stack[t][Len(stack[t])] /\ Len(stack[t]) \in Nat \ {0}
      /\ Top(t).at = l /\ Top(t) \in Frame
  BY TopOf DEF At
<1>2. Len(stack[t]) \in 1..Len(stack[t])
  BY <1>1
<1>3. RankFrame(Top(t))
  BY <1>1, <1>2 DEF StackInv, CallFrame, CallLoc, RankLoc
<1> QED
  BY <1>1, <1>3

\* Main is as deep as before, and its outermost override where it was.
BottomSame ==
    /\ Depth' = Depth
    /\ Depth > 0 => /\ stack'[Main][1].op = stack[Main][1].op
                    /\ stack'[Main][1].at = stack[Main][1].at

\* What LastInv says holds on where its parts stay.
LEMMA LastSame ==
  ASSUME LastInv, BottomSame, UNCHANGED <<lib, last>>
  PROVE  LastInv'
BY DEF LastInv, BottomSame

LEMMA BeforeNest ==
  ASSUME NestInv, NEW t \in Thread, BeforeReturn(t)
  PROVE  NestInv'
<1> USE Constants DEF NestInv
<1>1. /\ t = Main /\ stack[Main] # <<>> /\ Len(stack[Main]) = 1 /\ Depth = 1
      /\ Top(t).op \in Op /\ Top(t) = stack[Main][1] /\ Top(t).at = "before"
  BY AtCall DEF BeforeReturn, CallLoc
<1>2. /\ stack' \in [Thread -> Seq(Frame)]
      /\ StackInv' /\ CountInv' /\ Depth' = Depth
      /\ stack'[Main][1].op = stack[Main][1].op /\ stack'[Main][1].at = "real"
  BY <1>1, MoveNest DEF BeforeReturn, CallLoc
<1>3. Types'
  BY <1>2 DEF Types, BeforeReturn, rankVars
<1>4. LastInv'
  BY <1>1, <1>2 DEF LastInv, BeforeReturn
<1> QED
  BY <1>2, <1>3, <1>4

LEMMA RealNest ==
  ASSUME NestInv, NEW t \in Thread, RealReturn(t)
  PROVE  NestInv'
<1> USE Constants DEF NestInv
<1> DEFINE n == Len(stack[Main])
           o == Top(t).op
           l == IF CalledBack(Top(t).count) THEN "after" ELSE "leave"
<1>1. /\ t = Main /\ stack[Main] # <<>> /\ n \in Nat \ {0} /\ Depth = n
      /\ o \in Op /\ o = stack[Main][1].op /\ Top(t).count = n
      /\ Top(t) = stack[Main][n] /\ Top(t).at = "real"
  BY AtCall DEF RealReturn, CallLoc
<1>2. l = IF n = 1 THEN "after" ELSE "leave"
  BY <1>1 DEF CalledBack
<1>3. Goto(t, l) /\ UNCHANGED count
  BY DEF RealReturn
<1>4. l \in CallLoc /\ (n > 1 => l \in {"real", "leave"})
  BY <1>1, <1>2 DEF CallLoc
<1> HIDE DEF l
<1>5. /\ stack' \in [Thread -> Seq(Frame)]
      /\ StackInv' /\ CountInv' /\ Depth' = Depth
      /\ stack'[Main][1].op = o
      /\ stack'[Main][1].at = IF n = 1 THEN l ELSE stack[Main][1].at
  BY <1>1, <1>3, <1>4, MoveNest
<1>6. /\ lib' \in {lib, IF o = "init" THEN "up" ELSE "over"}
      /\ last' = IF n = 1 THEN AfterName(o) ELSE last
  BY <1>1 DEF RealReturn, CalledBack
<1>7. Types'
  BY <1>1, <1>5, <1>6 DEF Types, RealReturn, rankVars, AfterName, Op
<1>8. LastInv'
  <2>0. Depth > 0
    BY <1>1
  <2>1. /\ lib' = "none" => o = "init"
        /\ lib' = "over" => o = "fini"
    BY <2>0, <1>1, <1>6 DEF LastInv, Op
  <2>2. CASE n = 1
    BY <2>0, <2>1, <2>2, <1>1, <1>2, <1>5, <1>6 DEF LastInv, Op
  <2>3. CASE n # 1
    BY <2>0, <2>1, <2>3, <1>1, <1>5, <1>6 DEF LastInv, Op
  <2> QED
    BY <2>2, <2>3
<1> QED
  BY <1>5, <1>7, <1>8

LEMMA AfterNest ==
  ASSUME NestInv, NEW t \in Thread, AfterReturn(t)
  PROVE  NestInv'
<1> USE Constants DEF NestInv
<1>1. /\ t = Main /\ stack[Main] # <<>> /\ Len(stack[Main]) = 1 /\ Depth = 1
      /\ Top(t).op \in Op /\ Top(t) = stack[Main][1] /\ Top(t).at = "after"
  BY AtCall DEF AfterReturn, CallLoc
<1>2. /\ stack' \in [Thread -> Seq(Frame)]
      /\ StackInv' /\ CountInv' /\ Depth' = Depth
      /\ stack'[Main][1].op = stack[Main][1].op /\ stack'[Main][1].at = "leave"
  BY <1>1, MoveNest DEF AfterReturn, CallLoc
<1>3. Types'
  BY <1>2 DEF Types, AfterReturn, rankVars
<1>4. LastInv'
  BY <1>1, <1>2 DEF LastInv, AfterReturn
<1> QED
  BY <1>2, <1>3, <1>4

LEMMA LeaveNest ==
  ASSUME NestInv, NEW t \in Thread, Leave(t)
  PROVE  NestInv'
<1> USE Constants DEF NestInv
<1>1. /\ t = Main /\ stack[Main] # <<>> /\ Len(stack[Main]) \in Nat \ {0}
      /\ Depth = Len(stack[Main]) /\ Top(t).op \in Op /\ Top(t).op = stack[Main][1].op
      /\ Top(t) = stack[Main][Len(stack[Main])] /\ Top(t).at = "leave"
  BY AtCall DEF Leave, CallLoc
<1>2. /\ stack' \in [Thread -> Seq(Frame)] /\ count' \in [Op -> Nat]
      /\ StackInv' /\ CountInv' /\ Depth' = Depth - 1
      /\ Depth' > 0 => stack'[Main][1] = stack[Main][1]
  BY <1>1, PopNest DEF Leave
<1>3. Types'
  BY <1>2 DEF Types, Leave, rankVars
<1>4. UNCHANGED <<lib, last>>
  BY DEF Leave
<1>5. LastInv'
  <2>1. CASE Depth = 1
    <3>1. stack[Main][1].at = "leave" /\ stack[Main][1].op \in Op
      BY <2>1, <1>1
    <3>2. /\ stack[Main][1].op = "fini" => lib # "none"
          /\ last = AfterName(stack[Main][1].op)
      BY <3>1, <2>1 DEF LastInv
    <3> QED
      BY <3>1, <3>2, <2>1, <1>2, <1>4 DEF LastInv, AfterName, Op
  <2>2. CASE Depth # 1
    <3> DEFINE n == Len(stack[Main])
    <3>1. n \in Nat \ {0} /\ Depth = n /\ n # 1 /\ Depth' = n - 1
      BY <2>2, <1>1, <1>2
    <3> HIDE DEF n
    <3>2. Depth > 0 /\ Depth' > 0
      BY <3>1
    <3> QED
      BY <3>2, <1>2, <1>4 DEF LastInv
  <2> QED
    BY <2>1, <2>2
<1> QED
  BY <1>2, <1>3, <1>5

LEMMA RankPush ==
  ASSUME NestInv, NEW t \in Thread, NEW f \in Frame, RankFrame(f), Push(t, f),
         UNCHANGED <<count, lib, last>>,
         \/ Idle(t)
         \/ At(t, "real") /\ f.op = "rank"
         \/ (At(t, "before") \/ At(t, "after")) /\ f.op = "publish"
  PROVE  stack' \in [Thread -> Seq(Frame)] /\ StackInv' /\ CountInv' /\ LastInv' /\ BottomSame
<1>1. /\ stack' \in [Thread -> Seq(Frame)]
      /\ StackInv' /\ CountInv' /\ Depth' = Depth
      /\ Depth > 0 => stack'[Main][1] = stack[Main][1]
  BY PushNest
<1> QED
  BY <1>1, LastSame DEF NestInv, BottomSame

LEMMA RankGoto ==
  ASSUME NestInv, NEW t \in Thread, NEW l \in RankLoc, At(t, l), NEW m \in RankLoc,
         Goto(t, m), UNCHANGED <<count, lib, last>>
  PROVE  stack' \in [Thread -> Seq(Frame)] /\ StackInv' /\ CountInv' /\ LastInv' /\ BottomSame
<1>1. stack[t] # <<>> /\ Top(t).op \notin Op /\ Top(t) = stack[t][Len(stack[t])]
  BY AtRank DEF RankFrame
<1>2. /\ stack' \in [Thread -> Seq(Frame)]
      /\ StackInv' /\ CountInv' /\ Depth' = Depth
      /\ stack[Main] # <<>> =>
           /\ stack'[Main][1].op = stack[Main][1].op
           /\ stack'[Main][1].at =
                IF t = Main /\ Len(stack[Main]) = 1 THEN m ELSE stack[Main][1].at
  BY <1>1, MoveNest
<1>3. Depth > 0 => stack[Main] # <<>> /\ ~(t = Main /\ Len(stack[Main]) = 1)
  BY <1>1 DEF Depth
<1> QED
  BY <1>2, <1>3, LastSame DEF NestInv, BottomSame

LEMMA RankPop ==
  ASSUME NestInv, NEW t \in Thread, NEW l \in RankLoc, At(t, l), RankReturns(t),
         UNCHANGED <<count, lib, last>>
  PROVE  /\ stack' \in [Thread -> Seq(Frame)] /\ StackInv' /\ CountInv' /\ LastInv' /\ BottomSame
         /\ told' \in BOOLEAN
<1>1. stack[t] # <<>> /\ Top(t).op \notin Op /\ Top(t) \in Frame
  BY AtRank DEF RankFrame
<1>2. /\ stack' \in [Thread -> Seq(Frame)]
      /\ StackInv' /\ CountInv' /\ Depth' = Depth
      /\ Depth' > 0 => stack'[Main][1] = stack[Main][1]
  BY <1>1, PopNest DEF RankReturns
<1>3. told' \in BOOLEAN
  BY <1>1 DEF RankReturns, NestInv, Types, Frame
<1> QED
  BY <1>2, <1>3, LastSame DEF NestInv, BottomSame

LEMMA RankNest ==
  ASSUME NestInv, NEW t \in Thread,
         \/ \E c \in Comm \cup {Bad} : CommRank(t, c)
         \/ Publish(t) \/ TestRank(t) \/ SetSize(t) \/ SetRank(t) \/ Close(t)
  PROVE  NestInv' /\ BottomSame
<1> USE Constants
<1>1. ASSUME NEW c \in Comm \cup {Bad}, CommRank(t, c) PROVE NestInv' /\ BottomSame
  <2> DEFINE f == Asking("rank", "test", c, Idle(t))
  <2>1. f \in Frame /\ RankFrame(f) /\ f.op = "rank"
    BY DEF Asking, Frame, RankFrame, RankLoc, Op, Source, Idle
  <2>2. Push(t, f) /\ UNCHANGED <<count, lib, last>> /\ (Idle(t) \/ At(t, "real"))
    BY <1>1 DEF CommRank, InLibrary
  <2> HIDE DEF f
  <2>3. stack' \in [Thread -> Seq(Frame)] /\ StackInv' /\ CountInv' /\ LastInv' /\ BottomSame
    BY <2>1, <2>2, RankPush
  <2>4. Types'
    BY <2>3, <1>1 DEF NestInv, Types, CommRank, rankVars, Call
  <2> QED
    BY <2>3, <2>4 DEF NestInv
<1>2. CASE Publish(t)
  <2> DEFINE f == Asking("publish", "test", Client, FALSE)
  <2>1. f \in Frame /\ RankFrame(f) /\ f.op = "publish"
    BY DEF Asking, Frame, RankFrame, RankLoc, Op, Source
  <2>2. /\ Push(t, f) /\ UNCHANGED <<count, lib, last>>
        /\ Idle(t) \/ At(t, "before") \/ At(t, "after")
    BY <1>2 DEF Publish
  <2> HIDE DEF f
  <2>3. stack' \in [Thread -> Seq(Frame)] /\ StackInv' /\ CountInv' /\ LastInv' /\ BottomSame
    BY <2>1, <2>2, RankPush
  <2>4. Types'
    BY <2>3, <1>2 DEF NestInv, Types, Publish, rankVars, Call
  <2> QED
    BY <2>3, <2>4 DEF NestInv
<1>3. CASE TestRank(t)
  <2>1. At(t, "test") /\ UNCHANGED <<count, lib, last>>
    BY <1>3 DEF TestRank
  <2>2. CASE Top(t).op = "rank" => FirstRank
    <3>1. /\ Goto(t, IF firstSet THEN "size" ELSE "close")
          /\ overlap' = (overlap \/ \E u \in Thread \ {t} : Setting(u))
          /\ UNCHANGED told
      BY <1>3, <2>2 DEF TestRank
    <3>2. stack' \in [Thread -> Seq(Frame)] /\ StackInv' /\ CountInv' /\ LastInv' /\ BottomSame
      BY <2>1, <3>1, RankGoto DEF RankLoc
    <3>3. overlap' \in BOOLEAN
      BY <3>1 DEF NestInv, Types
    <3> QED
      BY <3>1, <3>2, <3>3, <1>3 DEF NestInv, Types, TestRank
  <2>3. CASE ~(Top(t).op = "rank" => FirstRank)
    <3>1. RankReturns(t) /\ UNCHANGED overlap
      BY <1>3, <2>3 DEF TestRank
    <3>2. /\ stack' \in [Thread -> Seq(Frame)] /\ StackInv' /\ CountInv' /\ LastInv' /\ BottomSame
          /\ told' \in BOOLEAN
      BY <2>1, <3>1, RankPop DEF RankLoc
    <3> QED
      BY <3>1, <3>2, <1>3 DEF NestInv, Types, TestRank
  <2> QED
    BY <2>2, <2>3
<1>4. CASE SetSize(t)
  <2>1. At(t, "size") /\ Goto(t, "rank") /\ UNCHANGED <<count, lib, last>>
    BY <1>4 DEF SetSize
  <2>2. stack' \in [Thread -> Seq(Frame)] /\ StackInv' /\ CountInv' /\ LastInv' /\ BottomSame
    BY <2>1, RankGoto DEF RankLoc
  <2>3. Top(t) \in Frame
    BY <2>1, AtRank DEF RankLoc
  <2>4. size' \in Source \ {Bad}
    BY <2>3, <1>4 DEF SetSize, Frame, Source
  <2> QED
    BY <2>2, <2>4, <1>4 DEF NestInv, Types, SetSize
<1>5. CASE SetRank(t)
  <2>1. At(t, "rank") /\ Goto(t, "close") /\ UNCHANGED <<count, lib, last>>
    BY <1>5 DEF SetRank
  <2>2. stack' \in [Thread -> Seq(Frame)] /\ StackInv' /\ CountInv' /\ LastInv' /\ BottomSame
    BY <2>1, RankGoto DEF RankLoc
  <2>3. Top(t) \in Frame
    BY <2>1, AtRank DEF RankLoc
  <2>4. rank' \in Source
    BY <2>3, <1>5 DEF SetRank, Frame
  <2> QED
    BY <2>2, <2>4, <1>5 DEF NestInv, Types, SetRank
<1>6. CASE Close(t)
  <2>1. At(t, "close") /\ RankReturns(t) /\ UNCHANGED <<count, lib, last>>
    BY <1>6 DEF Close
  <2>2. /\ stack' \in [Thread -> Seq(Frame)] /\ StackInv' /\ CountInv' /\ LastInv' /\ BottomSame
        /\ told' \in BOOLEAN
    BY <2>1, RankPop DEF RankLoc
  <2>3. firstMpi' \in BOOLEAN /\ firstSet' \in BOOLEAN
    BY <1>6 DEF Close, NestInv, Types
  <2> QED
    BY <2>2, <2>3, <1>6 DEF NestInv, Types, Close
<1> QED
  BY <1>1, <1>2, <1>3, <1>4, <1>5, <1>6

LEMMA NestStep == NestInv /\ [Next]_vars => NestInv'
<1> SUFFICES ASSUME NestInv, [Next]_vars PROVE NestInv'
  OBVIOUS
<1>1. CASE Next
  <2>1. PICK t \in Thread : Step(t)
    BY <1>1 DEF Next
  <2> QED
    BY <2>1, EnterNest, BeforeNest, RealNest, AfterNest, LeaveNest, RankNest DEF Step
<1>2. CASE UNCHANGED vars
  BY <1>2 DEF vars, rankVars, NestInv, Types, StackInv, CountInv, LastInv, Depth
<1> QED
  BY <1>1, <1>2

THEOREM NestAlways == Spec => []NestInv
BY InitNest, NestStep, PTL DEF Spec

\* In every behaviour the variables have their types, and no thread but Main is
\* ever in MPI_Init or MPI_Finalize.
THEOREM MpiTypeCorrect == Spec => []TypeOK
<1>1. NestInv => TypeOK
  <2> SUFFICES ASSUME NestInv PROVE TypeOK
    OBVIOUS
  <2>1. ASSUME NEW t \in Thread \ {Main}, NEW i \in DOMAIN stack[t]
        PROVE  stack[t][i].op \notin Op
    <3>1. i \in 1..Len(stack[t])
      BY DEF NestInv, Types
    <3> QED
      BY <3>1 DEF NestInv, StackInv
  <2> QED
    BY <2>1 DEF NestInv, Types, TypeOK
<1> QED
  BY <1>1, NestAlways, PTL

\* The open overrides of a call are the lowest frames.
LEMMA OpenIs ==
  ASSUME NestInv
  PROVE  \A o \in Op : Open(o) = 1..count[o] /\ count[o] \in Nat
<1> USE Constants
<1>1. Len(stack[Main]) \in Nat /\ DOMAIN stack[Main] = 1..Len(stack[Main])
  BY DEF NestInv, Types
<1> DEFINE n == Len(stack[Main])
<1>2. Depth \in Nat /\ Depth <= n /\ (stack[Main] = <<>> => Depth = 0 /\ n = 0)
  <2>1. CASE stack[Main] = <<>>
    BY <2>1 DEF Depth
  <2>2. CASE stack[Main] # <<>>
    <3>1. n # 0
      BY <2>2, <1>1 DEF NestInv, Types
    <3> QED
      BY <2>2, <3>1, <1>1 DEF Depth
  <2> QED
    BY <2>1, <2>2
<1>3. ASSUME NEW o \in Op
      PROVE  Open(o) = 1..count[o] /\ count[o] \in Nat
  <2>0. count[o] = IF stack[Main] # <<>> /\ stack[Main][1].op = o THEN Depth ELSE 0
    BY DEF NestInv, CountInv
  <2>1. ASSUME NEW i \in 1..n
        PROVE  /\ i <= Depth <=> stack[Main][i].op \in Op
               /\ stack[Main][i].op \in Op => stack[Main][i].op = stack[Main][1].op
    <3>1. \/ stack[Main][i].op \notin Op /\ i = n
          \/ stack[Main][i].op \in Op /\ stack[Main][i].op = stack[Main][1].op
      BY DEF NestInv, StackInv
    <3>2. stack[Main] # <<>> /\ n # 0
      BY <1>1, <1>2
    <3>3. Depth = IF stack[Main][n].op \in Op THEN n ELSE n - 1
      BY <3>2 DEF Depth
    <3> QED
      BY <3>1, <3>3, <1>1
  <2>2. Open(o) = {i \in 1..n : stack[Main][i].op = o}
    BY <1>1 DEF Open
  <2>3. CASE stack[Main] # <<>> /\ stack[Main][1].op = o
    BY <2>0, <2>1, <2>2, <2>3, <1>1, <1>2
  <2>4. CASE ~(stack[Main] # <<>> /\ stack[Main][1].op = o)
    <3>1. Open(o) = {}
      BY <2>1, <2>2, <2>4, <1>1, <1>2
    <3> QED
      BY <2>0, <2>4, <3>1
  <2> QED
    BY <2>3, <2>4
<1> QED
  BY <1>3

\* In every behaviour the counters of MPI_Init and MPI_Finalize are the numbers
\* of their overrides that are open: none is lost, none is left.
THEOREM CountsAlwaysNest == Spec => []CountsNest
<1>1. ASSUME NestInv PROVE CountsNest
  <2>1. ASSUME NEW o \in Op PROVE count[o] = Cardinality(Open(o))
    <3>1. Open(o) = 1..count[o] /\ count[o] \in Nat
      BY <1>1, OpenIs
    <3>2. Cardinality(1..count[o]) = count[o]
      BY <3>1, FS_Interval
    <3> QED
      BY <3>1, <3>2
  <2> QED
    BY <2>1 DEF CountsNest
<1> QED
  BY <1>1, NestAlways, PTL

-----------------------------------------------------------------------------
(* The refinement. *)

InReal == \E i \in DOMAIN stack[Main] : stack[Main][i].at = "real"
Running == Depth > 0 /\ stack[Main][1].at = "real"

\* The library runs when the outermost override is in it.
LEMMA RealIs == NestInv => (InReal <=> Running)
<1> SUFFICES ASSUME NestInv PROVE InReal <=> Running
  OBVIOUS
<1> USE Constants DEF NestInv
<1> DEFINE n == Len(stack[Main])
<1>1. n \in Nat /\ DOMAIN stack[Main] = 1..n /\ Len(stack[Main]) = n
  BY DEF Types
<1>2. stack[Main] # <<>> => n # 0 /\ Depth = IF stack[Main][n].op \in Op THEN n ELSE n - 1
  BY DEF Types, Depth
<1>3. stack[Main] = <<>> => n = 0 /\ Depth = 0
  BY DEF Depth
<1> HIDE DEF n
<1>4. ASSUME NEW i \in 1..n, stack[Main][i].at = "real"
      PROVE  Depth > 0 /\ stack[Main][1].at = "real"
  <2>1. stack[Main][i].op \in Op
    BY <1>1, <1>4 DEF StackInv, CallFrame, RankFrame, RankLoc
  <2>2. stack[Main] # <<>>
    BY <1>1, <1>3
  <2>3. Depth > 0
    <3>1. CASE i = n
      BY <3>1, <2>1, <2>2, <1>1, <1>2
    <3>2. CASE i # n
      BY <3>2, <2>2, <1>1, <1>2
    <3> QED
      BY <3>1, <3>2
  <2>4. stack[Main][1].at = "real"
    <3>1. CASE i = 1
      BY <3>1, <1>4
    <3>2. CASE i # 1
      <4>1. 1 \in 1..Len(stack[Main]) /\ 1 < Len(stack[Main]) /\ 2 \in 1..Len(stack[Main])
        BY <3>2, <1>1
      <4>2. stack[Main][2].op \in Op
        <5>1. CASE i = 2
          BY <5>1, <2>1
        <5>2. CASE i # 2
          <6>1. 2 # Len(stack[Main])
            BY <5>2, <3>2, <1>1
          <6> QED
            BY <6>1, <4>1 DEF StackInv
        <5> QED
          BY <5>1, <5>2
      <4>3. 1 + 1 = 2
        OBVIOUS
      <4>4. \A k \in 1..Len(stack[Main]) : k < Len(stack[Main]) =>
              (stack[Main][k + 1].op # "publish" => stack[Main][k].at = "real")
        BY DEF StackInv
      <4>5. stack[Main][1 + 1].op # "publish"
        BY <4>2, <4>3 DEF Op
      <4> QED
        BY <4>1, <4>4, <4>5
    <3> QED
      BY <3>1, <3>2
  <2> QED
    BY <2>3, <2>4
<1>5. Depth > 0 => 1 \in 1..n
  BY <1>1, <1>2, <1>3
<1> QED
  BY <1>1, <1>4, <1>5 DEF InReal, Running

\* Every step of the overrides is a step of the abstract client's view.
LEMMA CallbackStep ==
  ASSUME NestInv, NestInv', [Next]_vars, InReal <=> Running, InReal' <=> Running'
  PROVE  [Callbacks!Next]_Callbacks!vars
<1> USE Constants DEF NestInv
<1>0. /\ InReal = \E i \in DOMAIN stack[Main] : stack[Main][i].at = "real"
      /\ InReal' = \E i \in DOMAIN stack'[Main] : stack'[Main][i].at = "real"
      /\ InReal \in BOOLEAN /\ InReal' \in BOOLEAN
  BY DEF InReal
<1> DEFINE Step0(from, to) == ~InReal /\ last \in from /\ last' = to /\ ~InReal'
           Step1 == ~InReal /\ last \in {"pre_init", "fini"} /\ InReal' /\ last' = last
           Step2(from, to) == InReal /\ last = from /\ last' = to /\ ~InReal'
           Stay == last' = last /\ (InReal' <=> InReal)
<1>a. SUFFICES \/ Stay
               \/ Step0({"none", "init"}, "pre_init") \/ Step0({"init", "post_fini"}, "fini")
               \/ Step1
               \/ Step2("pre_init", "init") \/ Step2("fini", "post_fini")
  <2>1. CASE Stay
    BY <2>1, <1>0 DEF Callbacks!vars
  <2>2. CASE Step0({"none", "init"}, "pre_init") \/ Step0({"init", "post_fini"}, "fini")
    BY <2>2, <1>0 DEF Callbacks!Next, Callbacks!Before
  <2>3. CASE Step1
    BY <2>3, <1>0 DEF Callbacks!Next, Callbacks!EnterReal
  <2>4. CASE Step2("pre_init", "init") \/ Step2("fini", "post_fini")
    BY <2>4, <1>0 DEF Callbacks!Next, Callbacks!After
  <2> QED
    BY <2>1, <2>2, <2>3, <2>4
<1>1. ASSUME NEW t \in Thread, NEW o \in Op, Enter(t, o)
      PROVE  Stay \/ Step0({"none", "init"}, "pre_init") \/ Step0({"init", "post_fini"}, "fini")
  <2> DEFINE n == Len(stack[Main])
             at == IF CalledBack(count'[o]) THEN "before" ELSE "real"
             f == [op |-> o, at |-> at, count |-> count'[o], from |-> Unset, appl |-> Idle(t)]
  <2>1. MayEnter(t, o)
    BY <1>1 DEF Enter
  <2>2. /\ t = Main /\ Depth = n /\ n \in Nat
        /\ \A i \in 1..n : stack[Main][i].op = o
        /\ stack[Main] # <<>> => stack[Main][n].at = "real"
        /\ count[o] = n
    BY <2>1, EnterMain
  <2>3. count'[o] = n + 1
    BY <2>2, <1>1 DEF Enter, Types
  <2>4. f \in Frame
    BY <2>2, <2>3 DEF Frame, Idle, Source
  <2>5. Push(Main, f)
    BY <2>2, <1>1 DEF Enter
  <2>6. f.op = o /\ f.at = (IF n = 0 THEN "before" ELSE "real")
    BY <2>2, <2>3 DEF CalledBack
  <2> HIDE DEF f, at
  <2>7. /\ Len(stack'[Main]) = n + 1
        /\ \A i \in 1..n : stack'[Main][i] = stack[Main][i]
        /\ stack'[Main][n + 1] = f
    BY <2>4, <2>5, PushStack
  <2>8. Depth' = n + 1
    <3>1. stack'[Main] # <<>>
      BY <2>2, <2>7
    <3> QED
      BY <3>1, <2>6, <2>7 DEF Depth
  <2>9. last' = IF n = 0 THEN BeforeName(o) ELSE last
    BY <2>2, <2>3, <1>1 DEF Enter, CalledBack
  <2>10. CASE n = 0
    <3>1. ~InReal /\ ~InReal'
      BY <2>2, <2>6, <2>7, <2>8, <2>10 DEF Running
    <3>2. Idle(Main)
      BY <2>10, <2>2 DEF Idle, Types
    <3>3. lib = IF o = "init" THEN "none" ELSE "up"
      BY <3>2, <2>1, <2>2 DEF MayEnter, InLibrary, At, Idle
    <3>4. last \in IF o = "init" THEN {"none", "init"} ELSE {"init", "post_fini"}
      BY <3>3, <2>2, <2>10 DEF LastInv, Op
    <3> QED
      BY <3>1, <3>4, <2>9, <2>10 DEF BeforeName, Op
  <2>11. CASE n # 0
    <3>1. stack'[Main][1] = stack[Main][1] /\ Depth > 0 /\ Depth' > 0
      BY <2>2, <2>7, <2>8, <2>11
    <3> QED
      BY <3>1, <2>9, <2>11 DEF Running
  <2> QED
    BY <2>10, <2>11
<1>2. ASSUME NEW t \in Thread, BeforeReturn(t) PROVE Step1
  <2>1. /\ t = Main /\ stack[Main] # <<>> /\ Len(stack[Main]) = 1 /\ Depth = 1
        /\ Top(t).op \in Op /\ Top(t) = stack[Main][1] /\ Top(t).at = "before"
    BY <1>2, AtCall DEF BeforeReturn, CallLoc
  <2>2. Depth' = Depth /\ stack'[Main][1].at = "real"
    BY <1>2, <2>1, MoveNest DEF BeforeReturn, CallLoc
  <2>3. last = BeforeName(stack[Main][1].op) /\ last' = last
    BY <2>1, <1>2 DEF LastInv, BeforeReturn
  <2> QED
    BY <2>1, <2>2, <2>3 DEF Running, BeforeName, Op
<1>3. ASSUME NEW t \in Thread, RealReturn(t)
      PROVE  Stay \/ Step2("pre_init", "init") \/ Step2("fini", "post_fini")
  <2> DEFINE n == Len(stack[Main])
             o == Top(t).op
             l == IF CalledBack(Top(t).count) THEN "after" ELSE "leave"
  <2>1. /\ t = Main /\ stack[Main] # <<>> /\ n \in Nat \ {0} /\ Depth = n
        /\ o \in Op /\ o = stack[Main][1].op /\ Top(t).count = n
        /\ Top(t) = stack[Main][n] /\ Top(t).at = "real"
    BY <1>3, AtCall DEF RealReturn, CallLoc
  <2>2. l = IF n = 1 THEN "after" ELSE "leave"
    BY <2>1 DEF CalledBack
  <2>3. Goto(t, l) /\ UNCHANGED count /\ last' = IF n = 1 THEN AfterName(o) ELSE last
    BY <2>1, <1>3 DEF RealReturn, CalledBack
  <2>4. l \in CallLoc /\ (n > 1 => l \in {"real", "leave"})
    BY <2>1, <2>2 DEF CallLoc
  <2> HIDE DEF l
  <2>5. Depth' = Depth /\ stack'[Main][1].at = IF n = 1 THEN l ELSE stack[Main][1].at
    BY <2>1, <2>3, <2>4, MoveNest
  <2>6. CASE n = 1
    <3>1. InReal /\ ~InReal'
      BY <2>1, <2>2, <2>5, <2>6 DEF Running
    <3>2. last = BeforeName(o)
      BY <2>1, <2>6 DEF LastInv
    <3> QED
      BY <3>1, <3>2, <2>1, <2>3, <2>6 DEF BeforeName, AfterName, Op
  <2>7. CASE n # 1
    BY <2>3, <2>5, <2>7 DEF Running
  <2> QED
    BY <2>6, <2>7
<1>4. ASSUME NEW t \in Thread, AfterReturn(t) PROVE Stay
  <2>1. /\ t = Main /\ stack[Main] # <<>> /\ Len(stack[Main]) = 1 /\ Depth = 1
        /\ Top(t).op \in Op /\ Top(t) = stack[Main][1] /\ Top(t).at = "after"
    BY <1>4, AtCall DEF AfterReturn, CallLoc
  <2>2. stack'[Main][1].at = "leave"
    BY <1>4, <2>1, MoveNest DEF AfterReturn, CallLoc
  <2> QED
    BY <2>1, <2>2, <1>4 DEF Running, AfterReturn
<1>5. ASSUME NEW t \in Thread, Leave(t) PROVE Stay
  <2>1. /\ t = Main /\ stack[Main] # <<>> /\ Len(stack[Main]) \in Nat \ {0}
        /\ Depth = Len(stack[Main]) /\ Top(t).op \in Op
        /\ Top(t) = stack[Main][Len(stack[Main])] /\ Top(t).at = "leave"
    BY <1>5, AtCall DEF Leave, CallLoc
  <2>2. /\ Depth' = Depth - 1
        /\ Depth' > 0 => stack'[Main][1] = stack[Main][1]
    BY <2>1, <1>5, PopNest DEF Leave
  <2>3. CASE Depth = 1
    BY <2>1, <2>2, <2>3, <1>5 DEF Running, Leave
  <2>4. CASE Depth # 1
    <3> DEFINE n == Len(stack[Main])
    <3>1. n \in Nat \ {0} /\ Depth = n /\ n # 1 /\ Depth' = n - 1
      BY <2>1, <2>2, <2>4
    <3> HIDE DEF n
    <3>2. Depth > 0 /\ Depth' > 0
      BY <3>1
    <3> QED
      BY <3>2, <2>2, <1>5 DEF Running, Leave
  <2> QED
    BY <2>3, <2>4
<1>6. ASSUME NEW t \in Thread,
             \/ \E c \in Comm \cup {Bad} : CommRank(t, c)
             \/ Publish(t) \/ TestRank(t) \/ SetSize(t) \/ SetRank(t) \/ Close(t)
      PROVE  Stay
  <2>1. last' = last
    BY <1>6 DEF CommRank, Publish, TestRank, SetSize, SetRank, Close
  <2>2. Running' <=> Running
    BY <1>6, RankNest DEF Running, BottomSame
  <2> QED
    BY <2>1, <2>2
<1>7. CASE UNCHANGED vars
  BY <1>7 DEF vars, InReal
<1> QED
  BY <1>1, <1>2, <1>3, <1>4, <1>5, <1>6, <1>7 DEF Next, Step

\* The client is told of every call of MPI_Init and MPI_Finalize that the
\* application makes once before and once after it, and of none that the library
\* makes itself: the overrides implement the client's view.
THEOREM CallbacksImplemented == Spec => ImplementsCallbacks
<1>1. Init => Callbacks!Init
  BY Constants DEF Init, Callbacks!Init
<1>2. NestInv /\ NestInv' /\ [Next]_vars /\ (InReal <=> Running) /\ (InReal' <=> Running')
        => [Callbacks!Next]_Callbacks!vars
  BY CallbackStep
<1> QED
  BY <1>1, <1>2, RealIs, NestAlways, PTL DEF Spec, ImplementsCallbacks, Callbacks!Spec

-----------------------------------------------------------------------------
(* The size and the rank. *)

SetLoc == {"size", "rank", "close"}

Match == rank = size \/ (rank = Bad /\ size = Unset)

\* While no two calls have overlapped, one thread at most is setting, and how far
\* it is tells what size and rank are.
SetInv ==
    ~overlap =>
        /\ \A t, u \in Thread : Setting(t) /\ Setting(u) => t = u
        /\ (\A t \in Thread : ~Setting(t)) => Match /\ (firstSet => rank = Unset)
        /\ \A t \in Thread : At(t, "size") => firstSet /\ rank = Unset /\ size = Unset
        /\ \A t \in Thread : At(t, "rank") =>
             /\ firstSet /\ rank = Unset
             /\ size = IF Top(t).from = Bad THEN Unset ELSE Top(t).from
        /\ \A t \in Thread : At(t, "close") => Match

\* A thread is asking for a rank, at some place of the override.
Asks(t) == stack[t] # <<>> /\ Top(t).op = "rank"

\* Before the library is up a rank is asked by MPI_Init alone; and what a thread
\* sets by MPI_Comm_rank it sets outside MPI_Init.
InsideInv ==
    \A t \in Thread : Asks(t) =>
        /\ lib = "none" => t = Main /\ count["init"] > 0
        /\ Setting(t) => count["init"] = 0

\* Marks and answers are never ahead of the rank.
KnownInv ==
    /\ ~firstSet \/ ~firstMpi \/ told => rank # Unset
    /\ \A t \in Thread : At(t, "close") => rank # Unset
    /\ lib # "none" => maxInit > 0
    /\ count["init"] <= maxInit

RankInv == NestInv /\ SetInv /\ InsideInv /\ KnownInv

LEMMA TopPush ==
  ASSUME Types, NEW t \in Thread, NEW f \in Frame, Push(t, f)
  PROVE  /\ stack'[t] # <<>> /\ Top(t)' = f
         /\ \A u \in Thread \ {t} : stack'[u] = stack[u]
<1> DEFINE n == Len(stack[t])
<1>1. /\ stack' \in [Thread -> Seq(Frame)]
      /\ \A u \in Thread \ {t} : stack'[u] = stack[u]
      /\ Len(stack'[t]) = n + 1 /\ n \in Nat
      /\ stack'[t][n + 1] = f
  BY PushStack
<1>2. stack'[t] # <<>>
  BY <1>1
<1>3. Top(t)' = stack'[t][Len(stack'[t])]
  BY DEF Top, Last
<1> QED
  BY <1>1, <1>2, <1>3

LEMMA TopGoto ==
  ASSUME Types, NEW t \in Thread, stack[t] # <<>>, NEW l \in CallLoc \cup RankLoc, Goto(t, l)
  PROVE  /\ stack'[t] # <<>> /\ Top(t)' = [Top(t) EXCEPT !.at = l]
         /\ Top(t) \in Frame
         /\ \A u \in Thread \ {t} : stack'[u] = stack[u]
<1> DEFINE n == Len(stack[t])
<1>1. /\ stack' \in [Thread -> Seq(Frame)]
      /\ \A u \in Thread \ {t} : stack'[u] = stack[u]
      /\ Len(stack'[t]) = n /\ n \in Nat \ {0}
      /\ stack'[t][n] = [stack[t][n] EXCEPT !.at = l]
  BY GotoStack
<1>2. stack'[t] # <<>>
  BY <1>1
<1>3. Top(t)' = stack'[t][Len(stack'[t])]
  BY DEF Top, Last
<1>4. Top(t) = stack[t][n] /\ Top(t) \in Frame
  BY TopOf
<1> QED
  BY <1>1, <1>2, <1>3, <1>4

\* Below the top is a frame of MPI_Init or MPI_Finalize, or none.
LEMMA TopPop ==
  ASSUME NestInv, NEW t \in Thread, stack[t] # <<>>, Pop(t)
  PROVE  /\ ~Setting(t)' /\ ~Asks(t)'
         /\ \A u \in Thread \ {t} : stack'[u] = stack[u]
<1> USE Constants DEF NestInv
<1> DEFINE n == Len(stack[t])
<1>1. /\ stack' \in [Thread -> Seq(Frame)]
      /\ \A u \in Thread \ {t} : stack'[u] = stack[u]
      /\ Len(stack'[t]) = n - 1 /\ n \in Nat \ {0} /\ Len(stack[t]) = n
      /\ \A i \in 1..(n - 1) : stack'[t][i] = stack[t][i]
  BY PopStack
<1> HIDE DEF n
<1>2. CASE n = 1
  <2>1. stack'[t] = <<>>
    BY <1>1, <1>2
  <2> QED
    BY <2>1, <1>1 DEF Setting, At, Asks
<1>3. CASE n # 1
  <2>1. n - 1 \in 1..Len(stack[t]) /\ n - 1 \in 1..(n - 1) /\ n - 1 # Len(stack[t]) /\ n - 1 # 0
    BY <1>1, <1>3
  <2>2. n \in 1..Len(stack[t]) /\ n # 1
    BY <1>1, <1>3
  <2>3. t = Main
    BY <2>2 DEF StackInv
  <2>4. stack[t][n - 1].op \in Op
    BY <2>1, <2>3 DEF StackInv
  <2>5. CallFrame(stack[t][n - 1])
    BY <2>1, <2>4 DEF StackInv, RankFrame
  <2>6. Top(t)' = stack[t][n - 1]
    <3>1. Top(t)' = stack'[t][Len(stack'[t])]
      BY DEF Top, Last
    <3> QED
      BY <3>1, <2>1, <1>1
  <2> QED
    BY <2>4, <2>5, <2>6, <1>1 DEF Setting, At, Asks, CallFrame, CallLoc, Op
<1> QED
  BY <1>2, <1>3

\* A step that neither is at the size and the rank nor comes there.
Quiet ==
    /\ UNCHANGED rankVars
    /\ \A u \in Thread : Setting(u) \/ Setting(u)' => stack'[u] = stack[u]

LEMMA QuietStep ==
  ASSUME NestInv, NEW t \in Thread,
         \/ \E o \in Op : Enter(t, o)
         \/ BeforeReturn(t) \/ RealReturn(t) \/ AfterReturn(t) \/ Leave(t)
         \/ \E c \in Comm \cup {Bad} : CommRank(t, c)
         \/ Publish(t)
  PROVE  Quiet
<1> USE Constants DEF NestInv
<1>1. ASSUME NEW o \in Op, Enter(t, o) PROVE Quiet
  <2> DEFINE at == IF CalledBack(count'[o]) THEN "before" ELSE "real"
             f == [op |-> o, at |-> at, count |-> count'[o], from |-> Unset, appl |-> Idle(t)]
  <2>1. f \in Frame
    <3>1. count'[o] \in Nat
      BY <1>1 DEF Enter, Types
    <3> QED
      BY <3>1 DEF Frame, Source, Idle
  <2>2. Push(t, f)
    BY <1>1 DEF Enter
  <2>3. f.at \in {"before", "real"}
    OBVIOUS
  <2> HIDE DEF f, at
  <2>4. Top(t)' = f /\ \A u \in Thread \ {t} : stack'[u] = stack[u]
    BY <2>1, <2>2, TopPush
  <2>5. ~Setting(t) /\ ~Setting(t)'
    BY <2>3, <2>4, <1>1 DEF Setting, At, Enter, MayEnter, Idle, InLibrary
  <2> QED
    BY <2>4, <2>5, <1>1 DEF Quiet, Enter
<1>2. ASSUME NEW l \in CallLoc, NEW m \in CallLoc, At(t, l), Goto(t, m), UNCHANGED rankVars
      PROVE  Quiet
  <2>1. Top(t)' = [Top(t) EXCEPT !.at = m] /\ Top(t) \in Frame
        /\ \A u \in Thread \ {t} : stack'[u] = stack[u]
    BY <1>2, TopGoto DEF At
  <2>2. Top(t)'.at = m
    BY <2>1 DEF Frame
  <2>3. ~Setting(t) /\ ~Setting(t)'
    BY <2>2, <1>2 DEF Setting, At, CallLoc
  <2> QED
    BY <2>1, <2>3, <1>2 DEF Quiet
<1>3. CASE BeforeReturn(t)
  BY <1>2, <1>3 DEF BeforeReturn, CallLoc
<1>4. CASE RealReturn(t)
  BY <1>2, <1>4 DEF RealReturn, CallLoc
<1>5. CASE AfterReturn(t)
  BY <1>2, <1>5 DEF AfterReturn, CallLoc
<1>6. CASE Leave(t)
  <2>1. stack[t] # <<>> /\ Pop(t) /\ ~Setting(t) /\ UNCHANGED rankVars
    BY <1>6 DEF Leave, At, Setting
  <2>2. ~Setting(t)' /\ \A u \in Thread \ {t} : stack'[u] = stack[u]
    BY <2>1, TopPop
  <2> QED
    BY <2>1, <2>2 DEF Quiet
<1>7. ASSUME NEW f \in Frame, f.at = "test", Push(t, f), UNCHANGED rankVars,
             Idle(t) \/ At(t, "real") \/ At(t, "before") \/ At(t, "after")
      PROVE  Quiet
  <2>1. Top(t)' = f /\ \A u \in Thread \ {t} : stack'[u] = stack[u]
    BY <1>7, TopPush
  <2>2. ~Setting(t) /\ ~Setting(t)'
    BY <2>1, <1>7 DEF Setting, At, Idle
  <2> QED
    BY <2>1, <2>2, <1>7 DEF Quiet
<1>8. ASSUME NEW c \in Comm \cup {Bad}, CommRank(t, c) PROVE Quiet
  <2>1. Asking("rank", "test", c, Idle(t)) \in Frame
    BY DEF Asking, Frame, Source, Idle
  <2>2. Asking("rank", "test", c, Idle(t)).at = "test"
    BY DEF Asking
  <2> QED
    BY <2>1, <2>2, <1>7, <1>8 DEF CommRank, InLibrary
<1>9. CASE Publish(t)
  <2>1. Asking("publish", "test", Client, FALSE) \in Frame
    BY DEF Asking, Frame, Source
  <2>2. Asking("publish", "test", Client, FALSE).at = "test"
    BY DEF Asking
  <2> QED
    BY <2>1, <2>2, <1>7, <1>9 DEF Publish
<1> QED
  BY <1>1, <1>3, <1>4, <1>5, <1>6, <1>8, <1>9

\* A quiet step leaves who is setting, where, and with what frame.
LEMMA QuietSame ==
  ASSUME Quiet, NEW u \in Thread
  PROVE  /\ Setting(u)' <=> Setting(u)
         /\ \A l \in SetLoc : At(u, l)' <=> At(u, l)
         /\ Setting(u) => Top(u)' = Top(u)
<1>1. CASE Setting(u) \/ Setting(u)'
  <2>1. stack'[u] = stack[u]
    BY <1>1 DEF Quiet
  <2> QED
    BY <2>1 DEF Setting, At, Top
<1>2. CASE ~(Setting(u) \/ Setting(u)')
  BY <1>2 DEF Setting, SetLoc
<1> QED
  BY <1>1, <1>2

\* A step of t that goes from one place of the override to another.
LEMMA GoOn ==
  ASSUME NestInv, NEW t \in Thread, NEW l \in RankLoc, NEW m \in RankLoc, At(t, l), Goto(t, m)
  PROVE  /\ \A k : At(t, k)' <=> k = m
         /\ Top(t)'.from = Top(t).from /\ Top(t)'.op = Top(t).op
         /\ stack'[t] # <<>>
         /\ \A u \in Thread \ {t} : stack'[u] = stack[u]
         /\ \A u \in Thread \ {t} : (Setting(u)' <=> Setting(u)) /\ Top(u)' = Top(u)
         /\ \A u \in Thread \ {t} : \A k : At(u, k)' <=> At(u, k)
<1>1. /\ stack'[t] # <<>> /\ Top(t)' = [Top(t) EXCEPT !.at = m] /\ Top(t) \in Frame
      /\ \A u \in Thread \ {t} : stack'[u] = stack[u]
  BY TopGoto DEF At, NestInv
<1>2. Top(t)'.at = m /\ Top(t)'.from = Top(t).from /\ Top(t)'.op = Top(t).op
  BY <1>1 DEF Frame
<1>3. \A k : At(t, k)' <=> k = m
  BY <1>1, <1>2 DEF At
<1>4. \A u \in Thread \ {t} : (Setting(u)' <=> Setting(u)) /\ Top(u)' = Top(u)
  BY <1>1 DEF Setting, At, Top
<1>5. \A u \in Thread \ {t} : \A k : At(u, k)' <=> At(u, k)
  BY <1>1 DEF At, Top
<1> QED
  BY <1>1, <1>2, <1>3, <1>4, <1>5

\* And one that leaves it.
LEMMA GoBack ==
  ASSUME NestInv, NEW t \in Thread, NEW l \in RankLoc, At(t, l), RankReturns(t)
  PROVE  /\ ~Setting(t)' /\ ~Asks(t)'
         /\ \A u \in Thread \ {t} : stack'[u] = stack[u]
         /\ \A u \in Thread \ {t} : (Setting(u)' <=> Setting(u)) /\ Top(u)' = Top(u)
         /\ \A u \in Thread \ {t} : \A k : At(u, k)' <=> At(u, k)
         /\ \A k \in SetLoc : ~At(t, k)'
<1>1. /\ ~Setting(t)' /\ ~Asks(t)'
      /\ \A u \in Thread \ {t} : stack'[u] = stack[u]
  BY TopPop DEF At, RankReturns
<1>2. \A u \in Thread \ {t} : (Setting(u)' <=> Setting(u)) /\ Top(u)' = Top(u)
  BY <1>1 DEF Setting, At, Top
<1>3. \A u \in Thread \ {t} : \A k : At(u, k)' <=> At(u, k)
  BY <1>1 DEF At, Top
<1>4. \A k \in SetLoc : ~At(t, k)'
  BY <1>1 DEF Setting, SetLoc
<1> QED
  BY <1>1, <1>2, <1>3, <1>4

LEMMA SetQuiet ==
  ASSUME SetInv, Quiet
  PROVE  SetInv'
<1> SUFFICES ASSUME ~overlap' PROVE SetInv'
  BY DEF SetInv
<1>1. ~overlap /\ UNCHANGED <<size, rank, firstSet>>
  BY DEF Quiet, rankVars
<1>2. /\ \A u \in Thread : Setting(u)' <=> Setting(u)
      /\ \A u \in Thread : \A l \in SetLoc : At(u, l)' <=> At(u, l)
      /\ \A u \in Thread : Setting(u) => Top(u)' = Top(u)
  BY QuietSame
<1>3. \A u \in Thread : At(u, "rank") => Setting(u)
  BY DEF Setting
<1>4. \A u \in Thread : /\ At(u, "size")' <=> At(u, "size")
                        /\ At(u, "rank")' <=> At(u, "rank")
                        /\ At(u, "close")' <=> At(u, "close")
  BY <1>2 DEF SetLoc
<1>5. Match' <=> Match
  BY <1>1 DEF Match
<1> QED
  BY <1>1, <1>2, <1>3, <1>4, <1>5 DEF SetInv

LEMMA SetRankStep ==
  ASSUME NestInv, SetInv, NEW t \in Thread,
         TestRank(t) \/ SetSize(t) \/ SetRank(t) \/ Close(t)
  PROVE  SetInv' /\ (~overlap' /\ rank # Unset => UNCHANGED <<size, rank>>)
<1> SUFFICES ASSUME ~overlap'
             PROVE  SetInv' /\ (rank # Unset => UNCHANGED <<size, rank>>)
  BY DEF SetInv
<1>0. ~overlap
  BY DEF TestRank, SetSize, SetRank, Close
<1> DEFINE One == \A u \in Thread : Setting(u) => u = t
<1>1. /\ (\A u \in Thread : ~Setting(u)) => Match /\ (firstSet => rank = Unset)
      /\ At(t, "size") => firstSet /\ rank = Unset /\ size = Unset
      /\ At(t, "rank") => /\ firstSet /\ rank = Unset
                          /\ size = IF Top(t).from = Bad THEN Unset ELSE Top(t).from
      /\ At(t, "close") => Match
  BY <1>0 DEF SetInv
<1>2. Setting(t) => One
  BY <1>0 DEF SetInv
<1>3. \A u \in Thread : At(u, "size") \/ At(u, "rank") \/ At(u, "close") <=> Setting(u)
  BY DEF Setting
<1>4. ASSUME NEW m \in SetLoc, NEW l \in RankLoc, One, At(t, l), Goto(t, m),
             m = "size" => firstSet' /\ rank' = Unset /\ size' = Unset,
             m = "rank" => /\ firstSet' /\ rank' = Unset
                           /\ size' = IF Top(t).from = Bad THEN Unset ELSE Top(t).from,
             m = "close" => Match'
      PROVE  SetInv'
  <2>1. /\ \A k : At(t, k)' <=> k = m
        /\ Top(t)'.from = Top(t).from
        /\ \A u \in Thread \ {t} : Setting(u)' <=> Setting(u)
        /\ \A u \in Thread \ {t} : \A k : At(u, k)' <=> At(u, k)
    BY <1>4, GoOn DEF SetLoc, RankLoc
  <2>2. Setting(t)'
    BY <2>1 DEF Setting, SetLoc
  <2>3. \A u \in Thread : Setting(u)' => u = t
    BY <2>1, <1>4
  <2>4. \A u \in Thread : At(u, "size")' \/ At(u, "rank")' \/ At(u, "close")' => u = t
    BY <2>3 DEF Setting
  <2>5. /\ At(t, "size")' <=> "size" = m
        /\ At(t, "rank")' <=> "rank" = m
        /\ At(t, "close")' <=> "close" = m
    BY <2>1
  <2> QED
    BY <1>4, <2>1, <2>2, <2>3, <2>4, <2>5 DEF SetInv
<1>5. ASSUME NEW l \in RankLoc, At(t, l), RankReturns(t), Setting(t) => ~firstSet' /\ Match',
             ~Setting(t) => UNCHANGED <<size, rank, firstSet>>
      PROVE  SetInv'
  <2>1. /\ ~Setting(t)'
        /\ \A u \in Thread \ {t} : Setting(u)' <=> Setting(u)
        /\ \A u \in Thread \ {t} : Top(u)' = Top(u)
        /\ \A u \in Thread \ {t} : \A k : At(u, k)' <=> At(u, k)
    BY <1>5, GoBack
  <2>2. CASE Setting(t)
    <3>1. \A u \in Thread : ~Setting(u)'
      BY <2>1, <2>2, <1>2
    <3>2. \A u \in Thread : ~At(u, "size")' /\ ~At(u, "rank")' /\ ~At(u, "close")'
      BY <3>1 DEF Setting
    <3> QED
      BY <3>1, <3>2, <2>2, <1>5 DEF SetInv
  <2>3. CASE ~Setting(t)
    <3>1. \A u \in Thread : Setting(u)' <=> Setting(u)
      BY <2>1, <2>3
    <3>2. \A u \in Thread : /\ At(u, "size")' <=> At(u, "size")
                            /\ At(u, "rank")' <=> At(u, "rank")
                            /\ At(u, "close")' <=> At(u, "close")
      BY <2>1, <2>3 DEF Setting
    <3>3. Match' <=> Match
      BY <2>3, <1>5 DEF Match
    <3>4. \A u \in Thread : At(u, "rank") => Top(u)' = Top(u)
      BY <2>1, <2>3 DEF Setting
    <3> QED
      BY <3>1, <3>2, <3>3, <3>4, <2>3, <1>0, <1>5 DEF SetInv
  <2> QED
    BY <2>2, <2>3
<1>6. CASE TestRank(t)
  <2>1. At(t, "test") /\ ~Setting(t) /\ UNCHANGED <<size, rank, firstSet>>
    BY <1>6 DEF TestRank, Setting, At
  <2>2. CASE Top(t).op = "rank" => FirstRank
    <3>1. /\ Goto(t, IF firstSet THEN "size" ELSE "close")
          /\ \A u \in Thread \ {t} : ~Setting(u)
      BY <1>6, <2>2 DEF TestRank
    <3>2. One /\ \A u \in Thread : ~Setting(u)
      BY <3>1, <2>1
    <3>3. Match /\ (firstSet => rank = Unset) /\ (firstSet => size = Unset)
      <4>1. Match /\ (firstSet => rank = Unset)
        BY <3>2, <1>1
      <4> QED
        BY <4>1, Constants DEF Match
    <3>4. CASE firstSet
      BY <3>1, <3>2, <3>3, <3>4, <2>1, <1>4 DEF SetLoc, RankLoc
    <3>5. CASE ~firstSet
      <4>1. Match'
        BY <3>3, <2>1 DEF Match
      <4> QED
        BY <4>1, <3>1, <3>2, <3>5, <2>1, <1>4 DEF SetLoc, RankLoc
    <3> QED
      BY <3>4, <3>5, <2>1
  <2>3. CASE ~(Top(t).op = "rank" => FirstRank)
    <3>1. RankReturns(t)
      BY <1>6, <2>3 DEF TestRank
    <3> QED
      BY <3>1, <2>1, <1>5 DEF RankLoc
  <2> QED
    BY <2>2, <2>3
<1>7. CASE SetSize(t)
  <2>1. /\ At(t, "size") /\ Goto(t, "rank") /\ UNCHANGED <<rank, firstSet>>
        /\ size' = IF Top(t).from = Bad THEN Unset ELSE Top(t).from
    BY <1>7 DEF SetSize
  <2>2. One /\ firstSet /\ rank = Unset
    BY <2>1, <1>1, <1>2 DEF Setting
  <2> QED
    BY <2>1, <2>2, <1>4 DEF SetLoc, RankLoc
<1>8. CASE SetRank(t)
  <2>1. /\ At(t, "rank") /\ Goto(t, "close") /\ UNCHANGED <<size, firstSet>>
        /\ rank' = Top(t).from
    BY <1>8 DEF SetRank
  <2>2. One /\ rank = Unset /\ size = IF Top(t).from = Bad THEN Unset ELSE Top(t).from
    BY <2>1, <1>1, <1>2 DEF Setting
  <2>3. Match'
    BY <2>1, <2>2 DEF Match
  <2> QED
    BY <2>1, <2>2, <2>3, <1>4 DEF SetLoc, RankLoc
<1>9. CASE Close(t)
  <2>1. /\ At(t, "close") /\ RankReturns(t) /\ ~firstSet' /\ UNCHANGED <<size, rank>>
    BY <1>9 DEF Close
  <2>2. Setting(t) /\ Match
    BY <2>1, <1>1 DEF Setting
  <2>3. Match'
    BY <2>1, <2>2 DEF Match
  <2> QED
    BY <2>1, <2>2, <2>3, <1>5 DEF RankLoc
<1> QED
  BY <1>6, <1>7, <1>8, <1>9

\* A step of one thread leaves the stacks of the others, and what MPI_Init and
\* MPI_Finalize count is Main's.
LEMMA OthersStay ==
  ASSUME NestInv, NEW t \in Thread, Step(t)
  PROVE  /\ \A u \in Thread \ {t} : stack'[u] = stack[u]
         /\ \A u \in Thread \ {t} : (Setting(u)' <=> Setting(u)) /\ (Asks(u)' <=> Asks(u))
         /\ t # Main => UNCHANGED <<count, lib>>
         /\ lib' = "none" => lib = "none"
<1> DEFINE Others == \A u \in Thread \ {t} : stack'[u] = stack[u]
           Counted == /\ t # Main => UNCHANGED <<count, lib>>
                      /\ lib' = "none" => lib = "none"
<1>1. ASSUME NEW o \in Op, Enter(t, o) PROVE Others /\ Counted
  <2>1. t = Main
    BY <1>1, EnterMain DEF Enter
  <2>2. Others
    BY <1>1 DEF Enter, Push, NestInv, Types
  <2> QED
    BY <2>1, <2>2, <1>1 DEF Enter
<1>2. ASSUME BeforeReturn(t) \/ RealReturn(t) \/ AfterReturn(t) \/ Leave(t)
      PROVE  Others /\ Counted
  <2>1. t = Main
    BY <1>2, AtCall DEF BeforeReturn, RealReturn, AfterReturn, Leave, CallLoc
  <2>2. Others
    BY <1>2, TopGoto, TopPop DEF BeforeReturn, RealReturn, AfterReturn, Leave, At, CallLoc,
                                 NestInv
  <2>3. lib' = "none" => lib = "none"
    BY <1>2 DEF BeforeReturn, RealReturn, AfterReturn, Leave
  <2> QED
    BY <2>1, <2>2, <2>3
<1>3. ASSUME \/ \E c \in Comm \cup {Bad} : CommRank(t, c)
             \/ Publish(t) \/ TestRank(t) \/ SetSize(t) \/ SetRank(t) \/ Close(t)
      PROVE  Others /\ Counted
  <2>1. UNCHANGED <<count, lib>>
    BY <1>3 DEF CommRank, Publish, TestRank, SetSize, SetRank, Close
  <2>2. ASSUME NEW f \in Frame, Push(t, f) PROVE Others
    BY <2>2, TopPush DEF NestInv
  <2>3. ASSUME NEW l, At(t, l), NEW m \in RankLoc, Goto(t, m)
        PROVE  Others
    BY <2>3, TopGoto DEF At, NestInv
  <2>4. ASSUME NEW l, At(t, l), RankReturns(t) PROVE Others
    BY <2>4, TopPop DEF At, RankReturns
  <2>5. ASSUME NEW c \in Comm \cup {Bad} PROVE Asking("rank", "test", c, Idle(t)) \in Frame
    BY DEF Asking, Frame, Source, Idle
  <2>6. Asking("publish", "test", Client, FALSE) \in Frame
    BY DEF Asking, Frame, Source
  <2>7. (\E c \in Comm \cup {Bad} : CommRank(t, c)) \/ Publish(t) => Others
    BY <2>2, <2>5, <2>6 DEF CommRank, Publish
  <2>8. SetSize(t) \/ SetRank(t) \/ Close(t) => Others
    BY <2>3, <2>4 DEF SetSize, SetRank, Close, RankLoc
  <2>9. TestRank(t) => Others
    BY <2>3, <2>4 DEF TestRank, RankLoc
  <2>10. Others
    BY <1>3, <2>7, <2>8, <2>9
  <2> QED
    BY <2>1, <2>10
<1>4. Others /\ Counted
  BY <1>1, <1>2, <1>3 DEF Step
<1>5. \A u \in Thread \ {t} : (Setting(u)' <=> Setting(u)) /\ (Asks(u)' <=> Asks(u))
  BY <1>4 DEF Setting, At, Asks, Top
<1> QED
  BY <1>4, <1>5

LEMMA InsideStep ==
  ASSUME NestInv, InsideInv, NEW t \in Thread, Step(t)
  PROVE  InsideInv'
<1> USE Constants
<1>1. /\ \A u \in Thread \ {t} : (Setting(u)' <=> Setting(u)) /\ (Asks(u)' <=> Asks(u))
      /\ t # Main => UNCHANGED <<count, lib>>
      /\ lib' = "none" => lib = "none"
  BY OthersStay
<1>2. ASSUME NEW u \in Thread \ {t}, Asks(u), Setting(u)
      PROVE  count'["init"] = 0
  <2>1. count["init"] = 0 /\ (lib = "none" => u = Main)
    BY <1>2 DEF InsideInv
  <2>2. CASE t # Main
    BY <2>1, <2>2, <1>1
  <2>3. CASE t = Main
    <3>1. ASSUME NEW o \in Op, Enter(t, o) PROVE count'["init"] = 0
      <4>1. CASE o = "init"
        <5>1. MayEnter(t, "init") /\ lib # "none"
          BY <3>1, <4>1, <2>1, <2>3 DEF Enter
        <5>2. InLibrary(t, {"init"})
          BY <5>1 DEF MayEnter
        <5>3. count["init"] # 0
          BY <5>2, <2>3, AtCall DEF InLibrary, CallLoc
        <5> QED
          BY <5>3, <2>1
      <4>2. CASE o # "init"
        BY <3>1, <4>2, <2>1 DEF Enter, NestInv, Types, Op
      <4> QED
        BY <4>1, <4>2
    <3>2. CASE Leave(t)
      <4>1. Top(t).op # "init"
        BY <3>2, <2>1, AtCall DEF Leave, CallLoc
      <4> QED
        BY <4>1, <3>2, <2>1 DEF Leave, NestInv, Types, Op
    <3>3. CASE \/ BeforeReturn(t) \/ RealReturn(t) \/ AfterReturn(t) \/ Publish(t)
               \/ \E c \in Comm \cup {Bad} : CommRank(t, c)
               \/ TestRank(t) \/ SetSize(t) \/ SetRank(t) \/ Close(t)
      <4>1. count' = count
        BY <3>3 DEF BeforeReturn, RealReturn, AfterReturn, CommRank, Publish, TestRank,
                    SetSize, SetRank, Close
      <4> QED
        BY <4>1, <2>1
    <3> QED
      BY <3>1, <3>2, <3>3 DEF Step
  <2> QED
    BY <2>2, <2>3
<1>3. ASSUME NEW u \in Thread \ {t}, Asks(u)'
      PROVE  /\ lib' = "none" => u = Main /\ count'["init"] > 0
             /\ Setting(u)' => count'["init"] = 0
  <2>1. Asks(u) /\ (Setting(u)' <=> Setting(u))
    BY <1>1, <1>3
  <2>2. lib = "none" => u = Main /\ count["init"] > 0
    BY <2>1 DEF InsideInv
  <2> QED
    BY <2>1, <2>2, <1>1, <1>2
<1>4. ASSUME Asks(t)'
      PROVE  /\ lib' = "none" => t = Main /\ count'["init"] > 0
             /\ Setting(t)' => count'["init"] = 0
  <2>1. ASSUME NEW o \in Op, Enter(t, o) PROVE FALSE
    <3> DEFINE at == IF CalledBack(count'[o]) THEN "before" ELSE "real"
               f == [op |-> o, at |-> at, count |-> count'[o], from |-> Unset, appl |-> Idle(t)]
    <3>1. count'[o] \in Nat
      BY <2>1 DEF Enter, NestInv, Types
    <3>2. f \in Frame /\ f.op = o
      BY <3>1 DEF Frame, Source, Idle
    <3>3. Push(t, f)
      BY <2>1 DEF Enter
    <3> HIDE DEF f, at
    <3>4. Top(t)' = f
      BY <3>2, <3>3, TopPush DEF NestInv
    <3> QED
      BY <3>2, <3>4, <1>4 DEF Asks, Op
  <2>2. ASSUME NEW l \in CallLoc, NEW m \in CallLoc, At(t, l), Goto(t, m) PROVE FALSE
    <3>1. Top(t)' = [Top(t) EXCEPT !.at = m] /\ Top(t) \in Frame
      BY <2>2, TopGoto DEF At, NestInv
    <3>2. Top(t)'.op = Top(t).op /\ Top(t).op \in Op
      BY <3>1, <2>2, AtCall DEF Frame
    <3> QED
      BY <3>2, <1>4 DEF Asks, Op
  <2>3. CASE BeforeReturn(t) \/ RealReturn(t) \/ AfterReturn(t)
    BY <2>2, <2>3 DEF BeforeReturn, RealReturn, AfterReturn, CallLoc
  <2>4. CASE Leave(t)
    BY <2>4, <1>4, TopPop DEF Leave, At
  <2>5. ASSUME NEW c \in Comm \cup {Bad}, CommRank(t, c)
        PROVE  /\ lib = "none" => t = Main /\ count["init"] > 0
               /\ ~Setting(t)' /\ UNCHANGED <<lib, count>>
    <3> DEFINE f == Asking("rank", "test", c, Idle(t))
    <3>1. f \in Frame /\ f.at = "test" /\ Push(t, f)
      BY <2>5 DEF CommRank, Asking, Frame, Source, Idle
    <3> HIDE DEF f
    <3>2. Top(t)' = f
      BY <3>1, TopPush DEF NestInv
    <3>3. ~Setting(t)'
      BY <3>1, <3>2 DEF Setting, At
    <3>4. ASSUME lib = "none" PROVE t = Main /\ count["init"] > 0
      <4>1. InLibrary(t, Inner)
        BY <3>4, <2>5 DEF CommRank
      <4>2. /\ t = Main /\ Top(t).op = stack[Main][1].op /\ Top(t).op \in Op
            /\ Len(stack[Main]) \in Nat \ {0} /\ Depth = Len(stack[Main])
            /\ count[Top(t).op] = Len(stack[Main])
        BY <4>1, AtCall DEF InLibrary, CallLoc
      <4>3. Depth > 0
        BY <4>2
      <4>4. Top(t).op # "fini"
        BY <4>2, <4>3, <3>4 DEF NestInv, LastInv
      <4> QED
        BY <4>2, <4>4 DEF Op
    <3> QED
      BY <3>3, <3>4, <2>5 DEF CommRank
  <2>6. ASSUME Publish(t) PROVE FALSE
    <3> DEFINE f == Asking("publish", "test", Client, FALSE)
    <3>1. f \in Frame /\ f.op = "publish" /\ Push(t, f)
      BY <2>6 DEF Publish, Asking, Frame, Source
    <3> HIDE DEF f
    <3>2. Top(t)' = f
      BY <3>1, TopPush DEF NestInv
    <3> QED
      BY <3>1, <3>2, <1>4 DEF Asks
  <2>7. ASSUME NEW l \in RankLoc, At(t, l), RankReturns(t) PROVE FALSE
    BY <2>7, <1>4, GoBack
  <2>8. ASSUME NEW l \in RankLoc, At(t, l), NEW m \in RankLoc, Goto(t, m), UNCHANGED <<count, lib>>,
               Setting(t) \/ (Top(t).op = "rank" => FirstRank)
        PROVE  /\ lib' = "none" => t = Main /\ count'["init"] > 0
               /\ Setting(t)' => count'["init"] = 0
    <3>1. Top(t)'.op = Top(t).op
      BY <2>8, GoOn
    <3>2. Asks(t) /\ Top(t).op = "rank"
      BY <3>1, <2>8, <1>4 DEF Asks, At
    <3> QED
      BY <3>2, <2>8 DEF InsideInv, FirstRank
  <2>9. CASE TestRank(t)
    <3>1. At(t, "test") /\ UNCHANGED <<count, lib>>
      BY <2>9 DEF TestRank
    <3>2. CASE Top(t).op = "rank" => FirstRank
      <4>1. Goto(t, IF firstSet THEN "size" ELSE "close")
        BY <2>9, <3>2 DEF TestRank
      <4> QED
        BY <3>1, <3>2, <4>1, <2>8 DEF RankLoc
    <3>3. CASE ~(Top(t).op = "rank" => FirstRank)
      BY <2>9, <3>1, <3>3, <2>7 DEF TestRank, RankLoc
    <3> QED
      BY <3>2, <3>3
  <2>10. CASE SetSize(t)
    BY <2>8, <2>10 DEF SetSize, RankLoc, Setting
  <2>11. CASE SetRank(t)
    BY <2>8, <2>11 DEF SetRank, RankLoc, Setting
  <2>12. CASE Close(t)
    BY <2>7, <2>12 DEF Close, RankLoc
  <2> QED
    BY <2>1, <2>3, <2>4, <2>5, <2>6, <2>9, <2>10, <2>11, <2>12 DEF Step
<1> QED
  BY <1>3, <1>4 DEF InsideInv

LEMMA KnownStep ==
  ASSUME NestInv, NestInv', InsideInv, KnownInv, NEW t \in Thread, Step(t)
  PROVE  KnownInv'
<1> USE Constants
<1>1. count \in [Op -> Nat] /\ count' \in [Op -> Nat] /\ maxInit \in Nat /\ maxInit' \in Nat
  BY DEF NestInv, Types
<1> DEFINE Counts == (lib' # "none" => maxInit' > 0) /\ count'["init"] <= maxInit'
           Marks == /\ ~firstSet' \/ ~firstMpi' \/ told' => rank' # Unset
                    /\ \A u \in Thread : At(u, "close")' => rank' # Unset
<1>2. Quiet => Marks
  <2> SUFFICES ASSUME Quiet PROVE Marks
    OBVIOUS
  <2>1. \A u \in Thread : At(u, "close")' <=> At(u, "close")
    BY QuietSame DEF SetLoc
  <2> QED
    BY <2>1 DEF KnownInv, Quiet, rankVars
<1>3. ASSUME NEW o \in Op, Enter(t, o) PROVE KnownInv'
  <2>1. Marks
    BY <1>2, <1>3, QuietStep
  <2>2. /\ maxInit' = IF count'["init"] > maxInit THEN count'["init"] ELSE maxInit
        /\ lib' = lib
    BY <1>3 DEF Enter
  <2>3. count'["init"] \in Nat
    BY <1>1 DEF Op
  <2>4. Counts
    BY <2>2, <2>3, <1>1 DEF KnownInv
  <2> QED
    BY <2>1, <2>4 DEF KnownInv
<1>4. CASE RealReturn(t)
  <2>1. Marks
    BY <1>2, <1>4, QuietStep
  <2>2. UNCHANGED <<count, maxInit>>
    BY <1>4 DEF RealReturn
  <2>3. /\ Top(t).op \in Op /\ Top(t).op = stack[Main][1].op
        /\ Len(stack[Main]) \in Nat \ {0} /\ Depth = Len(stack[Main])
        /\ count[Top(t).op] = Len(stack[Main])
    BY <1>4, AtCall DEF RealReturn, CallLoc
  <2>4. Depth > 0
    BY <2>3
  <2>5. CASE Top(t).op = "init"
    <3>1. count["init"] > 0 /\ count["init"] <= maxInit
      BY <2>3, <2>5 DEF KnownInv
    <3> QED
      BY <3>1, <2>1, <2>2, <1>1 DEF KnownInv, Op
  <2>6. CASE Top(t).op = "fini"
    <3>1. lib # "none"
      BY <2>3, <2>4, <2>6 DEF NestInv, LastInv
    <3> QED
      BY <3>1, <2>1, <2>2 DEF KnownInv
  <2> QED
    BY <2>3, <2>5, <2>6 DEF Op
<1>5. CASE Leave(t)
  <2>1. Marks
    BY <1>2, <1>5, QuietStep
  <2>2. UNCHANGED <<maxInit, lib>> /\ count' = [count EXCEPT ![Top(t).op] = @ - 1]
    BY <1>5 DEF Leave
  <2>3. Top(t).op \in Op
    BY <1>5, AtCall DEF Leave, CallLoc
  <2>4. count'["init"] <= count["init"] /\ count["init"] \in Nat /\ count'["init"] \in Nat
    BY <2>2, <2>3, <1>1 DEF Op
  <2>5. Counts
    BY <2>2, <2>4, <1>1 DEF KnownInv
  <2> QED
    BY <2>1, <2>5 DEF KnownInv
<1>6. CASE \/ BeforeReturn(t) \/ AfterReturn(t) \/ Publish(t)
           \/ \E c \in Comm \cup {Bad} : CommRank(t, c)
  <2>1. Marks
    BY <1>2, <1>6, QuietStep
  <2>2. UNCHANGED <<count, maxInit, lib>>
    BY <1>6 DEF BeforeReturn, AfterReturn, Publish, CommRank
  <2> QED
    BY <2>1, <2>2 DEF KnownInv
<1>7. ASSUME UNCHANGED <<count, maxInit, lib>>, Marks PROVE KnownInv'
  BY <1>7 DEF KnownInv
<1>8. ASSUME NEW l \in RankLoc, At(t, l), NEW m \in RankLoc, Goto(t, m),
             UNCHANGED <<firstSet, firstMpi, told>>, rank' = rank \/ rank' # Unset,
             m = "close" => rank' # Unset
      PROVE  Marks
  <2>1. \A u \in Thread : At(u, "close")' => At(u, "close") \/ (u = t /\ m = "close")
    BY <1>8, GoOn
  <2> QED
    BY <2>1, <1>8 DEF KnownInv
<1>9. ASSUME NEW l \in RankLoc, At(t, l), RankReturns(t), UNCHANGED rank,
             firstSet' = firstSet \/ rank # Unset, firstMpi' = firstMpi \/ rank # Unset,
             rank # Unset \/ ~(Top(t).from \in Comm /\ count["init"] = 0)
      PROVE  Marks
  <2>1. \A u \in Thread : At(u, "close")' => At(u, "close")
    BY <1>9, GoBack DEF SetLoc
  <2>2. told' => told \/ rank # Unset
    BY <1>9 DEF RankReturns
  <2> QED
    BY <2>1, <2>2, <1>9 DEF KnownInv
<1>10. CASE TestRank(t)
  <2>1. At(t, "test") /\ UNCHANGED <<count, maxInit, rank, firstMpi, firstSet, lib>>
    BY <1>10 DEF TestRank
  <2>2. CASE Top(t).op = "rank" => FirstRank
    <3>1. Goto(t, IF firstSet THEN "size" ELSE "close") /\ UNCHANGED told
      BY <1>10, <2>2 DEF TestRank
    <3>2. ~firstSet => rank # Unset
      BY DEF KnownInv
    <3>3. Marks
      BY <2>1, <3>1, <3>2, <1>8 DEF RankLoc
    <3> QED
      BY <3>3, <2>1, <1>7
  <2>3. CASE ~(Top(t).op = "rank" => FirstRank)
    <3>1. RankReturns(t)
      BY <1>10, <2>3 DEF TestRank
    <3>2. Asks(t)
      BY <2>1, <2>3 DEF Asks, At
    <3>3. count["init"] = 0 => rank # Unset
      <4>1. count["init"] = 0 => lib # "none"
        BY <3>2 DEF InsideInv
      <4>2. count["init"] = 0 => maxInit > 0
        BY <4>1 DEF KnownInv
      <4>3. count["init"] = 0 => ~firstMpi
        BY <2>3, <4>2 DEF FirstRank
      <4> QED
        BY <4>3 DEF KnownInv
    <3>4. Marks
      BY <2>1, <3>1, <3>3, <1>9 DEF RankLoc
    <3> QED
      BY <3>4, <2>1, <1>7
  <2> QED
    BY <2>2, <2>3
<1>11. CASE SetSize(t)
  <2>1. At(t, "size") /\ Goto(t, "rank") /\ UNCHANGED <<firstSet, firstMpi, told, rank>>
    BY <1>11 DEF SetSize
  <2>2. Marks
    BY <2>1, <1>8 DEF RankLoc
  <2> QED
    BY <2>2, <1>7, <1>11 DEF SetSize
<1>12. CASE SetRank(t)
  <2>1. /\ At(t, "rank") /\ Goto(t, "close") /\ UNCHANGED <<firstSet, firstMpi, told>>
        /\ rank' = Top(t).from
    BY <1>12 DEF SetRank
  <2>2. RankFrame(Top(t)) /\ Top(t) \in Frame
    BY <2>1, AtRank DEF RankLoc
  <2>3. rank' # Unset
    BY <2>1, <2>2 DEF RankFrame, Frame
  <2>4. Marks
    BY <2>1, <2>3, <1>8 DEF RankLoc
  <2> QED
    BY <2>4, <1>7, <1>12 DEF SetRank
<1>13. CASE Close(t)
  <2>1. At(t, "close") /\ RankReturns(t) /\ UNCHANGED rank
    BY <1>13 DEF Close
  <2>2. rank # Unset
    BY <2>1 DEF KnownInv
  <2>3. Marks
    BY <2>1, <2>2, <1>9 DEF RankLoc
  <2> QED
    BY <2>3, <1>7, <1>13 DEF Close
<1> QED
  BY <1>3, <1>4, <1>5, <1>6, <1>10, <1>11, <1>12, <1>13 DEF Step

LEMMA InitRank == Init => RankInv
<1> SUFFICES ASSUME Init PROVE RankInv
  OBVIOUS
<1> USE Constants DEF Init
<1>1. \A t \in Thread : stack[t] = <<>>
  OBVIOUS
<1>2. \A t \in Thread : \A l : ~At(t, l)
  BY <1>1 DEF At
<1>3. \A t \in Thread : ~Setting(t) /\ ~Asks(t)
  BY <1>1, <1>2 DEF Setting, Asks
<1>4. SetInv
  BY <1>2, <1>3 DEF SetInv, Match
<1>5. InsideInv
  BY <1>3 DEF InsideInv
<1>6. KnownInv
  BY <1>2 DEF KnownInv, Op
<1> QED
  BY <1>4, <1>5, <1>6, InitNest DEF RankInv

LEMMA SetStep ==
  ASSUME NestInv, SetInv, NEW t \in Thread, Step(t)
  PROVE  SetInv' /\ (~overlap' /\ rank # Unset => UNCHANGED <<size, rank>>)
<1>1. CASE TestRank(t) \/ SetSize(t) \/ SetRank(t) \/ Close(t)
  BY <1>1, SetRankStep
<1>2. CASE Quiet
  BY <1>2, SetQuiet DEF Quiet, rankVars
<1> QED
  BY <1>1, <1>2, QuietStep DEF Step

LEMMA RankStep == RankInv /\ [Next]_vars => RankInv'
<1> SUFFICES ASSUME RankInv, [Next]_vars PROVE RankInv'
  OBVIOUS
<1> USE DEF RankInv
<1>1. NestInv'
  BY NestStep
<1>2. CASE Next
  <2>1. PICK t \in Thread : Step(t)
    BY <1>2 DEF Next
  <2>2. SetInv'
    BY <2>1, SetStep
  <2>3. InsideInv'
    BY <2>1, InsideStep
  <2>4. KnownInv'
    BY <2>1, <1>1, KnownStep
  <2> QED
    BY <1>1, <2>2, <2>3, <2>4
<1>3. CASE UNCHANGED vars
  <2>1. SetInv'
    BY <1>3 DEF vars, rankVars, SetInv, Match, Setting, At, Top
  <2>2. InsideInv'
    BY <1>3 DEF vars, rankVars, InsideInv, Asks, Setting, At, Top
  <2>3. KnownInv'
    BY <1>3 DEF vars, rankVars, KnownInv, At, Top
  <2> QED
    BY <1>1, <2>1, <2>2, <2>3
<1> QED
  BY <1>2, <1>3

THEOREM RankAlways == Spec => []RankInv
BY InitRank, RankStep, PTL DEF Spec

\* In every behaviour, size and rank are those of one communicator unless two
\* calls overlapped.
THEOREM AlwaysOneSource == Spec => []OneSource
<1>1. RankInv => OneSource
  BY DEF RankInv, SetInv, Match, OneSource
<1> QED
  BY <1>1, RankAlways, PTL

\* In every behaviour, whoever has told the application its rank has told the
\* client too.
THEOREM AlwaysKnownOnceTold == Spec => []KnownOnceTold
<1>1. RankInv => KnownOnceTold
  BY DEF RankInv, KnownInv, KnownOnceTold
<1> QED
  BY <1>1, RankAlways, PTL

\* In every behaviour, without an overlap, the first size and rank stay.
THEOREM FirstAlwaysWins == Spec => FirstWins
<1>1. RankInv /\ [Next]_vars => [~overlap' /\ rank # Unset => UNCHANGED <<size, rank>>]_vars
  <2> SUFFICES ASSUME RankInv, Next
               PROVE  ~overlap' /\ rank # Unset => UNCHANGED <<size, rank>>
    OBVIOUS
  <2>1. PICK t \in Thread : Step(t)
    BY DEF Next
  <2> QED
    BY <2>1, SetStep DEF RankInv
<1> QED
  BY <1>1, RankAlways, PTL DEF Spec, FirstWins

\* In every behaviour, what a library asks of itself inside its MPI_Init stays
\* out of the size and the rank, however the calls nest.
THEOREM NeverInside == Spec => NothingInside
<1> DEFINE Kept == \A c \in Comm : Open("init") # {} =>
                     (size' = c => size = c) /\ (rank' = c => rank = c)
<1>1. RankInv /\ [Next]_vars => [Kept]_vars
  <2> SUFFICES ASSUME RankInv, Next PROVE Kept
    OBVIOUS
  <2>1. PICK t \in Thread : Step(t)
    BY DEF Next
  <2>2. CASE SetSize(t) \/ SetRank(t)
    <3>1. Setting(t) /\ RankFrame(Top(t)) /\ stack[t] # <<>>
      BY <2>2, AtRank DEF SetSize, SetRank, RankLoc, Setting, RankInv
    <3>2. size' \in {size, Top(t).from, Unset} /\ rank' \in {rank, Top(t).from}
      BY <2>2 DEF SetSize, SetRank
    <3>3. CASE Asks(t)
      <4>1. count["init"] = 0
        BY <3>1, <3>3 DEF RankInv, InsideInv
      <4>2. Open("init") = {}
        BY <4>1, OpenIs DEF RankInv, Op
      <4> QED
        BY <4>2
    <3>4. CASE ~Asks(t)
      <4>1. Top(t).op # "rank"
        BY <3>1, <3>4 DEF Asks
      <4>2. Top(t).from = Client
        <5>1. Top(t) \in Frame
          BY <3>1, TopOf DEF RankInv, NestInv
        <5> QED
          BY <5>1, <4>1, <3>1 DEF RankFrame, Frame
      <4> QED
        BY <4>2, <3>2, Constants
    <3> QED
      BY <3>3, <3>4
  <2>3. CASE ~(SetSize(t) \/ SetRank(t))
    <3>1. UNCHANGED <<size, rank>>
      <4>1. CASE Quiet
        BY <4>1 DEF Quiet, rankVars
      <4>2. CASE TestRank(t) \/ Close(t)
        BY <4>2 DEF TestRank, Close
      <4> QED
        BY <4>1, <4>2, <2>1, <2>3, QuietStep DEF Step, RankInv
    <3> QED
      BY <3>1
  <2> QED
    BY <2>2, <2>3
<1> QED
  BY <1>1, RankAlways, PTL DEF Spec, NothingInside
=============================================================================
