------------------------ MODULE PapiexClientProofs ------------------------
(***************************************************************************)
(* Proofs about PapiexClient, for any threads, events, faults of PAPI and  *)
(* calls of the application: what is in the table, what the writer is      *)
(* given, and what a closed record says.                                   *)
(***************************************************************************)
EXTENDS PapiexClient, FiniteSetTheorems, SequenceTheorems, TLAPS

-----------------------------------------------------------------------------
(* Lists and tables. *)

LEMMA FunctionIsSeq ==
  ASSUME NEW S, NEW n \in Nat, NEW f \in [1 .. n -> S]
  PROVE  f \in Seq(S) /\ Len(f) = n
BY SeqDef, LenProperties

LEMMA WidenedSeq ==
  ASSUME TypeOK, NEW n \in Nat
  PROVE  /\ Widened(n) \in Seq(Thread \cup {Null}) /\ Len(Widened(n)) = n
         /\ \A i \in 1 .. n : Widened(n)[i] = IF i <= size THEN slots[i] ELSE Null
<1>1. Widened(n) \in [1 .. n -> Thread \cup {Null}]
  <2>1. \A i \in 1 .. n : i <= size => slots[i] \in Thread \cup {Null}
    BY ElementOfSeq DEF TypeOK
  <2> QED
    BY <2>1 DEF Widened
<1> QED
  BY <1>1, FunctionIsSeq DEF Widened

LEMMA NewTable ==
  ASSUME NEW n \in Nat
  PROVE  [i \in 1 .. n |-> Null] \in Seq(Thread \cup {Null}) /\ Len([i \in 1 .. n |-> Null]) = n
<1> [i \in 1 .. n |-> Null] \in [1 .. n -> Thread \cup {Null}]
  OBVIOUS
<1> QED
  BY FunctionIsSeq

-----------------------------------------------------------------------------
(* The inductive invariant. *)

\* Lists keep the length of the one that PAPIEX_OPTIONS gives.
ListPart ==
    /\ Len(names) = Len(Wanted) /\ Len(codes) = Len(Wanted)
    /\ \A t \in Thread : loop[t].i # 0

\* The locals of a thread, and the build it runs in.
LocalPart(t) ==
    /\ pc[t] = "none" => rec[t] = NoRecord /\ t # main
    /\ pc[t] \notin {"bump", "crash"} \cup LoopLoc => loop[t] = NoLoop
    /\ loop[t].cnt <= Len(Wanted)
    /\ pc[t] \in {"seek", "code", "name"} => loop[t].j # 0
    /\ pc[t] \in {"code", "name"} => loop[t].j <= Len(Wanted)
    /\ pc[t] \in SetUpLoc => havePapi
    /\ pc[t] \in {"store", "bump"} => ~havePapi
    /\ pc[t] \in {"none", "boot"} \cup InitLoc => api[t] = "none"

\* The record of a thread that is set up, and of one that is not closed.
RecordPart(t) ==
    /\ pc[t] \in InitLoc => rec[t].bound /\ rec[t].depth = 0 /\ enable # "other"
    /\ pc[t] \in InitLoc /\ ~havePapi => size > 0
    /\ pc[t] \in {"none", "boot", "run"} \cup InitLoc => rec[t].closed = 0 /\ ~rec[t].torn
    /\ rec[t].evset = "own" => havePapi
    /\ rec[t].closed > 0 => rec[t].evset = "mark"

\* A process that papiex measures has a record for each thread, if it has a table;
\* without one its main thread has none, and the others may have lost theirs.
SelfPart(t) ==
    enable = "self" =>
      /\ pc[t] = "boot" => size = 0
      /\ size = 0 => havePapi \/ pc[t] \in {"none", "boot"}
      /\ size = 0 /\ t = main => ~rec[t].bound
      /\ size > 0 /\ pc[t] \notin {"none", "boot"} => rec[t].bound
      /\ pc[t] \in {"finished", "last"} /\ rec[t].bound => rec[t].closed = 1

\* The caliper of a thread, also inside a call of the application.
CaliperPart(t) ==
    /\ rec[t].depth < 0 => rec[t].torn /\ rec[t].evset = "mark" /\ havePapi
    /\ api[t] = "start" => rec[t].depth = 0
    /\ api[t] = "stop" => \/ rec[t].depth = 1
                          \/ rec[t].depth = 0 /\ rec[t].torn /\ rec[t].evset = "mark" /\ havePapi
    /\ havePapi /\ rec[t].closed > 0 /\ ~rec[t].torn => api[t] = "none"

\* Started once at least, as long as there have always been events.
StartedPart(t) ==
    havePapi /\ ~dropped =>
      /\ eventcnt > 0
      /\ pc[t] \in LoopLoc \ {"addEvent", "zero", "assign"} => loop[t].cnt > 0
      /\ pc[t] \in {"papiStart", "start"} => rec[t].evset = "own"
      /\ pc[t] = "run" /\ enable = "self" /\ rec[t].bound =>
           rec[t].evset = "own" /\ (rec[t].depth = 1 \/ rec[t].used > 0)
      /\ rec[t].closed > 0 /\ ~rec[t].torn => rec[t].depth = 0 /\ rec[t].used > 0

ThreadPart ==
    \A t \in Thread : /\ LocalPart(t) /\ RecordPart(t) /\ SelfPart(t)
                      /\ CaliperPart(t) /\ StartedPart(t)

\* The main thread starts alone, and the process ends with the exiter.
BootPart ==
    \A t \in Thread : pc[t] = "boot" =>
      /\ t = main /\ exiter = NoThread /\ enable # "off"
      /\ \A u \in Thread \ {t} : pc[u] = "none"

ExitThread(t) ==
    /\ exiter = t => /\ api[t] = "none"
                     /\ pc[t] \in {"run", "last", "write", "exec", "over", "replaced", "crash"}
                     /\ pc[t] = "last" => t # main
    /\ pc[t] \in {"last", "write", "exec", "over", "replaced"} => exiter = t
    /\ called /\ exiter = t => pc[t] \notin {"run", "last"}
    /\ pc[t] = "write" => enable = "self" /\ rows.num > 0
    /\ pc[t] \in {"exec", "replaced"} => how = "exec"
    /\ pc[t] = "over" => enable = "other" \/ size = 0 \/ how = "exec" \/ rows.num > 0

\* A measured thread that is set up has its record in the table, which has a row then.
Filled(t) ==
    pc[t] \notin {"none", "boot", "insert", "store", "bump", "crash"}
      /\ rec[t].bound /\ enable = "self" => num > 0

\* papiex is off only where it has no table, or the process is about to end.
Silent ==
    enable = "off" => size = 0 \/ \E t \in Thread : pc[t] \in {"exec", "over", "replaced"}

ExitPart ==
    /\ exiter = NoThread => ~called
    /\ rows.out # <<>> => Ended
    /\ \A t \in Thread : ExitThread(t) /\ Filled(t)
    /\ Silent

\* How full the table is.
SizePart ==
    /\ havePapi => ~raced
    /\ ~raced /\ size > 0 => num < size
    /\ ~raced => \A t \in Thread : pc[t] \in {"store", "bump"} =>
         /\ num + 1 < size
         /\ \A u \in Thread \ {t} : pc[u] \notin {"store", "bump"}
         /\ pc[t] = "bump" => loop[t].num = num /\ slots[num + 1] = t

Entered(t) == rec[t].bound /\ pc[t] \notin {"boot", "insert", "store", "bump"}

\* The slots below all_threads_num and the threads that have entered, one to one.
TablePart ==
    enable = "self" /\ size > 0 /\ ~raced =>
      /\ \A i \in 1 .. num : slots[i] \in Thread /\ Entered(slots[i])
      /\ \A i, j \in 1 .. num : slots[i] = slots[j] => i = j
      /\ \A t \in Thread : Entered(t) => \E i \in 1 .. num : slots[i] = t

\* The rows that the writer has been given are in the table.
RowsPart ==
    ~raced => \A t \in Thread : pc[t] = "write" => rows.num <= num

ClientInv ==
    /\ TypeOK /\ ListPart /\ ThreadPart /\ BootPart /\ ExitPart /\ SizePart
    /\ TablePart /\ RowsPart /\ ChildRowsOwn

-----------------------------------------------------------------------------
(* Premises. *)

\* Without AnyExiter.
MainExits == exiter # NoThread => exiter = main

\* Without LateInit.
NobodyEnters == exiter # NoThread => \A t \in Thread : pc[t] \notin InitLoc

\* Once the writer runs, every record is closed; nobody else has set the rows.
ClosedPart ==
    /\ rows.num > 0 => \E t \in Thread : pc[t] \in {"write", "over"}
    /\ ~raced => \A t \in Thread : pc[t] = "write" =>
         /\ rows.num = num /\ size > 0
         /\ \A u \in Thread : rec[u].closed = IF rec[u].bound THEN 1 ELSE 0
    /\ RowsClosed
-----------------------------------------------------------------------------
(* Types. *)

\* What an update of a record leaves alone.
SameBut(q, r, fields) ==
    /\ q \in Record
    /\ "bound" \notin fields => q.bound = r.bound
    /\ "evset" \notin fields => q.evset = r.evset
    /\ "depth" \notin fields => q.depth = r.depth
    /\ "used" \notin fields => q.used = r.used
    /\ "closed" \notin fields => q.closed = r.closed
    /\ "torn" \notin fields => q.torn = r.torn

LEMMA SetBound ==
  ASSUME NEW r \in Record
  PROVE  SameBut([r EXCEPT !.bound = TRUE], r, {"bound"}) /\ [r EXCEPT !.bound = TRUE].bound = TRUE
BY DEF Record, SameBut

LEMMA SetEvset ==
  ASSUME NEW r \in Record, NEW e \in {"null", "own", "mark"}
  PROVE  SameBut([r EXCEPT !.evset = e], r, {"evset"}) /\ [r EXCEPT !.evset = e].evset = e
BY DEF Record, SameBut

LEMMA SetDepth ==
  ASSUME NEW r \in Record, NEW d \in -1 .. 1
  PROVE  SameBut([r EXCEPT !.depth = d], r, {"depth"}) /\ [r EXCEPT !.depth = d].depth = d
BY DEF Record, SameBut

LEMMA SetClosed ==
  ASSUME NEW r \in Record, NEW n \in Nat
  PROVE  /\ SameBut([r EXCEPT !.closed = n, !.evset = "mark"], r, {"closed", "evset"})
         /\ [r EXCEPT !.closed = n, !.evset = "mark"].closed = n
         /\ [r EXCEPT !.closed = n, !.evset = "mark"].evset = "mark"
BY DEF Record, SameBut

LEMMA SetTorn ==
  ASSUME NEW r \in Record, NEW b \in BOOLEAN
  PROVE  SameBut([r EXCEPT !.torn = b], r, {"torn"}) /\ [r EXCEPT !.torn = b].torn = b
BY DEF Record, SameBut

LEMMA Fields ==
  /\ NoRecord \in Record /\ NewRecord \in Record /\ NoLoop \in Locals
  /\ NoRecord.bound = FALSE /\ NoRecord.evset = "null" /\ NoRecord.depth = 0
  /\ NoRecord.used = 0 /\ NoRecord.closed = 0 /\ NoRecord.torn = FALSE
  /\ NewRecord.bound = TRUE /\ NewRecord.evset = "null" /\ NewRecord.depth = 0
  /\ NewRecord.used = 0 /\ NewRecord.closed = 0 /\ NewRecord.torn = FALSE
  /\ NoLoop.i = 1 /\ NoLoop.err = 0 /\ NoLoop.num = 0 /\ NoLoop.cnt = 0
<1>2. NoLoop \in Locals
  BY DEF NoLoop, Locals
<1>3. NoLoop.i = 1 /\ NoLoop.err = 0 /\ NoLoop.num = 0 /\ NoLoop.cnt = 0
  BY DEF NoLoop
<1>4. /\ NoRecord \in Record
      /\ NoRecord.bound = FALSE /\ NoRecord.evset = "null" /\ NoRecord.depth = 0
      /\ NoRecord.used = 0 /\ NoRecord.closed = 0 /\ NoRecord.torn = FALSE
  BY DEF NoRecord, Record
<1>5. SameBut(NewRecord, NoRecord, {"bound"}) /\ NewRecord.bound = TRUE
  BY <1>4, SetBound DEF NewRecord
<1> QED
  BY <1>2, <1>3, <1>4, <1>5 DEF SameBut

LEMMA CodesInit ==
  /\ Len(Wanted) \in Nat /\ DOMAIN Wanted = 1 .. Len(Wanted)
  /\ \A i \in DOMAIN Wanted : Wanted[i] \in Event
  /\ NoCodes \in Seq(Code) /\ Len(NoCodes) = Len(Wanted)
<1>1. Wanted \in Seq(Event)
  BY ClientAssumption
<1>2. Len(Wanted) \in Nat /\ DOMAIN Wanted = 1 .. Len(Wanted)
      /\ \A i \in DOMAIN Wanted : Wanted[i] \in Event
  BY <1>1, LenProperties, ElementOfSeq
<1>3. NoCodes \in [1 .. Len(Wanted) -> Code]
  BY <1>2 DEF NoCodes, Code
<1> QED
  BY <1>2, <1>3, FunctionIsSeq

LEMMA MappedCount ==
  ASSUME NEW mapped \in SUBSET DOMAIN Wanted
  PROVE  Cardinality(mapped) \in Nat /\ Cardinality(mapped) <= Len(Wanted)
<1>1. IsFiniteSet(1 .. Len(Wanted)) /\ Cardinality(1 .. Len(Wanted)) = Len(Wanted)
  <2>1. PICK n \in Nat : n = Len(Wanted)
    BY CodesInit
  <2>2. /\ IsFiniteSet(1 .. n)
        /\ Cardinality(1 .. n) = IF 1 > n THEN 0 ELSE n - 1 + 1
    BY FS_Interval
  <2> QED
    BY <2>1, <2>2
<1>2. mapped \in SUBSET (1 .. Len(Wanted))
  BY CodesInit
<1>3. IsFiniteSet(mapped) /\ Cardinality(mapped) <= Cardinality(1 .. Len(Wanted))
  BY <1>1, <1>2, FS_Subset
<1> QED
  BY <1>1, <1>3, FS_CardinalityType

\* Everything that the shutdown of a thread does.
LEMMA Shutdown ==
  ASSUME TypeOK, NEW t \in Thread, LocalPart(t), RecordPart(t), CaliperPart(t), ShutdownThread(t)
  PROVE  /\ rec' \in [Thread -> Record]
         /\ \A u \in Thread \ {t} : rec'[u] = rec[u]
         /\ rec'[t].bound = rec[t].bound /\ rec'[t].evset = "mark"
         /\ rec'[t].closed = rec[t].closed + 1
         /\ rec'[t].torn = (rec[t].torn \/ api[t] # "none")
         /\ IF eventcnt > 0 /\ rec[t].depth > 0 /\ rec[t].evset = "own"
            THEN rec'[t].depth = rec[t].depth - 1 /\ rec'[t].used = rec[t].used + 1
            ELSE rec'[t].depth = rec[t].depth /\ rec'[t].used = rec[t].used
<1> DEFINE r == rec[t]
           stops == eventcnt > 0 /\ r.depth > 0 /\ r.evset = "own"
           s == Stop(r)
           c == [s EXCEPT !.closed = @ + 1, !.evset = "mark"]
           q == [c EXCEPT !.torn = @ \/ api[t] # "none"]
<1>0. r \in Record /\ r.depth \in -1 .. 1 /\ r.used \in Nat /\ r.closed \in Nat
  BY DEF TypeOK, Record
<1>1. rec' = [rec EXCEPT ![t] = q]
  BY DEF ShutdownThread
<1>2. s = IF stops THEN [r EXCEPT !.depth = r.depth - 1, !.used = r.used + 1] ELSE r
  BY DEF Stop
<1> HIDE DEF r, s
<1>3. /\ SameBut(s, r, {"depth", "used"})
      /\ IF stops THEN s.depth = r.depth - 1 /\ s.used = r.used + 1
                  ELSE s.depth = r.depth /\ s.used = r.used
  <2>1. CASE stops
    <3>1. PICK d \in -1 .. 1, n \in Nat : d = r.depth - 1 /\ n = r.used + 1
      BY <1>0, <2>1
    <3>2. s = [r EXCEPT !.depth = d, !.used = n]
      BY <1>2, <2>1, <3>1
    <3>3. r \in Record
      BY <1>0
    <3>4. /\ SameBut([r EXCEPT !.depth = d, !.used = n], r, {"depth", "used"})
          /\ [r EXCEPT !.depth = d, !.used = n].depth = d
          /\ [r EXCEPT !.depth = d, !.used = n].used = n
      BY <3>3 DEF SameBut, Record
    <3>5. SameBut(s, r, {"depth", "used"}) /\ s.depth = d /\ s.used = n
      BY <3>2, <3>4, Zenon
    <3> QED
      BY <2>1, <3>1, <3>5
  <2>2. CASE ~stops
    BY <1>0, <1>2, <2>2 DEF SameBut
  <2> QED
    BY <2>1, <2>2
<1>4. SameBut(c, s, {"closed", "evset"}) /\ c.closed = r.closed + 1 /\ c.evset = "mark"
  <2>1. s \in Record /\ s.closed + 1 \in Nat /\ s.closed = r.closed
    BY <1>0, <1>3 DEF SameBut
  <2> QED
    BY <2>1, SetClosed
<1> HIDE DEF c
<1>6. SameBut(q, c, {"torn"}) /\ q.torn = (c.torn \/ api[t] # "none")
  <2>1. c \in Record /\ (c.torn \/ api[t] # "none") \in BOOLEAN
    BY <1>4 DEF SameBut
  <2> QED
    BY <2>1, SetTorn
<1> HIDE DEF q
<1>7. q \in Record
  BY <1>6 DEF SameBut
<1>8. rec' \in [Thread -> Record] /\ rec'[t] = q /\ \A u \in Thread \ {t} : rec'[u] = rec[u]
  BY <1>1, <1>7 DEF TypeOK
<1>9. q.bound = r.bound /\ q.evset = "mark" /\ q.closed = r.closed + 1
  BY <1>3, <1>4, <1>6 DEF SameBut
<1>10. q.torn = (r.torn \/ api[t] # "none")
  BY <1>3, <1>4, <1>6 DEF SameBut
<1>11. q.depth = s.depth /\ q.used = s.used
  BY <1>4, <1>6 DEF SameBut
<1> QED
  BY <1>3, <1>8, <1>9, <1>10, <1>11 DEF r
-----------------------------------------------------------------------------
(* Every step keeps the types. *)

ThreadTypes ==
    /\ havePapi \in Builds
    /\ pc \in [Thread -> Loc]
    /\ main \in Thread
    /\ enable \in {"self", "other", "off"}
    /\ rec \in [Thread -> Record]
    /\ \A t \in Thread : rec[t].depth < 0 => rec[t].torn
    /\ api \in [Thread -> {"none", "start", "stop"}] /\ apiCalls \in 0 .. MaxApi
    /\ loop \in [Thread -> Locals]

ListTypes ==
    /\ names \in Seq(Event) /\ codes \in Seq(Code)
    /\ eventcnt \in Int /\ eventcnt <= Len(names) /\ dropped \in BOOLEAN

TableTypes ==
    /\ raced \in BOOLEAN
    /\ slots \in Seq(Thread \cup {Null}) /\ Len(slots) = size
    /\ num \in Nat /\ (~raced /\ size > 0 => num <= size)

ExitTypes ==
    /\ called \in BOOLEAN
    /\ how \in {"none", "exit", "exec"} /\ exiter \in Thread \cup {NoThread}
    /\ rows \in [num : Nat, out : Seq(Thread \cup {Null})]

LEMMA TypeParts == TypeOK <=> ThreadTypes /\ ListTypes /\ TableTypes /\ ExitTypes
BY DEF TypeOK, ThreadTypes, ListTypes, TableTypes, ExitTypes

LEMMA TypeSimple ==
  ASSUME TypeOK, NEW t \in Thread, UNCHANGED havePapi
  PROVE  /\ (InitThread(t) \/ InsertRefused(t) \/ Exit(t) \/ FiniProcessSkipped(t)
              \/ FiniProcessExec(t) \/ Exec(t)) /\ UNCHANGED apiVars => TypeOK'
         /\ ApiStart(t) \/ ApiStop(t) \/ ApiCrash(t) \/ Fork(t) => TypeOK'
         /\ UNCHANGED vars => TypeOK'
<1> USE ClientAssumption
<1>1. CASE InitThread(t) /\ UNCHANGED apiVars
  <2>1. rec' \in [Thread -> Record] /\ \A u \in Thread : rec'[u].depth < 0 => rec'[u].torn
    <3>1. CASE enable = "self"
      <4>1. rec' = [rec EXCEPT ![t] = NewRecord]
        BY <1>1, <3>1 DEF InitThread
      <4> QED
        BY <4>1, Fields DEF TypeOK
    <3>2. CASE enable # "self"
      BY <1>1, <3>2 DEF TypeOK, InitThread
    <3> QED
      BY <3>1, <3>2
  <2>2. pc' \in [Thread -> Loc]
    <3>1. pc \in [Thread -> Loc]
      BY DEF TypeOK
    <3> QED
      BY <1>1, <3>1 DEF InitThread, Goto, Loc, InitLoc
  <2> QED
    BY <1>1, <2>1, <2>2 DEF TypeOK, InitThread, apiVars, eventVars, countVars, tableVars, exitVars
<1>2. CASE InsertRefused(t) /\ UNCHANGED apiVars
  <2>1. rec' \in [Thread -> Record] /\ \A u \in Thread : rec'[u].depth < 0 => rec'[u].torn
    BY <1>2, Fields DEF TypeOK, InsertRefused
  <2>2. pc' \in [Thread -> Loc]
    BY <1>2 DEF TypeOK, InsertRefused, Goto, Loc
  <2> QED
    BY <1>2, <2>1, <2>2 DEF TypeOK, InsertRefused, apiVars, eventVars, countVars, tableVars, exitVars
<1>3. CASE Exit(t) /\ UNCHANGED apiVars
  BY <1>3
     DEF TypeOK, Exit, Goto, Loc, InitLoc, apiVars, eventVars, countVars, tableVars, exitVars
<1>4. CASE FiniProcessSkipped(t) /\ UNCHANGED apiVars
  BY <1>4
     DEF TypeOK, FiniProcessSkipped, Goto, Loc, InitLoc, apiVars, eventVars, countVars, tableVars, exitVars
<1>5. CASE FiniProcessExec(t) /\ UNCHANGED apiVars
  BY <1>5
     DEF TypeOK, FiniProcessExec, Goto, Loc, InitLoc, apiVars, eventVars, countVars, tableVars, exitVars
<1>6. CASE Exec(t) /\ UNCHANGED apiVars
  BY <1>6
     DEF TypeOK, Exec, Goto, Loc, InitLoc, apiVars, eventVars, countVars, tableVars, exitVars
<1>7. CASE ApiStart(t)
  BY <1>7
     DEF TypeOK, ApiStart, Goto, Loc, InitLoc, apiVars, eventVars, countVars, tableVars, exitVars, ApiCall
<1>8. CASE ApiStop(t)
  BY <1>8
     DEF TypeOK, ApiStop, Goto, Loc, InitLoc, apiVars, eventVars, countVars, tableVars, exitVars, ApiCall
<1>9. CASE ApiCrash(t)
  BY <1>9
     DEF TypeOK, ApiCrash, Goto, Loc, InitLoc, apiVars, eventVars, countVars, tableVars, exitVars
<1>10. CASE Fork(t)
  BY <1>10, Fields
     DEF TypeOK, Fork, Goto, Loc, InitLoc, apiVars, eventVars, countVars, tableVars, exitVars
<1>11. CASE UNCHANGED vars
  BY <1>11 DEF TypeOK, vars, apiVars, eventVars, countVars, tableVars, exitVars
<1> QED
  BY <1>1, <1>2, <1>3, <1>4, <1>5, <1>6, <1>7, <1>8, <1>9, <1>10, <1>11

LEMMA TypeProcess ==
  ASSUME TypeOK, ListPart, NEW t \in Thread, UNCHANGED <<havePapi, apiVars>>,
         InitProcess(t) \/ InitProcessFails(t)
  PROVE  TypeOK' /\ ListPart'
<1> USE ClientAssumption
<1>1. CASE InitProcess(t)
  <2>1. codes' \in Seq(Code) /\ Len(codes') = Len(Wanted)
    <3>1. codes' \in [1 .. Len(Wanted) -> Code]
      BY <1>1, CodesInit DEF InitProcess, Code
    <3> QED
      BY <3>1, CodesInit, FunctionIsSeq
  <2>2. names' \in Seq(Event) /\ Len(names') = Len(Wanted) /\ Len(Wanted) \in Nat
    BY <1>1, CodesInit DEF InitProcess
  <2>3. eventcnt' \in Int /\ eventcnt' <= Len(Wanted) /\ dropped' \in BOOLEAN
    <3>1. PICK mapped \in SUBSET DOMAIN Wanted : eventcnt' = Cardinality(mapped)
      BY <1>1 DEF InitProcess
    <3>2. dropped' \in BOOLEAN
      BY <1>1 DEF InitProcess
    <3> QED
      BY <3>1, <3>2, MappedCount, CodesInit
  <2>4. /\ slots' \in Seq(Thread \cup {Null}) /\ Len(slots') = InitThreads
        /\ size' = InitThreads /\ num' = 0 /\ raced' = FALSE
    BY <1>1, NewTable DEF InitProcess, FreshTable
  <2>5. rec' \in [Thread -> Record] /\ \A u \in Thread : rec'[u].depth < 0 => rec'[u].torn
    BY <1>1, Fields DEF TypeOK, InitProcess
  <2>6. pc' \in [Thread -> Loc]
    BY <1>1 DEF TypeOK, InitProcess, Goto, Loc, InitLoc
  <2>7. ThreadTypes' /\ ExitTypes'
    BY <1>1, <2>5, <2>6 DEF TypeOK, ThreadTypes, ExitTypes, InitProcess, OwnPid, apiVars
  <2>8. ListTypes' /\ TableTypes'
    <3>1. ListTypes'
      BY <2>1, <2>2, <2>3 DEF ListTypes
    <3>2. raced' \in BOOLEAN /\ num' \in Nat /\ num' <= size'
      <4>1. raced' \in BOOLEAN
        BY <2>4, Zenon
      <4> QED
        BY <4>1, <2>4
    <3>3. slots' \in Seq(Thread \cup {Null}) /\ Len(slots') = size'
      BY <2>4
    <3>4. TableTypes'
      BY <3>2, <3>3 DEF TableTypes
    <3> QED
      BY <3>1, <3>4
  <2>9. ListPart'
    BY <1>1, <2>1, <2>2 DEF ListPart, InitProcess
  <2> QED
    BY <2>7, <2>8, <2>9, TypeParts, PTL
<1>2. CASE InitProcessFails(t)
  <2>1. /\ codes' \in Seq(Code) /\ Len(codes') = Len(Wanted) /\ names' = Wanted
        /\ eventcnt' = Len(Wanted) /\ Len(Wanted) \in Nat /\ dropped' \in BOOLEAN
    BY <1>2, CodesInit DEF InitProcessFails
  <2>2. slots' = <<>> /\ num' = 0 /\ size' = 0 /\ raced' = FALSE
    BY <1>2 DEF InitProcessFails
  <2>3. ThreadTypes' /\ ExitTypes'
    BY <1>2 DEF TypeOK, ThreadTypes, ExitTypes, InitProcessFails, apiVars, Goto, Loc
  <2>4. ListTypes' /\ TableTypes'
    <3>1. ListTypes'
      BY <2>1 DEF ListTypes
    <3>2. <<>> \in Seq(Thread \cup {Null}) /\ Len(<<>>) = 0
      BY EmptySeq
    <3>3. raced' \in BOOLEAN /\ num' \in Nat /\ num' <= size'
      <4>1. raced' \in BOOLEAN
        BY <2>2, Zenon
      <4> QED
        BY <4>1, <2>2
    <3>4. slots' \in Seq(Thread \cup {Null}) /\ Len(slots') = size'
      BY <2>2, <3>2
    <3>5. TableTypes'
      BY <3>3, <3>4 DEF TableTypes
    <3> QED
      BY <3>1, <3>5
  <2>5. ListPart'
    BY <1>2, <2>1 DEF ListPart, InitProcessFails
  <2> QED
    BY <2>3, <2>4, <2>5, TypeParts, PTL
<1> QED
  BY <1>1, <1>2

\* A table that grows has room, as it had for one record at least.
LEMMA Growth ==
  ASSUME TypeOK, SizePart
  PROVE  /\ NewSize \in Nat /\ size <= NewSize
         /\ size > 0 /\ ~raced => num + 1 < NewSize
         /\ size > 0 => NewSize > 0
<1>1. size \in Nat /\ num \in Nat
  BY LenProperties DEF TypeOK
<1>2. CASE MustGrow
  BY <1>1, <1>2 DEF NewSize, MustGrow, SizePart
<1>3. CASE ~MustGrow
  BY <1>1, <1>3 DEF NewSize, MustGrow, SizePart
<1> QED
  BY <1>2, <1>3

LEMMA TypeTable ==
  ASSUME TypeOK, ListPart, SizePart, NEW t \in Thread, LocalPart(t), RecordPart(t),
         UNCHANGED <<havePapi, apiVars>>,
         InsertLocked(t) \/ GrowUnlocked(t) \/ StoreUnlocked(t) \/ BumpUnlocked(t) \/ Write(t)
  PROVE  TypeOK' /\ ListPart'
<1> USE ClientAssumption
<1>1. CASE InsertLocked(t)
  <2>1. PICK w \in Seq(Thread \cup {Null}) :
          w = Widened(NewSize) /\ Len(w) = NewSize /\ slots' = [w EXCEPT ![num + 1] = t]
    BY <1>1, Growth, WidenedSeq DEF InsertLocked
  <2>2. slots' \in Seq(Thread \cup {Null}) /\ Len(slots') = NewSize
    <3>1. CASE num + 1 \in 1 .. Len(w)
      BY <2>1, <3>1, ExceptSeq
    <3>2. CASE num + 1 \notin 1 .. Len(w)
      <4>1. w \in [1 .. Len(w) -> Thread \cup {Null}]
        BY LenProperties
      <4>2. slots' = w
        BY <2>1, <3>2, <4>1
      <4> QED
        BY <2>1, <4>2
    <3> QED
      BY <3>1, <3>2
  <2>3. TableTypes'
    <3>1. size \in Nat /\ num \in Nat /\ NewSize \in Nat /\ ~raced
      BY <1>1, Growth, LenProperties DEF TypeOK, InsertLocked, SizePart
    <3>2. NewSize > 0 => size > 0
      BY <3>1 DEF NewSize
    <3>3. NewSize > 0 => num + 1 < NewSize
      BY <3>1, <3>2, Growth
    <3> QED
      BY <1>1, <2>2, <3>1, <3>3 DEF TypeOK, TableTypes, InsertLocked
  <2>4. ThreadTypes' /\ ListTypes' /\ ExitTypes' /\ ListPart'
    <3>1. pc' \in [Thread -> Loc]
      BY <1>1 DEF TypeOK, InsertLocked, Goto, Loc, InitLoc, SetUpLoc
    <3> QED
      BY <1>1, <3>1 DEF TypeOK, ThreadTypes, ListTypes, ExitTypes, ListPart, InsertLocked,
                apiVars, eventVars, countVars, exitVars
  <2> QED
    BY <2>3, <2>4, TypeParts, PTL
<1>2. CASE GrowUnlocked(t)
  <2>1. Widened(NewSize) \in Seq(Thread \cup {Null}) /\ Len(Widened(NewSize)) = NewSize
    BY Growth, WidenedSeq
  <2>2. TableTypes'
    <3>1. size <= NewSize /\ size \in Nat /\ num \in Nat /\ NewSize \in Nat /\ (~raced => num <= size)
      BY <1>2, Growth, LenProperties DEF TypeOK, GrowUnlocked, RecordPart, InitLoc
    <3>2. raced' \in BOOLEAN /\ (~raced' => ~raced)
      BY <1>2 DEF TypeOK, GrowUnlocked
    <3> QED
      BY <1>2, <2>1, <3>1, <3>2 DEF TableTypes, GrowUnlocked
  <2>3. ThreadTypes' /\ ListTypes' /\ ExitTypes' /\ ListPart'
    BY <1>2 DEF TypeOK, ThreadTypes, ListTypes, ExitTypes, ListPart, GrowUnlocked, Goto, Loc, InitLoc,
                apiVars, eventVars, countVars, exitVars
  <2> QED
    BY <2>2, <2>3, TypeParts, PTL
<1>3. CASE StoreUnlocked(t)
  <2>1. TableTypes'
    <3>1. slots' \in Seq(Thread \cup {Null}) /\ Len(slots') = Len(slots)
      <4>1. CASE num + 1 \in 1 .. Len(slots)
        BY <1>3, <4>1, ExceptSeq DEF TypeOK, StoreUnlocked
      <4>2. CASE num + 1 \notin 1 .. Len(slots)
        <5>1. slots \in [1 .. Len(slots) -> Thread \cup {Null}]
          BY LenProperties DEF TypeOK
        <5>2. slots' = slots
          BY <1>3, <4>2, <5>1 DEF StoreUnlocked
        <5> QED
          BY <5>2 DEF TypeOK
      <4> QED
        BY <4>1, <4>2
    <3> QED
      BY <1>3, <3>1 DEF TypeOK, TableTypes, StoreUnlocked
  <2>2. loop' \in [Thread -> Locals] /\ \A u \in Thread : loop'[u].i = loop[u].i
    <3>1. PICK n \in Nat : n = num /\ loop' = [loop EXCEPT ![t].num = n]
      BY <1>3 DEF TypeOK, StoreUnlocked
    <3>2. loop \in [Thread -> Locals]
      BY DEF TypeOK
    <3> QED
      BY <3>1, <3>2 DEF Locals
  <2>3. pc' \in [Thread -> Loc]
    BY <1>3 DEF TypeOK, StoreUnlocked, Goto, Loc, InitLoc
  <2>4. ThreadTypes' /\ ListTypes' /\ ExitTypes' /\ ListPart'
    BY <1>3, <2>2, <2>3 DEF TypeOK, ThreadTypes, ListTypes, ExitTypes, ListPart, StoreUnlocked,
                apiVars, eventVars, countVars, exitVars
  <2> QED
    BY <2>1, <2>4, TypeParts, PTL
<1>4. CASE BumpUnlocked(t)
  <2>1. loop[t].num \in Nat
    BY DEF TypeOK, Locals
  <2>2. TableTypes'
    <3>1. ~raced => num + 1 < size /\ loop[t].num = num
      BY <1>4 DEF BumpUnlocked, SizePart, RecordPart, InitLoc
    <3>2. PICK n \in {loop[t].num, num} : num' = n + 1
      BY <1>4 DEF BumpUnlocked
    <3>3. num' \in Nat /\ (~raced => num' <= size)
      BY <2>1, <3>1, <3>2, LenProperties DEF TypeOK
    <3> QED
      BY <1>4, <3>3 DEF TypeOK, TableTypes, BumpUnlocked
  <2>3. loop' \in [Thread -> Locals] /\ \A u \in Thread : loop'[u].i # 0
    BY <1>4, Fields DEF TypeOK, BumpUnlocked, ListPart
  <2>4. pc' \in [Thread -> Loc]
    BY <1>4 DEF TypeOK, BumpUnlocked, Goto, Loc, InitLoc
  <2>5. ThreadTypes' /\ ListTypes' /\ ExitTypes' /\ ListPart'
    BY <1>4, <2>3, <2>4 DEF TypeOK, ThreadTypes, ListTypes, ExitTypes, ListPart, BumpUnlocked,
                apiVars, eventVars, countVars, exitVars
  <2> QED
    BY <2>2, <2>5, TypeParts, PTL
<1>5. CASE Write(t)
  <2>1. PICK w : w = Widened(rows.num)
    OBVIOUS
  <2>2. rows' = [rows EXCEPT !.out = w]
    BY <1>5, <2>1 DEF Write
  <2>3. w \in Seq(Thread \cup {Null})
    BY <2>1, WidenedSeq DEF TypeOK
  <2>4. rows' \in [num : Nat, out : Seq(Thread \cup {Null})]
    BY <2>2, <2>3 DEF TypeOK
  <2>5. TableTypes' /\ ListTypes' /\ ListPart'
    BY <1>5 DEF TypeOK, TableTypes, ListTypes, ListPart, Write, tableVars, eventVars, countVars
  <2>6. ThreadTypes' /\ ExitTypes'
    BY <1>5, <2>4 DEF TypeOK, ThreadTypes, ExitTypes, Write, Goto, Loc, apiVars
  <2> QED
    BY <2>5, <2>6, TypeParts, PTL
<1> QED
  BY <1>1, <1>2, <1>3, <1>4, <1>5
-----------------------------------------------------------------------------
(* What the steps on a thread's own data do. *)

Others(f, g, t) == \A u \in Thread \ {t} : g[u] = f[u]

LEMMA CountBound ==
  ASSUME TypeOK, ListPart, NEW t \in Thread, LocalPart(t)
  PROVE  \A n \in Count(t) : n \in Int /\ n <= Len(Wanted)
BY CodesInit DEF TypeOK, ListPart, LocalPart, Locals, Count

\* The set-up of the event set changes nobody else's location and record, and of its
\* own record only the event set.
LEMMA SetUpRecord ==
  ASSUME TypeOK, NEW t \in Thread, SetUp(t)
  PROVE  /\ pc[t] \in SetUpLoc /\ pc'[t] \in SetUpLoc \cup {"start"}
         /\ pc' \in [Thread -> Loc] /\ Others(pc, pc', t)
         /\ rec' \in [Thread -> Record] /\ Others(rec, rec', t)
         /\ SameBut(rec'[t], rec[t], {"evset"}) /\ rec'[t].evset \in {rec[t].evset, "own"}
         /\ pc'[t] = "papiStart" => rec'[t].evset = "own"
         /\ UNCHANGED <<main, enable, tableVars, exitVars>>
<1> DEFINE Moved == /\ pc[t] \in SetUpLoc /\ pc'[t] \in SetUpLoc \cup {"start"}
                    /\ pc' \in [Thread -> Loc] /\ Others(pc, pc', t)
<1>1. rec[t] \in Record /\ pc \in [Thread -> Loc]
  BY DEF TypeOK
<1>2. CASE UNCHANGED rec /\ Moved /\ pc'[t] # "papiStart"
  BY <1>1, <1>2 DEF TypeOK, Others, SameBut, SetUp
<1>3. CASE rec' = [rec EXCEPT ![t].evset = "own"] /\ Moved
  <2>1. PICK q : q = [rec[t] EXCEPT !.evset = "own"]
    OBVIOUS
  <2>2. SameBut(q, rec[t], {"evset"}) /\ q.evset = "own"
    BY <1>1, <2>1, SetEvset
  <2>3. rec' = [rec EXCEPT ![t] = q]
    BY <1>3, <2>1
  <2>4. rec' \in [Thread -> Record] /\ Others(rec, rec', t) /\ rec'[t] = q
    BY <2>2, <2>3 DEF TypeOK, Others, SameBut
  <2> QED
    BY <1>3, <2>2, <2>4 DEF SetUp
<1>4. CASE CreateEventset(t) \/ EventAdded(t) \/ EventRefused(t) \/ EventZeroed(t) \/ EventsDone(t)
  <2>1. UNCHANGED rec
    BY <1>4 DEF CreateEventset, EventAdded, EventRefused, EventZeroed, EventsDone
  <2>2. Moved /\ pc'[t] # "papiStart"
    BY <1>1, <1>4 DEF CreateEventset, EventAdded, EventRefused, EventZeroed, EventsDone, Goto,
                      Others, SetUpLoc, LoopLoc, InitLoc, Loc
  <2> QED
    BY <1>2, <2>1, <2>2
<1>5. CASE AllRefused(t) \/ SomeAdded(t) \/ Round(t) \/ Seek(t)
  <2>1. UNCHANGED rec
    BY <1>5 DEF AllRefused, SomeAdded, Round, Seek
  <2>2. Moved /\ pc'[t] # "papiStart"
    BY <1>1, <1>5 DEF AllRefused, SomeAdded, Round, Seek, Goto,
                      Others, SetUpLoc, LoopLoc, InitLoc, Loc
  <2> QED
    BY <1>2, <2>1, <2>2
<1>6. CASE CopyCode(t) \/ CopyName(t) \/ Subtract(t) \/ Assign(t) \/ PapiStart(t)
  <2>1. UNCHANGED rec
    BY <1>6 DEF CopyCode, CopyName, Subtract, Assign, PapiStart
  <2>2. Moved /\ pc'[t] # "papiStart"
    BY <1>1, <1>6 DEF CopyCode, CopyName, Subtract, Assign, PapiStart, Goto,
                      Others, SetUpLoc, LoopLoc, InitLoc, Loc
  <2> QED
    BY <1>2, <2>1, <2>2
<1>7. CASE Test(t)
  <2>1. \/ rec' = [rec EXCEPT ![t].evset = "own"] /\ pc' = [pc EXCEPT ![t] = "papiStart"]
        \/ UNCHANGED rec /\ pc' = [pc EXCEPT ![t] = "start"]
    BY <1>7 DEF Test, Goto
  <2>2. pc[t] = "test"
    BY <1>7 DEF Test
  <2>3. Moved
    BY <1>1, <2>1, <2>2 DEF Others, SetUpLoc, LoopLoc, InitLoc, Loc
  <2>4. UNCHANGED rec => pc'[t] # "papiStart" \/ rec' = [rec EXCEPT ![t].evset = "own"]
    BY <1>1, <2>1
  <2> QED
    BY <1>2, <1>3, <2>1, <2>3, <2>4
<1> QED
  BY <1>4, <1>5, <1>6, <1>7 DEF SetUp

LEMMA LoopUpdate ==
  ASSUME TypeOK, ListPart, NEW t \in Thread, NEW q \in Locals, loop' = [loop EXCEPT ![t] = q], q.i # 0
  PROVE  /\ loop' \in [Thread -> Locals] /\ Others(loop, loop', t) /\ loop'[t] = q
         /\ \A u \in Thread : loop'[u].i # 0
BY DEF TypeOK, ListPart, Others

\* The locals stay in range: what is read of the lists is there, and while events were
\* never dropped, a thread has counted some.
LEMMA SetUpLoop ==
  ASSUME TypeOK, ListPart, NEW t \in Thread, LocalPart(t), SetUp(t)
  PROVE  /\ loop' \in [Thread -> Locals] /\ Others(loop, loop', t)
         /\ \A u \in Thread : loop'[u].i # 0
         /\ loop'[t].cnt <= Len(Wanted)
         /\ pc'[t] \in {"seek", "code", "name"} => loop'[t].j # 0
         /\ pc'[t] \in {"code", "name"} => loop'[t].j <= Len(Wanted)
         /\ pc'[t] \notin LoopLoc => loop'[t] = NoLoop
         /\ StartedPart(t) /\ havePapi /\ ~dropped' /\ eventcnt' > 0
              /\ pc'[t] \in LoopLoc \ {"addEvent", "zero", "assign"} => loop'[t].cnt > 0
         /\ StartedPart(t) /\ havePapi /\ ~dropped' => pc[t] # "test" \/ pc'[t] # "start"
<1> DEFINE r == loop[t]
           Goal(q) == /\ q \in Locals /\ q.i # 0
                      /\ q.cnt <= Len(Wanted)
                      /\ pc'[t] \in {"seek", "code", "name"} => q.j # 0
                      /\ pc'[t] \in {"code", "name"} => q.j <= Len(Wanted)
                      /\ pc'[t] \notin LoopLoc => q = NoLoop
                      /\ StartedPart(t) /\ havePapi /\ ~dropped' /\ eventcnt' > 0
                           /\ pc'[t] \in LoopLoc \ {"addEvent", "zero", "assign"} => q.cnt > 0
                      /\ StartedPart(t) /\ havePapi /\ ~dropped' => pc[t] # "test" \/ pc'[t] # "start"
<1>1. /\ r \in Locals /\ r.i \in Nat /\ r.i # 0 /\ r.j \in Nat /\ r.err \in Nat /\ r.cnt \in Int
      /\ r.cnt <= Len(Wanted) /\ Len(Wanted) \in Nat /\ eventcnt \in Int /\ eventcnt <= Len(Wanted)
  BY CodesInit DEF TypeOK, ListPart, LocalPart, Locals
<1>2. \A n \in Count(t) : n \in Int /\ n <= Len(Wanted)
  BY CountBound
<1>3. pc \in [Thread -> Loc] /\ loop \in [Thread -> Locals]
  BY DEF TypeOK
<1>4. SUFFICES \E q : Goal(q) /\ loop' = [loop EXCEPT ![t] = q]
  BY LoopUpdate
<1>5. CASE CreateEventset(t) \/ CopyCode(t) \/ Assign(t) \/ PapiStart(t)
  <2>1. loop' = [loop EXCEPT ![t] = r]
    BY <1>3, <1>5 DEF CreateEventset, CopyCode, Assign, PapiStart
  <2>2. CASE CreateEventset(t)
    BY <1>1, <1>3, <2>1, <2>2 DEF CreateEventset, Goto, LocalPart, LoopLoc
  <2>3. CASE CopyCode(t)
    BY <1>1, <1>3, <2>1, <2>3 DEF CopyCode, Goto, LocalPart, LoopLoc, StartedPart, countVars
  <2>4. CASE Assign(t)
    <3>1. eventcnt' = r.cnt /\ pc'[t] = "test" /\ pc[t] = "assign"
      BY <1>3, <2>4 DEF Assign, Goto, SetCount
    <3> QED
      BY <1>1, <2>1, <3>1 DEF LoopLoc
  <2>5. CASE PapiStart(t)
    BY <1>1, <1>3, <2>1, <2>5 DEF PapiStart, Goto, LocalPart, LoopLoc
  <2> QED
    BY <1>5, <2>2, <2>3, <2>4, <2>5
<1>6. CASE EventAdded(t)
  <2>1. PICK n \in Nat : n = r.i + 1 /\ n # 0
    BY <1>1, <1>2, <1>6 DEF EventAdded
  <2>2. PICK q : q = [r EXCEPT !.i = n]
    OBVIOUS
  <2>3. q \in Locals /\ q.i = n /\ q.j = r.j /\ q.cnt = r.cnt
    BY <1>1, <2>1, <2>2 DEF Locals
  <2>4. loop' = [loop EXCEPT ![t] = q]
    BY <1>6, <2>1, <2>2 DEF EventAdded
  <2>5. pc[t] = "addEvent" /\ pc'[t] = "addEvent"
    BY <1>3, <1>6, <2>1 DEF EventAdded, Goto
  <2> QED
    BY <1>1, <1>2, <2>1, <2>3, <2>4, <2>5 DEF LocalPart, LoopLoc, StartedPart, Count
<1>7. CASE EventRefused(t)
  <2>1. PICK n \in Nat : n = r.err + 1
    BY <1>1, <1>2, <1>7 DEF EventRefused
  <2>2. PICK q : q = [r EXCEPT !.err = n]
    OBVIOUS
  <2>3. q \in Locals /\ q.i = r.i /\ q.j = r.j /\ q.cnt = r.cnt
    BY <1>1, <2>1, <2>2 DEF Locals
  <2>4. loop' = [loop EXCEPT ![t] = q]
    BY <1>7, <2>1, <2>2 DEF EventRefused
  <2>5. pc[t] = "addEvent" /\ pc'[t] = "zero"
    BY <1>3, <1>7, <2>1 DEF EventRefused, Goto
  <2> QED
    BY <1>1, <1>2, <2>1, <2>3, <2>4, <2>5 DEF LocalPart, LoopLoc, StartedPart, Count
<1>8. CASE EventZeroed(t)
  <2>1. PICK n \in Nat : n = r.i + 1 /\ n # 0
    BY <1>1, <1>2, <1>8 DEF EventZeroed
  <2>2. PICK q : q = [r EXCEPT !.i = n]
    OBVIOUS
  <2>3. q \in Locals /\ q.i = n /\ q.j = r.j /\ q.cnt = r.cnt
    BY <1>1, <2>1, <2>2 DEF Locals
  <2>4. loop' = [loop EXCEPT ![t] = q]
    BY <1>8, <2>1, <2>2 DEF EventZeroed
  <2>5. pc[t] = "zero" /\ pc'[t] = "addEvent"
    BY <1>3, <1>8, <2>1 DEF EventZeroed, Goto
  <2> QED
    BY <1>1, <1>2, <2>1, <2>3, <2>4, <2>5 DEF LocalPart, LoopLoc, StartedPart, Count
<1>9. CASE EventsDone(t)
  <2>0. PICK n \in Nat : n = 1
    OBVIOUS
  <2>1. PICK q : q = [r EXCEPT !.i = n, !.cnt = eventcnt]
    OBVIOUS
  <2>2. q \in Locals /\ q.i = 1 /\ q.cnt = eventcnt
    BY <1>1, <2>0, <2>1 DEF Locals
  <2>3. loop' = [loop EXCEPT ![t] = q]
    BY <1>9, <2>0, <2>1 DEF EventsDone
  <2>4. pc[t] = "addEvent" /\ pc'[t] = "check" /\ eventcnt' = eventcnt
    BY <1>3, <1>9 DEF EventsDone, Goto, eventVars, countVars
  <2>5. Goal(q)
    BY <1>1, <2>2, <2>4 DEF LoopLoc
  <2> QED
    BY <2>3, <2>5
<1>10. CASE AllRefused(t)
  <2>0. PICK c \in Int : c = 0
    OBVIOUS
  <2>1. PICK q : q = [r EXCEPT !.cnt = c]
    OBVIOUS
  <2>2. q \in Locals /\ q.i = r.i /\ q.cnt = 0
    BY <1>1, <2>0, <2>1 DEF Locals
  <2>3. loop' = [loop EXCEPT ![t] = q]
    BY <1>10, <2>0, <2>1 DEF AllRefused
  <2>4. pc[t] = "check" /\ pc'[t] = "test" /\ dropped'
    <3>1. 0 <= 0
      OBVIOUS
    <3> QED
      BY <1>3, <1>10, <3>1 DEF AllRefused, Goto, SetCount
  <2>5. 0 <= Len(Wanted)
    BY <1>1
  <2>6. Goal(q)
    BY <1>1, <2>2, <2>4, <2>5 DEF LoopLoc
  <2> QED
    BY <2>3, <2>6
<1>11. CASE SomeAdded(t)
  <2>1. PICK n \in Int : n \in Count(t) /\ loop' = [loop EXCEPT ![t].cnt = n]
    BY <1>2, <1>11 DEF SomeAdded
  <2>2. PICK q : q = [r EXCEPT !.cnt = n]
    OBVIOUS
  <2>3. q \in Locals /\ q.i = r.i /\ q.j = r.j /\ q.cnt = n
    BY <1>1, <2>1, <2>2 DEF Locals
  <2>4. loop' = [loop EXCEPT ![t] = q]
    BY <1>11, <2>1, <2>2 DEF SomeAdded
  <2>5. pc[t] = "check" /\ pc'[t] \in {"test", "round"} /\ dropped' = dropped
    BY <1>3, <1>11, <2>1 DEF SomeAdded, Goto, eventVars, countVars
  <2> QED
    BY <1>1, <1>2, <2>1, <2>3, <2>4, <2>5 DEF LocalPart, LoopLoc, StartedPart, Count
<1>12. CASE CopyName(t)
  <2>1. PICK n \in Nat : n = r.i + 1 /\ n # 0
    BY <1>1, <1>2, <1>12 DEF CopyName
  <2>2. PICK q : q = [r EXCEPT !.i = n]
    OBVIOUS
  <2>3. q \in Locals /\ q.i = n /\ q.j = r.j /\ q.cnt = r.cnt
    BY <1>1, <2>1, <2>2 DEF Locals
  <2>4. loop' = [loop EXCEPT ![t] = q]
    BY <1>12, <2>1, <2>2 DEF CopyName
  <2>5. pc[t] = "name" /\ pc'[t] = "round" /\ dropped' = dropped
    BY <1>3, <1>12, <2>1 DEF CopyName, Goto, countVars
  <2> QED
    BY <1>1, <1>2, <2>1, <2>3, <2>4, <2>5 DEF LocalPart, LoopLoc, StartedPart, Count
<1>13. CASE Subtract(t)
  <2>0. PICK n \in Count(t) : loop' = [loop EXCEPT ![t].cnt = n - r.err]
    BY <1>13 DEF Subtract
  <2>1. PICK c \in Int : c = n - r.err /\ c <= Len(Wanted) /\ loop' = [loop EXCEPT ![t].cnt = c]
    <3>1. n - r.err \in Int /\ n - r.err <= Len(Wanted)
      BY <1>1, <1>2
    <3> QED
      BY <2>0, <3>1
  <2>2. PICK q : q = [r EXCEPT !.cnt = c]
    OBVIOUS
  <2>3. q \in Locals /\ q.i = r.i /\ q.cnt = c
    BY <1>1, <2>1, <2>2 DEF Locals
  <2>4. loop' = [loop EXCEPT ![t] = q]
    BY <2>1, <2>2
  <2>5. pc[t] = "subtract" /\ pc'[t] = "assign"
    BY <1>3, <1>13, <2>1 DEF Subtract, Goto
  <2> QED
    BY <1>1, <1>2, <2>1, <2>3, <2>4, <2>5 DEF LocalPart, LoopLoc, StartedPart, Count
<1>14. CASE Round(t)
  <2>1. PICK n \in Count(t) :
          \/ /\ r.i > n /\ loop' = [loop EXCEPT ![t].cnt = n]
             /\ pc' = [pc EXCEPT ![t] = "subtract"]
          \/ /\ loop' = [loop EXCEPT ![t].cnt = n, ![t].j = r.i + 1]
             /\ pc' = [pc EXCEPT ![t] = "seek"]
          \/ loop' = [loop EXCEPT ![t].cnt = n, ![t].i = r.i + 1] /\ UNCHANGED pc
    BY <1>14 DEF Round, Goto
  <2>2. pc[t] = "round" /\ dropped' = dropped
    BY <1>14 DEF Round, eventVars, countVars
  <2>3. PICK k \in Nat : k = r.i + 1 /\ k # 0
    BY <1>1
  <2>4. PICK a, b, c : /\ a = [r EXCEPT !.cnt = n] /\ b = [r EXCEPT !.cnt = n, !.j = k]
                       /\ c = [r EXCEPT !.cnt = n, !.i = k]
    OBVIOUS
  <2>5. /\ a \in Locals /\ a.i = r.i /\ a.cnt = n
        /\ b \in Locals /\ b.i = r.i /\ b.j = k /\ b.cnt = n
        /\ c \in Locals /\ c.i = k /\ c.cnt = n
    <3>1. n \in Int
      BY <1>2
    <3> QED
      BY <1>1, <2>3, <2>4, <3>1 DEF Locals
  <2>6. \/ loop' = [loop EXCEPT ![t] = a] /\ pc'[t] = "subtract"
        \/ loop' = [loop EXCEPT ![t] = b] /\ pc'[t] = "seek"
        \/ loop' = [loop EXCEPT ![t] = c] /\ pc'[t] = "round"
    BY <1>3, <2>1, <2>2, <2>3, <2>4
  <2>7. n <= Len(Wanted) /\ (StartedPart(t) /\ havePapi /\ ~dropped' => n > 0)
    BY <1>2, <2>2 DEF StartedPart, Count, LoopLoc
  <2> QED
    BY <1>1, <2>2, <2>3, <2>5, <2>6, <2>7 DEF LoopLoc
<1>15. CASE Seek(t)
  <2>1. PICK n \in Count(t) :
          \/ loop' = [loop EXCEPT ![t].cnt = n, ![t].i = r.i + 1] /\ pc' = [pc EXCEPT ![t] = "round"]
          \/ loop' = [loop EXCEPT ![t].cnt = n, ![t].j = r.j + 1] /\ UNCHANGED pc
          \/ r.j <= n /\ loop' = [loop EXCEPT ![t].cnt = n] /\ pc' = [pc EXCEPT ![t] = "code"]
    BY <1>15 DEF Seek, Goto
  <2>2. pc[t] = "seek" /\ dropped' = dropped /\ r.j # 0
    BY <1>15 DEF Seek, eventVars, countVars, LocalPart
  <2>3. /\ r.i + 1 \in Nat /\ r.i + 1 # 0
        /\ r.j + 1 \in Nat /\ r.j + 1 # 0
    BY <1>1
  <2>4. PICK a, b, c : /\ a = [r EXCEPT !.cnt = n, !.i = r.i + 1] /\ b = [r EXCEPT !.cnt = n, !.j = r.j + 1]
                       /\ c = [r EXCEPT !.cnt = n]
    OBVIOUS
  <2>5. /\ a \in Locals /\ a.i = r.i + 1 /\ a.cnt = n
        /\ b \in Locals /\ b.i = r.i /\ b.j = r.j + 1 /\ b.cnt = n
        /\ c \in Locals /\ c.i = r.i /\ c.j = r.j /\ c.cnt = n
    <3>1. n \in Int
      BY <1>2
    <3> QED
      BY <1>1, <2>3, <2>4, <3>1 DEF Locals
  <2>6. \/ loop' = [loop EXCEPT ![t] = a] /\ pc'[t] = "round"
        \/ loop' = [loop EXCEPT ![t] = b] /\ pc'[t] = "seek"
        \/ r.j <= n /\ loop' = [loop EXCEPT ![t] = c] /\ pc'[t] = "code"
    BY <1>3, <2>1, <2>2, <2>3, <2>4
  <2>7. /\ n \in Int /\ n <= Len(Wanted)
        /\ StartedPart(t) /\ havePapi /\ ~dropped' => n > 0
    BY <1>2, <2>2 DEF StartedPart, Count, LoopLoc
  <2>8. /\ pc'[t] = "round" => Goal(a)
        /\ pc'[t] = "seek" => Goal(b)
        /\ r.j <= n /\ pc'[t] = "code" => Goal(c)
    BY <1>1, <2>2, <2>3, <2>5, <2>7 DEF LoopLoc
  <2> QED
    BY <2>6, <2>8
<1>16. CASE Test(t)
  <2>1. loop' = [loop EXCEPT ![t] = NoLoop] /\ pc[t] = "test" /\ dropped' = dropped
    BY <1>16 DEF Test, eventVars, countVars
  <2>2. /\ pc'[t] \in {"papiStart", "start"}
        /\ pc'[t] = "start" => 0 \in Count(t)
    BY <1>3, <1>16 DEF Test, Goto
  <2>3. StartedPart(t) /\ havePapi /\ ~dropped' => 0 \notin Count(t)
    BY <1>1, <2>1 DEF StartedPart, Count, LoopLoc
  <2>4. NoLoop.cnt <= Len(Wanted)
    BY <1>1, Fields
  <2>5. Goal(NoLoop)
    BY <2>1, <2>2, <2>3, <2>4, Fields DEF LoopLoc
  <2> QED
    BY <2>1, <2>5
<1> QED
  BY <1>5, <1>6, <1>7, <1>8, <1>9, <1>10, <1>11, <1>12, <1>13, <1>14, <1>15, <1>16 DEF SetUp

\* The shared list keeps its length; what is counted may fall below the names that are
\* left, never rise above them.
LEMMA SetUpList ==
  ASSUME TypeOK, ListPart, NEW t \in Thread, LocalPart(t), SetUp(t)
  PROVE  /\ names' \in Seq(Event) /\ Len(names') = Len(names)
         /\ codes' \in Seq(Code) /\ Len(codes') = Len(codes)
         /\ eventcnt' \in Int /\ eventcnt' <= Len(names) /\ dropped' \in BOOLEAN
         /\ ~dropped' => ~dropped /\ (eventcnt > 0 => eventcnt' > 0)
<1> DEFINE r == loop[t]
           Lists == /\ names' \in Seq(Event) /\ Len(names') = Len(names)
                    /\ codes' \in Seq(Code) /\ Len(codes') = Len(codes)
           Counts == /\ eventcnt' \in Int /\ eventcnt' <= Len(names) /\ dropped' \in BOOLEAN
                     /\ ~dropped' => ~dropped /\ (eventcnt > 0 => eventcnt' > 0)
<1>1. /\ names \in Seq(Event) /\ codes \in Seq(Code) /\ r \in Locals
      /\ eventcnt \in Int /\ dropped \in BOOLEAN /\ eventcnt <= Len(names)
      /\ Len(names) = Len(Wanted) /\ Len(codes) = Len(Wanted) /\ Len(Wanted) \in Nat
      /\ r.i \in Nat /\ r.i # 0 /\ r.j \in Nat /\ r.cnt \in Int /\ r.cnt <= Len(Wanted)
  BY CodesInit DEF TypeOK, ListPart, LocalPart, Locals
<1>2. UNCHANGED <<names, codes>> => Lists
  BY <1>1
<1>3. UNCHANGED countVars => Counts
  BY <1>1 DEF countVars
<1>4. ASSUME NEW n \in Int, n <= Len(names), SetCount(n)
      PROVE  Counts
  <2>1. eventcnt' = n /\ dropped' = (dropped \/ n <= 0)
    BY <1>4 DEF SetCount
  <2>2. dropped' \in BOOLEAN
    BY <1>1, <2>1
  <2>3. ~dropped' => ~dropped /\ n > 0
    <3>1. n <= 0 \/ n > 0
      OBVIOUS
    <3> QED
      BY <2>1, <3>1, Zenon
  <2> QED
    BY <1>4, <2>1, <2>2, <2>3
<1>5. SetCount(0) => Counts
  BY <1>1, <1>4
<1>6. CASE CreateEventset(t) \/ PapiStart(t) \/ AllRefused(t)
  BY <1>2, <1>3, <1>5, <1>6 DEF CreateEventset, PapiStart, AllRefused
<1>7. CASE \/ EventAdded(t) \/ EventRefused(t) \/ EventsDone(t) \/ SomeAdded(t) \/ Round(t)
           \/ Seek(t) \/ Subtract(t) \/ Test(t)
  <2>1. UNCHANGED <<names, codes, countVars>>
    BY <1>7 DEF EventAdded, EventRefused, EventsDone, SomeAdded, Round, Seek, Subtract, Test, eventVars
  <2> QED
    BY <1>2, <1>3, <2>1
<1>8. CASE EventZeroed(t)
  <2>1. codes' = [codes EXCEPT ![r.i] = Zero] /\ UNCHANGED <<names, countVars>>
    BY <1>8 DEF EventZeroed
  <2>2. codes' \in Seq(Code) /\ Len(codes') = Len(codes)
    <3>1. CASE r.i \in 1 .. Len(codes)
      BY <1>1, <2>1, <3>1, ExceptSeq DEF Code
    <3>2. CASE r.i \notin 1 .. Len(codes)
      <4>1. codes \in [1 .. Len(codes) -> Code]
        BY <1>1, LenProperties
      <4>2. codes' = codes
        BY <2>1, <3>2, <4>1
      <4> QED
        BY <1>1, <4>2
    <3> QED
      BY <3>1, <3>2
  <2> QED
    BY <1>1, <1>3, <2>1, <2>2
<1>9. CASE CopyCode(t)
  <2>1. codes' = [codes EXCEPT ![r.i] = codes[r.j]] /\ UNCHANGED <<names, countVars>>
    BY <1>9 DEF CopyCode
  <2>2. r.j \in 1 .. Len(codes)
    BY <1>1, <1>9 DEF CopyCode, LocalPart
  <2>3. PICK c \in Code : c = codes[r.j]
    BY <1>1, <2>2, ElementOfSeq
  <2>4. codes' \in Seq(Code) /\ Len(codes') = Len(codes)
    <3>1. CASE r.i \in 1 .. Len(codes)
      BY <1>1, <2>1, <2>3, <3>1, ExceptSeq
    <3>2. CASE r.i \notin 1 .. Len(codes)
      <4>1. codes \in [1 .. Len(codes) -> Code]
        BY <1>1, LenProperties
      <4>2. codes' = codes
        BY <2>1, <3>2, <4>1
      <4> QED
        BY <1>1, <4>2
    <3> QED
      BY <3>1, <3>2
  <2> QED
    BY <1>1, <1>3, <2>1, <2>4
<1>10. CASE CopyName(t)
  <2>1. names' = [names EXCEPT ![r.i] = names[r.j]] /\ UNCHANGED <<codes, countVars>>
    BY <1>10 DEF CopyName
  <2>2. r.j \in 1 .. Len(names)
    BY <1>1, <1>10 DEF CopyName, LocalPart
  <2>3. PICK c \in Event : c = names[r.j]
    BY <1>1, <2>2, ElementOfSeq
  <2>4. names' \in Seq(Event) /\ Len(names') = Len(names)
    <3>1. CASE r.i \in 1 .. Len(names)
      BY <1>1, <2>1, <2>3, <3>1, ExceptSeq
    <3>2. CASE r.i \notin 1 .. Len(names)
      <4>1. names \in [1 .. Len(names) -> Event]
        BY <1>1, LenProperties
      <4>2. names' = names
        BY <2>1, <3>2, <4>1
      <4> QED
        BY <1>1, <4>2
    <3> QED
      BY <3>1, <3>2
  <2> QED
    BY <1>1, <1>3, <2>1, <2>4
<1>11. CASE Assign(t)
  BY <1>1, <1>2, <1>4, <1>11 DEF Assign
<1> QED
  BY <1>6, <1>7, <1>8, <1>9, <1>10, <1>11 DEF SetUp

LEMMA StartedEffect ==
  ASSUME TypeOK, NEW t \in Thread, Start(t), RecordPart(t)
  PROVE  /\ rec' \in [Thread -> Record] /\ Others(rec, rec', t)
         /\ SameBut(rec'[t], rec[t], {"depth"}) /\ rec'[t].depth \in 0 .. 1
         /\ havePapi /\ eventcnt > 0 /\ rec[t].evset = "own" => rec'[t].depth = 1
<1>1. rec[t] \in Record /\ rec[t].depth = 0
  BY DEF TypeOK, RecordPart, Start, InitLoc
<1>2. PICK d \in 0 .. 1 :
        /\ d = IF havePapi /\ eventcnt > 0 /\ rec[t].evset = "own" THEN 1 ELSE 0
        /\ rec' = [rec EXCEPT ![t].depth = d]
  <2> DEFINE starts == havePapi /\ eventcnt > 0 /\ rec[t].evset = "own"
             value == IF havePapi /\ eventcnt > 0 /\ rec[t].depth = 0 /\ Readable(rec[t])
                      THEN rec[t].depth + 1 ELSE rec[t].depth
  <2>1. rec' = [rec EXCEPT ![t].depth = value]
    BY DEF Start
  <2>2. value = IF starts THEN 1 ELSE 0
    BY <1>1 DEF Readable
  <2> HIDE DEF value, starts
  <2>3. value \in 0 .. 1
    BY <2>2
  <2> QED
    BY <2>1, <2>2, <2>3 DEF starts
<1>3. PICK q : q = [rec[t] EXCEPT !.depth = d]
  OBVIOUS
<1>4. SameBut(q, rec[t], {"depth"}) /\ q.depth = d
  <2>1. d \in -1 .. 1
    OBVIOUS
  <2> QED
    BY <1>1, <1>3, <2>1, SetDepth
<1>5. rec' = [rec EXCEPT ![t] = q]
  BY <1>2, <1>3
<1>6. rec' \in [Thread -> Record] /\ Others(rec, rec', t) /\ rec'[t] = q
  BY <1>4, <1>5 DEF TypeOK, Others, SameBut
<1> QED
  BY <1>2, <1>4, <1>6


LEMMA ReturnEffect ==
  ASSUME TypeOK, NEW t \in Thread, ApiReturn(t), CaliperPart(t)
  PROVE  /\ rec' \in [Thread -> Record] /\ Others(rec, rec', t)
         /\ SameBut(rec'[t], rec[t], {"depth", "used"})
         /\ IF api[t] = "start"
            THEN rec[t].depth = 0 /\ rec'[t].depth = 1 /\ rec'[t].used = rec[t].used
            ELSE /\ api[t] = "stop"
                 /\ rec'[t].depth = rec[t].depth - 1 /\ rec'[t].used = rec[t].used + 1
<1>1. rec[t] \in Record /\ rec[t].used \in Nat
  BY DEF TypeOK, Record
<1>2. PICK d \in -1 .. 1, n \in Nat :
        IF api[t] = "start" THEN rec[t].depth = 0 /\ d = 1 /\ n = rec[t].used
        ELSE api[t] = "stop" /\ d = rec[t].depth - 1 /\ n = rec[t].used + 1
  <2>1. CASE api[t] = "start"
    BY <1>1, <2>1 DEF CaliperPart
  <2>2. CASE api[t] = "stop"
    BY <1>1, <2>2 DEF CaliperPart
  <2> QED
    BY <2>1, <2>2 DEF TypeOK, ApiReturn
<1>3. PICK q : q = IF api[t] = "start" THEN [rec[t] EXCEPT !.depth = d]
                                       ELSE [rec[t] EXCEPT !.depth = d, !.used = n]
  OBVIOUS
<1>4. SameBut(q, rec[t], {"depth", "used"}) /\ q.depth = d /\ q.used = n
  <2>1. CASE api[t] = "start"
    BY <1>1, <1>2, <1>3, <2>1, SetDepth DEF SameBut
  <2>2. CASE api[t] # "start"
    <3>1. PICK r \in Record : r = rec[t]
      BY <1>1
    <3>2. q = [r EXCEPT !.depth = d, !.used = n]
      BY <1>3, <2>2, <3>1
    <3> QED
      BY <3>1, <3>2 DEF SameBut, Record
  <2> QED
    BY <2>1, <2>2
<1>5. rec' = [rec EXCEPT ![t] = q]
  <2>1. CASE api[t] = "start"
    <3>1. rec[t].depth + 1 = d
      BY <1>2, <2>1
    <3>2. rec' = [rec EXCEPT ![t].depth = d]
      BY <2>1, <3>1 DEF ApiReturn
    <3> QED
      BY <1>3, <2>1, <3>2
  <2>2. CASE api[t] # "start"
    <3>1. rec[t].depth - 1 = d /\ rec[t].used + 1 = n
      BY <1>2, <2>2
    <3>2. rec' = [rec EXCEPT ![t].depth = d, ![t].used = n]
      BY <2>2, <3>1 DEF ApiReturn
    <3> QED
      BY <1>3, <2>2, <3>2
  <2> QED
    BY <2>1, <2>2
<1>6. rec' \in [Thread -> Record] /\ Others(rec, rec', t) /\ rec'[t] = q
  BY <1>4, <1>5 DEF TypeOK, Others, SameBut
<1> QED
  BY <1>2, <1>4, <1>6
-----------------------------------------------------------------------------
(* Types of the steps on a thread's own data. *)

LEMMA TypeRecord ==
  ASSUME TypeOK, ListPart, NEW t \in Thread, LocalPart(t), RecordPart(t), CaliperPart(t),
         UNCHANGED havePapi,
         \/ (\/ SetUp(t) \/ Start(t)
             \/ FiniThread(t) \/ FiniProcess(t)) /\ UNCHANGED apiVars
         \/ ApiReturn(t)
  PROVE  TypeOK' /\ ListPart'
<1>0. TableTypes /\ ListTypes /\ ThreadTypes /\ ExitTypes
  BY TypeParts
<1>1. CASE SetUp(t) /\ UNCHANGED apiVars
  <2>1. /\ pc' \in [Thread -> Loc] /\ rec' \in [Thread -> Record]
        /\ Others(rec, rec', t) /\ SameBut(rec'[t], rec[t], {"evset"})
        /\ UNCHANGED <<main, enable, tableVars, exitVars>>
    BY <1>1, SetUpRecord
  <2>2. loop' \in [Thread -> Locals] /\ \A u \in Thread : loop'[u].i # 0
    BY <1>1, SetUpLoop
  <2>3. /\ codes' \in Seq(Code) /\ Len(codes') = Len(codes)
        /\ names' \in Seq(Event) /\ Len(names') = Len(names)
        /\ eventcnt' \in Int /\ eventcnt' <= Len(names) /\ dropped' \in BOOLEAN
    BY <1>1, SetUpList
  <2>4. \A u \in Thread : rec'[u].depth < 0 => rec'[u].torn
    BY <2>1 DEF Others, SameBut, TypeOK
  <2>5. ThreadTypes'
    BY <1>0, <1>1, <2>1, <2>2, <2>4 DEF ThreadTypes, apiVars
  <2>6. TableTypes' /\ ExitTypes'
    BY <1>0, <2>1 DEF TableTypes, ExitTypes, tableVars, exitVars
  <2>7. ListTypes' /\ ListPart'
    BY <2>2, <2>3 DEF ListTypes, ListPart
  <2> QED
    BY <2>5, <2>6, <2>7, TypeParts, PTL
<1>4. CASE Start(t) /\ UNCHANGED apiVars
  <2>0. /\ rec' \in [Thread -> Record] /\ Others(rec, rec', t)
        /\ rec'[t].depth \in 0 .. 1
    BY <1>4, StartedEffect
  <2>1. rec' \in [Thread -> Record] /\ \A u \in Thread : rec'[u].depth < 0 => rec'[u].torn
    <3>1. ASSUME NEW u \in Thread, rec'[u].depth < 0 PROVE rec'[u].torn
      <4>1. CASE u = t
        BY <2>0, <3>1, <4>1
      <4>2. CASE u # t
        <5>1. rec'[u] = rec[u]
          BY <2>0, <4>2 DEF Others
        <5> QED
          BY <1>0, <3>1, <5>1 DEF ThreadTypes
      <4> QED
        BY <4>1, <4>2
    <3> QED
      BY <2>0, <3>1
  <2>5. pc' \in [Thread -> Loc]
    BY <1>0, <1>4 DEF ThreadTypes, Start, Goto, Loc, InitLoc
  <2>6. ThreadTypes'
    BY <1>0, <1>4, <2>5, <2>1 DEF ThreadTypes, Start, apiVars
  <2>7. TableTypes' /\ ExitTypes'
    BY <1>0, <1>4 DEF TableTypes, ExitTypes, Start, tableVars, exitVars
  <2>8. ListTypes' /\ ListPart'
    BY <1>0, <1>4 DEF ListTypes, ListPart, Start, eventVars, countVars
  <2> QED
    BY <2>6, <2>7, <2>8, TypeParts, PTL
<1>5. CASE FiniThread(t) /\ UNCHANGED apiVars
  <2>1. rec' \in [Thread -> Record]
        /\ \A u \in Thread : rec'[u].depth < 0 => rec'[u].torn
    <3>1. CASE enable = "self" /\ rec[t].bound
      <4>1. ShutdownThread(t)
        BY <1>5, <3>1 DEF FiniThread
      <4>2. rec[t].depth \in -1 .. 1 /\ (rec[t].depth < 0 => rec[t].torn)
        BY DEF TypeOK, Record
      <4>3. /\ rec' \in [Thread -> Record]
            /\ \A u \in Thread \ {t} : rec'[u] = rec[u]
            /\ rec'[t].torn = (rec[t].torn \/ api[t] # "none")
            /\ IF eventcnt > 0 /\ rec[t].depth > 0 /\ rec[t].evset = "own"
               THEN rec'[t].depth = rec[t].depth - 1
               ELSE rec'[t].depth = rec[t].depth
        BY <4>1, Shutdown
      <4>4. rec'[t].depth < 0 => rec'[t].torn
        <5>1. rec'[t].depth < 0 => rec[t].depth < 0
          BY <4>2, <4>3
        <5> QED
          BY <4>2, <4>3, <5>1, Zenon
      <4>5. \A u \in Thread : rec[u].depth < 0 => rec[u].torn
        BY DEF TypeOK
      <4> QED
        BY <4>3, <4>4, <4>5
    <3>2. CASE ~(enable = "self" /\ rec[t].bound)
      BY <1>5, <3>2 DEF FiniThread, TypeOK
    <3> QED
      BY <3>1, <3>2
  <2>5. pc' \in [Thread -> Loc]
    BY <1>0, <1>5 DEF ThreadTypes, FiniThread, Goto, Loc, InitLoc
  <2>6. ThreadTypes'
    BY <1>0, <1>5, <2>5, <2>1 DEF ThreadTypes, FiniThread, apiVars
  <2>7. TableTypes' /\ ExitTypes'
    BY <1>0, <1>5 DEF TableTypes, ExitTypes, FiniThread, tableVars, exitVars
  <2>8. ListTypes' /\ ListPart'
    BY <1>0, <1>5 DEF ListTypes, ListPart, FiniThread, eventVars, countVars
  <2> QED
    BY <2>6, <2>7, <2>8, TypeParts, PTL
<1>6. CASE FiniProcess(t) /\ UNCHANGED apiVars
  <2>1. rec' \in [Thread -> Record]
        /\ \A u \in Thread : rec'[u].depth < 0 => rec'[u].torn
    <3>1. CASE rec[t].bound
      <4>1. ShutdownThread(t)
        BY <1>6, <3>1 DEF FiniProcess
      <4>2. rec[t].depth \in -1 .. 1 /\ (rec[t].depth < 0 => rec[t].torn)
        BY DEF TypeOK, Record
      <4>3. /\ rec' \in [Thread -> Record]
            /\ \A u \in Thread \ {t} : rec'[u] = rec[u]
            /\ rec'[t].torn = (rec[t].torn \/ api[t] # "none")
            /\ IF eventcnt > 0 /\ rec[t].depth > 0 /\ rec[t].evset = "own"
               THEN rec'[t].depth = rec[t].depth - 1
               ELSE rec'[t].depth = rec[t].depth
        BY <4>1, Shutdown
      <4>4. rec'[t].depth < 0 => rec'[t].torn
        <5>1. rec'[t].depth < 0 => rec[t].depth < 0
          BY <4>2, <4>3
        <5> QED
          BY <4>2, <4>3, <5>1, Zenon
      <4>5. \A u \in Thread : rec[u].depth < 0 => rec[u].torn
        BY DEF TypeOK
      <4> QED
        BY <4>3, <4>4, <4>5
    <3>2. CASE ~rec[t].bound
      BY <1>6, <3>2 DEF FiniProcess, TypeOK
    <3> QED
      BY <3>1, <3>2
  <2>2. rows' \in [num : Nat, out : Seq(Thread \cup {Null})]
    <3>1. rows \in [num : Nat, out : Seq(Thread \cup {Null})] /\ num \in Nat
      BY DEF TypeOK
    <3> QED
      BY <1>6, <3>1 DEF FiniProcess
  <2>3. called' \in BOOLEAN
    BY <1>6, Zenon DEF FiniProcess
  <2>5. pc' \in [Thread -> Loc]
    BY <1>0, <1>6 DEF ThreadTypes, FiniProcess, Goto, Loc, InitLoc
  <2>6. ThreadTypes'
    BY <1>0, <1>6, <2>5, <2>1 DEF ThreadTypes, FiniProcess, apiVars
  <2>7. TableTypes' /\ ExitTypes'
    BY <1>0, <1>6, <2>2, <2>3 DEF TableTypes, ExitTypes, FiniProcess, tableVars, exitVars
  <2>8. ListTypes' /\ ListPart'
    BY <1>0, <1>6 DEF ListTypes, ListPart, FiniProcess, eventVars, countVars
  <2> QED
    BY <2>6, <2>7, <2>8, TypeParts, PTL
<1>7. CASE ApiReturn(t)
  <2>1. rec' \in [Thread -> Record] /\ \A u \in Thread : rec'[u].depth < 0 => rec'[u].torn
    <3>1. rec'[t].depth < 0 => rec'[t].torn
      <4>1. rec[t].depth \in -1 .. 1 /\ rec[t] \in Record
        BY DEF TypeOK, Record
      <4> QED
        BY <1>7, <4>1, ReturnEffect DEF CaliperPart, SameBut
    <3> QED
      BY <1>7, <3>1, ReturnEffect DEF Others, TypeOK
  <2>5. pc' \in [Thread -> Loc]
    BY <1>0, <1>7 DEF ThreadTypes, ApiReturn, Goto, Loc, InitLoc
  <2>6. ThreadTypes'
    BY <1>0, <1>7, <2>5, <2>1 DEF ThreadTypes, ApiReturn, apiVars
  <2>7. TableTypes' /\ ExitTypes'
    BY <1>0, <1>7 DEF TableTypes, ExitTypes, ApiReturn, tableVars, exitVars
  <2>8. ListTypes' /\ ListPart'
    BY <1>0, <1>7 DEF ListTypes, ListPart, ApiReturn, eventVars, countVars
  <2> QED
    BY <2>6, <2>7, <2>8, TypeParts, PTL
<1> QED
  BY <1>1, <1>4, <1>5, <1>6, <1>7
-----------------------------------------------------------------------------
(* What holds of each thread, action by action. *)

Parts(t) == LocalPart(t) /\ RecordPart(t) /\ SelfPart(t) /\ CaliperPart(t) /\ StartedPart(t)

\* A step that changes the data of t alone.
Quiet(t) ==
    /\ havePapi' = havePapi /\ main' = main
    /\ \A u \in Thread \ {t} :
         /\ pc'[u] = pc[u] /\ rec'[u] = rec[u] /\ loop'[u] = loop[u]
         /\ api'[u] = api[u]

\* And leaves the tables of all threads as large, as far as the others can tell.
Calm ==
    /\ enable' \in {enable, "off"}
    /\ (size' = 0 <=> size = 0)
    /\ ~dropped' => ~dropped /\ (eventcnt > 0 => eventcnt' > 0)

LEMMA SizeNat == TypeOK => size \in Nat /\ num \in Nat
BY LenProperties DEF TypeOK

LEMMA OthersKept ==
  ASSUME TypeOK, TypeOK', ThreadPart, NEW t \in Thread, Quiet(t), Calm, Parts(t)'
  PROVE  ThreadPart'
<1>0. size \in Nat /\ size' \in Nat
  BY LenProperties DEF TypeOK
<1>1. ASSUME NEW u \in Thread, u # t
      PROVE  Parts(u)'
  <2>1. /\ pc'[u] = pc[u] /\ rec'[u] = rec[u] /\ loop'[u] = loop[u]
        /\ api'[u] = api[u]
        /\ havePapi' = havePapi /\ main' = main
    BY <1>1 DEF Quiet
  <2>2. LocalPart(u)'
    BY <2>1 DEF ThreadPart, LocalPart
  <2>3. RecordPart(u)'
    BY <1>0, <2>1 DEF ThreadPart, RecordPart, Calm
  <2>4. SelfPart(u)'
    BY <1>0, <2>1 DEF ThreadPart, SelfPart, Calm
  <2>5. CaliperPart(u)'
    BY <2>1 DEF ThreadPart, CaliperPart
  <2>6. StartedPart(u)'
    BY <2>1 DEF ThreadPart, StartedPart, Calm
  <2> QED
    BY <2>2, <2>3, <2>4, <2>5, <2>6 DEF Parts
<1>2. \A u \in Thread : Parts(u)'
  BY <1>1
<1> QED
  BY <1>2 DEF ThreadPart, Parts


\* What a step that only moves a thread leaves of its data.
Same(t) == rec'[t] = rec[t] /\ loop'[t] = loop[t] /\ api'[t] = api[t]

\* The shared data that what holds of a thread depends on.
Shared == enable' = enable /\ (size' > 0 <=> size > 0) /\ UNCHANGED countVars

LEMMA ThreadSteps ==
  ASSUME TypeOK, TypeOK', ListPart, ThreadPart, ExitPart, SizePart, NEW t \in Thread,
         UNCHANGED havePapi,
         \/ (\/ InitThread(t) \/ InsertLocked(t) \/ GrowUnlocked(t) \/ StoreUnlocked(t)
             \/ BumpUnlocked(t) \/ InsertRefused(t) \/ Exit(t)
             \/ FiniProcessSkipped(t) \/ FiniProcessExec(t) \/ Write(t) \/ Exec(t))
              /\ UNCHANGED apiVars
         \/ ApiCrash(t)
  PROVE  ThreadPart'
<1>0. /\ LocalPart(t) /\ RecordPart(t) /\ SelfPart(t) /\ CaliperPart(t) /\ StartedPart(t)
      /\ rec[t] \in Record /\ rec[t].closed \in Nat /\ rec[t].used \in Nat /\ rec[t].depth \in -1 .. 1
      /\ size \in Nat /\ size' \in Nat /\ num \in Nat
      /\ eventcnt \in Int /\ eventcnt' \in Int /\ pc[t] \in Loc /\ main' = main
  <2>1. /\ LocalPart(t) /\ RecordPart(t) /\ SelfPart(t) /\ CaliperPart(t) /\ StartedPart(t)
    BY DEF ThreadPart
  <2>2. rec[t] \in Record /\ rec[t].closed \in Nat /\ rec[t].used \in Nat /\ rec[t].depth \in -1 .. 1
    BY DEF TypeOK, Record
  <2>3. /\ size \in Nat /\ size' \in Nat /\ num \in Nat
        /\ eventcnt \in Int /\ eventcnt' \in Int /\ pc[t] \in Loc
    BY LenProperties DEF TypeOK
  <2>4. main' = main
    BY DEF InitThread, InsertLocked, GrowUnlocked, StoreUnlocked, BumpUnlocked, InsertRefused,
           Exit, FiniProcessSkipped, FiniProcessExec, Write, Exec, ApiCrash
  <2> QED
    BY <2>1, <2>2, <2>3, <2>4
<1>1. CASE InitThread(t) /\ UNCHANGED apiVars
  <2>0. pc[t] = "none" /\ Shared /\ (enable = "self" /\ size = 0 => havePapi)
    <3>1. PICK u \in Thread : pc[u] = "run"
      BY <1>1 DEF InitThread
    <3>2. enable = "self" /\ size = 0 => havePapi
      BY <3>1 DEF ThreadPart, SelfPart
    <3> QED
      BY <1>1, <3>2 DEF InitThread, Shared, eventVars, countVars, tableVars
  <2>1. /\ loop'[t] = loop[t] /\ api'[t] = api[t]
        /\ rec[t] = NoRecord
        /\ IF enable = "self" THEN pc'[t] = "insert" /\ rec'[t] = NewRecord
                              ELSE pc'[t] = "run" /\ rec'[t] = NoRecord
    <3>1. loop'[t] = loop[t] /\ api'[t] = api[t] /\ rec[t] = NoRecord
      BY <1>0, <1>1 DEF InitThread, LocalPart, apiVars
    <3>2. CASE enable = "self"
      <4>1. pc' = [pc EXCEPT ![t] = "insert"] /\ rec' = [rec EXCEPT ![t] = NewRecord]
        BY <1>1, <3>2 DEF InitThread, Goto
      <4> QED
        BY <3>1, <3>2, <4>1 DEF TypeOK
    <3>3. CASE enable # "self"
      <4>1. pc' = [pc EXCEPT ![t] = "run"] /\ rec' = rec
        BY <1>1, <3>3 DEF InitThread, Goto
      <4> QED
        BY <3>1, <3>3, <4>1 DEF TypeOK
    <3> QED
      BY <3>2, <3>3
  <2>2. Quiet(t)
    BY <1>1 DEF TypeOK, InitThread, Goto, Quiet, apiVars
  <2>3. Calm
    BY <1>0, <2>0 DEF Calm, Shared, countVars
  <2>4. Parts(t)'
    <3>1. LocalPart(t)'
      <4>1. loop'[t].cnt <= Len(Wanted) /\ pc'[t] \in {"insert", "run"}
        BY <1>0, <2>1 DEF LocalPart
      <4> QED
        BY <1>0, <2>0, <2>1, <4>1 DEF LocalPart, InitLoc, SetUpLoc, LoopLoc, Shared
    <3>2. RecordPart(t)'
      BY <1>0, <2>0, <2>1, Fields DEF RecordPart, InitLoc, SetUpLoc, LoopLoc, Shared
    <3>3. SelfPart(t)'
      BY <1>0, <2>0, <2>1, Fields DEF SelfPart, LocalPart, Shared
    <3>4. CaliperPart(t)'
      BY <1>0, <2>0, <2>1, Fields DEF CaliperPart, Shared
    <3>5. StartedPart(t)'
      BY <1>0, <2>0, <2>1, Fields DEF StartedPart, LoopLoc, Shared, countVars
    <3> QED
      BY <3>1, <3>2, <3>3, <3>4, <3>5 DEF Parts
  <2> QED
    BY <2>2, <2>3, <2>4, OthersKept
<1>2. CASE InsertLocked(t) /\ UNCHANGED apiVars
  <2>0. pc[t] = "insert" /\ havePapi /\ Shared
    <3>1. pc[t] = "insert" /\ havePapi /\ enable' = enable /\ eventcnt' = eventcnt /\ size' = NewSize
      BY <1>2 DEF InsertLocked, eventVars, countVars
    <3>2. NewSize > 0 <=> size > 0
      BY <1>0 DEF NewSize
    <3>3. UNCHANGED countVars
      BY <1>2 DEF InsertLocked, eventVars
    <3> QED
      BY <3>1, <3>2, <3>3 DEF Shared
  <2>1. pc'[t] \in {"create", "crash"} /\ Same(t)
    BY <1>2 DEF TypeOK, InsertLocked, Goto, Same, apiVars
  <2>2. Quiet(t)
    <3>1. UNCHANGED <<main, rec, loop, api>> /\ (Goto(t, "create") \/ Goto(t, "crash"))
      BY <1>2 DEF InsertLocked, apiVars
    <3> QED
      BY <3>1 DEF TypeOK, Quiet, Goto
  <2>3. Calm
    BY <1>0, <2>0 DEF Calm, Shared, countVars
  <2>4. Parts(t)'
    <3>1. LocalPart(t)'
      BY <1>0, <2>0, <2>1 DEF LocalPart, InitLoc, SetUpLoc, LoopLoc, Same, Shared
    <3>2. RecordPart(t)'
      BY <1>0, <2>0, <2>1 DEF RecordPart, InitLoc, SetUpLoc, LoopLoc, Same, Shared
    <3>3. SelfPart(t)'
      BY <1>0, <2>0, <2>1 DEF SelfPart, Same, Shared
    <3>4. CaliperPart(t)'
      BY <1>0, <2>0, <2>1 DEF CaliperPart, Same, Shared
    <3>5. StartedPart(t)'
      BY <1>0, <2>0, <2>1 DEF StartedPart, LoopLoc, Same, Shared, countVars
    <3> QED
      BY <3>1, <3>2, <3>3, <3>4, <3>5 DEF Parts
  <2> QED
    BY <2>2, <2>3, <2>4, OthersKept
<1>3. CASE GrowUnlocked(t) /\ UNCHANGED apiVars
  <2>0. pc[t] = "insert" /\ ~havePapi /\ Shared
    <3>1. pc[t] = "insert" /\ ~havePapi /\ enable' = enable /\ eventcnt' = eventcnt /\ size' = NewSize
      BY <1>3 DEF GrowUnlocked, eventVars, countVars
    <3>2. size > 0 /\ size' > 0
      BY <1>0, <3>1, Growth DEF RecordPart, InitLoc, SetUpLoc, LoopLoc
    <3>3. UNCHANGED countVars
      BY <1>3 DEF GrowUnlocked, eventVars
    <3> QED
      BY <3>1, <3>2, <3>3 DEF Shared
  <2>1. pc'[t] = "store" /\ Same(t)
    BY <1>3 DEF TypeOK, GrowUnlocked, Goto, Same, apiVars
  <2>2. Quiet(t)
    <3>1. UNCHANGED <<main, rec, loop, api>> /\ Goto(t, "store")
      BY <1>3 DEF GrowUnlocked, apiVars
    <3> QED
      BY <3>1 DEF TypeOK, Quiet, Goto
  <2>3. Calm
    BY <1>0, <2>0 DEF Calm, Shared, countVars
  <2>4. Parts(t)'
    <3>1. LocalPart(t)'
      BY <1>0, <2>0, <2>1 DEF LocalPart, InitLoc, SetUpLoc, LoopLoc, Same, Shared
    <3>2. RecordPart(t)'
      BY <1>0, <2>0, <2>1 DEF RecordPart, InitLoc, SetUpLoc, LoopLoc, Same, Shared
    <3>3. SelfPart(t)'
      BY <1>0, <2>0, <2>1 DEF SelfPart, Same, Shared
    <3>4. CaliperPart(t)'
      BY <1>0, <2>0, <2>1 DEF CaliperPart, Same, Shared
    <3>5. StartedPart(t)'
      BY <1>0, <2>0, <2>1 DEF StartedPart, LoopLoc, Same, Shared, countVars
    <3> QED
      BY <3>1, <3>2, <3>3, <3>4, <3>5 DEF Parts
  <2> QED
    BY <2>2, <2>3, <2>4, OthersKept
<1>4. CASE StoreUnlocked(t) /\ UNCHANGED apiVars
  <2>0. pc[t] = "store" /\ Shared
    BY <1>4 DEF StoreUnlocked, Shared, eventVars, countVars
  <2>1. /\ pc'[t] \in {"bump", "crash"} /\ rec'[t] = rec[t] /\ loop'[t].cnt = loop[t].cnt
        /\ api'[t] = api[t]
    BY <1>4 DEF TypeOK, Locals, StoreUnlocked, Goto, apiVars
  <2>2. Quiet(t)
    BY <1>4 DEF TypeOK, StoreUnlocked, Goto, Quiet, apiVars
  <2>3. Calm
    BY <1>0, <2>0 DEF Calm, Shared, countVars
  <2>4. Parts(t)'
    <3>1. LocalPart(t)'
      <4>1. loop'[t].cnt <= Len(Wanted)
        BY <1>0, <2>1 DEF LocalPart
      <4> QED
        BY <1>0, <2>0, <2>1, <4>1 DEF LocalPart, InitLoc, SetUpLoc, LoopLoc, Shared
    <3>2. RecordPart(t)'
      BY <1>0, <2>0, <2>1 DEF RecordPart, InitLoc, SetUpLoc, LoopLoc, Shared
    <3>3. SelfPart(t)'
      BY <1>0, <2>0, <2>1 DEF SelfPart, Shared
    <3>4. CaliperPart(t)'
      BY <1>0, <2>0, <2>1 DEF CaliperPart, Shared
    <3>5. StartedPart(t)'
      BY <1>0, <2>0, <2>1 DEF StartedPart, LoopLoc, Shared, countVars
    <3> QED
      BY <3>1, <3>2, <3>3, <3>4, <3>5 DEF Parts
  <2> QED
    BY <2>2, <2>3, <2>4, OthersKept
<1>5. CASE BumpUnlocked(t) /\ UNCHANGED apiVars
  <2>0. pc[t] = "bump" /\ ~havePapi /\ Shared
    BY <1>0, <1>5 DEF BumpUnlocked, LocalPart, Shared, eventVars, countVars
  <2>1. /\ pc'[t] = "start" /\ rec'[t] = rec[t] /\ loop'[t] = NoLoop
        /\ api'[t] = api[t]
    BY <1>5 DEF TypeOK, BumpUnlocked, Goto, apiVars
  <2>2. Quiet(t)
    BY <1>5 DEF TypeOK, BumpUnlocked, Goto, Quiet, apiVars
  <2>3. Calm
    BY <1>0, <2>0 DEF Calm, Shared, countVars
  <2>4. Parts(t)'
    <3>1. LocalPart(t)'
      BY <1>0, <2>0, <2>1, Fields, CodesInit DEF LocalPart, InitLoc, SetUpLoc, LoopLoc, Shared
    <3>2. RecordPart(t)'
      BY <1>0, <2>0, <2>1 DEF RecordPart, InitLoc, SetUpLoc, LoopLoc, Shared
    <3>3. SelfPart(t)'
      BY <1>0, <2>0, <2>1 DEF SelfPart, Shared
    <3>4. CaliperPart(t)'
      BY <1>0, <2>0, <2>1 DEF CaliperPart, Shared
    <3>5. StartedPart(t)'
      BY <1>0, <2>0, <2>1 DEF StartedPart, LoopLoc, Shared, countVars
    <3> QED
      BY <3>1, <3>2, <3>3, <3>4, <3>5 DEF Parts
  <2> QED
    BY <2>2, <2>3, <2>4, OthersKept
<1>6. CASE InsertRefused(t) /\ UNCHANGED apiVars
  <2>0. pc[t] = "insert" /\ havePapi /\ size = 0 /\ Shared
    BY <1>6 DEF InsertRefused, Shared, eventVars, tableVars
  <2>1. /\ pc'[t] = "run" /\ rec'[t] = NoRecord
        /\ loop'[t] = loop[t] /\ api'[t] = api[t]
    BY <1>6 DEF TypeOK, InsertRefused, Goto, apiVars
  <2>2. Quiet(t)
    BY <1>6 DEF TypeOK, InsertRefused, Goto, Quiet, apiVars
  <2>3. Calm
    BY <1>0, <2>0 DEF Calm, Shared, countVars
  <2>4. Parts(t)'
    <3>1. LocalPart(t)'
      BY <1>0, <2>0, <2>1 DEF LocalPart, InitLoc, SetUpLoc, LoopLoc, Shared
    <3>2. RecordPart(t)'
      BY <1>0, <2>0, <2>1, Fields DEF RecordPart, InitLoc, SetUpLoc, LoopLoc, Shared
    <3>3. SelfPart(t)'
      BY <1>0, <2>0, <2>1, Fields DEF SelfPart, Shared
    <3>4. CaliperPart(t)'
      BY <1>0, <2>0, <2>1, Fields DEF CaliperPart, LocalPart, InitLoc, Shared
    <3>5. StartedPart(t)'
      BY <1>0, <2>0, <2>1, Fields DEF StartedPart, LoopLoc, Shared, countVars
    <3> QED
      BY <3>1, <3>2, <3>3, <3>4, <3>5 DEF Parts
  <2> QED
    BY <2>2, <2>3, <2>4, OthersKept
<1>7. CASE Exit(t) /\ UNCHANGED apiVars
  <2>0. pc[t] = "run" /\ Shared
    BY <1>0, <1>7 DEF Exit, Shared, eventVars, countVars, tableVars, AtFiniProcess, AppRuns, apiVars
  <2>1. pc'[t] = "run" /\ Same(t)
    BY <1>7 DEF TypeOK, Exit, Goto, Same, apiVars
  <2>2. Quiet(t)
    BY <1>7 DEF TypeOK, Exit, Goto, Quiet, apiVars
  <2>3. Calm
    BY <1>0, <2>0 DEF Calm, Shared, countVars
  <2>4. Parts(t)'
    <3>1. LocalPart(t)'
      BY <1>0, <2>0, <2>1 DEF LocalPart, InitLoc, SetUpLoc, LoopLoc, Same, Shared
    <3>2. RecordPart(t)'
      BY <1>0, <2>0, <2>1 DEF RecordPart, InitLoc, SetUpLoc, LoopLoc, Same, Shared
    <3>3. SelfPart(t)'
      BY <1>0, <2>0, <2>1 DEF SelfPart, Same, Shared
    <3>4. CaliperPart(t)'
      BY <1>0, <2>0, <2>1 DEF CaliperPart, Same, Shared
    <3>5. StartedPart(t)'
      BY <1>0, <2>0, <2>1 DEF StartedPart, LoopLoc, Same, Shared, countVars
    <3> QED
      BY <3>1, <3>2, <3>3, <3>4, <3>5 DEF Parts
  <2> QED
    BY <2>2, <2>3, <2>4, OthersKept
<1>8. CASE FiniProcessSkipped(t) /\ UNCHANGED apiVars
  <2>0. pc[t] \in {"run", "last"} /\ enable' \in {"off", "other"} /\ enable' \in {enable, "off"}
        /\ (size' > 0 <=> size > 0) /\ UNCHANGED countVars
    <3>1. enable' \in {"off", "other"} /\ enable' \in {enable, "off"}
      BY <1>8 DEF FiniProcessSkipped, TypeOK
    <3> QED
      BY <1>8, <3>1 DEF FiniProcessSkipped, AtFiniProcess, eventVars, countVars, tableVars
  <2>1. pc'[t] = "over" /\ Same(t)
    BY <1>8 DEF TypeOK, FiniProcessSkipped, Goto, Same, apiVars
  <2>2. Quiet(t)
    BY <1>8 DEF TypeOK, FiniProcessSkipped, Goto, Quiet, apiVars
  <2>3. Calm
    BY <1>0, <2>0 DEF Calm, Shared, countVars
  <2>4. Parts(t)'
    <3>1. LocalPart(t)'
      BY <1>0, <2>0, <2>1 DEF LocalPart, InitLoc, SetUpLoc, LoopLoc, Same, Shared
    <3>2. RecordPart(t)'
      BY <1>0, <2>0, <2>1 DEF RecordPart, InitLoc, SetUpLoc, LoopLoc, Same, Shared
    <3>3. SelfPart(t)'
      BY <1>0, <2>0, <2>1 DEF SelfPart, Same, Shared
    <3>4. CaliperPart(t)'
      BY <1>0, <2>0, <2>1 DEF CaliperPart, Same, Shared
    <3>5. StartedPart(t)'
      BY <1>0, <2>0, <2>1 DEF StartedPart, LoopLoc, Same, Shared, countVars
    <3> QED
      BY <3>1, <3>2, <3>3, <3>4, <3>5 DEF Parts
  <2> QED
    BY <2>2, <2>3, <2>4, OthersKept
<1>9. CASE FiniProcessExec(t) /\ UNCHANGED apiVars
  <2>0. pc[t] \in {"run", "last"} /\ enable' \in {"off", "other"} /\ enable' \in {enable, "off"}
        /\ (size' > 0 <=> size > 0) /\ UNCHANGED countVars
    BY <1>0, <1>9 DEF FiniProcessExec, Shared, eventVars, countVars, tableVars, AtFiniProcess, AppRuns, apiVars
  <2>1. pc'[t] = "exec" /\ Same(t)
    BY <1>9 DEF TypeOK, FiniProcessExec, Goto, Same, apiVars
  <2>2. Quiet(t)
    BY <1>9 DEF TypeOK, FiniProcessExec, Goto, Quiet, apiVars
  <2>3. Calm
    BY <1>0, <2>0 DEF Calm, Shared, countVars
  <2>4. Parts(t)'
    <3>1. LocalPart(t)'
      BY <1>0, <2>0, <2>1 DEF LocalPart, InitLoc, SetUpLoc, LoopLoc, Same, Shared
    <3>2. RecordPart(t)'
      BY <1>0, <2>0, <2>1 DEF RecordPart, InitLoc, SetUpLoc, LoopLoc, Same, Shared
    <3>3. SelfPart(t)'
      BY <1>0, <2>0, <2>1 DEF SelfPart, Same, Shared
    <3>4. CaliperPart(t)'
      BY <1>0, <2>0, <2>1 DEF CaliperPart, Same, Shared
    <3>5. StartedPart(t)'
      BY <1>0, <2>0, <2>1 DEF StartedPart, LoopLoc, Same, Shared, countVars
    <3> QED
      BY <3>1, <3>2, <3>3, <3>4, <3>5 DEF Parts
  <2> QED
    BY <2>2, <2>3, <2>4, OthersKept
<1>10. CASE Write(t) /\ UNCHANGED apiVars
  <2>0. pc[t] = "write" /\ enable' \in {"off", "other"} /\ enable' \in {enable, "off"}
        /\ (size' > 0 <=> size > 0) /\ UNCHANGED countVars
    BY <1>0, <1>10 DEF Write, Shared, eventVars, countVars, tableVars, AtFiniProcess, AppRuns, apiVars
  <2>1. pc'[t] = "over" /\ Same(t)
    BY <1>10 DEF TypeOK, Write, Goto, Same, apiVars
  <2>2. Quiet(t)
    BY <1>10 DEF TypeOK, Write, Goto, Quiet, apiVars
  <2>3. Calm
    BY <1>0, <2>0 DEF Calm, Shared, countVars
  <2>4. Parts(t)'
    <3>1. LocalPart(t)'
      BY <1>0, <2>0, <2>1 DEF LocalPart, InitLoc, SetUpLoc, LoopLoc, Same, Shared
    <3>2. RecordPart(t)'
      BY <1>0, <2>0, <2>1 DEF RecordPart, InitLoc, SetUpLoc, LoopLoc, Same, Shared
    <3>3. SelfPart(t)'
      BY <1>0, <2>0, <2>1 DEF SelfPart, Same, Shared
    <3>4. CaliperPart(t)'
      BY <1>0, <2>0, <2>1 DEF CaliperPart, Same, Shared
    <3>5. StartedPart(t)'
      BY <1>0, <2>0, <2>1 DEF StartedPart, LoopLoc, Same, Shared, countVars
    <3> QED
      BY <3>1, <3>2, <3>3, <3>4, <3>5 DEF Parts
  <2> QED
    BY <2>2, <2>3, <2>4, OthersKept
<1>11. CASE Exec(t) /\ UNCHANGED apiVars
  <2>0. pc[t] = "exec" /\ Shared
    BY <1>0, <1>11 DEF Exec, Shared, eventVars, countVars, tableVars, AtFiniProcess, AppRuns, apiVars
  <2>1. pc'[t] \in {"replaced", "over"} /\ Same(t)
    BY <1>11 DEF TypeOK, Exec, Goto, Same, apiVars
  <2>2. Quiet(t)
    BY <1>11 DEF TypeOK, Exec, Goto, Quiet, apiVars
  <2>3. Calm
    BY <1>0, <2>0 DEF Calm, Shared, countVars
  <2>4. Parts(t)'
    <3>1. LocalPart(t)'
      BY <1>0, <2>0, <2>1 DEF LocalPart, InitLoc, SetUpLoc, LoopLoc, Same, Shared
    <3>2. RecordPart(t)'
      BY <1>0, <2>0, <2>1 DEF RecordPart, InitLoc, SetUpLoc, LoopLoc, Same, Shared
    <3>3. SelfPart(t)'
      BY <1>0, <2>0, <2>1 DEF SelfPart, Same, Shared
    <3>4. CaliperPart(t)'
      BY <1>0, <2>0, <2>1 DEF CaliperPart, Same, Shared
    <3>5. StartedPart(t)'
      BY <1>0, <2>0, <2>1 DEF StartedPart, LoopLoc, Same, Shared, countVars
    <3> QED
      BY <3>1, <3>2, <3>3, <3>4, <3>5 DEF Parts
  <2> QED
    BY <2>2, <2>3, <2>4, OthersKept
<1>12. CASE ApiCrash(t)
  <2>0. pc[t] \in {"run", "finished"} /\ ~rec[t].bound /\ Shared
    BY <1>0, <1>12 DEF ApiCrash, Shared, eventVars, countVars, tableVars, AtFiniProcess, AppRuns, apiVars
  <2>1. pc'[t] = "crash" /\ Same(t)
    BY <1>12 DEF TypeOK, ApiCrash, Goto, Same, apiVars
  <2>2. Quiet(t)
    BY <1>12 DEF TypeOK, ApiCrash, Goto, Quiet, apiVars
  <2>3. Calm
    BY <1>0, <2>0 DEF Calm, Shared, countVars
  <2>4. Parts(t)'
    <3>1. LocalPart(t)'
      BY <1>0, <2>0, <2>1 DEF LocalPart, InitLoc, SetUpLoc, LoopLoc, Same, Shared
    <3>2. RecordPart(t)'
      BY <1>0, <2>0, <2>1 DEF RecordPart, InitLoc, SetUpLoc, LoopLoc, Same, Shared
    <3>3. SelfPart(t)'
      BY <1>0, <2>0, <2>1 DEF SelfPart, Same, Shared
    <3>4. CaliperPart(t)'
      BY <1>0, <2>0, <2>1 DEF CaliperPart, Same, Shared
    <3>5. StartedPart(t)'
      BY <1>0, <2>0, <2>1 DEF StartedPart, LoopLoc, Same, Shared, countVars
    <3> QED
      BY <3>1, <3>2, <3>3, <3>4, <3>5 DEF Parts
  <2> QED
    BY <2>2, <2>3, <2>4, OthersKept
<1> QED
  BY <1>1, <1>2, <1>3, <1>4, <1>5, <1>6, <1>7, <1>8, <1>9, <1>10, <1>11, <1>12

LEMMA RecordSteps ==
  ASSUME TypeOK, TypeOK', ListPart, ListPart', ThreadPart, ExitPart, SizePart, NEW t \in Thread,
         UNCHANGED havePapi,
         \/ (\/ SetUp(t) \/ Start(t)
             \/ FiniThread(t) \/ FiniProcess(t)) /\ UNCHANGED apiVars
         \/ ApiStart(t) \/ ApiStop(t) \/ ApiReturn(t)
  PROVE  ThreadPart'
<1>0. /\ LocalPart(t) /\ RecordPart(t) /\ SelfPart(t) /\ CaliperPart(t) /\ StartedPart(t)
      /\ rec[t] \in Record /\ rec[t].closed \in Nat /\ rec[t].used \in Nat /\ rec[t].depth \in -1 .. 1
      /\ (rec[t].depth < 0 => rec[t].torn)
      /\ size \in Nat /\ size' \in Nat /\ num \in Nat /\ api[t] \in {"none", "start", "stop"}
      /\ eventcnt \in Int /\ eventcnt' \in Int /\ pc[t] \in Loc /\ main' = main
      /\ loop[t] \in Locals /\ loop[t].err \in Nat
  <2>1. /\ LocalPart(t) /\ RecordPart(t) /\ SelfPart(t) /\ CaliperPart(t) /\ StartedPart(t)
    BY DEF ThreadPart
  <2>2. /\ rec[t] \in Record /\ rec[t].closed \in Nat /\ rec[t].used \in Nat /\ rec[t].depth \in -1 .. 1
        /\ (rec[t].depth < 0 => rec[t].torn)
    BY DEF TypeOK, Record
  <2>3. /\ size \in Nat /\ size' \in Nat /\ num \in Nat /\ api[t] \in {"none", "start", "stop"}
        /\ eventcnt \in Int /\ eventcnt' \in Int /\ pc[t] \in Loc
        /\ loop[t] \in Locals /\ loop[t].err \in Nat
    BY LenProperties DEF TypeOK, Locals
  <2>4. main' = main
    BY DEF SetUp, Start, FiniThread, FiniProcess, ApiStart,
           ApiStop, ApiReturn
  <2> QED
    BY <2>1, <2>2, <2>3, <2>4
<1>1. CASE SetUp(t) /\ UNCHANGED apiVars
  <2>0. /\ pc[t] \in SetUpLoc /\ pc'[t] \in SetUpLoc \cup {"start"}
        /\ pc' \in [Thread -> Loc] /\ Others(pc, pc', t) /\ Others(rec, rec', t)
        /\ SameBut(rec'[t], rec[t], {"evset"}) /\ rec'[t].evset \in {rec[t].evset, "own"}
        /\ pc'[t] = "papiStart" => rec'[t].evset = "own"
        /\ UNCHANGED <<main, enable, tableVars, exitVars>>
    BY <1>1, SetUpRecord
  <2>1. /\ Others(loop, loop', t)
        /\ loop'[t].cnt <= Len(Wanted)
        /\ pc'[t] \in {"seek", "code", "name"} => loop'[t].j # 0
        /\ pc'[t] \in {"code", "name"} => loop'[t].j <= Len(Wanted)
        /\ pc'[t] \notin LoopLoc => loop'[t] = NoLoop
    BY <1>0, <1>1, SetUpLoop
  <2>2. ~dropped' => ~dropped /\ (eventcnt > 0 => eventcnt' > 0)
    BY <1>0, <1>1, SetUpList
  <2>3. Quiet(t) /\ api'[t] = api[t] /\ havePapi' = havePapi
    BY <1>1, <2>0, <2>1 DEF Quiet, Others, apiVars
  <2>4. enable' = enable /\ size' = size
    BY <2>0 DEF tableVars
  <2>5. Calm
    BY <2>2, <2>4 DEF Calm
  <2>6. Parts(t)'
    <3>1. LocalPart(t)'
      BY <1>0, <2>0, <2>1, <2>3 DEF LocalPart, InitLoc, SetUpLoc, LoopLoc
    <3>2. RecordPart(t)'
      BY <1>0, <2>0, <2>3, <2>4 DEF RecordPart, LocalPart, InitLoc, SetUpLoc, LoopLoc, SameBut
    <3>3. SelfPart(t)'
      BY <1>0, <2>0, <2>3, <2>4 DEF SelfPart, SetUpLoc, LoopLoc, SameBut
    <3>4. CaliperPart(t)'
      BY <1>0, <2>0, <2>3 DEF CaliperPart, RecordPart, LocalPart, InitLoc, SetUpLoc, LoopLoc, SameBut
    <3>5. StartedPart(t)'
      <4>1. SUFFICES ASSUME havePapi, ~dropped'
                     PROVE  /\ eventcnt' > 0
                            /\ pc'[t] \in LoopLoc \ {"addEvent", "zero", "assign"} => loop'[t].cnt > 0
                            /\ pc'[t] \in {"papiStart", "start"} => rec'[t].evset = "own"
                            /\ pc'[t] # "run" /\ rec'[t].closed = 0
        BY <2>3 DEF StartedPart
      <4>2. eventcnt > 0 /\ eventcnt' > 0
        BY <1>0, <2>2, <4>1 DEF StartedPart
      <4>3. pc'[t] \in LoopLoc \ {"addEvent", "zero", "assign"} => loop'[t].cnt > 0
        BY <1>0, <1>1, <4>1, <4>2, SetUpLoop
      <4>4. pc'[t] = "start" => rec'[t].evset = "own"
        <5>1. SUFFICES ASSUME pc'[t] = "start" PROVE rec'[t].evset = "own"
          OBVIOUS
        <5>2. pc[t] = "papiStart"
          <6>1. pc[t] # "test"
            BY <1>0, <1>1, <4>1, <5>1, SetUpLoop
          <6>2. pc \in [Thread -> Loc] /\ t \in Thread
            BY DEF TypeOK
          <6>3. \/ PapiStart(t) \/ pc'[t] # "start"
            BY <1>1, <5>1, <6>1, <6>2 DEF SetUp, CreateEventset, EventAdded, EventRefused,
               EventZeroed, EventsDone, AllRefused, SomeAdded, Round, Seek, CopyCode, CopyName,
               Subtract, Assign, Test, Goto
          <6> QED
            BY <5>1, <6>3 DEF PapiStart
        <5>3. rec[t].evset = "own"
          BY <1>0, <2>2, <4>1, <5>2 DEF StartedPart
        <5> QED
          BY <2>0, <5>3
      <4>5. pc'[t] # "run" /\ rec'[t].closed = 0
        BY <1>0, <2>0 DEF RecordPart, InitLoc, SetUpLoc, LoopLoc, SameBut
      <4> QED
        BY <2>0, <4>2, <4>3, <4>4, <4>5
    <3> QED
      BY <3>1, <3>2, <3>3, <3>4, <3>5 DEF Parts
  <2> QED
    BY <2>3, <2>5, <2>6, OthersKept
<1>4. CASE Start(t) /\ UNCHANGED apiVars
  <2>0. pc[t] = "start" /\ Shared
    BY <1>0, <1>4 DEF Start, Shared, eventVars, countVars, tableVars, apiVars
  <2>1. /\ pc'[t] = "run" /\ api'[t] = api[t] /\ loop'[t] = loop[t]
        /\ SameBut(rec'[t], rec[t], {"depth"}) /\ rec'[t].depth \in 0 .. 1
        /\ havePapi /\ eventcnt > 0 /\ rec[t].evset = "own" => rec'[t].depth = 1
    <3>1. pc'[t] = "run" /\ api'[t] = api[t] /\ loop'[t] = loop[t]
      BY <1>4 DEF Start, Goto, TypeOK, apiVars
    <3> QED
      BY <1>0, <1>4, <3>1, StartedEffect
  <2>2. Quiet(t)
    BY <1>0, <1>4, StartedEffect DEF TypeOK, Start, Goto, Quiet, Others, apiVars, eventVars, countVars
  <2>3. Calm
    BY <1>0, <2>0 DEF Calm, Shared, countVars
  <2>4. Parts(t)'
    <3>1. LocalPart(t)'
      BY <1>0, <2>0, <2>1 DEF LocalPart, InitLoc, SetUpLoc, LoopLoc, Shared, SameBut
    <3>2. RecordPart(t)'
      BY <1>0, <2>0, <2>1 DEF RecordPart, InitLoc, SetUpLoc, LoopLoc, Shared, SameBut
    <3>3. SelfPart(t)'
      BY <1>0, <2>0, <2>1 DEF SelfPart, Shared, SameBut
    <3>4. CaliperPart(t)'
      BY <1>0, <2>0, <2>1 DEF CaliperPart, Shared, SameBut, RecordPart, LocalPart, InitLoc, SetUpLoc, LoopLoc
    <3>5. StartedPart(t)'
      BY <1>0, <2>0, <2>1 DEF StartedPart, LoopLoc, countVars, Shared, SameBut, RecordPart, InitLoc
    <3> QED
      BY <3>1, <3>2, <3>3, <3>4, <3>5 DEF Parts
  <2> QED
    BY <2>2, <2>3, <2>4, OthersKept
<1>5. CASE FiniThread(t) /\ UNCHANGED apiVars
  <2>0. pc[t] = "run" /\ t # main /\ Shared
    BY <1>0, <1>5 DEF FiniThread, Shared, eventVars, countVars, tableVars
  <2>1. /\ pc'[t] \in {"last", "finished"} \cup (IF rec[t].bound THEN {} ELSE {"crash"})
        /\ api'[t] = api[t] /\ loop'[t] = loop[t]
    BY <1>5 DEF FiniThread, Goto, TypeOK, apiVars
  <2>3. Calm
    BY <1>0, <2>0 DEF Calm, Shared, countVars
  <2>4. CASE enable = "self" /\ rec[t].bound
    <3>0. ShutdownThread(t)
      BY <1>5, <2>4 DEF FiniThread
    <3>1. /\ rec'[t].bound = rec[t].bound /\ rec'[t].evset = "mark"
          /\ rec'[t].closed = rec[t].closed + 1
          /\ rec'[t].torn = (rec[t].torn \/ api[t] # "none")
          /\ IF eventcnt > 0 /\ rec[t].depth > 0 /\ rec[t].evset = "own"
             THEN rec'[t].depth = rec[t].depth - 1 /\ rec'[t].used = rec[t].used + 1
             ELSE rec'[t].depth = rec[t].depth /\ rec'[t].used = rec[t].used
          /\ \A u \in Thread \ {t} : rec'[u] = rec[u]
      BY <1>0, <3>0, Shutdown
    <3>2. rec[t].bound /\ rec[t].closed = 0 /\ ~rec[t].torn
      BY <1>0, <2>0, <2>4 DEF RecordPart
    <3>3. rec'[t].torn <=> api[t] # "none"
      BY <3>1, <3>2, Zenon
    <3>4. Quiet(t)
      BY <1>0, <1>5, <3>1 DEF TypeOK, FiniThread, Goto, Quiet, apiVars
    <3>5. LocalPart(t)'
      BY <1>0, <2>0, <2>1, <3>1 DEF LocalPart, InitLoc, SetUpLoc, LoopLoc
    <3>6. RecordPart(t)'
      BY <1>0, <2>0, <2>1, <3>1 DEF RecordPart, InitLoc, SetUpLoc, LoopLoc
    <3>7. SelfPart(t)'
      BY <1>0, <2>0, <2>1, <3>1, <3>2 DEF SelfPart, Shared
    <3>8. CaliperPart(t)'
      BY <1>0, <2>0, <2>1, <3>1, <3>2, <3>3 DEF CaliperPart, RecordPart
    <3>9. StartedPart(t)'
      BY <1>0, <2>0, <2>1, <2>4, <3>1, <3>2, <3>3 DEF StartedPart, LoopLoc, countVars, CaliperPart, Shared
    <3> QED
      BY <2>3, <3>4, <3>5, <3>6, <3>7, <3>8, <3>9, OthersKept DEF Parts
  <2>5. CASE ~(enable = "self" /\ rec[t].bound)
    <3>1. rec' = rec
      BY <1>5, <2>5 DEF FiniThread
    <3>2. Quiet(t)
      BY <1>0, <1>5, <3>1 DEF TypeOK, FiniThread, Goto, Quiet, apiVars
    <3>3. LocalPart(t)' /\ SelfPart(t)'
      BY <1>0, <2>0, <2>1, <2>5, <3>1 DEF LocalPart, SelfPart, Shared, InitLoc, SetUpLoc, LoopLoc
    <3>4. RecordPart(t)' /\ CaliperPart(t)'
      BY <1>0, <2>0, <2>1, <3>1 DEF RecordPart, CaliperPart, InitLoc, SetUpLoc, LoopLoc
    <3>5. StartedPart(t)'
      BY <1>0, <2>0, <2>1, <2>5, <3>1 DEF StartedPart, LoopLoc, countVars, Shared
    <3> QED
      BY <2>3, <3>2, <3>3, <3>4, <3>5, OthersKept DEF Parts
  <2> QED
    BY <2>4, <2>5
<1>6. CASE FiniProcess(t) /\ UNCHANGED apiVars
  <2>0. pc[t] \in {"run", "last"} /\ Shared /\ enable = "self" /\ api[t] = "none"
    BY <1>0, <1>6 DEF FiniProcess, AtFiniProcess, ExitPart, ExitThread, Shared, eventVars, countVars, tableVars
  <2>1. api'[t] = api[t] /\ loop'[t] = loop[t]
    BY <1>6 DEF FiniProcess, apiVars
  <2>3. Calm
    BY <1>0, <2>0 DEF Calm, Shared, countVars
  <2>4. CASE rec[t].bound
    <3>0. ShutdownThread(t) /\ pc'[t] = "write"
      BY <1>6, <2>4 DEF FiniProcess, Goto, TypeOK
    <3>1. /\ rec'[t].bound = rec[t].bound /\ rec'[t].evset = "mark"
          /\ rec'[t].closed = rec[t].closed + 1
          /\ rec'[t].torn = (rec[t].torn \/ api[t] # "none")
          /\ IF eventcnt > 0 /\ rec[t].depth > 0 /\ rec[t].evset = "own"
             THEN rec'[t].depth = rec[t].depth - 1 /\ rec'[t].used = rec[t].used + 1
             ELSE rec'[t].depth = rec[t].depth /\ rec'[t].used = rec[t].used
          /\ \A u \in Thread \ {t} : rec'[u] = rec[u]
      BY <1>0, <3>0, Shutdown
    <3>3. rec'[t].torn <=> rec[t].torn
      BY <2>0, <3>1, Zenon
    <3>4. Quiet(t)
      BY <1>0, <1>6, <2>4, <3>1 DEF TypeOK, FiniProcess, Goto, Quiet, apiVars
    <3>5. LocalPart(t)'
      BY <1>0, <2>0, <2>1, <3>0, <3>1 DEF LocalPart, InitLoc, SetUpLoc, LoopLoc
    <3>6. RecordPart(t)'
      BY <1>0, <2>0, <2>1, <3>0, <3>1 DEF RecordPart, InitLoc, SetUpLoc, LoopLoc
    <3>7. SelfPart(t)'
      BY <1>0, <2>0, <2>1, <2>4, <3>0, <3>1 DEF SelfPart, Shared
    <3>8. CaliperPart(t)'
      BY <1>0, <2>0, <2>1, <3>0, <3>1, <3>3 DEF CaliperPart
    <3>9. StartedPart(t)'
      <4>1. CASE pc[t] = "run"
        BY <1>0, <2>0, <2>1, <2>4, <3>0, <3>1, <3>3, <4>1 DEF StartedPart, LoopLoc, countVars, Shared
      <4>2. CASE pc[t] = "last"
        <5>1. rec[t].closed = 1
          BY <1>0, <2>0, <2>4, <4>2 DEF SelfPart
        <5> QED
          BY <1>0, <2>0, <2>1, <2>4, <3>0, <3>1, <3>3, <5>1 DEF StartedPart, LoopLoc, countVars, Shared
      <4> QED
        BY <2>0, <4>1, <4>2
    <3> QED
      BY <2>3, <3>4, <3>5, <3>6, <3>7, <3>8, <3>9, OthersKept DEF Parts
  <2>5. CASE ~rec[t].bound
    <3>1. rec' = rec /\ pc'[t] = "crash"
      BY <1>6, <2>5 DEF FiniProcess, Goto, TypeOK
    <3>2. Quiet(t)
      BY <1>0, <1>6, <2>5, <3>1 DEF TypeOK, FiniProcess, Goto, Quiet, apiVars
    <3>3. LocalPart(t)'
      BY <1>0, <2>0, <2>1, <3>1 DEF LocalPart, InitLoc, SetUpLoc, LoopLoc
    <3>4. SelfPart(t)'
      BY <1>0, <2>0, <2>1, <2>5, <3>1 DEF SelfPart, Shared
    <3>5. RecordPart(t)' /\ CaliperPart(t)'
      BY <1>0, <2>0, <2>1, <3>1 DEF RecordPart, CaliperPart, InitLoc, SetUpLoc, LoopLoc
    <3>6. StartedPart(t)'
      BY <1>0, <2>0, <2>1, <2>5, <3>1 DEF StartedPart, LoopLoc, countVars, Shared
    <3> QED
      BY <2>3, <3>2, <3>3, <3>4, <3>5, <3>6, OthersKept DEF Parts
  <2> QED
    BY <2>4, <2>5
<1>7. CASE ApiStart(t)
  <2>0. pc[t] \in {"run", "finished"} /\ Shared /\ rec[t].depth = 0 /\ rec[t].bound
        /\ (havePapi => rec[t].evset = "own")
    BY <1>0, <1>7 DEF ApiStart, ApiCall, AppRuns, Readable, Shared, eventVars, countVars, tableVars
  <2>1. /\ pc'[t] = pc[t] /\ rec'[t] = rec[t] /\ loop'[t] = loop[t]
        /\ api'[t] = "start"
    BY <1>7 DEF ApiStart, TypeOK
  <2>2. Quiet(t)
    BY <1>0, <1>7, <2>0 DEF TypeOK, ApiStart, Goto, Quiet, Others, apiVars, eventVars, countVars
  <2>3. Calm
    BY <1>0, <2>0 DEF Calm, Shared, countVars
  <2>4. Parts(t)'
    <3>1. LocalPart(t)'
      BY <1>0, <2>0, <2>1 DEF LocalPart, InitLoc, SetUpLoc, LoopLoc, Shared
    <3>2. RecordPart(t)'
      BY <1>0, <2>0, <2>1 DEF RecordPart, InitLoc, SetUpLoc, LoopLoc, Shared
    <3>3. SelfPart(t)'
      BY <1>0, <2>0, <2>1 DEF SelfPart, Shared
    <3>4. CaliperPart(t)'
      BY <1>0, <2>0, <2>1 DEF CaliperPart, Shared, RecordPart
    <3>5. StartedPart(t)'
      BY <1>0, <2>0, <2>1 DEF StartedPart, LoopLoc, countVars, Shared
    <3> QED
      BY <3>1, <3>2, <3>3, <3>4, <3>5 DEF Parts
  <2> QED
    BY <2>2, <2>3, <2>4, OthersKept
<1>8. CASE ApiStop(t)
  <2>0. pc[t] \in {"run", "finished"} /\ Shared /\ rec[t].depth # 0 /\ rec[t].bound
        /\ (havePapi => rec[t].evset = "own")
    BY <1>0, <1>8 DEF ApiStop, ApiCall, AppRuns, Readable, Shared, eventVars, countVars, tableVars
  <2>1. /\ pc'[t] = pc[t] /\ rec'[t] = rec[t] /\ loop'[t] = loop[t]
        /\ api'[t] = "stop"
    BY <1>8 DEF ApiStop, TypeOK
  <2>2. Quiet(t)
    BY <1>0, <1>8, <2>0 DEF TypeOK, ApiStop, Goto, Quiet, Others, apiVars, eventVars, countVars
  <2>3. Calm
    BY <1>0, <2>0 DEF Calm, Shared, countVars
  <2>4. Parts(t)'
    <3>1. LocalPart(t)'
      BY <1>0, <2>0, <2>1 DEF LocalPart, InitLoc, SetUpLoc, LoopLoc, Shared
    <3>2. RecordPart(t)'
      BY <1>0, <2>0, <2>1 DEF RecordPart, InitLoc, SetUpLoc, LoopLoc, Shared
    <3>3. SelfPart(t)'
      BY <1>0, <2>0, <2>1 DEF SelfPart, Shared
    <3>4. CaliperPart(t)'
      BY <1>0, <2>0, <2>1 DEF CaliperPart, Shared, RecordPart
    <3>5. StartedPart(t)'
      BY <1>0, <2>0, <2>1 DEF StartedPart, LoopLoc, countVars, Shared
    <3> QED
      BY <3>1, <3>2, <3>3, <3>4, <3>5 DEF Parts
  <2> QED
    BY <2>2, <2>3, <2>4, OthersKept
<1>9. CASE ApiReturn(t)
  <2>0. pc[t] \in {"run", "finished"} /\ Shared
    BY <1>0, <1>9 DEF ApiReturn, AppRuns, Shared, eventVars, countVars, tableVars
  <2>1. /\ pc'[t] = pc[t] /\ loop'[t] = loop[t] /\ api'[t] = "none"
        /\ SameBut(rec'[t], rec[t], {"depth", "used"})
        /\ IF api[t] = "start"
           THEN rec[t].depth = 0 /\ rec'[t].depth = 1 /\ rec'[t].used = rec[t].used
           ELSE /\ api[t] = "stop"
                /\ rec'[t].depth = rec[t].depth - 1 /\ rec'[t].used = rec[t].used + 1
    <3>1. pc'[t] = pc[t] /\ loop'[t] = loop[t] /\ api'[t] = "none"
      BY <1>9 DEF ApiReturn, TypeOK
    <3> QED
      BY <1>0, <1>9, <3>1, ReturnEffect
  <2>2. Quiet(t)
    BY <1>0, <1>9, ReturnEffect DEF TypeOK, ApiReturn, Goto, Quiet, Others, apiVars, eventVars, countVars
  <2>3. Calm
    BY <1>0, <2>0 DEF Calm, Shared, countVars
  <2>4. Parts(t)'
    <3>1. LocalPart(t)'
      BY <1>0, <2>0, <2>1 DEF LocalPart, InitLoc, SetUpLoc, LoopLoc, Shared, SameBut
    <3>2. RecordPart(t)'
      BY <1>0, <2>0, <2>1 DEF RecordPart, InitLoc, SetUpLoc, LoopLoc, Shared, SameBut, CaliperPart
    <3>3. SelfPart(t)'
      BY <1>0, <2>0, <2>1 DEF SelfPart, Shared, SameBut
    <3>4. CaliperPart(t)'
      BY <1>0, <2>0, <2>1 DEF CaliperPart, Shared, SameBut
    <3>5. StartedPart(t)'
      BY <1>0, <2>0, <2>1 DEF StartedPart, LoopLoc, countVars, Shared, SameBut, CaliperPart
    <3> QED
      BY <3>1, <3>2, <3>3, <3>4, <3>5 DEF Parts
  <2> QED
    BY <2>2, <2>3, <2>4, OthersKept
<1> QED
  BY <1>1, <1>4, <1>5, <1>6, <1>7, <1>8, <1>9

\* A thread without a trace of itself, as all others are when a process begins.
Untouched(u) ==
    pc[u] = "none" /\ rec[u] = NoRecord /\ loop[u] = NoLoop /\ api[u] = "none"

UntouchedWhole ==
    (havePapi /\ ~dropped => eventcnt > 0)
      => \A u \in Thread : Untouched(u) /\ u # main /\ (enable = "self" /\ size = 0 => havePapi) => Parts(u)

LEMMA UntouchedParts == UntouchedWhole
<1> SUFFICES ASSUME havePapi /\ ~dropped => eventcnt > 0,
                    NEW u \in Thread, Untouched(u), u # main, enable = "self" /\ size = 0 => havePapi
             PROVE  Parts(u)
  BY DEF UntouchedWhole
<1>1. LocalPart(u)
  BY Fields, CodesInit DEF Untouched, LocalPart, InitLoc, SetUpLoc, LoopLoc
<1>2. RecordPart(u)
  BY Fields DEF Untouched, RecordPart, InitLoc, SetUpLoc, LoopLoc
<1>3. SelfPart(u)
  BY Fields DEF Untouched, SelfPart
<1>4. CaliperPart(u)
  BY Fields DEF Untouched, CaliperPart
<1>5. StartedPart(u)
  BY Fields DEF Untouched, StartedPart, LoopLoc
<1> QED
  BY <1>1, <1>2, <1>3, <1>4, <1>5 DEF Parts

LEMMA ProcessSteps ==
  ASSUME TypeOK, TypeOK', ListPart, ThreadPart, BootPart, NEW t \in Thread, UNCHANGED havePapi,
         \/ (InitProcess(t) \/ InitProcessFails(t)) /\ UNCHANGED apiVars
         \/ Fork(t)
  PROVE  ThreadPart'
<1>0. /\ LocalPart(t) /\ RecordPart(t) /\ SelfPart(t) /\ CaliperPart(t) /\ StartedPart(t)
      /\ rec[t] \in Record /\ rec[t].closed \in Nat /\ size \in Nat /\ pc[t] \in Loc
  <2>1. /\ LocalPart(t) /\ RecordPart(t) /\ SelfPart(t) /\ CaliperPart(t) /\ StartedPart(t)
    BY DEF ThreadPart
  <2>2. rec[t] \in Record /\ rec[t].closed \in Nat
    BY DEF TypeOK, Record
  <2>3. size \in Nat /\ pc[t] \in Loc
    BY LenProperties DEF TypeOK
  <2> QED
    BY <2>1, <2>2, <2>3
<1>1. SUFFICES /\ Parts(t)' /\ (havePapi' /\ ~dropped' => eventcnt' > 0)
               /\ \A u \in Thread \ {t} : Untouched(u)' /\ u # main'
               /\ enable' = "self" /\ size' = 0 => havePapi'
  <2>1. UntouchedWhole'
    BY UntouchedParts, PTL
  <2>2. ASSUME NEW u \in Thread
        PROVE  Parts(u)'
    BY <1>1, <2>1 DEF UntouchedWhole
  <2> QED
    BY <2>2 DEF ThreadPart, Parts
<1>2. CASE (InitProcess(t) \/ InitProcessFails(t)) /\ UNCHANGED apiVars
  <2>1. pc[t] = "boot" /\ UNCHANGED <<main, loop, api>>
    BY <1>2 DEF InitProcess, InitProcessFails, apiVars
  <2>2. t = main /\ (\A u \in Thread \ {t} : Untouched(u)) /\ loop[t] = NoLoop
        /\ api[t] = "none"
    <3>1. t = main /\ \A u \in Thread \ {t} : pc[u] = "none"
      BY <2>1 DEF BootPart
    <3> QED
      BY <2>1, <3>1 DEF ThreadPart, LocalPart, Untouched, InitLoc, SetUpLoc, LoopLoc
  <2>3. \A u \in Thread \ {t} : Untouched(u)' /\ u # main'
    <3>1. \A u \in Thread \ {t} : pc'[u] = pc[u] /\ rec'[u] = rec[u]
      BY <1>2 DEF InitProcess, InitProcessFails, Goto, TypeOK
    <3> QED
      BY <2>1, <2>2, <3>1 DEF Untouched
  <2>4. CASE InitProcess(t)
    <3>0. loop'[t] = NoLoop /\ NoLoop.cnt <= Len(Wanted)
      BY <2>1, <2>2, Fields, CodesInit
    <3>1. pc'[t] = "insert" /\ rec'[t] = NewRecord /\ enable' = "self" /\ size' > 0
      BY <2>4, ClientAssumption DEF InitProcess, Goto, TypeOK, OwnPid, FreshTable
    <3>7. ~dropped' => eventcnt' > 0
      <4>1. eventcnt' \in Nat /\ dropped' = (eventcnt' = 0)
        BY <2>4, MappedCount DEF InitProcess
      <4>2. CASE eventcnt' = 0
        BY <4>1, <4>2, Zenon
      <4> QED
        BY <4>1, <4>2
    <3>2. LocalPart(t)'
      BY <2>1, <2>2, <3>0, <3>1, Fields DEF LocalPart, InitLoc, SetUpLoc, LoopLoc
    <3>3. RecordPart(t)'
      BY <2>1, <2>2, <3>1, Fields DEF RecordPart, InitLoc, SetUpLoc, LoopLoc
    <3>4. SelfPart(t)'
      BY <2>1, <2>2, <3>1, Fields DEF SelfPart
    <3>5. CaliperPart(t)'
      BY <2>1, <2>2, <3>1, Fields DEF CaliperPart
    <3>6. StartedPart(t)'
      BY <2>1, <2>2, <3>1, <3>7, Fields DEF StartedPart, LoopLoc
    <3> QED
      BY <2>3, <3>1, <3>2, <3>3, <3>4, <3>5, <3>6, <3>7 DEF Parts
  <2>5. CASE InitProcessFails(t)
    <3>0. loop'[t] = NoLoop /\ NoLoop.cnt <= Len(Wanted)
      BY <2>1, <2>2, Fields, CodesInit
    <3>1. pc'[t] = "run" /\ rec'[t] = rec[t] /\ enable' \in {enable, "off"} /\ size' = 0 /\ havePapi'
      BY <2>5 DEF InitProcessFails, Goto, TypeOK
    <3>8. ~dropped' => eventcnt' > 0
      <4>1. eventcnt' \in Nat /\ dropped' = (eventcnt' = 0)
        BY <2>5, CodesInit DEF InitProcessFails
      <4>2. CASE eventcnt' = 0
        BY <4>1, <4>2, Zenon
      <4> QED
        BY <4>1, <4>2
    <3>2. enable' = "self" => enable = "self" /\ ~rec[t].bound
      BY <1>0, <2>1, <2>2, <2>5 DEF InitProcessFails, SelfPart
    <3>3. LocalPart(t)'
      BY <1>0, <2>1, <2>2, <3>0, <3>1 DEF LocalPart, InitLoc, SetUpLoc, LoopLoc
    <3>4. RecordPart(t)'
      BY <1>0, <2>1, <2>2, <3>1 DEF RecordPart, InitLoc, SetUpLoc, LoopLoc
    <3>5. SelfPart(t)'
      BY <1>0, <2>1, <2>2, <3>1, <3>2 DEF SelfPart
    <3>6. CaliperPart(t)'
      BY <1>0, <2>1, <2>2, <3>1 DEF CaliperPart
    <3>7. StartedPart(t)'
      BY <1>0, <2>1, <2>2, <3>1, <3>2, <3>8 DEF StartedPart, RecordPart, LoopLoc
    <3> QED
      BY <2>3, <3>1, <3>3, <3>4, <3>5, <3>6, <3>7, <3>8 DEF Parts
  <2> QED
    BY <1>2, <2>4, <2>5
<1>3. CASE Fork(t)
  <2>1. /\ pc[t] = "run" /\ pc'[t] \in {"boot", "run"} /\ rec'[t] = rec[t] /\ loop'[t] = NoLoop
        /\ api'[t] = "none" /\ enable' = "other" /\ NoLoop.cnt <= Len(Wanted)
        /\ UNCHANGED countVars /\ main' = t
    BY <1>3, Fields, CodesInit DEF Fork, eventVars
  <2>2. \A u \in Thread \ {t} : Untouched(u)' /\ u # main'
    BY <1>3, <2>1 DEF Fork, Untouched
  <2>3. LocalPart(t)' /\ SelfPart(t)'
    BY <1>0, <2>1 DEF LocalPart, SelfPart, InitLoc, SetUpLoc, LoopLoc
  <2>4. RecordPart(t)'
    BY <1>0, <2>1 DEF RecordPart, InitLoc, SetUpLoc, LoopLoc
  <2>5. CaliperPart(t)'
    BY <1>0, <2>1 DEF CaliperPart
  <2>6. StartedPart(t)'
    BY <1>0, <2>1 DEF StartedPart, RecordPart, LoopLoc, countVars
  <2>7. havePapi' /\ ~dropped' => eventcnt' > 0
    BY <1>0, <2>1 DEF StartedPart, countVars
  <2> QED
    BY <2>1, <2>2, <2>3, <2>4, <2>5, <2>6, <2>7 DEF Parts
<1> QED
  BY <1>2, <1>3
-----------------------------------------------------------------------------
(* The table, the boot, the exit and the rows. *)

\* A process that has not ended has written nothing.
LEMMA NoRowsYet ==
  ASSUME ExitPart, ~Ended
  PROVE  rows.out = <<>>
BY DEF ExitPart

\* While the main thread starts, no other thread has a step.
LEMMA NoBoot ==
  ASSUME BootPart, NEW t \in Thread, pc[t] \notin {"none", "boot"}
  PROVE  \A u \in Thread : pc[u] # "boot"
BY DEF BootPart

\* A step of a thread that has its entry in the table, and keeps it.
Early == {"none", "boot", "insert", "store", "bump"}

LateStep(t) ==
    /\ UNCHANGED <<slots, num, size, raced, main, havePapi>>
    /\ enable' \in {enable, "off"}
    /\ pc[t] \notin Early /\ pc'[t] \notin Early
    /\ \A u \in Thread \ {t} : pc'[u] = pc[u] /\ loop'[u] = loop[u]
    /\ \A u \in Thread : rec'[u].bound <=> rec[u].bound
    /\ (rows'.num = rows.num /\ pc'[t] # "write") \/ rows'.num = num

LEMMA LateKeeps ==
  ASSUME TypeOK, BootPart, SizePart, TablePart, RowsPart, NEW t \in Thread, LateStep(t)
  PROVE  BootPart' /\ SizePart' /\ TablePart' /\ RowsPart'
<1>1. BootPart'
  <2>1. \A u \in Thread : pc[u] # "boot"
    BY NoBoot DEF LateStep, Early
  <2>2. \A u \in Thread : pc'[u] # "boot"
    BY <2>1 DEF LateStep, Early
  <2> QED
    BY <2>2 DEF BootPart
<1>2. SizePart'
  <2>1. ASSUME NEW u \in Thread, pc'[u] \in {"store", "bump"}
        PROVE  u # t /\ pc[u] = pc'[u] /\ loop'[u] = loop[u]
    BY <2>1 DEF LateStep, Early
  <2> QED
    BY <2>1 DEF SizePart, LateStep
<1>3. TablePart'
  <2>1. \A u \in Thread : Entered(u)' <=> Entered(u)
    BY DEF LateStep, Entered, Early
  <2>2. UNCHANGED <<slots, num, size, raced>> /\ (enable' = "self" => enable = "self")
    BY DEF LateStep
  <2>3. CASE enable' = "self" /\ size' > 0 /\ ~raced'
    <3>1. /\ \A i \in 1 .. num : slots[i] \in Thread /\ Entered(slots[i])
          /\ \A i, j \in 1 .. num : slots[i] = slots[j] => i = j
          /\ \A u \in Thread : Entered(u) => \E i \in 1 .. num : slots[i] = u
      BY <2>2, <2>3 DEF TablePart
    <3>2. \A i \in 1 .. num' : slots'[i] \in Thread /\ Entered(slots[i])'
      BY <2>1, <2>2, <3>1
    <3>3. \A u \in Thread : Entered(u)' => \E i \in 1 .. num' : slots'[i] = u
      BY <2>1, <2>2, <3>1
    <3> QED
      BY <2>2, <3>1, <3>2, <3>3 DEF TablePart, Entered
  <2> QED
    BY <2>3 DEF TablePart
<1>4. RowsPart'
  <2>1. rows.num \in Nat /\ num \in Nat
    BY SizeNat DEF TypeOK
  <2> QED
    BY <2>1 DEF RowsPart, LateStep
<1> QED
  BY <1>1, <1>2, <1>3, <1>4

LEMMA StepIsLate ==
  ASSUME TypeOK, TypeOK', ListPart, ThreadPart, ExitPart, NEW t \in Thread, UNCHANGED havePapi,
         \/ (\/ SetUp(t) \/ Start(t) \/ FiniThread(t) \/ Exit(t) \/ FiniProcessSkipped(t)
             \/ FiniProcessExec(t) \/ FiniProcess(t) \/ Write(t) \/ Exec(t)) /\ UNCHANGED apiVars
         \/ ApiStart(t) \/ ApiStop(t) \/ ApiReturn(t) \/ ApiCrash(t)
  PROVE  LateStep(t)
<1>0. /\ LocalPart(t) /\ RecordPart(t) /\ SelfPart(t) /\ CaliperPart(t) /\ pc \in [Thread -> Loc]
      /\ rec \in [Thread -> Record] /\ rows \in [num : Nat, out : Seq(Thread \cup {Null})]
      /\ enable \in {"self", "other", "off"}
  BY DEF ThreadPart, TypeOK
<1>1. CASE SetUp(t) /\ UNCHANGED apiVars
  <2>0. /\ pc[t] \in SetUpLoc /\ pc'[t] \in SetUpLoc \cup {"start"} /\ Others(pc, pc', t)
        /\ Others(rec, rec', t) /\ rec'[t].bound = rec[t].bound
        /\ UNCHANGED <<main, enable, tableVars, exitVars>>
    BY <1>1, SetUpRecord DEF SameBut
  <2>2. \A u \in Thread \ {t} : loop'[u] = loop[u]
    BY <1>0, <1>1, SetUpLoop DEF Others
  <2>3. \A u \in Thread : rec'[u].bound <=> rec[u].bound
    BY <2>0 DEF Others
  <2> QED
    BY <2>0, <2>2, <2>3 DEF LateStep, Others, Early, SetUpLoc, LoopLoc, tableVars, exitVars
<1>5. CASE Start(t) /\ UNCHANGED apiVars
  <2>1. \A u \in Thread : rec'[u].bound <=> rec[u].bound
    <3>1. Others(rec, rec', t) /\ rec'[t].bound = rec[t].bound
      BY <1>0, <1>5, StartedEffect DEF SameBut
    <3> QED
      BY <3>1 DEF Others
  <2>2. \A u \in Thread \ {t} : loop'[u] = loop[u]
    BY <1>5 DEF Start
  <2>3. /\ UNCHANGED <<slots, num, size, raced, main, havePapi>>
        /\ enable' \in {enable, "off"}
    BY <1>0, <1>5 DEF Start, tableVars
  <2>4. /\ pc[t] \notin Early /\ pc'[t] \notin Early
        /\ \A u \in Thread \ {t} : pc'[u] = pc[u]
    BY <1>0, <1>5 DEF Start, Goto, Early, AtFiniProcess, ApiCall, AppRuns
  <2>5. (rows'.num = rows.num /\ pc'[t] # "write") \/ rows'.num = num
    BY <1>0, <1>5 DEF Start, Goto, exitVars, AtFiniProcess, ApiCall, AppRuns
  <2> QED
    BY <2>1, <2>2, <2>3, <2>4, <2>5 DEF LateStep
<1>6. CASE FiniThread(t) /\ UNCHANGED apiVars
  <2>1. \A u \in Thread : rec'[u].bound <=> rec[u].bound
    <3>1. CASE enable = "self" /\ rec[t].bound
      <4>1. ShutdownThread(t)
        BY <1>6, <3>1 DEF FiniThread
      <4>2. rec'[t].bound = rec[t].bound /\ \A u \in Thread \ {t} : rec'[u] = rec[u]
        BY <1>0, <4>1, Shutdown
      <4> QED
        BY <4>2
    <3>2. CASE ~(enable = "self" /\ rec[t].bound)
      BY <1>6, <3>2 DEF FiniThread
    <3> QED
      BY <3>1, <3>2
  <2>2. \A u \in Thread \ {t} : loop'[u] = loop[u]
    BY <1>6 DEF FiniThread
  <2>3. /\ UNCHANGED <<slots, num, size, raced, main, havePapi>>
        /\ enable' \in {enable, "off"}
    BY <1>0, <1>6 DEF FiniThread, tableVars
  <2>4. /\ pc[t] \notin Early /\ pc'[t] \notin Early
        /\ \A u \in Thread \ {t} : pc'[u] = pc[u]
    BY <1>0, <1>6 DEF FiniThread, Goto, Early, AtFiniProcess, ApiCall, AppRuns
  <2>5. (rows'.num = rows.num /\ pc'[t] # "write") \/ rows'.num = num
    BY <1>0, <1>6 DEF FiniThread, Goto, exitVars, AtFiniProcess, ApiCall, AppRuns
  <2> QED
    BY <2>1, <2>2, <2>3, <2>4, <2>5 DEF LateStep
<1>7. CASE Exit(t) /\ UNCHANGED apiVars
  <2>1. \A u \in Thread : rec'[u].bound <=> rec[u].bound
    BY <1>7 DEF Exit
  <2>2. \A u \in Thread \ {t} : loop'[u] = loop[u]
    BY <1>7 DEF Exit
  <2>3. /\ UNCHANGED <<slots, num, size, raced, main, havePapi>>
        /\ enable' \in {enable, "off"}
    BY <1>0, <1>7 DEF Exit, tableVars
  <2>4. /\ pc[t] \notin Early /\ pc'[t] \notin Early
        /\ \A u \in Thread \ {t} : pc'[u] = pc[u]
    BY <1>0, <1>7 DEF Exit, Goto, Early, AtFiniProcess, ApiCall, AppRuns
  <2>5. (rows'.num = rows.num /\ pc'[t] # "write") \/ rows'.num = num
    BY <1>0, <1>7 DEF Exit, Goto, exitVars, AtFiniProcess, ApiCall, AppRuns
  <2> QED
    BY <2>1, <2>2, <2>3, <2>4, <2>5 DEF LateStep
<1>8. CASE FiniProcessSkipped(t) /\ UNCHANGED apiVars
  <2>1. \A u \in Thread : rec'[u].bound <=> rec[u].bound
    BY <1>8 DEF FiniProcessSkipped
  <2>2. \A u \in Thread \ {t} : loop'[u] = loop[u]
    BY <1>8 DEF FiniProcessSkipped
  <2>3. /\ UNCHANGED <<slots, num, size, raced, main, havePapi>>
        /\ enable' \in {enable, "off"}
    BY <1>0, <1>8 DEF FiniProcessSkipped, tableVars
  <2>4. /\ pc[t] \notin Early /\ pc'[t] \notin Early
        /\ \A u \in Thread \ {t} : pc'[u] = pc[u]
    BY <1>0, <1>8 DEF FiniProcessSkipped, Goto, Early, AtFiniProcess, ApiCall, AppRuns
  <2>5. (rows'.num = rows.num /\ pc'[t] # "write") \/ rows'.num = num
    BY <1>0, <1>8 DEF FiniProcessSkipped, Goto, exitVars, AtFiniProcess, ApiCall, AppRuns
  <2> QED
    BY <2>1, <2>2, <2>3, <2>4, <2>5 DEF LateStep
<1>9. CASE FiniProcessExec(t) /\ UNCHANGED apiVars
  <2>1. \A u \in Thread : rec'[u].bound <=> rec[u].bound
    BY <1>9 DEF FiniProcessExec
  <2>2. \A u \in Thread \ {t} : loop'[u] = loop[u]
    BY <1>9 DEF FiniProcessExec
  <2>3. /\ UNCHANGED <<slots, num, size, raced, main, havePapi>>
        /\ enable' \in {enable, "off"}
    BY <1>0, <1>9 DEF FiniProcessExec, tableVars
  <2>4. /\ pc[t] \notin Early /\ pc'[t] \notin Early
        /\ \A u \in Thread \ {t} : pc'[u] = pc[u]
    BY <1>0, <1>9 DEF FiniProcessExec, Goto, Early, AtFiniProcess, ApiCall, AppRuns
  <2>5. (rows'.num = rows.num /\ pc'[t] # "write") \/ rows'.num = num
    BY <1>0, <1>9 DEF FiniProcessExec, Goto, exitVars, AtFiniProcess, ApiCall, AppRuns
  <2> QED
    BY <2>1, <2>2, <2>3, <2>4, <2>5 DEF LateStep
<1>10. CASE FiniProcess(t) /\ UNCHANGED apiVars
  <2>1. \A u \in Thread : rec'[u].bound <=> rec[u].bound
    <3>1. CASE rec[t].bound
      <4>1. ShutdownThread(t)
        BY <1>10, <3>1 DEF FiniProcess
      <4>2. rec'[t].bound = rec[t].bound /\ \A u \in Thread \ {t} : rec'[u] = rec[u]
        BY <1>0, <4>1, Shutdown
      <4> QED
        BY <4>2
    <3>2. CASE ~rec[t].bound
      BY <1>10, <3>2 DEF FiniProcess
    <3> QED
      BY <3>1, <3>2
  <2>2. \A u \in Thread \ {t} : loop'[u] = loop[u]
    BY <1>10 DEF FiniProcess
  <2>3. /\ UNCHANGED <<slots, num, size, raced, main, havePapi>>
        /\ enable' \in {enable, "off"}
    BY <1>0, <1>10 DEF FiniProcess, tableVars
  <2>4. /\ pc[t] \notin Early /\ pc'[t] \notin Early
        /\ \A u \in Thread \ {t} : pc'[u] = pc[u]
    BY <1>0, <1>10 DEF FiniProcess, Goto, Early, AtFiniProcess, ApiCall, AppRuns
  <2>5. (rows'.num = rows.num /\ pc'[t] # "write") \/ rows'.num = num
    BY <1>0, <1>10 DEF FiniProcess, Goto, exitVars, AtFiniProcess, ApiCall, AppRuns
  <2> QED
    BY <2>1, <2>2, <2>3, <2>4, <2>5 DEF LateStep
<1>11. CASE Write(t) /\ UNCHANGED apiVars
  <2>1. \A u \in Thread : rec'[u].bound <=> rec[u].bound
    BY <1>11 DEF Write
  <2>2. \A u \in Thread \ {t} : loop'[u] = loop[u]
    BY <1>11 DEF Write
  <2>3. /\ UNCHANGED <<slots, num, size, raced, main, havePapi>>
        /\ enable' \in {enable, "off"}
    BY <1>0, <1>11 DEF Write, tableVars
  <2>4. /\ pc[t] \notin Early /\ pc'[t] \notin Early
        /\ \A u \in Thread \ {t} : pc'[u] = pc[u]
    BY <1>0, <1>11 DEF Write, Goto, Early, AtFiniProcess, ApiCall, AppRuns
  <2>5. (rows'.num = rows.num /\ pc'[t] # "write") \/ rows'.num = num
    BY <1>0, <1>11 DEF Write, Goto, exitVars, AtFiniProcess, ApiCall, AppRuns
  <2> QED
    BY <2>1, <2>2, <2>3, <2>4, <2>5 DEF LateStep
<1>12. CASE Exec(t) /\ UNCHANGED apiVars
  <2>1. \A u \in Thread : rec'[u].bound <=> rec[u].bound
    BY <1>12 DEF Exec
  <2>2. \A u \in Thread \ {t} : loop'[u] = loop[u]
    BY <1>12 DEF Exec
  <2>3. /\ UNCHANGED <<slots, num, size, raced, main, havePapi>>
        /\ enable' \in {enable, "off"}
    BY <1>0, <1>12 DEF Exec, tableVars
  <2>4. /\ pc[t] \notin Early /\ pc'[t] \notin Early
        /\ \A u \in Thread \ {t} : pc'[u] = pc[u]
    BY <1>0, <1>12 DEF Exec, Goto, Early, AtFiniProcess, ApiCall, AppRuns
  <2>5. (rows'.num = rows.num /\ pc'[t] # "write") \/ rows'.num = num
    BY <1>0, <1>12 DEF Exec, Goto, exitVars, AtFiniProcess, ApiCall, AppRuns
  <2> QED
    BY <2>1, <2>2, <2>3, <2>4, <2>5 DEF LateStep
<1>13. CASE ApiStart(t)
  <2>1. \A u \in Thread : rec'[u].bound <=> rec[u].bound
    BY <1>13 DEF ApiStart
  <2>2. \A u \in Thread \ {t} : loop'[u] = loop[u]
    BY <1>13 DEF ApiStart
  <2>3. /\ UNCHANGED <<slots, num, size, raced, main, havePapi>>
        /\ enable' \in {enable, "off"}
    BY <1>0, <1>13 DEF ApiStart, tableVars
  <2>4. /\ pc[t] \notin Early /\ pc'[t] \notin Early
        /\ \A u \in Thread \ {t} : pc'[u] = pc[u]
    BY <1>0, <1>13 DEF ApiStart, Goto, Early, AtFiniProcess, ApiCall, AppRuns
  <2>5. (rows'.num = rows.num /\ pc'[t] # "write") \/ rows'.num = num
    BY <1>0, <1>13 DEF ApiStart, Goto, exitVars, AtFiniProcess, ApiCall, AppRuns
  <2> QED
    BY <2>1, <2>2, <2>3, <2>4, <2>5 DEF LateStep
<1>14. CASE ApiStop(t)
  <2>1. \A u \in Thread : rec'[u].bound <=> rec[u].bound
    BY <1>14 DEF ApiStop
  <2>2. \A u \in Thread \ {t} : loop'[u] = loop[u]
    BY <1>14 DEF ApiStop
  <2>3. /\ UNCHANGED <<slots, num, size, raced, main, havePapi>>
        /\ enable' \in {enable, "off"}
    BY <1>0, <1>14 DEF ApiStop, tableVars
  <2>4. /\ pc[t] \notin Early /\ pc'[t] \notin Early
        /\ \A u \in Thread \ {t} : pc'[u] = pc[u]
    BY <1>0, <1>14 DEF ApiStop, Goto, Early, AtFiniProcess, ApiCall, AppRuns
  <2>5. (rows'.num = rows.num /\ pc'[t] # "write") \/ rows'.num = num
    BY <1>0, <1>14 DEF ApiStop, Goto, exitVars, AtFiniProcess, ApiCall, AppRuns
  <2> QED
    BY <2>1, <2>2, <2>3, <2>4, <2>5 DEF LateStep
<1>15. CASE ApiReturn(t)
  <2>1. \A u \in Thread : rec'[u].bound <=> rec[u].bound
    <3>1. Others(rec, rec', t) /\ rec'[t].bound = rec[t].bound
      BY <1>0, <1>15, ReturnEffect DEF SameBut
    <3> QED
      BY <3>1 DEF Others
  <2>2. \A u \in Thread \ {t} : loop'[u] = loop[u]
    BY <1>15 DEF ApiReturn
  <2>3. /\ UNCHANGED <<slots, num, size, raced, main, havePapi>>
        /\ enable' \in {enable, "off"}
    BY <1>0, <1>15 DEF ApiReturn, tableVars
  <2>4. /\ pc[t] \notin Early /\ pc'[t] \notin Early
        /\ \A u \in Thread \ {t} : pc'[u] = pc[u]
    BY <1>0, <1>15 DEF ApiReturn, Goto, Early, AtFiniProcess, ApiCall, AppRuns
  <2>5. (rows'.num = rows.num /\ pc'[t] # "write") \/ rows'.num = num
    BY <1>0, <1>15 DEF ApiReturn, Goto, exitVars, AtFiniProcess, ApiCall, AppRuns
  <2> QED
    BY <2>1, <2>2, <2>3, <2>4, <2>5 DEF LateStep
<1>16. CASE ApiCrash(t)
  <2>1. \A u \in Thread : rec'[u].bound <=> rec[u].bound
    BY <1>16 DEF ApiCrash
  <2>2. \A u \in Thread \ {t} : loop'[u] = loop[u]
    BY <1>16 DEF ApiCrash
  <2>3. /\ UNCHANGED <<slots, num, size, raced, main, havePapi>>
        /\ enable' \in {enable, "off"}
    BY <1>0, <1>16 DEF ApiCrash, tableVars
  <2>4. /\ pc[t] \notin Early /\ pc'[t] \notin Early
        /\ \A u \in Thread \ {t} : pc'[u] = pc[u]
    BY <1>0, <1>16 DEF ApiCrash, Goto, Early, AtFiniProcess, ApiCall, AppRuns
  <2>5. (rows'.num = rows.num /\ pc'[t] # "write") \/ rows'.num = num
    BY <1>0, <1>16 DEF ApiCrash, Goto, exitVars, AtFiniProcess, ApiCall, AppRuns
  <2> QED
    BY <2>1, <2>2, <2>3, <2>4, <2>5 DEF LateStep
<1> QED
  BY <1>1, <1>5, <1>6, <1>7, <1>8, <1>9, <1>10, <1>11, <1>12, <1>13, <1>14, <1>15, <1>16

LEMMA ExitKept ==
  ASSUME TypeOK, TypeOK', ExitPart, NEW t \in Thread, main' = main,
         \A u \in Thread \ {t} :
            pc'[u] = pc[u] /\ api'[u] = api[u] /\ (rec'[u].bound <=> rec[u].bound),
         \/ UNCHANGED <<exiter, enable, called, how, rows>>
         \/ exiter' = t /\ exiter \in {t, NoThread} /\ enable' \in {enable, "off"},
         (size' > 0 <=> size > 0), num > 0 => num' > 0,
         called' => exiter' # NoThread, rows'.out # <<>> => Ended',
         ExitThread(t)', Filled(t)', Silent'
  PROVE  ExitPart'
<1>1. size \in Nat /\ size' \in Nat
  BY LenProperties DEF TypeOK
<1>2. ASSUME NEW u \in Thread, u # t
      PROVE  ExitThread(u)' /\ Filled(u)'
  <2>1. pc'[u] = pc[u] /\ api'[u] = api[u] /\ (rec'[u].bound <=> rec[u].bound)
    BY <1>2
  <2>2. ExitThread(u) /\ Filled(u)
    BY DEF ExitPart
  <2>3. Filled(u)'
    BY <2>1, <2>2 DEF Filled
  <2>4. ExitThread(u)'
    <3>1. CASE UNCHANGED <<exiter, enable, called, how, rows>>
      BY <1>1, <2>1, <2>2, <3>1 DEF ExitThread
    <3>2. CASE exiter' = t /\ exiter \in {t, NoThread}
      <4>1. exiter # u /\ exiter' # u
        BY <1>2, <3>2, ClientAssumption
      <4> QED
        BY <2>1, <2>2, <4>1 DEF ExitThread
    <3> QED
      BY <3>1, <3>2
  <2> QED
    BY <2>3, <2>4
<1> QED
  BY <1>2 DEF ExitPart

\* Where papiex was off before, it still has no table, or the same threads are gone.
LEMMA SilentKept ==
  ASSUME ExitPart, NEW t \in Thread, pc[t] \notin {"exec", "over", "replaced"},
         enable' = enable, (size' = 0 <=> size = 0),
         \A u \in Thread \ {t} : pc'[u] = pc[u]
  PROVE  Silent'
BY DEF ExitPart, Silent

LEMMA StayExit ==
  ASSUME TypeOK, TypeOK', ListPart, ThreadPart, SizePart, ExitPart, ~Ended, NEW t \in Thread,
         UNCHANGED havePapi,
         \/ (InitThread(t) \/ InsertLocked(t) \/ GrowUnlocked(t) \/ StoreUnlocked(t)
             \/ BumpUnlocked(t) \/ InsertRefused(t) \/ SetUp(t) \/ Start(t)
             \/ FiniThread(t) \/ Exec(t))
              /\ UNCHANGED apiVars
         \/ ApiStart(t) \/ ApiStop(t) \/ ApiReturn(t) \/ ApiCrash(t)
  PROVE  ExitPart'
<1>0. /\ LocalPart(t) /\ RecordPart(t) /\ SelfPart(t) /\ ExitThread(t) /\ Filled(t)
      /\ rows.out = <<>> /\ size \in Nat /\ size' \in Nat /\ num \in Nat /\ pc \in [Thread -> Loc]
      /\ rec \in [Thread -> Record] /\ api \in [Thread -> {"none", "start", "stop"}]
      /\ loop[t].num \in Nat /\ (exiter = NoThread => ~called)
  <2>1. size \in Nat /\ size' \in Nat /\ num \in Nat
    BY LenProperties DEF TypeOK
  <2>2. /\ pc \in [Thread -> Loc] /\ rec \in [Thread -> Record]
        /\ api \in [Thread -> {"none", "start", "stop"}] /\ loop[t].num \in Nat
    BY DEF TypeOK, Locals
  <2> QED
    BY <2>1, <2>2, NoRowsYet DEF ThreadPart, ExitPart
<1>1. CASE InitThread(t) /\ UNCHANGED apiVars
  <2>1. /\ main' = main /\ UNCHANGED <<exiter, enable, called, how, rows>>
    BY <1>1 DEF InitThread, exitVars
  <2>2. /\ pc[t] = "none" /\ exiter = NoThread /\ (pc'[t] = "insert" \/ (pc'[t] = "run" /\ enable # "self"))
    <3>1. CASE enable = "self"
      BY <1>0, <1>1, <3>1 DEF InitThread, Goto
    <3>2. CASE enable # "self"
      BY <1>0, <1>1, <3>2 DEF InitThread, Goto
    <3> QED
      BY <3>1, <3>2
  <2>3. \A u \in Thread \ {t} : pc'[u] = pc[u] /\ api'[u] = api[u]
    BY <1>0, <1>1 DEF InitThread, Goto, apiVars
  <2>4. \A u \in Thread \ {t} : rec'[u].bound <=> rec[u].bound
    BY <1>0, <1>1 DEF InitThread
  <2>5. (size' > 0 <=> size > 0) /\ (num > 0 => num' > 0)
    BY <1>0, <1>1, <2>2 DEF ExitPart, InitThread, tableVars
  <2>6. ExitThread(t)'
    <3>1. exiter' # t
      BY <2>1, <2>2, ClientAssumption
    <3> QED
      BY <2>2, <3>1 DEF ExitThread
  <2>7. Filled(t)'
    BY <1>0, <2>1, <2>2, <2>4, <2>5 DEF Filled
  <2>8. Silent'
    BY <1>0, <2>1, <2>2, <2>3, <2>5, SilentKept
  <2>9. (called' => exiter' # NoThread) /\ rows'.out = <<>>
    BY <1>0, <2>1 DEF ExitPart
  <2> QED
    BY <2>1, <2>3, <2>4, <2>5, <2>6, <2>7, <2>8, <2>9, ExitKept
<1>2. CASE InsertLocked(t) /\ UNCHANGED apiVars
  <2>1. /\ main' = main /\ UNCHANGED <<exiter, enable, called, how, rows>>
    BY <1>2 DEF InsertLocked, exitVars
  <2>2. /\ pc[t] = "insert" /\ pc'[t] \in {"create", "crash"} /\ num' > 0
    BY <1>0, <1>2 DEF InsertLocked, Goto, tableVars
  <2>3. \A u \in Thread \ {t} : pc'[u] = pc[u] /\ api'[u] = api[u]
    BY <1>0, <1>2 DEF InsertLocked, Goto, apiVars
  <2>4. \A u \in Thread : rec'[u].bound <=> rec[u].bound
    BY <1>2 DEF InsertLocked
  <2>5. (size' > 0 <=> size > 0) /\ (num > 0 => num' > 0)
    <3>1. size' = NewSize /\ num' = num + 1
      BY <1>0, <1>2 DEF InsertLocked
    <3> QED
      BY <1>0, <3>1 DEF NewSize
  <2>6. ExitThread(t)'
    BY <1>0, <1>2, <2>1, <2>2 DEF ExitThread, apiVars
  <2>7. Filled(t)'
    BY <1>0, <2>1, <2>2, <2>4, <2>5 DEF Filled
  <2>8. Silent'
    <3>1. pc[t] \notin {"exec", "over", "replaced"}
      BY <2>2
    <3> QED
      BY <1>0, <2>1, <2>3, <2>5, <3>1, SilentKept
  <2>9. (called' => exiter' # NoThread) /\ rows'.out = <<>>
    BY <1>0, <2>1 DEF ExitPart
  <2> QED
    BY <2>1, <2>3, <2>4, <2>5, <2>6, <2>7, <2>8, <2>9, ExitKept
<1>3. CASE GrowUnlocked(t) /\ UNCHANGED apiVars
  <2>1. /\ main' = main /\ UNCHANGED <<exiter, enable, called, how, rows>>
    BY <1>3 DEF GrowUnlocked, exitVars
  <2>2. /\ pc[t] = "insert" /\ pc'[t] = "store"
    BY <1>0, <1>3 DEF GrowUnlocked, Goto, tableVars
  <2>3. \A u \in Thread \ {t} : pc'[u] = pc[u] /\ api'[u] = api[u]
    BY <1>0, <1>3 DEF GrowUnlocked, Goto, apiVars
  <2>4. \A u \in Thread : rec'[u].bound <=> rec[u].bound
    BY <1>3 DEF GrowUnlocked
  <2>5. (size' > 0 <=> size > 0) /\ (num > 0 => num' > 0)
    <3>1. size' = NewSize /\ num' = num
      BY <1>0, <1>3 DEF GrowUnlocked
    <3> QED
      BY <1>0, <3>1 DEF NewSize
  <2>6. ExitThread(t)'
    BY <1>0, <1>3, <2>1, <2>2 DEF ExitThread, apiVars
  <2>7. Filled(t)'
    BY <1>0, <2>1, <2>2, <2>4, <2>5 DEF Filled
  <2>8. Silent'
    <3>1. pc[t] \notin {"exec", "over", "replaced"}
      BY <2>2
    <3> QED
      BY <1>0, <2>1, <2>3, <2>5, <3>1, SilentKept
  <2>9. (called' => exiter' # NoThread) /\ rows'.out = <<>>
    BY <1>0, <2>1 DEF ExitPart
  <2> QED
    BY <2>1, <2>3, <2>4, <2>5, <2>6, <2>7, <2>8, <2>9, ExitKept
<1>4. CASE StoreUnlocked(t) /\ UNCHANGED apiVars
  <2>1. /\ main' = main /\ UNCHANGED <<exiter, enable, called, how, rows>>
    BY <1>4 DEF StoreUnlocked, exitVars
  <2>2. /\ pc[t] = "store" /\ pc'[t] \in {"bump", "crash"}
    BY <1>0, <1>4 DEF StoreUnlocked, Goto, tableVars
  <2>3. \A u \in Thread \ {t} : pc'[u] = pc[u] /\ api'[u] = api[u]
    BY <1>0, <1>4 DEF StoreUnlocked, Goto, apiVars
  <2>4. \A u \in Thread : rec'[u].bound <=> rec[u].bound
    BY <1>4 DEF StoreUnlocked
  <2>5. (size' > 0 <=> size > 0) /\ (num > 0 => num' > 0)
    BY <1>0, <1>4, <2>2 DEF ExitPart, StoreUnlocked, tableVars
  <2>6. ExitThread(t)'
    BY <1>0, <1>4, <2>1, <2>2 DEF ExitThread, apiVars
  <2>7. Filled(t)'
    BY <1>0, <2>1, <2>2, <2>4, <2>5 DEF Filled
  <2>8. Silent'
    <3>1. pc[t] \notin {"exec", "over", "replaced"}
      BY <2>2
    <3> QED
      BY <1>0, <2>1, <2>3, <2>5, <3>1, SilentKept
  <2>9. (called' => exiter' # NoThread) /\ rows'.out = <<>>
    BY <1>0, <2>1 DEF ExitPart
  <2> QED
    BY <2>1, <2>3, <2>4, <2>5, <2>6, <2>7, <2>8, <2>9, ExitKept
<1>5. CASE BumpUnlocked(t) /\ UNCHANGED apiVars
  <2>1. /\ main' = main /\ UNCHANGED <<exiter, enable, called, how, rows>>
    BY <1>5 DEF BumpUnlocked, exitVars
  <2>2. /\ pc[t] = "bump" /\ pc'[t] = "start" /\ num' > 0
    BY <1>0, <1>5 DEF BumpUnlocked, Goto, tableVars
  <2>3. \A u \in Thread \ {t} : pc'[u] = pc[u] /\ api'[u] = api[u]
    BY <1>0, <1>5 DEF BumpUnlocked, Goto, apiVars
  <2>4. \A u \in Thread : rec'[u].bound <=> rec[u].bound
    BY <1>5 DEF BumpUnlocked
  <2>5. (size' > 0 <=> size > 0) /\ (num > 0 => num' > 0)
    BY <1>0, <1>5, <2>2 DEF ExitPart, BumpUnlocked
  <2>6. ExitThread(t)'
    BY <1>0, <1>5, <2>1, <2>2 DEF ExitThread, apiVars
  <2>7. Filled(t)'
    BY <1>0, <2>1, <2>2, <2>4, <2>5 DEF Filled
  <2>8. Silent'
    <3>1. pc[t] \notin {"exec", "over", "replaced"}
      BY <2>2
    <3> QED
      BY <1>0, <2>1, <2>3, <2>5, <3>1, SilentKept
  <2>9. (called' => exiter' # NoThread) /\ rows'.out = <<>>
    BY <1>0, <2>1 DEF ExitPart
  <2> QED
    BY <2>1, <2>3, <2>4, <2>5, <2>6, <2>7, <2>8, <2>9, ExitKept
<1>6. CASE InsertRefused(t) /\ UNCHANGED apiVars
  <2>1. /\ main' = main /\ UNCHANGED <<exiter, enable, called, how, rows>>
    BY <1>6 DEF InsertRefused, exitVars
  <2>2. /\ pc[t] = "insert" /\ pc'[t] = "run" /\ ~rec'[t].bound
    BY <1>0, <1>6, Fields DEF InsertRefused, Goto
  <2>3. \A u \in Thread \ {t} : pc'[u] = pc[u] /\ api'[u] = api[u]
    BY <1>0, <1>6 DEF InsertRefused, Goto, apiVars
  <2>4. \A u \in Thread \ {t} : rec'[u].bound <=> rec[u].bound
    BY <1>0, <1>6 DEF InsertRefused
  <2>5. (size' > 0 <=> size > 0) /\ (num > 0 => num' > 0)
    BY <1>0, <1>6 DEF InsertRefused, tableVars
  <2>6. ExitThread(t)'
    BY <1>0, <1>6, <2>1, <2>2 DEF ExitThread, apiVars
  <2>7. Filled(t)'
    BY <2>2 DEF Filled
  <2>8. Silent'
    <3>1. pc[t] \notin {"exec", "over", "replaced"}
      BY <2>2
    <3> QED
      BY <1>0, <2>1, <2>3, <2>5, <3>1, SilentKept
  <2>9. (called' => exiter' # NoThread) /\ rows'.out = <<>>
    BY <1>0, <2>1 DEF ExitPart
  <2> QED
    BY <2>1, <2>3, <2>4, <2>5, <2>6, <2>7, <2>8, <2>9, ExitKept
<1>7. CASE SetUp(t) /\ UNCHANGED apiVars
  <2>0. /\ pc[t] \in SetUpLoc /\ pc'[t] \in SetUpLoc \cup {"start"} /\ Others(pc, pc', t)
        /\ UNCHANGED <<main, enable, tableVars, exitVars>>
    BY <1>7, SetUpRecord
  <2>1. /\ main' = main /\ UNCHANGED <<exiter, enable, called, how, rows>>
    BY <2>0 DEF exitVars
  <2>2. pc[t] \notin {"exec", "over", "replaced"} /\ num' = num
    BY <2>0 DEF tableVars, SetUpLoc, LoopLoc
  <2>3. \A u \in Thread \ {t} : pc'[u] = pc[u] /\ api'[u] = api[u]
    BY <1>7, <2>0 DEF Others, apiVars
  <2>4. \A u \in Thread : rec'[u].bound <=> rec[u].bound
    BY <1>7, StepIsLate DEF LateStep
  <2>5. (size' > 0 <=> size > 0) /\ (num > 0 => num' > 0)
    BY <2>0 DEF tableVars
  <2>6. ExitThread(t)'
    BY <1>0, <1>7, <2>0, <2>1 DEF ExitThread, apiVars, SetUpLoc, LoopLoc
  <2>7. Filled(t)'
    BY <1>0, <2>0, <2>1, <2>2, <2>4, <2>5 DEF Filled, SetUpLoc, LoopLoc
  <2>8. Silent'
    BY <1>0, <2>1, <2>2, <2>3, <2>5, SilentKept
  <2>9. (called' => exiter' # NoThread) /\ rows'.out = <<>>
    BY <1>0, <2>1 DEF ExitPart
  <2> QED
    BY <2>1, <2>3, <2>4, <2>5, <2>6, <2>7, <2>8, <2>9, ExitKept
<1>10. CASE Start(t) /\ UNCHANGED apiVars
  <2>1. /\ main' = main /\ UNCHANGED <<exiter, enable, called, how, rows>>
    BY <1>10 DEF Start, exitVars
  <2>2. /\ pc[t] = "start" /\ pc'[t] = "run" /\ num' = num
    BY <1>0, <1>10 DEF Start, Goto, tableVars
  <2>3. \A u \in Thread \ {t} : pc'[u] = pc[u] /\ api'[u] = api[u]
    BY <1>0, <1>10 DEF Start, Goto, apiVars
  <2>4. \A u \in Thread : rec'[u].bound <=> rec[u].bound
    BY <1>10, StepIsLate DEF LateStep
  <2>5. (size' > 0 <=> size > 0) /\ (num > 0 => num' > 0)
    BY <1>0, <1>10, <2>2 DEF ExitPart, Start, tableVars
  <2>6. ExitThread(t)'
    BY <1>0, <1>10, <2>1, <2>2 DEF ExitThread, apiVars
  <2>7. Filled(t)'
    BY <1>0, <2>1, <2>2, <2>4, <2>5 DEF Filled
  <2>8. Silent'
    <3>1. pc[t] \notin {"exec", "over", "replaced"}
      BY <2>2
    <3> QED
      BY <1>0, <2>1, <2>3, <2>5, <3>1, SilentKept
  <2>9. (called' => exiter' # NoThread) /\ rows'.out = <<>>
    BY <1>0, <2>1 DEF ExitPart
  <2> QED
    BY <2>1, <2>3, <2>4, <2>5, <2>6, <2>7, <2>8, <2>9, ExitKept
<1>11. CASE FiniThread(t) /\ UNCHANGED apiVars
  <2>1. /\ main' = main /\ UNCHANGED <<exiter, enable, called, how, rows>>
    BY <1>11 DEF FiniThread, exitVars
  <2>2. /\ pc[t] = "run" /\ t # main
        /\ pc'[t] \in {IF exiter = t THEN "last" ELSE "finished", "crash"} /\ num' = num
    BY <1>0, <1>11 DEF FiniThread, Goto, tableVars
  <2>3. \A u \in Thread \ {t} : pc'[u] = pc[u] /\ api'[u] = api[u]
    BY <1>0, <1>11 DEF FiniThread, Goto, apiVars
  <2>4. \A u \in Thread : rec'[u].bound <=> rec[u].bound
    BY <1>11, StepIsLate DEF LateStep
  <2>5. (size' > 0 <=> size > 0) /\ (num > 0 => num' > 0)
    BY <1>0, <1>11, <2>2 DEF ExitPart, FiniThread, tableVars
  <2>6. ExitThread(t)'
    BY <1>0, <1>11, <2>1, <2>2 DEF ExitThread, apiVars
  <2>7. Filled(t)'
    BY <1>0, <2>1, <2>2, <2>4, <2>5 DEF Filled
  <2>8. Silent'
    <3>1. pc[t] \notin {"exec", "over", "replaced"}
      BY <2>2
    <3> QED
      BY <1>0, <2>1, <2>3, <2>5, <3>1, SilentKept
  <2>9. (called' => exiter' # NoThread) /\ rows'.out = <<>>
    BY <1>0, <2>1 DEF ExitPart
  <2> QED
    BY <2>1, <2>3, <2>4, <2>5, <2>6, <2>7, <2>8, <2>9, ExitKept
<1>12. CASE Exec(t) /\ UNCHANGED apiVars
  <2>1. /\ main' = main /\ UNCHANGED <<exiter, enable, called, how, rows>>
    BY <1>12 DEF Exec, exitVars
  <2>2. /\ pc[t] = "exec" /\ pc'[t] \in {"replaced", "over"} /\ num' = num
    BY <1>0, <1>12 DEF Exec, Goto, tableVars
  <2>3. \A u \in Thread \ {t} : pc'[u] = pc[u] /\ api'[u] = api[u]
    BY <1>0, <1>12 DEF Exec, Goto, apiVars
  <2>4. \A u \in Thread : rec'[u].bound <=> rec[u].bound
    BY <1>12, StepIsLate DEF LateStep
  <2>5. (size' > 0 <=> size > 0) /\ (num > 0 => num' > 0)
    BY <1>0, <1>12, <2>2 DEF ExitPart, Exec, tableVars
  <2>6. ExitThread(t)'
    BY <1>0, <1>12, <2>1, <2>2 DEF ExitThread, apiVars
  <2>7. Filled(t)'
    BY <1>0, <2>1, <2>2, <2>4, <2>5 DEF Filled
  <2>8. Silent'
    BY <2>2 DEF Silent
  <2>9. (called' => exiter' # NoThread) /\ rows'.out = <<>>
    BY <1>0, <2>1 DEF ExitPart
  <2> QED
    BY <2>1, <2>3, <2>4, <2>5, <2>6, <2>7, <2>8, <2>9, ExitKept
<1>13. CASE ApiStart(t)
  <2>1. /\ main' = main /\ UNCHANGED <<exiter, enable, called, how, rows>>
    BY <1>13 DEF ApiStart, exitVars
  <2>2. /\ AppRuns(t) /\ pc'[t] = pc[t] /\ num' = num
    BY <1>0, <1>13 DEF ApiStart, Goto, tableVars, ApiCall
  <2>3. \A u \in Thread \ {t} : pc'[u] = pc[u] /\ api'[u] = api[u]
    BY <1>0, <1>13 DEF ApiStart, Goto, apiVars
  <2>4. \A u \in Thread : rec'[u].bound <=> rec[u].bound
    BY <1>13, StepIsLate DEF LateStep
  <2>5. (size' > 0 <=> size > 0) /\ (num > 0 => num' > 0)
    BY <1>0, <1>13, <2>2 DEF ExitPart, ApiStart, tableVars
  <2>6. ExitThread(t)'
    <3>1. exiter # t
      BY <1>0, <2>2 DEF AppRuns, ExitThread
    <3>2. pc'[t] \in {"run", "finished", "crash"}
      BY <2>2 DEF AppRuns
    <3> QED
      BY <2>1, <3>1, <3>2 DEF ExitThread
  <2>7. Filled(t)'
    BY <1>0, <2>1, <2>2, <2>4, <2>5 DEF Filled, AppRuns
  <2>8. Silent'
    <3>1. pc[t] \notin {"exec", "over", "replaced"}
      BY <2>2 DEF AppRuns
    <3> QED
      BY <1>0, <2>1, <2>3, <2>5, <3>1, SilentKept
  <2>9. (called' => exiter' # NoThread) /\ rows'.out = <<>>
    BY <1>0, <2>1 DEF ExitPart
  <2> QED
    BY <2>1, <2>3, <2>4, <2>5, <2>6, <2>7, <2>8, <2>9, ExitKept
<1>14. CASE ApiStop(t)
  <2>1. /\ main' = main /\ UNCHANGED <<exiter, enable, called, how, rows>>
    BY <1>14 DEF ApiStop, exitVars
  <2>2. /\ AppRuns(t) /\ pc'[t] = pc[t] /\ num' = num
    BY <1>0, <1>14 DEF ApiStop, Goto, tableVars, ApiCall
  <2>3. \A u \in Thread \ {t} : pc'[u] = pc[u] /\ api'[u] = api[u]
    BY <1>0, <1>14 DEF ApiStop, Goto, apiVars
  <2>4. \A u \in Thread : rec'[u].bound <=> rec[u].bound
    BY <1>14, StepIsLate DEF LateStep
  <2>5. (size' > 0 <=> size > 0) /\ (num > 0 => num' > 0)
    BY <1>0, <1>14, <2>2 DEF ExitPart, ApiStop, tableVars
  <2>6. ExitThread(t)'
    <3>1. exiter # t
      BY <1>0, <2>2 DEF AppRuns, ExitThread
    <3>2. pc'[t] \in {"run", "finished", "crash"}
      BY <2>2 DEF AppRuns
    <3> QED
      BY <2>1, <3>1, <3>2 DEF ExitThread
  <2>7. Filled(t)'
    BY <1>0, <2>1, <2>2, <2>4, <2>5 DEF Filled, AppRuns
  <2>8. Silent'
    <3>1. pc[t] \notin {"exec", "over", "replaced"}
      BY <2>2 DEF AppRuns
    <3> QED
      BY <1>0, <2>1, <2>3, <2>5, <3>1, SilentKept
  <2>9. (called' => exiter' # NoThread) /\ rows'.out = <<>>
    BY <1>0, <2>1 DEF ExitPart
  <2> QED
    BY <2>1, <2>3, <2>4, <2>5, <2>6, <2>7, <2>8, <2>9, ExitKept
<1>15. CASE ApiReturn(t)
  <2>1. /\ main' = main /\ UNCHANGED <<exiter, enable, called, how, rows>>
    BY <1>15 DEF ApiReturn, exitVars
  <2>2. /\ AppRuns(t) /\ pc'[t] = pc[t] /\ num' = num
    BY <1>0, <1>15 DEF ApiReturn, Goto, tableVars, ApiCall
  <2>3. \A u \in Thread \ {t} : pc'[u] = pc[u] /\ api'[u] = api[u]
    BY <1>0, <1>15 DEF ApiReturn, Goto, apiVars
  <2>4. \A u \in Thread : rec'[u].bound <=> rec[u].bound
    BY <1>15, StepIsLate DEF LateStep
  <2>5. (size' > 0 <=> size > 0) /\ (num > 0 => num' > 0)
    BY <1>0, <1>15, <2>2 DEF ExitPart, ApiReturn, tableVars
  <2>6. ExitThread(t)'
    <3>1. exiter # t
      BY <1>0, <2>2 DEF AppRuns, ExitThread
    <3>2. pc'[t] \in {"run", "finished", "crash"}
      BY <2>2 DEF AppRuns
    <3> QED
      BY <2>1, <3>1, <3>2 DEF ExitThread
  <2>7. Filled(t)'
    BY <1>0, <2>1, <2>2, <2>4, <2>5 DEF Filled, AppRuns
  <2>8. Silent'
    <3>1. pc[t] \notin {"exec", "over", "replaced"}
      BY <2>2 DEF AppRuns
    <3> QED
      BY <1>0, <2>1, <2>3, <2>5, <3>1, SilentKept
  <2>9. (called' => exiter' # NoThread) /\ rows'.out = <<>>
    BY <1>0, <2>1 DEF ExitPart
  <2> QED
    BY <2>1, <2>3, <2>4, <2>5, <2>6, <2>7, <2>8, <2>9, ExitKept
<1>16. CASE ApiCrash(t)
  <2>1. /\ main' = main /\ UNCHANGED <<exiter, enable, called, how, rows>>
    BY <1>16 DEF ApiCrash, exitVars
  <2>2. /\ AppRuns(t) /\ pc'[t] = "crash" /\ num' = num
    BY <1>0, <1>16 DEF ApiCrash, Goto, tableVars, ApiCall
  <2>3. \A u \in Thread \ {t} : pc'[u] = pc[u] /\ api'[u] = api[u]
    BY <1>0, <1>16 DEF ApiCrash, Goto, apiVars
  <2>4. \A u \in Thread : rec'[u].bound <=> rec[u].bound
    BY <1>16, StepIsLate DEF LateStep
  <2>5. (size' > 0 <=> size > 0) /\ (num > 0 => num' > 0)
    BY <1>0, <1>16, <2>2 DEF ExitPart, ApiCrash, tableVars
  <2>6. ExitThread(t)'
    <3>1. exiter # t
      BY <1>0, <2>2 DEF AppRuns, ExitThread
    <3>2. pc'[t] \in {"run", "finished", "crash"}
      BY <2>2 DEF AppRuns
    <3> QED
      BY <2>1, <3>1, <3>2 DEF ExitThread
  <2>7. Filled(t)'
    BY <1>0, <2>1, <2>2, <2>4, <2>5 DEF Filled, AppRuns
  <2>8. Silent'
    <3>1. pc[t] \notin {"exec", "over", "replaced"}
      BY <2>2 DEF AppRuns
    <3> QED
      BY <1>0, <2>1, <2>3, <2>5, <3>1, SilentKept
  <2>9. (called' => exiter' # NoThread) /\ rows'.out = <<>>
    BY <1>0, <2>1 DEF ExitPart
  <2> QED
    BY <2>1, <2>3, <2>4, <2>5, <2>6, <2>7, <2>8, <2>9, ExitKept
<1> QED
  BY <1>1, <1>2, <1>3, <1>4, <1>5, <1>6, <1>7, <1>10, <1>11, <1>12, <1>13, <1>14, <1>15, <1>16

LEMMA LeaveExit ==
  ASSUME TypeOK, TypeOK', ListPart, ThreadPart, SizePart, ExitPart, ~Ended, NEW t \in Thread,
         UNCHANGED havePapi,
         \/ Exit(t) \/ FiniProcessSkipped(t) \/ FiniProcessExec(t) \/ FiniProcess(t) \/ Write(t),
         UNCHANGED apiVars
  PROVE  ExitPart'
<1>0. /\ LocalPart(t) /\ RecordPart(t) /\ SelfPart(t) /\ ExitThread(t) /\ Filled(t)
      /\ rows.out = <<>> /\ size \in Nat /\ size' \in Nat /\ num \in Nat /\ pc \in [Thread -> Loc]
      /\ rec \in [Thread -> Record] /\ api \in [Thread -> {"none", "start", "stop"}]
      /\ rows \in [num : Nat, out : Seq(Thread \cup {Null})]
      /\ enable \in {"self", "other", "off"} /\ (exiter = NoThread => ~called) /\ NoThread # t
      /\ how \in {"none", "exit", "exec"}
  <2>1. size \in Nat /\ size' \in Nat /\ num \in Nat
    BY LenProperties DEF TypeOK
  <2>2. /\ pc \in [Thread -> Loc] /\ rec \in [Thread -> Record]
        /\ api \in [Thread -> {"none", "start", "stop"}]
        /\ rows \in [num : Nat, out : Seq(Thread \cup {Null})]
        /\ enable \in {"self", "other", "off"} /\ how \in {"none", "exit", "exec"}
    BY DEF TypeOK
  <2>3. NoThread # t
    BY ClientAssumption
  <2> QED
    BY <2>1, <2>2, <2>3, NoRowsYet DEF ThreadPart, ExitPart
<1>1. LateStep(t)
  BY StepIsLate
<1>2. /\ \A u \in Thread \ {t} : pc'[u] = pc[u] /\ api'[u] = api[u] /\ (rec'[u].bound <=> rec[u].bound)
      /\ main' = main /\ size' = size /\ num' = num /\ (rec'[t].bound <=> rec[t].bound)
      /\ api'[t] = api[t]
  BY <1>1 DEF LateStep, apiVars
<1>3. AtFiniProcess(t) => /\ exiter = t /\ pc[t] \in {"run", "last"} /\ ~called
                          /\ api[t] = "none" /\ (enable = "off" => size = 0)
  <2>1. SUFFICES ASSUME AtFiniProcess(t)
                 PROVE  /\ exiter = t /\ pc[t] \in {"run", "last"} /\ ~called
                        /\ api[t] = "none" /\ (enable = "off" => size = 0)
    OBVIOUS
  <2>2. exiter = t /\ pc[t] \in {"run", "last"}
    BY <2>1 DEF AtFiniProcess
  <2>3. ~called /\ api[t] = "none"
    BY <1>0, <2>2 DEF ExitThread
  <2>4. \A u \in Thread : pc[u] \notin {"exec", "over", "replaced"}
    BY <2>2 DEF ExitPart, ExitThread
  <2> QED
    BY <2>2, <2>3, <2>4 DEF ExitPart, Silent
<1>4. CASE Exit(t)
  <2>1. /\ pc[t] = "run" /\ pc' = pc /\ api[t] = "none" /\ exiter = NoThread /\ exiter' = t
        /\ enable' = enable /\ called' = called /\ rows' = rows /\ t \in Thread
    BY <1>0, <1>3, <1>4 DEF Exit, Goto, apiVars
  <2>2. ExitThread(t)'
    BY <1>0, <1>2, <2>1 DEF ExitThread
  <2>3. Filled(t)'
    BY <1>0, <1>2, <2>1 DEF Filled
  <2>4. Silent'
    BY <1>0, <1>2, <2>1, SilentKept
  <2>5. (called' => exiter' # NoThread) /\ (rows'.out # <<>> => Ended')
    BY <1>0, <2>1 DEF ExitPart, Ended
  <2> QED
    BY <1>0, <1>2, <2>1, <2>2, <2>3, <2>4, <2>5, ExitKept
<1>5. CASE FiniProcessSkipped(t)
  <2>1. /\ pc[t] \in {"run", "last"} /\ pc'[t] = "over" /\ api[t] = "none"
        /\ exiter = t /\ exiter' = t /\ called' = called /\ rows' = rows /\ how' = how
        /\ enable # "self" /\ enable' = enable /\ (enable = "off" => size = 0)
    BY <1>0, <1>3, <1>5 DEF FiniProcessSkipped, Goto, exitVars
  <2>2. ExitThread(t)'
    BY <1>0, <1>2, <2>1 DEF ExitThread
  <2>3. Filled(t)'
    BY <1>0, <1>2, <2>1 DEF Filled
  <2>4. Silent'
    BY <2>1 DEF Silent
  <2>5. (called' => exiter' # NoThread) /\ (rows'.out # <<>> => Ended')
    BY <1>0, <2>1 DEF ExitPart, Ended
  <2> QED
    BY <1>0, <1>2, <2>1, <2>2, <2>3, <2>4, <2>5, ExitKept
<1>6. CASE FiniProcessExec(t)
  <2>1. /\ pc[t] \in {"run", "last"} /\ pc'[t] = "exec" /\ api[t] = "none"
        /\ exiter = t /\ exiter' = t /\ called' = TRUE /\ rows' = rows /\ how' = "exec"
        /\ enable' = "off"
    BY <1>0, <1>3, <1>6 DEF FiniProcessExec, Goto, exitVars
  <2>2. ExitThread(t)'
    BY <1>0, <1>2, <2>1 DEF ExitThread
  <2>3. Filled(t)'
    BY <1>0, <1>2, <2>1 DEF Filled
  <2>4. Silent'
    BY <2>1 DEF Silent
  <2>5. (called' => exiter' # NoThread) /\ (rows'.out # <<>> => Ended')
    BY <1>0, <2>1 DEF ExitPart, Ended
  <2> QED
    BY <1>0, <1>2, <2>1, <2>2, <2>3, <2>4, <2>5, ExitKept
<1>7. CASE FiniProcess(t)
  <2>1. /\ pc[t] \in {"run", "last"} /\ api[t] = "none"
        /\ exiter = t /\ exiter' = t /\ how' = how /\ enable = "self" /\ enable' = enable
    BY <1>0, <1>3, <1>7 DEF FiniProcess
  <2>2. rows'.out = rows.out
    BY <1>0, <1>7 DEF FiniProcess
  <2>3. \/ pc'[t] = "write" /\ rec[t].bound /\ rows'.num = num
        \/ pc'[t] = "crash"
    BY <1>0, <1>7 DEF FiniProcess, Goto
  <2>4. num > 0 \/ ~rec[t].bound
    BY <1>0, <2>1 DEF SelfPart, Filled
  <2>5. ExitThread(t)'
    BY <1>0, <1>2, <2>1, <2>3, <2>4 DEF ExitThread
  <2>6. Filled(t)'
    BY <1>0, <1>2, <2>1, <2>3, <2>4 DEF Filled
  <2>7. Silent'
    BY <2>1 DEF Silent
  <2>8. (called' => exiter' # NoThread) /\ (rows'.out # <<>> => Ended')
    BY <1>0, <2>1, <2>2
  <2> QED
    BY <1>0, <1>2, <2>1, <2>5, <2>6, <2>7, <2>8, ExitKept
<1>8. CASE Write(t)
  <2>1. /\ pc[t] = "write" /\ pc'[t] = "over" /\ called' = called
        /\ exiter = t /\ exiter' = t /\ how' = how /\ enable' = "off" /\ rows'.num = rows.num
        /\ rows.num > 0 /\ api[t] = "none"
    BY <1>0, <1>8 DEF Write, Goto, ExitThread
  <2>2. ExitThread(t)'
    BY <1>0, <1>2, <2>1 DEF ExitThread
  <2>3. Filled(t)'
    BY <2>1 DEF Filled
  <2>4. Silent'
    BY <2>1 DEF Silent
  <2>5. (called' => exiter' # NoThread) /\ (rows'.out # <<>> => Ended')
    BY <1>0, <2>1 DEF Ended
  <2> QED
    BY <1>0, <1>2, <2>1, <2>2, <2>3, <2>4, <2>5, ExitKept
<1> QED
  BY <1>4, <1>5, <1>6, <1>7, <1>8

LEMMA BeginExit ==
  ASSUME TypeOK, TypeOK', ThreadPart, BootPart, ExitPart, ~Ended, NEW t \in Thread,
         (InitProcess(t) \/ InitProcessFails(t)) \/ Fork(t)
  PROVE  ExitPart' /\ BootPart'
<1>0. /\ LocalPart(t) /\ rows.out = <<>> /\ size \in Nat /\ pc \in [Thread -> Loc] /\ NoThread # t
      /\ NoThread \notin Thread
  BY LenProperties, NoRowsYet, ClientAssumption DEF TypeOK, ThreadPart
<1>1. /\ exiter = NoThread /\ exiter' = NoThread /\ ~called' /\ rows' = rows
      /\ \A u \in Thread \ {t} : pc'[u] = "none"
  <2>1. CASE InitProcess(t) \/ InitProcessFails(t)
    <3>1. pc[t] = "boot" /\ exiter' = exiter /\ called' = FALSE /\ rows' = rows
      BY <2>1 DEF InitProcess, InitProcessFails
    <3>2. exiter = NoThread /\ \A u \in Thread \ {t} : pc[u] = "none"
      BY <3>1 DEF BootPart
    <3>3. \A u \in Thread \ {t} : pc'[u] = pc[u]
      BY <1>0, <2>1 DEF InitProcess, InitProcessFails, Goto
    <3> QED
      BY <3>1, <3>2, <3>3
  <2>2. CASE Fork(t)
    BY <1>0, <2>2 DEF Fork, exitVars, ExitPart
  <2> QED
    BY <2>1, <2>2
<1>2. /\ enable' # "off" \/ size' = 0
      /\ pc'[t] = "boot" => t = main' /\ enable' # "off"
      /\ pc'[t] \in {"insert", "boot"} \/ ~rec'[t].bound \/ enable' # "self"
  <2>1. CASE InitProcess(t)
    BY <1>0, <2>1 DEF InitProcess, OwnPid, Goto
  <2>2. CASE InitProcessFails(t)
    <3>1. pc[t] = "boot" /\ size' = 0 /\ pc'[t] = "run" /\ enable' \in {enable, "off"} /\ rec' = rec
      BY <1>0, <2>2 DEF InitProcessFails, Goto
    <3>2. t = main /\ SelfPart(t)
      BY <3>1 DEF BootPart, ThreadPart
    <3> QED
      BY <3>1, <3>2 DEF SelfPart
  <2>3. CASE Fork(t)
    BY <1>0, <2>3 DEF Fork
  <2> QED
    BY <2>1, <2>2, <2>3
<1>3. pc'[t] \in {"insert", "run", "boot"}
  BY <1>0 DEF InitProcess, InitProcessFails, Fork, Goto
<1>4. BootPart'
  <2>1. ASSUME NEW u \in Thread, pc'[u] = "boot"
        PROVE  u = t
    BY <1>1, <2>1
  <2> QED
    BY <1>1, <1>2, <2>1 DEF BootPart
<1>5. ASSUME NEW u \in Thread
      PROVE  ExitThread(u)' /\ Filled(u)'
  <2>1. pc'[u] \in {"none", "insert", "run", "boot"} /\ exiter' # u
    BY <1>0, <1>1, <1>3
  <2>2. ExitThread(u)'
    BY <2>1 DEF ExitThread
  <2>3. Filled(u)'
    <3>1. CASE u = t
      <4>1. size' \in Nat
        BY LenProperties DEF TypeOK
      <4> QED
        BY <1>2, <1>3, <3>1, <4>1 DEF Filled
    <3>2. CASE u # t
      BY <1>1, <3>2 DEF Filled
    <3> QED
      BY <3>1, <3>2
  <2> QED
    BY <2>2, <2>3
<1>6. Silent'
  BY <1>2 DEF Silent
<1> QED
  BY <1>0, <1>1, <1>4, <1>5, <1>6 DEF ExitPart

\* The entries that threads have, and those that the table has.
EntriesWhole ==
    /\ \A i \in 1 .. num : slots[i] \in Thread /\ Entered(slots[i])
    /\ \A i, j \in 1 .. num : slots[i] = slots[j] => i = j
    /\ \A t \in Thread : Entered(t) => \E i \in 1 .. num : slots[i] = t

LEMMA TableMeans == TablePart <=> (enable = "self" /\ size > 0 /\ ~raced => EntriesWhole)
BY DEF TablePart, EntriesWhole

\* Threads whose entry and slot a step leaves alone.
LEMMA EntriesKept ==
  ASSUME EntriesWhole, num' = num, \A i \in 1 .. num : slots'[i] = slots[i],
         \A u \in Thread : Entered(u)' <=> Entered(u)
  PROVE  EntriesWhole'
<1>2. ASSUME NEW i \in 1 .. num'
      PROVE  slots'[i] \in Thread /\ Entered(slots[i])'
  <2>1. PICK u \in Thread : u = slots[i]
    BY DEF EntriesWhole
  <2>2. Entered(u)' /\ slots'[i] = u
    BY <2>1 DEF EntriesWhole
  <2> QED
    BY <2>2 DEF Entered
<1>3. \A u \in Thread : Entered(u)' => \E i \in 1 .. num' : slots'[i] = u
  BY DEF EntriesWhole
<1>4. \A i, j \in 1 .. num' : slots'[i] = slots'[j] => i = j
  BY DEF EntriesWhole
<1> QED
  BY <1>2, <1>3, <1>4 DEF EntriesWhole, Entered

LEMMA EntriesGrow ==
  ASSUME EntriesWhole, num \in Nat, NEW t \in Thread, num' = num + 1, slots'[num + 1] = t,
         \A i \in 1 .. num : slots'[i] = slots[i],
         ~Entered(t), Entered(t)', \A u \in Thread \ {t} : Entered(u)' <=> Entered(u)
  PROVE  EntriesWhole'
<1>1. ASSUME NEW i \in 1 .. num'
      PROVE  slots'[i] \in Thread /\ Entered(slots[i])'
  <2>1. CASE i \in 1 .. num
    <3>1. slots'[i] = slots[i] /\ slots[i] \in Thread /\ Entered(slots[i])
      BY <2>1 DEF EntriesWhole
    <3>2. PICK u \in Thread : u = slots[i]
      BY <3>1
    <3>3. u # t /\ slots'[i] = u
      BY <3>1, <3>2
    <3>4. Entered(u)'
      BY <3>1, <3>2, <3>3
    <3> QED
      BY <3>3, <3>4 DEF Entered
  <2>2. CASE i \notin 1 .. num
    <3>1. slots'[i] = t
      BY <2>2
    <3> QED
      BY <3>1 DEF Entered
  <2> QED
    BY <2>1, <2>2
<1>2. \A i \in 1 .. num : slots'[i] # t /\ slots'[i] = slots[i]
  BY DEF EntriesWhole
<1>3. \A i, j \in 1 .. num' : slots'[i] = slots'[j] => i = j
  <2>1. \A i \in 1 .. num' : i \in 1 .. num \/ i = num + 1
    OBVIOUS
  <2>2. \A i, j \in 1 .. num : slots'[i] = slots'[j] => i = j
    BY DEF EntriesWhole
  <2> QED
    BY <1>2, <2>1, <2>2
<1>4. ASSUME NEW u \in Thread, Entered(u)'
      PROVE  \E i \in 1 .. num' : slots'[i] = u
  <2>1. CASE u = t
    BY <2>1
  <2>2. CASE u # t
    BY <1>4, <2>2 DEF EntriesWhole
  <2> QED
    BY <2>1, <2>2
<1> QED
  BY <1>1, <1>3, <1>4 DEF EntriesWhole, Entered

LEMMA TableSteps ==
  ASSUME TypeOK, TypeOK', ThreadPart, BootPart, SizePart, TablePart, RowsPart, ExitPart,
         NEW t \in Thread, UNCHANGED havePapi,
         \/ InitThread(t) \/ InsertLocked(t) \/ GrowUnlocked(t) \/ StoreUnlocked(t)
         \/ BumpUnlocked(t) \/ InsertRefused(t)
  PROVE  BootPart' /\ SizePart' /\ TablePart' /\ RowsPart'
<1>0. /\ LocalPart(t) /\ RecordPart(t) /\ SelfPart(t)
      /\ size \in Nat /\ size' \in Nat /\ num \in Nat /\ num' \in Nat /\ pc \in [Thread -> Loc]
      /\ rec \in [Thread -> Record] /\ loop \in [Thread -> Locals] /\ loop[t].num \in Nat
      /\ slots \in Seq(Thread \cup {Null}) /\ Len(slots) = size /\ rows.num \in Nat
  <2>1. size \in Nat /\ size' \in Nat
    BY LenProperties DEF TypeOK
  <2>2. /\ num \in Nat /\ num' \in Nat /\ pc \in [Thread -> Loc] /\ rec \in [Thread -> Record]
        /\ loop \in [Thread -> Locals] /\ loop[t].num \in Nat
        /\ slots \in Seq(Thread \cup {Null}) /\ Len(slots) = size /\ rows.num \in Nat
    BY DEF TypeOK, Locals
  <2> QED
    BY <2>1, <2>2 DEF ThreadPart
<1>1. /\ pc[t] \notin {"boot", "write"} /\ pc'[t] \notin {"boot", "write"}
      /\ \A u \in Thread \ {t} : pc'[u] = pc[u]
      /\ enable' = enable /\ rows' = rows
  <2>1. \/ Goto(t, "run") \/ Goto(t, "insert") \/ Goto(t, "create") \/ Goto(t, "store")
        \/ Goto(t, "bump") \/ Goto(t, "crash") \/ Goto(t, "start")
    BY DEF InitThread, InsertLocked, GrowUnlocked, StoreUnlocked, BumpUnlocked, InsertRefused
  <2>2. pc[t] \in {"none", "insert", "store", "bump"} /\ enable' = enable /\ rows' = rows
    BY DEF InitThread, InsertLocked, GrowUnlocked, StoreUnlocked, BumpUnlocked, InsertRefused, exitVars
  <2> QED
    BY <1>0, <2>1, <2>2 DEF Goto
<1>2. BootPart'
  <2>1. \A u \in Thread : pc[u] # "boot"
    <3>1. CASE InitThread(t)
      <4>1. PICK v \in Thread : pc[v] = "run"
        BY <3>1 DEF InitThread
      <4> QED
        BY <1>1, <4>1 DEF BootPart
    <3>2. CASE ~InitThread(t)
      <4>1. pc[t] \notin {"none", "boot"}
        BY <3>2 DEF InsertLocked, GrowUnlocked, StoreUnlocked, BumpUnlocked, InsertRefused
      <4> QED
        BY <4>1, NoBoot
    <3> QED
      BY <3>1, <3>2
  <2>2. \A u \in Thread : pc'[u] # "boot"
    BY <1>1, <2>1
  <2> QED
    BY <2>2 DEF BootPart
<1>3. CASE InitThread(t)
  <2>1. /\ slots' = slots /\ num' = num /\ size' = size /\ raced' = raced
        /\ pc[t] = "none" /\ loop' = loop
    BY <1>3 DEF InitThread, tableVars
  <2>2. (enable = "self" => pc'[t] = "insert") /\ pc'[t] \notin {"store", "bump"}
    BY <1>0, <1>3 DEF InitThread, Goto
  <2>3. \A u \in Thread \ {t} : rec'[u] = rec[u]
    BY <1>0, <1>3 DEF InitThread
  <2>4. SizePart'
    BY <1>1, <2>1, <2>2 DEF SizePart
  <2>6. TablePart'
    <3>1. CASE enable' = "self" /\ size' > 0 /\ ~raced'
      <4>0. enable = "self" /\ size > 0 /\ ~raced
        BY <1>1, <2>1, <3>1
      <4>1. ~rec[t].bound
        BY <1>0, <2>1, Fields DEF LocalPart
      <4>2. \A u \in Thread : Entered(u)' <=> Entered(u)
        BY <1>1, <2>2, <2>3, <4>0, <4>1 DEF Entered
      <4>3. EntriesWhole
        BY <4>0, TableMeans
      <4>4. EntriesWhole'
        BY <2>1, <4>2, <4>3, EntriesKept
      <4> QED
        BY <4>4, TableMeans, PTL
    <3> QED
      BY <3>1 DEF TablePart
  <2>7. RowsPart'
    BY <1>1, <2>1 DEF RowsPart
  <2> QED
    BY <1>2, <2>4, <2>6, <2>7
<1>8. CASE InsertRefused(t) \/ (InsertLocked(t) /\ size = 0)
  <2>1. /\ size = 0 /\ size' = 0 /\ raced' = raced /\ num' \in {num, num + 1}
        /\ loop' = loop /\ pc[t] = "insert" /\ havePapi
        /\ Goto(t, "run") \/ Goto(t, "create") \/ Goto(t, "crash")
    BY <1>0, <1>8 DEF InsertRefused, InsertLocked, NewSize, tableVars
  <2>2. \A u \in Thread : pc'[u] \notin {"store", "bump"}
    BY <1>0, <1>1, <2>1 DEF ThreadPart, LocalPart, Goto
  <2>3. SizePart'
    BY <2>1, <2>2 DEF SizePart
  <2>4. TablePart'
    BY <2>1 DEF TablePart
  <2>5. RowsPart'
    BY <1>0, <1>1, <2>1 DEF RowsPart
  <2> QED
    BY <1>2, <2>3, <2>4, <2>5
<1>4. CASE InsertLocked(t) /\ size > 0
  <2>1. /\ havePapi /\ pc[t] = "insert" /\ size' = NewSize /\ num' = num + 1 /\ raced' = raced
        /\ loop' = loop /\ rec' = rec /\ slots' = [Widened(NewSize) EXCEPT ![num + 1] = t]
        /\ Goto(t, "create") \/ (Goto(t, "crash") /\ ~(num < NewSize))
    BY <1>4 DEF InsertLocked
  <2>2. ~raced /\ size > 0 /\ num < size /\ NewSize \in Nat /\ num + 1 < NewSize /\ size <= NewSize
    <3>1. ~raced /\ size > 0 
      BY <1>4, <2>1 DEF SizePart
    <3> QED
      BY <3>1, Growth DEF SizePart
  <2>3. slots'[num + 1] = t /\ \A i \in 1 .. num : slots'[i] = slots[i]
    <3>1. PICK w : w = Widened(NewSize)
      OBVIOUS
    <3>2. /\ w \in Seq(Thread \cup {Null}) /\ Len(w) = NewSize
          /\ \A i \in 1 .. NewSize : w[i] = IF i <= size THEN slots[i] ELSE Null
      BY <2>2, <3>1, WidenedSeq
    <3>3. num + 1 \in 1 .. Len(w)
      BY <1>0, <2>2, <3>2
    <3>4. PICK k \in 1 .. Len(w) : k = num + 1
      BY <3>3
    <3>5. slots' = [w EXCEPT ![k] = t] /\ t \in Thread \cup {Null}
      BY <2>1, <3>1, <3>4
    <3>6. \A i \in 1 .. Len(w) : slots'[i] = IF i = k THEN t ELSE w[i]
      BY <3>2, <3>5, ExceptSeq
    <3> QED
      BY <1>0, <2>2, <3>2, <3>4, <3>6
  <2>4. pc'[t] = "create"
    <3>1. num < NewSize
      BY <1>0, <2>2
    <3> QED
      BY <1>0, <2>1, <3>1 DEF Goto
  <2>5. \A u \in Thread : pc[u] \notin {"store", "bump"}
    BY <2>1 DEF ThreadPart, LocalPart
  <2>6. SizePart'
    <3>1. \A u \in Thread : pc'[u] \notin {"store", "bump"}
      BY <1>1, <2>4, <2>5
    <3>2. (size' = 0 => num' = 0) /\ ~raced' /\ num' < size'
      BY <1>0, <2>1, <2>2
    <3> QED
      BY <3>1, <3>2 DEF SizePart
  <2>7. TablePart'
    <3>1. CASE enable' = "self" /\ size' > 0 /\ ~raced'
      <4>1. EntriesWhole
        BY <1>1, <2>1, <2>2, <3>1, TableMeans
      <4>2. ~Entered(t) /\ Entered(t)'
        BY <1>0, <2>1, <2>4 DEF Entered, RecordPart, InitLoc
      <4>3. \A u \in Thread \ {t} : Entered(u)' <=> Entered(u)
        BY <1>1, <2>1 DEF Entered
      <4>4. EntriesWhole'
        BY <1>0, <2>1, <2>3, <4>1, <4>2, <4>3, EntriesGrow
      <4> QED
        BY <4>4, TableMeans, PTL
    <3> QED
      BY <3>1 DEF TablePart
  <2>8. RowsPart'
    BY <1>0, <1>1, <2>1 DEF RowsPart
  <2> QED
    BY <1>2, <2>6, <2>7, <2>8
<1>5. CASE GrowUnlocked(t)
  <2>1. /\ ~havePapi /\ pc[t] = "insert" /\ size' = NewSize /\ num' = num
        /\ loop' = loop /\ rec' = rec /\ slots' = Widened(NewSize)
        /\ raced' = (raced \/ \E u \in Thread \ {t} : pc[u] \in {"store", "bump"})
        /\ Goto(t, "store")
    BY <1>5 DEF GrowUnlocked
  <2>2. /\ size > 0 /\ NewSize \in Nat /\ (~raced => num < size /\ num + 1 < NewSize)
        /\ size <= NewSize /\ NewSize > 0
    <3>1. size > 0
      BY <1>0, <2>1 DEF RecordPart, InitLoc
    <3> QED
      BY <3>1, Growth DEF SizePart
  <2>3. ~raced => \A i \in 1 .. num : slots'[i] = slots[i]
    <3>1. \A i \in 1 .. NewSize : slots'[i] = IF i <= size THEN slots[i] ELSE Null
      BY <2>1, <2>2, WidenedSeq
    <3> QED
      BY <1>0, <2>2, <3>1
  <2>4. pc'[t] = "store"
    BY <1>0, <2>1 DEF Goto
  <2>5. ~raced' => ~raced /\ \A u \in Thread \ {t} : pc[u] \notin {"store", "bump"}
    BY <2>1
  <2>6. SizePart'
    <3>1. ~raced' => \A u \in Thread \ {t} : pc'[u] \notin {"store", "bump"}
      BY <1>1, <2>5
    <3>2. (size' = 0 => num' = 0) /\ (~raced' => num' + 1 < size') /\ ~havePapi'
      BY <1>0, <2>1, <2>2, <2>5
    <3>3. ~raced' => \A u \in Thread : pc'[u] \in {"store", "bump"} => u = t
      BY <3>1
    <3>4. ~raced' => num' < size'
      <4>1. ~raced => num < NewSize
        BY <1>0, <2>2
      <4> QED
        BY <2>1, <2>5, <4>1
    <3> QED
      BY <2>4, <3>1, <3>2, <3>3, <3>4 DEF SizePart
  <2>7. TablePart'
    <3>1. CASE enable' = "self" /\ size' > 0 /\ ~raced'
      <4>1. EntriesWhole /\ ~raced
        BY <1>1, <2>2, <2>5, <3>1, TableMeans
      <4>2. \A u \in Thread : Entered(u)' <=> Entered(u)
        BY <1>1, <2>1, <2>4 DEF Entered
      <4>3. EntriesWhole'
        BY <2>1, <2>3, <4>1, <4>2, EntriesKept
      <4> QED
        BY <4>3, TableMeans, PTL
    <3> QED
      BY <3>1 DEF TablePart
  <2>8. RowsPart'
    BY <1>0, <1>1, <2>1, <2>5 DEF RowsPart
  <2> QED
    BY <1>2, <2>6, <2>7, <2>8
<1>6. CASE StoreUnlocked(t)
  <2>1. /\ pc[t] = "store" /\ size' = size /\ num' = num /\ raced' = raced
        /\ rec' = rec /\ slots' = [slots EXCEPT ![num + 1] = t]
        /\ loop' = [loop EXCEPT ![t].num = num]
        /\ Goto(t, "bump") \/ (Goto(t, "crash") /\ ~(num < size))
    BY <1>6 DEF StoreUnlocked
  <2>2. ~raced => num + 1 < size /\ \A u \in Thread \ {t} : pc[u] \notin {"store", "bump"}
    BY <2>1 DEF SizePart
  <2>3. ~raced => slots'[num + 1] = t /\ \A i \in 1 .. num : slots'[i] = slots[i]
    <3>1. CASE ~raced
      <4>1. PICK k \in 1 .. Len(slots) : k = num + 1
        BY <1>0, <2>2, <3>1
      <4>2. slots' = [slots EXCEPT ![k] = t] /\ t \in Thread \cup {Null}
        BY <2>1, <4>1
      <4>3. \A i \in 1 .. Len(slots) : slots'[i] = IF i = k THEN t ELSE slots[i]
        BY <1>0, <4>2, ExceptSeq
      <4> QED
        BY <1>0, <2>2, <3>1, <4>1, <4>3
    <3> QED
      BY <3>1
  <2>4. pc'[t] \in {"bump", "crash"} /\ (~raced => pc'[t] = "bump")
    BY <1>0, <2>1, <2>2 DEF Goto
  <2>5. loop'[t].num = num
    <3>1. PICK n \in Nat : n = num
      BY <1>0
    <3>2. loop' = [loop EXCEPT ![t].num = n]
      BY <2>1, <3>1
    <3> QED
      BY <1>0, <3>1, <3>2 DEF Locals
  <2>6. SizePart'
    <3>1. ~raced' => \A u \in Thread \ {t} : pc'[u] \notin {"store", "bump"}
      BY <1>1, <2>1, <2>2
    <3>2. (~raced' => num' + 1 < size') /\ (havePapi' => ~raced')
      BY <2>1, <2>2 DEF SizePart
    <3>3. ~raced' => \A u \in Thread : pc'[u] \in {"store", "bump"} => u = t
      BY <3>1
    <3>4. ~raced' => loop'[t].num = num' /\ slots'[num' + 1] = t
      BY <2>1, <2>3, <2>5
    <3>5. ~raced' => num' < size'
      <4>1. ~raced => num < size
        BY <1>0, <2>2
      <4> QED
        BY <2>1, <4>1
    <3> QED
      BY <3>1, <3>2, <3>3, <3>4, <3>5 DEF SizePart
  <2>7. TablePart'
    <3>1. CASE enable' = "self" /\ size' > 0 /\ ~raced'
      <4>1. EntriesWhole /\ ~raced
        BY <1>1, <2>1, <3>1, TableMeans
      <4>2. \A u \in Thread : Entered(u)' <=> Entered(u)
        BY <1>1, <2>1, <2>4, <4>1 DEF Entered
      <4>3. EntriesWhole'
        BY <2>1, <2>3, <4>1, <4>2, EntriesKept
      <4> QED
        BY <4>3, TableMeans, PTL
    <3> QED
      BY <3>1 DEF TablePart
  <2>8. RowsPart'
    BY <1>0, <1>1, <2>1 DEF RowsPart
  <2> QED
    BY <1>2, <2>6, <2>7, <2>8
<1>7. CASE BumpUnlocked(t)
  <2>1. /\ pc[t] = "bump" /\ size' = size /\ num' \in {loop[t].num + 1, num + 1} /\ raced' = raced
        /\ rec' = rec /\ slots' = slots /\ loop' = [loop EXCEPT ![t] = NoLoop]
        /\ Goto(t, "start")
    BY <1>7 DEF BumpUnlocked
  <2>2. ~raced => /\ num + 1 < size /\ loop[t].num = num /\ slots[num + 1] = t
                  /\ \A u \in Thread \ {t} : pc[u] \notin {"store", "bump"}
    BY <2>1 DEF SizePart
  <2>3. size > 0 /\ rec[t].bound /\ ~havePapi
    BY <1>0, <2>1 DEF RecordPart, LocalPart, InitLoc
  <2>4. pc'[t] = "start" /\ (~raced => num' = num + 1)
    BY <1>0, <2>1, <2>2 DEF Goto
  <2>5. SizePart'
    <3>1. ~raced' => \A u \in Thread : pc'[u] \notin {"store", "bump"}
      BY <1>1, <2>1, <2>2, <2>4
    <3>2. size' > 0 /\ (~raced' => num' < size') /\ ~havePapi'
      <4>1. ~raced => num + 1 < size /\ num' = num + 1
        BY <2>2, <2>4
      <4>2. size' = size /\ raced' = raced
        BY <2>1
      <4> QED
        BY <2>3, <4>1, <4>2
    <3>3. size' # 0
      BY <1>0, <3>2
    <3>4. CASE raced'
      BY <3>2, <3>3, <3>4 DEF SizePart
    <3>5. CASE ~raced'
      <4>1. \A u \in Thread : pc'[u] \notin {"store", "bump"}
        BY <3>1, <3>5
      <4> QED
        BY <3>2, <3>3, <3>5, <4>1 DEF SizePart
    <3> QED
      BY <3>4, <3>5
  <2>6. TablePart'
    <3>1. CASE enable' = "self" /\ size' > 0 /\ ~raced'
      <4>1. EntriesWhole /\ ~raced
        BY <1>1, <2>1, <3>1, TableMeans
      <4>2. ~Entered(t) /\ Entered(t)'
        BY <1>0, <2>1, <2>3, <2>4 DEF Entered
      <4>3. \A u \in Thread \ {t} : Entered(u)' <=> Entered(u)
        BY <1>1, <2>1 DEF Entered
      <4>4. slots'[num + 1] = t /\ num' = num + 1 /\ \A i \in 1 .. num : slots'[i] = slots[i]
        BY <2>1, <2>2, <2>4, <4>1
      <4>5. EntriesWhole'
        BY <1>0, <4>1, <4>2, <4>3, <4>4, EntriesGrow
      <4> QED
        BY <4>5, TableMeans, PTL
    <3> QED
      BY <3>1 DEF TablePart
  <2>7. RowsPart'
    BY <1>0, <1>1, <2>1, <2>4 DEF RowsPart
  <2> QED
    BY <1>2, <2>5, <2>6, <2>7
<1> QED
  BY <1>0, <1>3, <1>4, <1>5, <1>6, <1>7, <1>8

LEMMA BeginTable ==
  ASSUME TypeOK, TypeOK', ThreadPart, BootPart, SizePart, TablePart, NEW t \in Thread,
         UNCHANGED havePapi,
         (InitProcess(t) \/ InitProcessFails(t)) \/ Fork(t)
  PROVE  SizePart' /\ TablePart' /\ RowsPart'
<1>0. /\ SelfPart(t) /\ size \in Nat /\ num \in Nat
      /\ pc \in [Thread -> Loc] /\ rec \in [Thread -> Record]
  BY SizeNat DEF ThreadPart, TypeOK
<1>1. CASE InitProcess(t) \/ InitProcessFails(t)
  <2>1. /\ num' = 0 /\ (size' > 0 \/ size' = 0) /\ raced' = FALSE
        /\ pc[t] = "boot" /\ pc'[t] \in {"insert", "run"}
    BY <1>0, <1>1, ClientAssumption DEF InitProcess, InitProcessFails, FreshTable, Goto
  <2>2. \A u \in Thread \ {t} : pc'[u] = "none" /\ rec'[u] = rec[u] /\ ~rec[u].bound
    <3>1. \A u \in Thread \ {t} : pc[u] = "none"
      BY <2>1 DEF BootPart
    <3>2. \A u \in Thread \ {t} : pc'[u] = pc[u] /\ rec'[u] = rec[u]
      BY <1>0, <1>1 DEF InitProcess, InitProcessFails, Goto
    <3> QED
      BY <3>1, <3>2, Fields DEF ThreadPart, LocalPart
  <2>3. SizePart'
    <3>1. \A u \in Thread : pc'[u] \notin {"store", "bump"}
      BY <2>1, <2>2
    <3>2. (size' > 0 => num' < size') /\ ~raced' /\ num' = 0
      BY <2>1
    <3> QED
      BY <3>1, <3>2 DEF SizePart
  <2>4. RowsPart'
    <3>1. \A u \in Thread : pc'[u] # "write"
      BY <2>1, <2>2
    <3> QED
      BY <3>1 DEF RowsPart
  <2>5. enable' = "self" => \A u \in Thread : ~Entered(u)'
    <3>1. CASE InitProcess(t)
      <4>1. pc'[t] = "insert"
        BY <1>0, <3>1 DEF InitProcess, Goto
      <4>2. ASSUME NEW u \in Thread
            PROVE  ~Entered(u)'
        BY <2>2, <4>1 DEF Entered
      <4> QED
        BY <4>2
    <3>2. CASE InitProcessFails(t)
      <4>1. enable' = "self" => ~rec'[t].bound
        <5>1. t = main /\ rec' = rec /\ (enable' = "self" => enable = "self")
          BY <2>1, <3>2 DEF BootPart, InitProcessFails
        <5> QED
          BY <1>0, <2>1, <5>1 DEF SelfPart
      <4>2. ASSUME NEW u \in Thread, enable' = "self"
            PROVE  ~Entered(u)'
        BY <2>2, <4>1, <4>2 DEF Entered
      <4> QED
        BY <4>2
    <3> QED
      BY <1>1, <3>1, <3>2
  <2>6. TablePart'
    <3>1. \A i \in 1 .. num' : FALSE
      BY <2>1
    <3> QED
      BY <2>5, <3>1 DEF TablePart
  <2> QED
    BY <2>3, <2>4, <2>6
<1>2. CASE Fork(t)
  <2>1. /\ num' = num /\ size' = size /\ raced' = raced /\ enable' = "other"
        /\ \A u \in Thread : pc'[u] \in {"none", "boot", "run"}
    BY <1>2 DEF Fork, tableVars
  <2>2. SizePart'
    <3>1. \A u \in Thread : pc'[u] \notin {"store", "bump"}
      BY <2>1
    <3> QED
      BY <2>1, <3>1 DEF SizePart
  <2>3. TablePart' /\ RowsPart'
    BY <2>1 DEF TablePart, RowsPart
  <2> QED
    BY <2>2, <2>3
<1> QED
  BY <1>1, <1>2

\* What the writer writes has been entered, unless threads raced.
LEMMA RowsOwned ==
  ASSUME TypeOK, ThreadPart, SizePart, TablePart, RowsPart, ExitPart, ~Ended, NEW t \in Thread,
         rows'.out = rows.out \/ Write(t)
  PROVE  ChildRowsOwn'
<1>1. CASE rows'.out = rows.out
  <2>1. rows'.out = <<>>
    BY <1>1, NoRowsYet
  <2> QED
    BY <2>1 DEF ChildRowsOwn
<1>2. CASE Write(t)
  <2>1. pc[t] = "write" /\ raced' = raced /\ size' = size /\ rec' = rec
    BY <1>2 DEF Write, tableVars
  <2>2. PICK w : w = Widened(rows.num)
    OBVIOUS
  <2>3. rows'.out = w
    BY <1>2, <2>2 DEF Write, TypeOK
  <2>4. DOMAIN w = 1 .. rows.num /\ \A i \in 1 .. rows.num : i <= size => w[i] = slots[i]
    BY <2>2 DEF Widened
  <2>5. CASE ~raced /\ size > 0
    <3>1. enable = "self" /\ rows.num > 0 /\ rows.num <= num /\ num < size
      <4>1. enable = "self" /\ rows.num > 0 /\ rows.num <= num
        BY <2>1, <2>5 DEF ExitPart, ExitThread, RowsPart
      <4>2. num > 0 /\ size \in Nat /\ num \in Nat
        BY <4>1, SizeNat DEF TypeOK
      <4> QED
        BY <2>5, <4>1, <4>2 DEF SizePart
    <3>2. EntriesWhole
      BY <2>5, <3>1, TableMeans
    <3>3. ASSUME NEW i \in 1 .. rows.num
          PROVE  w[i] \in Thread /\ rec[w[i]].bound
      <4>1. i \in 1 .. num /\ i <= size
        BY <3>1, SizeNat DEF TypeOK
      <4> QED
        BY <2>4, <3>2, <4>1 DEF EntriesWhole, Entered
    <3> QED
      BY <2>1, <2>3, <2>4, <3>3 DEF ChildRowsOwn
  <2>6. CASE raced \/ ~(size > 0)
    BY <2>1, <2>6 DEF ChildRowsOwn
  <2> QED
    BY <2>5, <2>6
<1> QED
  BY <1>1, <1>2
-----------------------------------------------------------------------------
(* The inductive invariant, and what follows from it. *)

LEMMA ListSimple ==
  ASSUME TypeOK, ListPart, NEW t \in Thread,
         \/ InitThread(t) \/ InsertRefused(t) \/ Exit(t) \/ FiniProcessSkipped(t)
         \/ FiniProcessExec(t) \/ Exec(t) \/ ApiStart(t) \/ ApiStop(t) \/ ApiCrash(t) \/ Fork(t)
  PROVE  ListPart'
<1>1. names' = names /\ codes' = codes
  BY DEF InitThread, InsertRefused, Exit, FiniProcessSkipped, FiniProcessExec, Exec, ApiStart,
         ApiStop, ApiCrash, Fork, eventVars
<1>2. \A u \in Thread : loop'[u] \in {loop[u], NoLoop}
  <2>1. CASE Fork(t)
    BY <2>1 DEF Fork
  <2>2. CASE ~Fork(t)
    BY <2>2 DEF InitThread, InsertRefused, Exit, FiniProcessSkipped, FiniProcessExec, Exec,
                ApiStart, ApiStop, ApiCrash
  <2> QED
    BY <2>1, <2>2
<1>3. \A u \in Thread : loop'[u].i # 0
  BY <1>2, Fields DEF ListPart
<1> QED
  BY <1>1, <1>3 DEF ListPart

\* The first state.
LEMMA ClientInit == Init => ClientInv
<1> SUFFICES ASSUME Init
             PROVE  ClientInv
  OBVIOUS
<1> USE ClientAssumption
<1>1. /\ Wanted \in Seq(Event) /\ NoCodes \in Seq(Code) /\ Len(NoCodes) = Len(Wanted)
      /\ Len(Wanted) \in Nat /\ <<>> \in Seq(Thread \cup {Null}) /\ Len(<<>>) = 0
  BY CodesInit, EmptySeq
<1>2. ThreadTypes
  BY Fields DEF Init, ThreadTypes, Loc
<1>3. ListTypes /\ TableTypes /\ ExitTypes
  <2>1. ListTypes
    BY <1>1 DEF Init, ListTypes
  <2>2. TableTypes
    <3>1. slots = <<>> /\ num = 0 /\ size = 0 /\ raced = FALSE
      BY DEF Init
    <3>2. raced \in BOOLEAN
      BY <3>1, Zenon
    <3> QED
      BY <1>1, <3>1, <3>2 DEF TableTypes
  <2>3. ExitTypes
    BY <1>1 DEF Init, ExitTypes
  <2> QED
    BY <2>1, <2>2, <2>3
<1>4. TypeOK
  BY <1>2, <1>3, TypeParts
<1>5. ListPart
  BY <1>1, Fields DEF Init, ListPart
<1>6. ThreadPart
  <2>1. ASSUME NEW t \in Thread
        PROVE  Parts(t)
    <3>1. /\ pc[t] \in {"boot", "none"} /\ rec[t] = NoRecord /\ loop[t] = NoLoop
          /\ api[t] = "none" /\ size = 0 /\ main = Main /\ (t # Main => pc[t] = "none")
          /\ (t = Main => pc[t] = "boot") /\ eventcnt = Len(Wanted) /\ (~dropped => eventcnt # 0)
      BY DEF Init
    <3>2. LocalPart(t)
      BY <3>1, Fields, CodesInit DEF LocalPart, InitLoc, SetUpLoc, LoopLoc
    <3>3. RecordPart(t)
      BY <3>1, Fields DEF RecordPart, InitLoc, SetUpLoc, LoopLoc
    <3>4. SelfPart(t)
      BY <3>1, Fields DEF SelfPart
    <3>5. CaliperPart(t)
      BY <3>1, Fields DEF CaliperPart
    <3>6. StartedPart(t)
      BY <1>1, <3>1, Fields DEF StartedPart, LoopLoc
    <3> QED
      BY <3>2, <3>3, <3>4, <3>5, <3>6 DEF Parts
  <2> QED
    BY <2>1 DEF ThreadPart, Parts
<1>7. BootPart
  BY DEF Init, BootPart
<1>8. \A t \in Thread : pc[t] \in {"boot", "none"}
  BY DEF Init
<1>9. ExitPart
  <2>1. \A t \in Thread : ExitThread(t) /\ Filled(t)
    BY <1>8 DEF Init, ExitThread, Filled
  <2> QED
    BY <2>1 DEF Init, ExitPart, Silent
<1>10. SizePart
  BY <1>8 DEF Init, SizePart
<1>11. TablePart
  <2>1. \A t \in Thread : ~Entered(t)
    BY Fields DEF Init, Entered
  <2> QED
    BY <2>1 DEF Init, TablePart
<1>12. RowsPart /\ ChildRowsOwn
  BY <1>8 DEF Init, RowsPart, ChildRowsOwn
<1> QED
  BY <1>4, <1>5, <1>6, <1>7, <1>9, <1>10, <1>11, <1>12 DEF ClientInv

\* A step of a thread.
ThreadStep(t) ==
    /\ ~Ended /\ UNCHANGED havePapi
    /\ \/ (InitStep(t) \/ EndStep(t)) /\ UNCHANGED apiVars
       \/ ApiStep(t) \/ Fork(t)

LEMMA ClientThreadStep ==
  ASSUME ClientInv, NEW t \in Thread, ThreadStep(t)
  PROVE  ClientInv'
<1>0. /\ TypeOK /\ ListPart /\ ThreadPart /\ BootPart /\ ExitPart /\ SizePart
      /\ TablePart /\ RowsPart /\ ~Ended /\ UNCHANGED havePapi
  BY DEF ClientInv, ThreadStep
<1>1. LocalPart(t) /\ RecordPart(t) /\ CaliperPart(t)
  BY <1>0 DEF ThreadPart
<1>2. CASE (InitProcess(t) \/ InitProcessFails(t)) /\ UNCHANGED apiVars
  <2>1. TypeOK' /\ ListPart'
    BY <1>0, <1>2, TypeProcess
  <2>2. ThreadPart'
    BY <1>0, <1>2, <2>1, ProcessSteps
  <2>3. ExitPart' /\ BootPart'
    BY <1>0, <1>2, <2>1, BeginExit
  <2>4. SizePart' /\ TablePart' /\ RowsPart'
    BY <1>0, <1>2, <2>1, BeginTable
  <2>5. ChildRowsOwn'
    <3>1. rows'.out = rows.out
      BY <1>2 DEF InitProcess, InitProcessFails
    <3> QED
      BY <1>0, <3>1, RowsOwned
  <2> QED
    BY <2>1, <2>2, <2>3, <2>4, <2>5 DEF ClientInv
<1>3. CASE Fork(t)
  <2>1. TypeOK' /\ ListPart'
    BY <1>0, <1>3, TypeSimple, ListSimple
  <2>2. ThreadPart'
    BY <1>0, <1>3, <2>1, ProcessSteps
  <2>3. ExitPart' /\ BootPart'
    BY <1>0, <1>3, <2>1, BeginExit
  <2>4. SizePart' /\ TablePart' /\ RowsPart'
    BY <1>0, <1>3, <2>1, BeginTable
  <2>5. ChildRowsOwn'
    <3>1. rows'.out = rows.out
      BY <1>3 DEF Fork, exitVars
    <3> QED
      BY <1>0, <3>1, RowsOwned
  <2> QED
    BY <2>1, <2>2, <2>3, <2>4, <2>5 DEF ClientInv
<1>4. CASE /\ \/ InitThread(t) \/ InsertLocked(t) \/ GrowUnlocked(t) \/ StoreUnlocked(t)
              \/ BumpUnlocked(t) \/ InsertRefused(t)
           /\ UNCHANGED apiVars
  <2>1. TypeOK' /\ ListPart'
    <3>1. CASE InitThread(t) \/ InsertRefused(t)
      BY <1>0, <1>4, <3>1, TypeSimple, ListSimple
    <3>2. CASE ~(InitThread(t) \/ InsertRefused(t))
      BY <1>0, <1>1, <1>4, <3>2, TypeTable
    <3> QED
      BY <3>1, <3>2
  <2>2. ThreadPart'
    BY <1>0, <1>4, <2>1, ThreadSteps
  <2>3. ExitPart'
    BY <1>0, <1>4, <2>1, StayExit
  <2>4. BootPart' /\ SizePart' /\ TablePart' /\ RowsPart'
    BY <1>0, <1>4, <2>1, TableSteps
  <2>5. ChildRowsOwn'
    <3>1. rows'.out = rows.out
      BY <1>4 DEF InitThread, InsertLocked, InsertRefused, GrowUnlocked, StoreUnlocked,
                  BumpUnlocked, exitVars
    <3> QED
      BY <1>0, <3>1, RowsOwned
  <2> QED
    BY <2>1, <2>2, <2>3, <2>4, <2>5 DEF ClientInv
<1>5. CASE \/ (\/ SetUp(t) \/ Start(t) \/ FiniThread(t) \/ Exit(t) \/ FiniProcessSkipped(t)
               \/ FiniProcessExec(t) \/ FiniProcess(t) \/ Write(t) \/ Exec(t))
                /\ UNCHANGED apiVars
           \/ ApiStart(t) \/ ApiStop(t) \/ ApiReturn(t) \/ ApiCrash(t)
  <2>1. TypeOK' /\ ListPart'
    <3>1. CASE \/ (\/ Exit(t) \/ FiniProcessSkipped(t) \/ FiniProcessExec(t) \/ Exec(t))
                   /\ UNCHANGED apiVars
               \/ ApiStart(t) \/ ApiStop(t) \/ ApiCrash(t)
      BY <1>0, <3>1, TypeSimple, ListSimple
    <3>2. CASE \/ (SetUp(t) \/ Start(t) \/ FiniThread(t) \/ FiniProcess(t)) /\ UNCHANGED apiVars
               \/ ApiReturn(t)
      BY <1>0, <1>1, <3>2, TypeRecord
    <3>3. CASE Write(t) /\ UNCHANGED apiVars
      BY <1>0, <1>1, <3>3, TypeTable
    <3> QED
      BY <1>5, <3>1, <3>2, <3>3
  <2>2. ThreadPart'
    <3>1. CASE \/ (\/ Exit(t) \/ FiniProcessSkipped(t) \/ Write(t)
                   \/ FiniProcessExec(t) \/ Exec(t)) /\ UNCHANGED apiVars
               \/ ApiCrash(t)
      BY <1>0, <2>1, <3>1, ThreadSteps
    <3>2. CASE \/ (SetUp(t) \/ Start(t) \/ FiniThread(t) \/ FiniProcess(t)) /\ UNCHANGED apiVars
               \/ ApiStart(t) \/ ApiStop(t) \/ ApiReturn(t)
      BY <1>0, <2>1, <3>2, RecordSteps
    <3> QED
      BY <1>5, <3>1, <3>2
  <2>3. ExitPart'
    <3>1. CASE \/ (SetUp(t) \/ Start(t) \/ FiniThread(t) \/ Exec(t)) /\ UNCHANGED apiVars
               \/ ApiStart(t) \/ ApiStop(t) \/ ApiReturn(t) \/ ApiCrash(t)
      BY <1>0, <2>1, <3>1, StayExit
    <3>2. CASE /\ \/ Exit(t) \/ FiniProcessSkipped(t) \/ FiniProcessExec(t) \/ FiniProcess(t)
                  \/ Write(t)
               /\ UNCHANGED apiVars
      BY <1>0, <2>1, <3>2, LeaveExit
    <3> QED
      BY <1>5, <3>1, <3>2
  <2>4. LateStep(t)
    BY <1>0, <1>5, <2>1, StepIsLate
  <2>5. BootPart' /\ SizePart' /\ TablePart' /\ RowsPart'
    BY <1>0, <2>4, LateKeeps
  <2>6. ChildRowsOwn'
    <3>1. rows'.out = rows.out \/ Write(t)
      <4>1. CASE FiniProcess(t)
        BY <1>0, <4>1 DEF FiniProcess, TypeOK
      <4>2. CASE ~FiniProcess(t) /\ ~Write(t)
        BY <1>5, <4>2
           DEF SetUp, Start, FiniThread, Exit, FiniProcessSkipped, FiniProcessExec, Exec, ApiStart, ApiStop, ApiReturn, ApiCrash,
               exitVars
      <4> QED
        BY <4>1, <4>2
    <3> QED
      BY <1>0, <3>1, RowsOwned
  <2> QED
    BY <2>1, <2>2, <2>3, <2>5, <2>6 DEF ClientInv
<1> QED
  BY <1>2, <1>3, <1>4, <1>5 DEF ThreadStep, InitStep, EndStep, ApiStep

LEMMA ClientStutter ==
  ASSUME ClientInv, UNCHANGED vars
  PROVE  ClientInv'
<1>1. /\ UNCHANGED <<havePapi, pc, main, enable, rec, loop, api, apiCalls>>
      /\ UNCHANGED <<names, codes, eventcnt, dropped, slots, num, size, raced, called, how, exiter, rows>>
  BY DEF vars, apiVars, eventVars, countVars, tableVars, exitVars
<1>2. TypeOK' /\ ListPart'
  <2>1. TypeOK'
    BY <1>1 DEF ClientInv, TypeOK
  <2> QED
    BY <1>1, <2>1 DEF ClientInv, ListPart
<1>3. ThreadPart'
  <2>1. \A t \in Thread : LocalPart(t)' /\ RecordPart(t)'
    BY <1>1 DEF ClientInv, ThreadPart, LocalPart, RecordPart
  <2>2. \A t \in Thread : SelfPart(t)' /\ CaliperPart(t)'
    BY <1>1 DEF ClientInv, ThreadPart, SelfPart, CaliperPart
  <2>3. \A t \in Thread : StartedPart(t)'
    BY <1>1 DEF ClientInv, ThreadPart, StartedPart
  <2> QED
    BY <2>1, <2>2, <2>3 DEF ThreadPart
<1>4. BootPart' /\ RowsPart' /\ ChildRowsOwn'
  BY <1>1 DEF ClientInv, BootPart, RowsPart, ChildRowsOwn
<1>5. ExitPart'
  <2>1. \A t \in Thread : ExitThread(t)' /\ Filled(t)'
    BY <1>1 DEF ClientInv, ExitPart, ExitThread, Filled
  <2>2. Silent' /\ (rows'.out # <<>> => Ended')
    BY <1>1 DEF ClientInv, ExitPart, Silent, Ended
  <2> QED
    BY <1>1, <2>1, <2>2 DEF ClientInv, ExitPart
<1>6. SizePart'
  BY <1>1 DEF ClientInv, SizePart
<1>7. TablePart'
  BY <1>1 DEF ClientInv, TablePart, Entered
<1> QED
  BY <1>2, <1>3, <1>4, <1>5, <1>6, <1>7 DEF ClientInv

LEMMA ClientStep == ClientInv /\ [Next]_vars => ClientInv'
<1> SUFFICES ASSUME ClientInv, [Next]_vars
             PROVE  ClientInv'
  OBVIOUS
<1>1. CASE \E t \in Thread : ThreadStep(t)
  BY <1>1, ClientThreadStep
<1>2. CASE UNCHANGED vars
  BY <1>2, ClientStutter
<1> QED
  BY <1>1, <1>2 DEF Next, ThreadStep, Terminated

\* Whatever the threads, the events, the faults of PAPI and the calls of the
\* application: the table, the records and the exit agree as ClientInv says.
THEOREM ClientInvariant == Spec => []ClientInv
BY ClientInit, ClientStep, PTL DEF Spec

\* Every step of the program stays in the types: TypeOK, for any constants.
THEOREM TypeCorrect == Spec => []TypeOK
<1>1. ClientInv => TypeOK
  BY DEF ClientInv
<1> QED
  BY <1>1, ClientInvariant, PTL

LEMMA SlotCount ==
  ASSUME EntriesWhole, NEW t \in Thread
  PROVE  Cardinality({i \in 1 .. num : slots[i] = t}) = IF Entered(t) THEN 1 ELSE 0
<1>1. CASE Entered(t)
  <2>1. PICK k \in 1 .. num : slots[k] = t
    BY <1>1 DEF EntriesWhole
  <2>2. {i \in 1 .. num : slots[i] = t} = {k}
    BY <2>1 DEF EntriesWhole
  <2> QED
    BY <1>1, <2>2, FS_Singleton
<1>2. CASE ~Entered(t)
  <2>1. {i \in 1 .. num : slots[i] = t} = {}
    BY <1>2 DEF EntriesWhole
  <2> QED
    BY <1>2, <2>1, FS_EmptySet
<1> QED
  BY <1>1, <1>2

\* TableWhole: the slots below all_threads_num and the threads that are past their
\* entry, one to one, as long as no two threads entered at a time without the lock.
THEOREM EveryThreadInTable == Spec => []TableWhole
<1>1. ClientInv => TableWhole
  <2>1. SUFFICES ASSUME ClientInv, enable = "self", size > 0, ~raced, NEW t \in Thread,
                        pc[t] \notin {"insert", "store", "bump", "boot", "crash"}
                 PROVE  Cardinality({i \in 1 .. num : slots[i] = t})
                          = IF rec[t].bound THEN 1 ELSE 0
    BY DEF TableWhole
  <2>2. EntriesWhole
    BY <2>1, TableMeans DEF ClientInv
  <2>3. Entered(t) <=> rec[t].bound
    BY <2>1 DEF Entered
  <2> QED
    BY <2>2, <2>3, SlotCount
<1> QED
  BY <1>1, ClientInvariant, PTL

\* CalipersBalanced: built with PAPI, the caliper of a closed record was started and
\* stopped in pairs, whatever the application did with papiex_start and papiex_stop,
\* unless the events were dropped at some time or the shutdown tore the record.
THEOREM BalancedWhenClosed == Spec => []CalipersBalanced
<1>1. ClientInv => CalipersBalanced
  <2>1. SUFFICES ASSUME ClientInv, NEW t \in Thread, havePapi, rec[t].closed > 0, ~rec[t].torn,
                        ~dropped
                 PROVE  rec[t].depth = 0 /\ rec[t].used >= 1
    BY DEF CalipersBalanced
  <2>2. StartedPart(t) /\ rec[t].used \in Nat
    BY <2>1 DEF ClientInv, ThreadPart, TypeOK, Record
  <2>3. rec[t].depth = 0 /\ rec[t].used > 0
    BY <2>1, <2>2 DEF StartedPart
  <2> QED
    BY <2>2, <2>3
<1> QED
  BY <1>1, ClientInvariant, PTL

\* ChildRowsOwn: a row that is written is of a thread that this process initialised,
\* also in a child that starts with the table of its parent.
THEOREM RowsOfOwnThreads == Spec => []ChildRowsOwn
<1>1. ClientInv => ChildRowsOwn
  BY DEF ClientInv
<1> QED
  BY <1>1, ClientInvariant, PTL

\* AlwaysWritten: a measured process with a table that ends, other than by exec, has
\* given rows to the writer.
THEOREM EndsWritten == Spec => []AlwaysWritten
<1>1. ClientInv => AlwaysWritten
  BY DEF ClientInv, ExitPart, ExitThread, AlwaysWritten
<1> QED
  BY <1>1, ClientInvariant, PTL
-----------------------------------------------------------------------------
(* Where only the main thread ends the process: a closed record is settled. *)

LEMMA MainExitsInit == Init => MainExits
BY DEF Init, MainExits

\* Who is the main thread, and who ends the process, changes in two steps only.
LEMMA ExiterKept ==
  ASSUME NEW t \in Thread, ThreadStep(t), ~Fork(t), ~Exit(t)
  PROVE  main' = main /\ exiter' = exiter
BY DEF ThreadStep, InitStep, EndStep, ApiStep, InitProcess, InitProcessFails, InitThread,
       InsertLocked, InsertRefused, GrowUnlocked, StoreUnlocked, BumpUnlocked, SetUp, Start, ApiStart, ApiStop, ApiReturn, ApiCrash, FiniThread,
       FiniProcessSkipped, FiniProcessExec, FiniProcess, Write, Exec, exitVars

LEMMA NextCases ==
  ASSUME [Next]_vars
  PROVE  (\E t \in Thread : ThreadStep(t)) \/ UNCHANGED vars
BY DEF Next, ThreadStep, Terminated

LEMMA MainExitsStep ==
  ASSUME AnyExiter = FALSE, MainExits, [Next]_vars
  PROVE  MainExits'
<1>1. CASE UNCHANGED vars
  BY <1>1 DEF vars, exitVars, MainExits
<1>2. CASE \E t \in Thread : ThreadStep(t)
  <2>1. PICK t \in Thread : ThreadStep(t)
    BY <1>2
  <2>2. CASE Fork(t)
    BY <2>2 DEF Fork, exitVars, MainExits
  <2>3. CASE Exit(t)
    BY <2>3 DEF Exit, MainExits
  <2>4. CASE ~Fork(t) /\ ~Exit(t)
    BY <2>1, <2>4, ExiterKept DEF MainExits
  <2> QED
    BY <2>2, <2>3, <2>4
<1> QED
  BY <1>1, <1>2, NextCases

\* A step of a thread that leaves the records of the others alone.
LEMMA RecordsOfOthers ==
  ASSUME ClientInv, NEW t \in Thread, ThreadStep(t), ~Fork(t)
  PROVE  Others(rec, rec', t)
<1>0. TypeOK /\ ListPart /\ LocalPart(t) /\ RecordPart(t) /\ CaliperPart(t) /\ rec \in [Thread -> Record]
  BY DEF ClientInv, ThreadPart, TypeOK
<1>1. CASE SetUp(t) \/ Start(t) \/ ApiReturn(t)
  BY <1>0, <1>1, SetUpRecord, StartedEffect, ReturnEffect
<1>2. CASE FiniThread(t) \/ FiniProcess(t)
  <2>1. ShutdownThread(t) \/ rec' = rec
    BY <1>2 DEF FiniThread, FiniProcess
  <2> QED
    BY <1>0, <2>1, Shutdown DEF Others
<1>3. CASE InitProcess(t) \/ InitThread(t) \/ InsertRefused(t)
  BY <1>0, <1>3 DEF InitProcess, InitThread, InsertRefused, Others
<1>4. CASE \/ InitProcessFails(t) \/ InsertLocked(t) \/ GrowUnlocked(t) \/ StoreUnlocked(t)
           \/ BumpUnlocked(t) \/ ApiStart(t) \/ ApiStop(t) \/ ApiCrash(t) \/ Exit(t) \/ FiniProcessSkipped(t)
           \/ FiniProcessExec(t) \/ Write(t) \/ Exec(t)
  <2>1. rec' = rec
    BY <1>4 DEF InitProcessFails, InsertLocked, GrowUnlocked, StoreUnlocked, BumpUnlocked,
         ApiStart, ApiStop, ApiCrash, Exit,
         FiniProcessSkipped, FiniProcessExec, Write, Exec
  <2> QED
    BY <2>1 DEF Others
<1> QED
  BY <1>1, <1>2, <1>3, <1>4 DEF ThreadStep, InitStep, EndStep, ApiStep

\* A thread whose record is closed has few steps left that change its record.
LEMMA ClosedKept ==
  ASSUME ClientInv, MainExits, NEW t \in Thread, ThreadStep(t),
         havePapi, rec[t].closed > 0, ~rec[t].torn
  PROVE  rec'[t] = rec[t] \/ pc'[t] \in {"none", "insert"}
<1>0. /\ RecordPart(t) /\ CaliperPart(t) /\ SelfPart(t) /\ pc \in [Thread -> Loc]
      /\ rec[t].closed \in Nat /\ ExitThread(t)
  BY DEF ClientInv, ThreadPart, TypeOK, Record, ExitPart
<1>1. pc[t] \notin {"none", "boot", "run"} \cup InitLoc
  BY <1>0 DEF RecordPart
<1>2. ~(InitStep(t) \/ Fork(t) \/ FiniThread(t) \/ ApiReturn(t))
  <2>0. SetUp(t) => pc[t] \in InitLoc
    BY SetUpRecord DEF ClientInv, InitLoc
  <2>1. ~(InitStep(t) \/ Fork(t) \/ FiniThread(t))
    BY <1>1, <2>0 DEF InitStep, Fork, FiniThread, InitLoc, InitProcess, InitProcessFails,
         InitThread, InsertLocked, InsertRefused, GrowUnlocked, StoreUnlocked, BumpUnlocked, Start
  <2>2. ~ApiReturn(t)
    BY <1>0 DEF CaliperPart, ApiReturn
  <2> QED
    BY <2>1, <2>2
<1>3. ~FiniProcess(t)
  <2>1. SUFFICES ASSUME FiniProcess(t)
                 PROVE  FALSE
    OBVIOUS
  <2>2. exiter = t /\ pc[t] = IF t = main THEN "run" ELSE "last"
    BY <2>1 DEF FiniProcess, AtFiniProcess
  <2>3. t = main
    BY <2>2, ClientAssumption DEF MainExits
  <2> QED
    BY <1>1, <2>2, <2>3
<1>4. rec' = rec
  BY <1>2, <1>3 DEF ThreadStep, EndStep, ApiStep, ApiStart, ApiStop, ApiCrash, Exit,
     FiniProcessSkipped, FiniProcessExec, Write, Exec
<1> QED
  BY <1>4

\* ClosedSettled, where only the main thread ends the process: built with PAPI, a
\* record that says that it is complete, and is not torn, does not change any more.
THEOREM RecordsSettle == ASSUME AnyExiter = FALSE PROVE Spec => ClosedSettled
<1>1. ClientInv /\ MainExits /\ [Next]_vars
        => [\A t \in Thread : havePapi /\ rec[t].closed > 0 /\ ~rec[t].torn =>
              rec'[t] = rec[t] \/ pc'[t] \in {"none", "insert"}]_vars
  <2>1. SUFFICES ASSUME ClientInv, MainExits, NEW u \in Thread, ThreadStep(u), NEW t \in Thread,
                        havePapi, rec[t].closed > 0, ~rec[t].torn
                 PROVE  rec'[t] = rec[t] \/ pc'[t] \in {"none", "insert"}
    BY NextCases
  <2>2. CASE t = u
    BY <2>1, <2>2, ClosedKept
  <2>3. CASE t # u /\ Fork(u)
    BY <2>3 DEF Fork
  <2>4. CASE t # u /\ ~Fork(u)
    <3>1. Others(rec, rec', u)
      BY <2>1, <2>4, RecordsOfOthers
    <3> QED
      BY <2>4, <3>1 DEF Others
  <2> QED
    BY <2>2, <2>3, <2>4
<1> QED
  BY <1>1, ClientInvariant, MainExitsInit, MainExitsStep, PTL DEF Spec, ClosedSettled
-----------------------------------------------------------------------------
(* Where nobody is in init_thread when the process ends: every row is of a       *)
(* record that was closed once.                                                  *)

LEMMA NobodyEntersInit == Init => NobodyEnters
BY DEF Init, NobodyEnters

\* A thread that goes into init_thread, or on in it, was there, or nobody has exited.
LEMMA NobodyEntersStep ==
  ASSUME LateInit = FALSE, ClientInv, NobodyEnters, [Next]_vars
  PROVE  NobodyEnters'
<1>1. CASE UNCHANGED vars
  BY <1>1 DEF vars, exitVars, NobodyEnters
<1>2. CASE \E t \in Thread : ThreadStep(t)
  <2>1. PICK t \in Thread : ThreadStep(t)
    BY <1>2
  <2>2. pc \in [Thread -> Loc] /\ BootPart
    BY DEF ClientInv, TypeOK
  <2>3. CASE Fork(t)
    BY <2>3 DEF Fork, NobodyEnters, InitLoc, SetUpLoc, LoopLoc
  <2>4. CASE Exit(t)
    BY <2>4 DEF Exit, NobodyEnters
  <2>5. CASE ~Fork(t) /\ ~Exit(t)
    <3>1. exiter' = exiter
      BY <2>1, <2>5, ExiterKept
    <3>2. SUFFICES ASSUME exiter # NoThread, NEW u \in Thread
                   PROVE  pc'[u] \notin InitLoc
      BY <3>1 DEF NobodyEnters
    <3>3. pc[u] \notin InitLoc /\ pc[t] \notin InitLoc
      BY <3>2 DEF NobodyEnters
    <3>4. CASE InitStep(t)
      <4>0. SetUp(t) => pc[t] \in SetUpLoc
        BY SetUpRecord DEF ClientInv
      <4>1. pc[t] \in {"boot"} \/ InitThread(t)
        BY <3>3, <3>4, <4>0 DEF InitStep, InitProcess, InitProcessFails, InsertLocked,
           InsertRefused, GrowUnlocked, StoreUnlocked, BumpUnlocked, Start, InitLoc
      <4>2. FALSE
        BY <2>2, <3>2, <4>1 DEF BootPart, InitThread
      <4> QED
        BY <4>2
    <3>5. CASE EndStep(t)
      BY <2>2, <2>5, <3>3, <3>5 DEF EndStep, FiniThread, FiniProcessSkipped, FiniProcessExec,
         FiniProcess, Write, Exec, Goto, InitLoc, SetUpLoc, LoopLoc
    <3>6. CASE ApiStep(t)
      BY <2>2, <3>3, <3>6 DEF ApiStep, ApiStart, ApiStop, ApiReturn, ApiCrash, InitLoc, SetUpLoc, LoopLoc
    <3> QED
      BY <2>1, <2>5, <3>4, <3>5, <3>6 DEF ThreadStep
  <2> QED
    BY <2>3, <2>4, <2>5
<1> QED
  BY <1>1, <1>2, NextCases

LEMMA ClosedInit == Init => ClosedPart
BY DEF Init, ClosedPart, RowsClosed, Written

\* While the writer runs, every other thread is over, or never began.
LEMMA WriterAlone ==
  ASSUME ClientInv, MainExits, NobodyEnters, ~Ended, NEW w \in Thread,
         exiter = w, enable = "self", size > 0, NEW u \in Thread \ {w}
  PROVE  pc[u] \in {"none", "finished", "run"} /\ (pc[u] = "run" => rec[u].closed = 0 /\ rec[u].bound)
<1>1. w = main /\ exiter # NoThread
  BY ClientAssumption DEF MainExits
<1>2. pc[u] \in Loc /\ pc[u] \notin {"over", "crash", "replaced"} /\ pc[u] \notin InitLoc
  BY <1>1 DEF ClientInv, TypeOK, Ended, NobodyEnters
<1>3. pc[u] \notin {"last", "write", "exec"}
  BY DEF ClientInv, ExitPart, ExitThread
<1>4. pc[u] # "boot"
  BY <1>1 DEF ClientInv, BootPart
<1>5. pc[u] = "run" => rec[u].closed = 0 /\ rec[u].bound
  BY DEF ClientInv, ThreadPart, RecordPart, SelfPart
<1> QED
  BY <1>2, <1>3, <1>4, <1>5 DEF Loc

\* Nobody else gives the writer rows, or ends.
LEMMA WriterKept ==
  ASSUME ClientInv, NEW t \in Thread, ThreadStep(t), NEW w \in Thread, pc[w] = "write", t # w
  PROVE  /\ rows' = rows /\ pc'[w] = "write"
         /\ \A u \in Thread : pc'[u] = "write" => u = w
         /\ \A u \in Thread : pc'[u] # "over"
<1>0. /\ BootPart /\ ~Ended /\ pc \in [Thread -> Loc]
      /\ \A u \in Thread : ExitThread(u)
  BY DEF ClientInv, ExitPart, TypeOK, ThreadStep
<1>1. /\ exiter = w /\ exiter # NoThread
      /\ \A u \in Thread \ {w} : pc[u] \notin {"last", "write", "exec", "over", "replaced"}
  BY <1>0, ClientAssumption DEF ExitThread
<1>2. ~(InitProcess(t) \/ InitProcessFails(t) \/ InitThread(t) \/ Fork(t) \/ Exit(t))
  BY <1>0, <1>1 DEF InitProcess, InitProcessFails, InitThread, Fork, Exit, BootPart
<1>3. ~(FiniProcessSkipped(t) \/ FiniProcessExec(t) \/ FiniProcess(t) \/ Write(t) \/ Exec(t))
  BY <1>1 DEF FiniProcessSkipped, FiniProcessExec, FiniProcess, Write, Exec, AtFiniProcess
<1>4. rows' = rows
  BY <1>2, <1>3 DEF ThreadStep, InitStep, EndStep, ApiStep, InsertLocked, GrowUnlocked,
     InsertRefused, StoreUnlocked, BumpUnlocked, SetUp, Start, ApiStart, ApiStop, ApiReturn,
     ApiCrash, FiniThread, exitVars
<1>5. CASE SetUp(t)
  <2>1. /\ pc'[t] \in SetUpLoc \cup {"start"} /\ \A u \in Thread \ {t} : pc'[u] = pc[u]
    BY <1>5, SetUpRecord DEF ClientInv, Others
  <2>2. \A u \in Thread : pc[u] # "over"
    BY <1>0 DEF Ended
  <2> QED
    BY <1>1, <1>4, <2>1, <2>2 DEF SetUpLoc, LoopLoc
<1>8. CASE ~SetUp(t)
  <2>1. \/ pc' = pc
        \/ \E l \in Loc \ {"write", "over"} : pc' = [pc EXCEPT ![t] = l]
    <3>1. CASE ApiStart(t) \/ ApiStop(t) \/ ApiReturn(t)
      BY <3>1 DEF ApiStart, ApiStop, ApiReturn
    <3>2. CASE \/ InsertLocked(t) \/ InsertRefused(t) \/ GrowUnlocked(t) \/ StoreUnlocked(t)
               \/ BumpUnlocked(t) \/ Start(t) \/ ApiCrash(t)
      BY <3>2 DEF InsertLocked, InsertRefused, GrowUnlocked, StoreUnlocked, BumpUnlocked,
         Start, ApiCrash, Goto, Loc, InitLoc, SetUpLoc
    <3>3. CASE FiniThread(t)
      BY <3>3 DEF FiniThread, Goto, Loc
    <3> QED
      BY <1>2, <1>3, <1>8, <3>1, <3>2, <3>3 DEF ThreadStep, InitStep, EndStep, ApiStep
  <2>2. /\ \A u \in Thread \ {t} : pc'[u] = pc[u]
        /\ pc'[t] \notin {"write", "over"}
    BY <1>0, <1>1, <2>1
  <2>3. \A u \in Thread : pc[u] # "over"
    BY <1>0 DEF Ended
  <2> QED
    BY <1>1, <1>4, <2>2, <2>3
<1> QED
  BY <1>5, <1>8

\* And nobody changes a closed record, or the table, as long as it writes.
LEMMA WrittenKept ==
  ASSUME ClientInv, MainExits, NobodyEnters, NEW t \in Thread, ThreadStep(t),
         NEW w \in Thread, pc[w] = "write", t # w, ~raced, size > 0,
         \A u \in Thread : rec[u].closed = IF rec[u].bound THEN 1 ELSE 0
  PROVE  /\ num' = num
         /\ \A u \in Thread : rec'[u].closed = rec[u].closed /\ (rec'[u].bound <=> rec[u].bound)
<1>0. /\ TypeOK /\ ListPart /\ ThreadPart /\ ExitPart /\ BootPart /\ ~Ended
      /\ ExitThread(w) /\ UNCHANGED havePapi /\ CaliperPart(t)
  BY DEF ClientInv, ThreadPart, ExitPart, ThreadStep
<1>1. exiter = w /\ enable = "self" /\ exiter # NoThread
  BY <1>0, ClientAssumption DEF ExitThread
<1>3. pc[t] \in {"none", "finished", "run"} /\ (pc[t] = "run" => rec[t].closed = 0 /\ rec[t].bound)
  BY <1>0, <1>1, WriterAlone
<1>4. pc[t] # "run"
  BY <1>3
<1>5. ApiStart(t) \/ ApiStop(t) \/ ApiReturn(t) \/ ApiCrash(t)
  <2>0. SetUp(t) => pc[t] \in SetUpLoc
    BY <1>0, SetUpRecord
  <2>1. ~(InitStep(t) \/ Fork(t))
    BY <1>1, <1>3, <1>4, <2>0 DEF InitStep, Fork, InitProcess, InitProcessFails, InitThread,
       InsertLocked, InsertRefused, GrowUnlocked, StoreUnlocked, BumpUnlocked, Start,
       SetUpLoc, LoopLoc
  <2>2. ~EndStep(t)
    BY <1>1, <1>3, <1>4 DEF EndStep, FiniThread, Exit, FiniProcessSkipped, FiniProcessExec,
       FiniProcess, AtFiniProcess, Write, Exec
  <2> QED
    BY <2>1, <2>2 DEF ThreadStep, ApiStep
<1>6. num' = num
  BY <1>5 DEF ApiStart, ApiStop, ApiReturn, ApiCrash, tableVars
<1>7. CASE ApiReturn(t)
  BY <1>0, <1>6, <1>7, ReturnEffect DEF Others, SameBut
<1>8. CASE ~ApiReturn(t)
  BY <1>5, <1>6, <1>8 DEF ApiStart, ApiStop, ApiCrash
<1> QED
  BY <1>7, <1>8

LEMMA RowsKept ==
  ASSUME NEW t \in Thread, ThreadStep(t), ~FiniProcess(t), ~Write(t)
  PROVE  rows' = rows
BY DEF ThreadStep, InitStep, EndStep, ApiStep, InitProcess, InitProcessFails, InitThread,
   InsertLocked, InsertRefused, GrowUnlocked, StoreUnlocked, BumpUnlocked, SetUp, Start, ApiStart, ApiStop, ApiReturn, ApiCrash, FiniThread,
   Exit, FiniProcessSkipped, FiniProcessExec, Exec, Fork, exitVars

\* The table stays as it is while somebody writes it.
LEMMA TableKept ==
  ASSUME ClientInv, NobodyEnters, NEW t \in Thread, ThreadStep(t), exiter # NoThread
  PROVE  UNCHANGED tableVars
<1>1. pc[t] \notin InitLoc \cup {"boot"}
  BY DEF NobodyEnters, ClientInv, BootPart
<1> QED
  BY <1>1 DEF ThreadStep, InitStep, EndStep, ApiStep, InitProcess, InitProcessFails, InitThread,
     InsertLocked, InsertRefused, GrowUnlocked, StoreUnlocked, BumpUnlocked, SetUp, Start, ApiStart, ApiStop, ApiReturn, ApiCrash, FiniThread,
     Exit, FiniProcessSkipped, FiniProcessExec, FiniProcess, Write, Exec, Fork, InitLoc

\* The writer writes a row for each thread that has a record.
LEMMA WriteCloses ==
  ASSUME ClientInv, NobodyEnters, ClosedPart, NEW t \in Thread, Write(t), ~Ended
  PROVE  ClosedPart'
<1>0. /\ TypeOK /\ BootPart /\ pc \in [Thread -> Loc] /\ \A u \in Thread : ExitThread(u)
      /\ rows.num \in Nat
  BY DEF ClientInv, ExitPart, TypeOK
<1>1. /\ pc[t] = "write" /\ pc' = [pc EXCEPT ![t] = "over"] /\ rec' = rec /\ raced' = raced
      /\ rows' = [rows EXCEPT !.out = Widened(rows.num)]
  BY DEF Write, Goto, tableVars
<1>2. rows'.num = rows.num /\ rows'.out = Widened(rows.num)
  BY <1>0, <1>1 DEF TypeOK
<1>3. /\ exiter = t /\ exiter # NoThread /\ enable = "self" /\ rows.num > 0
      /\ \A u \in Thread \ {t} : pc[u] # "write"
  BY <1>0, <1>1, ClientAssumption DEF ExitThread
<1>4. \A u \in Thread : pc'[u] # "write"
  BY <1>0, <1>1, <1>3
<1>5. pc'[t] = "over"
  BY <1>0, <1>1
<1>6. ASSUME ~raced, NEW u \in Thread
      PROVE  /\ Cardinality({i \in DOMAIN rows'.out : rows'.out[i] = u}) = rec[u].closed
             /\ rec[u].closed = IF rec[u].bound THEN 1 ELSE 0
  <2>1. rows.num = num /\ size > 0 /\ rec[u].closed = IF rec[u].bound THEN 1 ELSE 0
    BY <1>1, <1>6 DEF ClosedPart
  <2>2. num < size /\ num \in Nat /\ size \in Nat
    <3>1. num \in Nat /\ size \in Nat /\ SizePart
      BY <1>0, SizeNat DEF ClientInv
    <3> QED
      BY <1>3, <1>6, <2>1, <3>1 DEF SizePart
  <2>3. DOMAIN rows'.out = 1 .. num /\ \A i \in 1 .. num : rows'.out[i] = slots[i]
    BY <1>2, <2>1, <2>2 DEF Widened
  <2>4. {i \in DOMAIN rows'.out : rows'.out[i] = u} = {i \in 1 .. num : slots[i] = u}
    BY <2>3
  <2>5. EntriesWhole
    BY <1>3, <1>6, <2>1, TableMeans DEF ClientInv
  <2>6. Entered(u) <=> rec[u].bound
    <3>1. pc[u] \notin {"boot", "insert", "store", "bump"}
      BY <1>0, <1>3 DEF BootPart, NobodyEnters, InitLoc
    <3> QED
      BY <3>1 DEF Entered
  <2>7. Cardinality({i \in 1 .. num : slots[i] = u}) = IF Entered(u) THEN 1 ELSE 0
    BY <2>5, SlotCount
  <2> QED
    BY <2>1, <2>4, <2>6, <2>7
<1>7. RowsClosed'
  BY <1>1, <1>6 DEF RowsClosed
<1> QED
  BY <1>4, <1>5, <1>7 DEF ClosedPart

\* fini_process closes the last record and hands over the table.
LEMMA FiniProcessCloses ==
  ASSUME ClientInv, MainExits, NobodyEnters, ClosedPart, NEW t \in Thread, FiniProcess(t), ~Ended
  PROVE  ClosedPart'
<1>0. /\ TypeOK /\ LocalPart(t) /\ RecordPart(t) /\ CaliperPart(t) /\ SelfPart(t)
      /\ pc \in [Thread -> Loc] /\ \A u \in Thread : ExitThread(u)
      /\ rows \in [num : Nat, out : Seq(Thread \cup {Null})] /\ ThreadPart
  BY DEF ClientInv, ThreadPart, ExitPart, TypeOK
<1>1. /\ exiter = t /\ enable = "self" /\ raced' = raced /\ num' = num
      /\ t = main /\ pc[t] = "run" /\ \A u \in Thread \ {t} : pc[u] # "run"
  <2>1. /\ exiter = t /\ enable = "self" /\ raced' = raced /\ num' = num
        /\ pc[t] = IF t = main THEN "run" ELSE "last"
        /\ \A u \in Thread \ {t, main} : pc[u] # "run"
    BY DEF FiniProcess, AtFiniProcess, tableVars
  <2>2. t = main
    BY <2>1, ClientAssumption DEF MainExits
  <2> QED
    BY <2>1, <2>2
<1>2. \A u \in Thread : pc[u] \notin {"write", "over"}
  BY <1>0, <1>1 DEF ExitThread, Ended
<1>3. CASE rec[t].bound
  <2>1. /\ ShutdownThread(t) /\ rows' = [rows EXCEPT !.num = num]
        /\ pc' = [pc EXCEPT ![t] = "write"]
    BY <1>3 DEF FiniProcess, Goto
  <2>2. /\ pc'[t] = "write" /\ \A u \in Thread : pc'[u] # "over" /\ (pc'[u] = "write" => u = t)
    BY <1>0, <1>2, <2>1
  <2>3. rows'.num = num'
    BY <1>0, <1>1, <2>1
  <2>4. rec'[t].bound = rec[t].bound /\ rec'[t].closed = rec[t].closed + 1
        /\ \A u \in Thread \ {t} : rec'[u] = rec[u]
    BY <1>0, <2>1, Shutdown
  <2>5. rec'[t].closed = IF rec'[t].bound THEN 1 ELSE 0
    BY <1>0, <1>1, <1>3, <2>4 DEF RecordPart
  <2>6. size > 0
    <3>1. size \in Nat
      BY <1>0, SizeNat
    <3> QED
      BY <1>0, <1>1, <1>3, <3>1 DEF SelfPart
  <2>7. ASSUME NEW u \in Thread \ {t}
        PROVE  rec'[u].closed = IF rec'[u].bound THEN 1 ELSE 0
    <3>1. pc[u] \in {"none", "finished"}
      BY <1>1, <2>6, WriterAlone
    <3>2. LocalPart(u) /\ SelfPart(u)
      BY <1>0 DEF ThreadPart
    <3>3. CASE pc[u] = "none"
      BY <2>4, <3>2, <3>3, Fields DEF LocalPart
    <3>4. CASE pc[u] = "finished"
      BY <1>1, <2>4, <2>6, <3>2, <3>4 DEF SelfPart
    <3> QED
      BY <3>1, <3>3, <3>4
  <2>8. \A u \in Thread : rec'[u].closed = IF rec'[u].bound THEN 1 ELSE 0
    BY <2>5, <2>7
  <2>9. RowsClosed'
    BY <2>2 DEF RowsClosed, Written
  <2>10. size' = size
    BY DEF FiniProcess, tableVars
  <2> QED
    BY <1>0, <2>2, <2>3, <2>6, <2>8, <2>9, <2>10 DEF ClosedPart
<1>4. CASE ~rec[t].bound
  <2>1. rows' = rows /\ pc' = [pc EXCEPT ![t] = "crash"]
    BY <1>4 DEF FiniProcess, Goto
  <2>2. \A u \in Thread : pc'[u] \notin {"write", "over"}
    BY <1>0, <1>2, <2>1
  <2>3. ~(rows.num > 0)
    BY <1>2 DEF ClosedPart
  <2> QED
    BY <2>1, <2>2, <2>3 DEF ClosedPart, RowsClosed, Written
<1> QED
  BY <1>3, <1>4

LEMMA ClosedStep ==
  ASSUME ClientInv, MainExits, NobodyEnters, ClosedPart, [Next]_vars
  PROVE  ClosedPart'
<1>1. CASE UNCHANGED vars
  <2>1. /\ UNCHANGED <<pc, rec, num, size, raced, rows>>
    BY <1>1 DEF vars, tableVars, exitVars
  <2> QED
    BY <2>1 DEF ClosedPart, RowsClosed, Written
<1>2. CASE \E t \in Thread : ThreadStep(t)
  <2>1. PICK t \in Thread : ThreadStep(t)
    BY <1>2
  <2>2. ~Ended /\ ClientInv'
    BY <2>1, ClientThreadStep DEF ThreadStep
  <2>3. CASE Write(t)
    BY <2>2, <2>3, WriteCloses
  <2>4. CASE FiniProcess(t)
    BY <2>2, <2>4, FiniProcessCloses
  <2>5. CASE ~Write(t) /\ ~FiniProcess(t) /\ \A w \in Thread : pc[w] # "write"
    <3>1. ~(rows.num > 0)
      BY <2>2, <2>5 DEF ClosedPart, Ended
    <3>2. rows' = rows
      BY <2>1, <2>5, RowsKept
    <3>3. \A u \in Thread : pc'[u] # "write"
      BY <2>2, <3>1, <3>2 DEF ClientInv, ExitPart, ExitThread
    <3> QED
      BY <3>1, <3>2, <3>3 DEF ClosedPart, RowsClosed, Written
  <2>6. CASE ~Write(t) /\ ~FiniProcess(t) /\ \E w \in Thread : pc[w] = "write"
    <3>1. PICK w \in Thread : pc[w] = "write"
      BY <2>6
    <3>2. exiter = w /\ exiter # NoThread
      BY <3>1, ClientAssumption DEF ClientInv, ExitPart, ExitThread
    <3>3. t # w
      <4>1. SUFFICES ASSUME pc[t] = "write"
                     PROVE  FALSE
        BY <3>1
      <4> QED
        <5>1. ~SetUp(t)
          BY <4>1, SetUpRecord DEF ClientInv, SetUpLoc, LoopLoc
        <5> QED
          BY <2>1, <2>6, <4>1, <5>1 DEF ThreadStep, InitStep, EndStep, ApiStep, InitProcess,
           InitProcessFails, InitThread, InsertLocked, InsertRefused, GrowUnlocked,
           StoreUnlocked, BumpUnlocked, Start,
           ApiStart, ApiStop, ApiReturn, ApiCrash, ApiCall, AppRuns, FiniThread, Exit,
           FiniProcessSkipped, FiniProcessExec, AtFiniProcess, Exec, Fork
    <3>4. /\ rows' = rows /\ pc'[w] = "write"
          /\ \A u \in Thread : pc'[u] = "write" => u = w
          /\ \A u \in Thread : pc'[u] # "over"
      BY <2>1, <3>1, <3>3, WriterKept
    <3>5. UNCHANGED tableVars
      BY <2>1, <3>2, TableKept
    <3>6. raced' = raced /\ num' = num /\ size' = size
      BY <3>5 DEF tableVars
    <3>7. ASSUME ~raced, NEW u \in Thread
          PROVE  /\ rows'.num = num' /\ size' > 0
                 /\ rec'[u].closed = IF rec'[u].bound THEN 1 ELSE 0
      <4>1. rows.num = num /\ size > 0 /\ \A v \in Thread : rec[v].closed = IF rec[v].bound THEN 1 ELSE 0
        BY <3>1, <3>7 DEF ClosedPart
      <4>2. \A v \in Thread : rec'[v].closed = rec[v].closed /\ (rec'[v].bound <=> rec[v].bound)
        BY <2>1, <3>1, <3>3, <3>7, <4>1, WrittenKept
      <4> QED
        BY <3>4, <3>6, <4>1, <4>2
    <3>8. RowsClosed'
      BY <3>4 DEF RowsClosed, Written
    <3> QED
      BY <3>1, <3>4, <3>6, <3>7, <3>8 DEF ClosedPart
  <2> QED
    BY <2>3, <2>4, <2>5, <2>6
<1> QED
  BY <1>1, <1>2, NextCases

\* RowsClosed, where the main thread ends the process and nobody is in init_thread
\* then: one row for each thread that papiex initialised, of a record closed once.
THEOREM RowsOnceClosed ==
  ASSUME AnyExiter = FALSE, LateInit = FALSE
  PROVE  Spec => []RowsClosed
<1>1. ClosedPart => RowsClosed
  BY DEF ClosedPart
<1> QED
  BY <1>1, ClientInvariant, MainExitsInit, MainExitsStep, NobodyEntersInit, NobodyEntersStep,
     ClosedInit, ClosedStep, PTL DEF Spec
=============================================================================
