------------------------- MODULE PapiexOutputProofs -------------------------
(***************************************************************************)
(* Proofs about PapiexOutput, for any number of processes and threads, any *)
(* sizes, and processes that are killed anywhere.                          *)
(***************************************************************************)
EXTENDS PapiexOutput, TLAPS

\* A process takes one way through mkdir_p: from the top, and while it is there
\* the directories above the next one exist.
WayInv ==
    \A p \in Proc :
      /\ pc[p] \in {"idle", "run"} => level[p] = 1 /\ attempt[p] = 0
      /\ pc[p] = "open" =>
           \/ attempt[p] = 0 /\ level[p] = 1
           \/ attempt[p] = 1 /\ dirs = Depth
      /\ pc[p] = "mkdir" =>
           /\ level[p] <= Depth /\ level[p] - 1 <= dirs
           /\ Collated[p] => attempt[p] = 1

\* The process that is about to write the header created its file and nothing is
\* in it; and a process that has written its row is done.
LogInv ==
    /\ hdr.maker = NoProc => hdr.lines = <<>>
    /\ \A p \in Proc : pc[p] = "fill" => hdr.maker = p /\ hdr.lines = <<>>
    /\ \A i \in DOMAIN csv.rows : pc[csv.rows[i].by] = "done"

IInv == TypeOK /\ WayInv /\ LogInv

LEMMA Constants ==
  /\ Depth \in Nat \ {0} /\ BufLen \in Nat \ {0}
  /\ Collated \in [Proc -> BOOLEAN] /\ HasFields \in [Proc -> BOOLEAN]
  /\ NoProc \notin Proc
BY OutputAssumption DEF OutputAssumption

LEMMA InitIInv == Init => IInv
<1> SUFFICES ASSUME Init PROVE IInv
  OBVIOUS
<1> USE Constants DEF Init
<1>1. TypeOK
  BY DEF TypeOK, Loc
<1>2. WayInv
  BY DEF WayInv
<1>3. LogInv
  BY DEF LogInv
<1> QED
  BY <1>1, <1>2, <1>3 DEF IInv

-----------------------------------------------------------------------------
(* Type correctness. *)

\* mkdir_p stays inside the prefix.
LEMMA MkdirBounds ==
  ASSUME TypeOK, WayInv, NEW p \in Proc, Mkdir(p)
  PROVE  /\ level[p] \in 1 .. Depth /\ level[p] - 1 <= dirs /\ dirs \in 0 .. Depth
         /\ dirs' \in 0 .. Depth /\ level[p] <= dirs' /\ dirs <= dirs'
         /\ level' = [level EXCEPT ![p] = level[p] + 1]
         /\ level' \in [Proc -> 1 .. Depth + 1]
<1>1. level[p] \in 1 .. Depth /\ level[p] - 1 <= dirs /\ dirs \in 0 .. Depth
  BY Constants DEF TypeOK, WayInv, Mkdir
<1>2. dirs' \in 0 .. Depth /\ level[p] <= dirs' /\ dirs <= dirs'
  BY Constants, <1>1 DEF Mkdir
<1>3. level' = [level EXCEPT ![p] = level[p] + 1] /\ level \in [Proc -> 1 .. Depth + 1]
  BY DEF Mkdir, TypeOK
<1>4. level' \in [Proc -> 1 .. Depth + 1]
  BY Constants, <1>1, <1>3
<1> QED
  BY <1>1, <1>2, <1>3, <1>4

\* An open leaves room for another attempt.
LEMMA OpenBounds ==
  ASSUME TypeOK, WayInv, NEW p \in Proc, OpenNoDirectory(p) \/ OpenExists(p)
  PROVE  attempt' \in [Proc -> 0 .. 2]
<1>1. attempt[p] \in 0 .. 1 /\ attempt \in [Proc -> 0 .. 2]
  BY DEF TypeOK, WayInv, OpenNoDirectory, OpenExists
<1>2. attempt' = [attempt EXCEPT ![p] = attempt[p] + 1]
  BY DEF OpenNoDirectory, OpenExists
<1> QED
  BY <1>1, <1>2

LEMMA WriterTypeOK ==
  ASSUME TypeOK, WayInv, NEW p \in Proc, WriterStep(p)
  PROVE  TypeOK'
<1>1. CASE Mkdir(p)
  <2>1. pc' \in [Proc -> Loc]
    BY <1>1 DEF Mkdir, Goto, TypeOK, Loc, NextOpen
  <2> QED
    BY <1>1, <2>1, MkdirBounds DEF Mkdir, TypeOK
<1>2. CASE OpenNoDirectory(p)
  <2>1. pc' \in [Proc -> Loc]
    BY <1>2 DEF OpenNoDirectory, Goto, TypeOK, Loc
  <2> QED
    BY <1>2, <2>1, OpenBounds DEF OpenNoDirectory, TypeOK
<1>3. CASE OpenCreates(p)
  <2>1. pc' \in [Proc -> Loc]
    BY <1>3 DEF OpenCreates, Goto, TypeOK, Loc
  <2> QED
    BY <1>3, <2>1 DEF OpenCreates, TypeOK
<1>4. CASE OpenExists(p)
  <2>1. pc' \in [Proc -> Loc]
    BY <1>4 DEF OpenExists, Goto, TypeOK, Loc
  <2> QED
    BY <1>4, <2>1, OpenBounds DEF OpenExists, TypeOK
<1>5. CASE OpenAppend(p)
  BY <1>5 DEF OpenAppend, Goto, TypeOK, Loc
<1>6. CASE OpenHeader(p)
  <2>1. pc' \in [Proc -> Loc]
    BY <1>6 DEF OpenHeader, Goto, TypeOK, Loc
  <2>2. hdr' \in [maker : Proc \cup {NoProc}, lines : Seq(Proc)]
    BY <1>6 DEF OpenHeader, TypeOK
  <2> QED
    BY <1>6, <2>1, <2>2 DEF OpenHeader, TypeOK
<1>7. CASE WriteHeader(p)
  <2>1. pc' \in [Proc -> Loc]
    BY <1>7 DEF WriteHeader, Goto, TypeOK, Loc
  <2>2. hdr' \in [maker : Proc \cup {NoProc}, lines : Seq(Proc)]
    <3>1. hdr \in [maker : Proc \cup {NoProc}, lines : Seq(Proc)]
      BY DEF TypeOK
    <3>2. hdr' = hdr \/ hdr' = [hdr EXCEPT !.lines = Append(hdr.lines, p)]
      BY <1>7 DEF WriteHeader
    <3>3. Append(hdr.lines, p) \in Seq(Proc)
      BY <3>1
    <3> QED
      BY <3>1, <3>2, <3>3
  <2> QED
    BY <1>7, <2>1, <2>2 DEF WriteHeader, TypeOK
<1>8. CASE WriteRow(p)
  <2> DEFINE row == [by |-> p, whole |-> Strlcat(LineLen(p), 1, bufLen[p]) = FullLen(p)]
  <2>1. pc' \in [Proc -> Loc]
    BY <1>8 DEF WriteRow, Goto, TypeOK, Loc
  <2>2. row \in [by : Proc, whole : BOOLEAN]
    OBVIOUS
  <2>3. csv' = csv \/ csv' = [csv EXCEPT !.rows = Append(csv.rows, row)]
    BY <1>8 DEF WriteRow
  <2> HIDE DEF row
  <2>4. csv' \in [exists : BOOLEAN, rows : Seq([by : Proc, whole : BOOLEAN])]
    <3>1. csv \in [exists : BOOLEAN, rows : Seq([by : Proc, whole : BOOLEAN])]
      BY DEF TypeOK
    <3>2. Append(csv.rows, row) \in Seq([by : Proc, whole : BOOLEAN])
      BY <2>2, <3>1
    <3> QED
      BY <2>3, <3>1, <3>2
  <2>5. bufLen' = bufLen \/ bufLen' = [bufLen EXCEPT ![p] = 2 * bufLen[p]]
    BY <1>8 DEF WriteRow
  <2>6. bufLen' \in [Proc -> Nat \ {0}]
    <3>1. bufLen \in [Proc -> Nat \ {0}]
      BY DEF TypeOK
    <3>2. 2 * bufLen[p] \in Nat \ {0}
      BY <3>1
    <3> QED
      BY <2>5, <3>1, <3>2
  <2> QED
    BY <1>8, <2>1, <2>4, <2>6 DEF WriteRow, TypeOK
<1>9. CASE CreateExists(p)
  <2>1. gen \in [Proc -> Nat] /\ gen' = [gen EXCEPT ![p] = gen[p] + 1]
    BY <1>9 DEF CreateExists, TypeOK
  <2>2. gen' \in [Proc -> Nat]
    BY <2>1
  <2> QED
    BY <1>9, <2>2 DEF CreateExists, TypeOK
<1>10. CASE Create(p)
  <2>1. pc' \in [Proc -> Loc]
    BY <1>10 DEF Create, Goto, TypeOK, Loc
  <2>2. \A n \in DOMAIN files' : files'[n] \in Seq(Proc)
    BY <1>10 DEF Create, TypeOK
  <2> QED
    BY <1>10, <2>1, <2>2 DEF Create, TypeOK
<1>11. CASE WriteLine(p)
  <2>1. pc' \in [Proc -> Loc]
    BY <1>11 DEF WriteLine, Goto, TypeOK, Loc
  <2>2. \A n \in DOMAIN files' : files'[n] \in Seq(Proc)
    BY <1>11 DEF WriteLine, TypeOK
  <2> QED
    BY <1>11, <2>1, <2>2 DEF WriteLine, TypeOK
<1> QED
  BY <1>1, <1>2, <1>3, <1>4, <1>5, <1>6, <1>7, <1>8, <1>9, <1>10, <1>11 DEF WriterStep

LEMMA ProcessTypeOK ==
  ASSUME TypeOK, NEW p \in Proc, ProcessStep(p)
  PROVE  TypeOK'
<1>1. CASE Start(p)
  BY <1>1 DEF Start, Goto, TypeOK, Loc
<1>2. CASE Finish(p)
  BY <1>2 DEF Finish, Goto, TypeOK, Loc
<1>3. CASE Die(p)
  BY <1>3 DEF Die, Goto, TypeOK, Loc
<1> QED
  BY <1>1, <1>2, <1>3 DEF ProcessStep

-----------------------------------------------------------------------------
(* One way through mkdir_p. *)

LEMMA WriterWayInv ==
  ASSUME TypeOK, WayInv, NEW p \in Proc, WriterStep(p)
  PROVE  WayInv'
<1>1. CASE Mkdir(p)
  <2>1. pc' = [pc EXCEPT ![p] = IF level[p] < Depth THEN "mkdir" ELSE NextOpen(p)]
        /\ pc \in [Proc -> Loc] /\ pc[p] = "mkdir"
    BY <1>1 DEF Mkdir, Goto, TypeOK
  <2>2. attempt' = attempt /\ level \in [Proc -> 1 .. Depth + 1]
    BY <1>1 DEF Mkdir, TypeOK
  <2>3. Collated[p] => attempt[p] = 1
    BY <2>1 DEF WayInv
  <2> SUFFICES ASSUME NEW q \in Proc PROVE WayInv!(q)'
    BY DEF WayInv
  <2>4. CASE q = p /\ level[p] < Depth
    <3>1. pc'[q] = "mkdir" /\ level'[q] = level[p] + 1 /\ attempt'[q] = attempt[p]
      BY <1>1, <2>1, <2>2, <2>4, MkdirBounds
    <3> QED
      BY <1>1, <2>3, <2>4, <3>1, MkdirBounds, Constants
  <2>5. CASE q = p /\ level[p] = Depth
    <3>1. pc'[q] = NextOpen(p) /\ attempt'[q] = attempt[p] /\ dirs' = Depth
      BY <1>1, <2>1, <2>2, <2>5, MkdirBounds, Constants
    <3> QED
      BY <2>3, <3>1 DEF NextOpen
  <2>6. CASE q # p
    <3>1. pc'[q] = pc[q] /\ level'[q] = level[q] /\ attempt'[q] = attempt[q]
      BY <1>1, <2>1, <2>2, <2>6, MkdirBounds
    <3>2. dirs' \in 0 .. Depth /\ dirs <= dirs' /\ dirs \in 0 .. Depth
      BY <1>1, MkdirBounds
    <3>3. level[q] \in 1 .. Depth + 1
      BY <2>2
    <3> QED
      BY <3>1, <3>2, <3>3, Constants DEF WayInv
  <2> QED
    BY <1>1, <2>4, <2>5, <2>6, MkdirBounds, Constants
<1>2. CASE OpenNoDirectory(p)
  BY <1>2, Constants DEF OpenNoDirectory, Goto, TypeOK, Loc, WayInv
<1>3. CASE OpenCreates(p)
  BY <1>3 DEF OpenCreates, Goto, TypeOK, WayInv
<1>4. CASE OpenExists(p)
  BY <1>4 DEF OpenExists, Goto, TypeOK, WayInv
<1>5. CASE OpenAppend(p)
  BY <1>5 DEF OpenAppend, Goto, TypeOK, WayInv
<1>6. CASE OpenHeader(p)
  BY <1>6 DEF OpenHeader, Goto, TypeOK, WayInv
<1>7. CASE WriteHeader(p)
  BY <1>7 DEF WriteHeader, Goto, TypeOK, WayInv
<1>8. CASE WriteRow(p)
  BY <1>8 DEF WriteRow, Goto, TypeOK, WayInv
<1>9. CASE CreateExists(p)
  BY <1>9 DEF CreateExists, WayInv
<1>10. CASE Create(p)
  BY <1>10 DEF Create, Goto, TypeOK, WayInv
<1>11. CASE WriteLine(p)
  BY <1>11 DEF WriteLine, Goto, TypeOK, WayInv
<1> QED
  BY <1>1, <1>2, <1>3, <1>4, <1>5, <1>6, <1>7, <1>8, <1>9, <1>10, <1>11 DEF WriterStep

LEMMA ProcessWayInv ==
  ASSUME TypeOK, WayInv, NEW p \in Proc, ProcessStep(p)
  PROVE  WayInv'
<1>1. CASE Start(p)
  BY <1>1 DEF Start, Goto, TypeOK, WayInv
<1>2. CASE Finish(p)
  BY <1>2, Constants DEF Finish, Goto, TypeOK, WayInv
<1>3. CASE Die(p)
  BY <1>3 DEF Die, Goto, TypeOK, WayInv
<1> QED
  BY <1>1, <1>2, <1>3 DEF ProcessStep

-----------------------------------------------------------------------------
(* One header, and one row of each process. *)

\* The rows of the shared file name processes.
LEMMA RowsNamed ==
  ASSUME TypeOK
  PROVE  \A i \in DOMAIN csv.rows : csv.rows[i].by \in Proc
<1> DEFINE Row == [by : Proc, whole : BOOLEAN]
<1>1. csv.rows \in Seq(Row)
  BY DEF TypeOK
<1> SUFFICES ASSUME NEW i \in DOMAIN csv.rows PROVE csv.rows[i].by \in Proc
  OBVIOUS
<1>2. csv.rows[i] \in Row
  <2> HIDE DEF Row
  <2> QED
    BY <1>1
<1> QED
  BY <1>2

\* A step of a process that neither writes nor has a part in writing, and does
\* not take anybody to the header, keeps LogInv.
LEMMA QuietLogInv ==
  ASSUME TypeOK, LogInv, NEW p \in Proc, NEW l \in Loc \ {"fill"},
         pc[p] # "done", pc' = [pc EXCEPT ![p] = l], hdr' = hdr, csv'.rows = csv.rows
  PROVE  LogInv'
<1>1. \A q \in Proc : pc'[q] = IF q = p THEN l ELSE pc[q]
  BY DEF TypeOK
<1> QED
  BY <1>1, RowsNamed DEF LogInv

LEMMA WriterLogInv ==
  ASSUME TypeOK, LogInv, NEW p \in Proc, WriterStep(p)
  PROVE  LogInv'
<1> USE DEF Goto, Loc
<1>1. CASE Mkdir(p)
  BY <1>1, QuietLogInv DEF Mkdir, NextOpen
<1>2. CASE OpenNoDirectory(p)
  BY <1>2, QuietLogInv DEF OpenNoDirectory
<1>3. CASE OpenCreates(p)
  <2>1. csv'.rows = csv.rows
    BY <1>3 DEF OpenCreates, TypeOK
  <2> QED
    BY <1>3, <2>1, QuietLogInv DEF OpenCreates
<1>4. CASE OpenExists(p)
  BY <1>4, QuietLogInv DEF OpenExists
<1>5. CASE OpenAppend(p)
  BY <1>5, QuietLogInv DEF OpenAppend
<1>6. CASE OpenHeader(p)
  <2>1. CASE hdr.maker = NoProc
    <3>1. pc' = [pc EXCEPT ![p] = "fill"] /\ pc \in [Proc -> Loc]
          /\ pc[p] = "header" /\ csv' = csv
      BY <1>6, <2>1 DEF OpenHeader, TypeOK
    <3>2. hdr'.maker = p /\ hdr'.lines = <<>>
      BY <1>6, <2>1 DEF OpenHeader, TypeOK, LogInv
    <3>3. \A q \in Proc : q # p => pc[q] # "fill"
      BY <2>1, Constants DEF LogInv
    <3> QED
      BY <3>1, <3>2, <3>3, RowsNamed DEF LogInv
  <2>2. CASE hdr.maker # NoProc
    BY <1>6, <2>2, QuietLogInv DEF OpenHeader
  <2> QED
    BY <2>1, <2>2
<1>7. CASE WriteHeader(p)
  <2>1. CASE pc[p] = "fill" /\ HasFields[p]
    <3>1. pc' = [pc EXCEPT ![p] = "row"] /\ pc \in [Proc -> Loc] /\ csv' = csv
      BY <1>7, <2>1 DEF WriteHeader, TypeOK
    <3>2. hdr'.maker = hdr.maker /\ hdr.maker = p
      BY <1>7, <2>1 DEF WriteHeader, TypeOK, LogInv
    <3>3. \A q \in Proc : q # p => pc[q] # "fill"
      BY <3>2 DEF LogInv
    <3> QED
      BY <2>1, <3>1, <3>2, <3>3, RowsNamed, Constants DEF LogInv
  <2>2. CASE ~(pc[p] = "fill" /\ HasFields[p])
    BY <1>7, <2>2, QuietLogInv DEF WriteHeader
  <2> QED
    BY <2>1, <2>2
<1>8. CASE WriteRow(p)
  <2>1. CASE csv' = csv
    <3>1. pc'[p] \in {"failed", "row", "done"} /\ pc[p] = "row"
          /\ pc' = [pc EXCEPT ![p] = pc'[p]] /\ hdr' = hdr
      BY <1>8 DEF WriteRow, TypeOK
    <3> QED
      BY <2>1, <3>1, QuietLogInv
  <2>2. CASE csv' # csv
    <3>1. PICK row : row.by = p /\ csv' = [csv EXCEPT !.rows = Append(csv.rows, row)]
      BY <1>8, <2>2 DEF WriteRow
    <3>2. pc' = [pc EXCEPT ![p] = "done"] /\ pc[p] = "row" /\ hdr' = hdr
          /\ pc \in [Proc -> Loc]
      BY <1>8, <2>2 DEF WriteRow, TypeOK
    <3>3. csv.rows \in Seq([by : Proc, whole : BOOLEAN])
      BY DEF TypeOK
    <3>4. csv'.rows = Append(csv.rows, row)
      BY <3>1 DEF TypeOK
    <3>5. \A i \in DOMAIN csv'.rows :
            \/ i \in DOMAIN csv.rows /\ csv'.rows[i] = csv.rows[i]
            \/ csv'.rows[i] = row
      BY <3>3, <3>4
    <3>6. \A i \in DOMAIN csv'.rows : pc'[csv'.rows[i].by] = "done"
      BY <3>1, <3>2, <3>3, <3>5 DEF LogInv
    <3> QED
      BY <3>2, <3>6 DEF LogInv
  <2> QED
    BY <2>1, <2>2
<1>9. CASE CreateExists(p)
  BY <1>9 DEF CreateExists, LogInv
<1>10. CASE Create(p)
  BY <1>10, QuietLogInv DEF Create
<1>11. CASE WriteLine(p)
  BY <1>11, QuietLogInv DEF WriteLine
<1> QED
  BY <1>1, <1>2, <1>3, <1>4, <1>5, <1>6, <1>7, <1>8, <1>9, <1>10, <1>11 DEF WriterStep

LEMMA ProcessLogInv ==
  ASSUME TypeOK, LogInv, NEW p \in Proc, ProcessStep(p)
  PROVE  LogInv'
<1> USE DEF Goto, Loc
<1>1. CASE Start(p)
  BY <1>1, QuietLogInv DEF Start
<1>2. CASE Finish(p)
  BY <1>2, QuietLogInv DEF Finish
<1>3. CASE Die(p)
  BY <1>3, QuietLogInv DEF Die, Ended
<1> QED
  BY <1>1, <1>2, <1>3 DEF ProcessStep

-----------------------------------------------------------------------------
(* The theorems. *)

THEOREM Inductive == Spec => []IInv
<1>1. IInv /\ [Next]_vars => IInv'
  <2> SUFFICES ASSUME IInv, [Next]_vars PROVE IInv'
    OBVIOUS
  <2> USE DEF IInv
  <2>1. ASSUME NEW p \in Proc, WriterStep(p) PROVE IInv'
    BY <2>1, WriterTypeOK, WriterWayInv, WriterLogInv
  <2>2. ASSUME NEW p \in Proc, ProcessStep(p) PROVE IInv'
    BY <2>2, ProcessTypeOK, ProcessWayInv, ProcessLogInv
  <2>3. CASE UNCHANGED vars
    BY <2>3 DEF vars, TypeOK, WayInv, LogInv
  <2> QED
    BY <2>1, <2>2, <2>3 DEF Next, Terminated
<1> QED
  BY <1>1, InitIInv, PTL DEF Spec

\* The state of the writers has its type in every reachable state.
THEOREM OutputTypeCorrect == Spec => []TypeOK
BY Inductive, PTL DEF IInv

-----------------------------------------------------------------------------
(* The shared files are an OutputLog. *)

\* The writers of the rows, after a row has been added.
LEMMA WritersAppend ==
  ASSUME NEW Row, NEW s \in Seq(Row), NEW row \in Row
  PROVE  [i \in DOMAIN Append(s, row) |-> Append(s, row)[i].by]
           = Append([i \in DOMAIN s |-> s[i].by], row.by)
<1> DEFINE by == [i \in DOMAIN s |-> s[i].by]
           t == Append(s, row)
<1>1. DOMAIN s = 1 .. Len(s) /\ Len(s) \in Nat
  OBVIOUS
<1>2. t \in Seq(Row) /\ DOMAIN t = 1 .. Len(s) + 1 /\ t[Len(s) + 1] = row
      /\ \A i \in 1 .. Len(s) : t[i] = s[i]
  BY <1>1
<1>3. by \in Seq({s[i].by : i \in DOMAIN s}) /\ Len(by) = Len(s)
  <2>1. by \in [1 .. Len(s) -> {s[i].by : i \in DOMAIN s}]
    BY <1>1
  <2> QED
    BY <2>1, <1>1
<1> QED
  BY <1>1, <1>2, <1>3

LEMMA InitMaps == Init => Log!Init
BY DEF Init, Log!Init

\* What a step that leaves the lines of both files alone is to a reader.
LEMMA QuietMaps ==
  ASSUME hdr'.lines = hdr.lines, csv'.rows = csv.rows
  PROVE  UNCHANGED Log!vars
BY DEF Log!vars

\* Writing the header is writing it once: the header file is empty.
LEMMA HeaderMaps ==
  ASSUME IInv, NEW p \in Proc, WriteHeader(p)
  PROVE  Log!PutHeader(p) \/ UNCHANGED Log!vars
<1>1. CASE pc[p] = "fill" /\ HasFields[p]
  <2>1. hdr.lines = <<>> /\ csv' = csv
    BY <1>1 DEF IInv, LogInv, WriteHeader
  <2>2. hdr'.lines = Append(<<>>, p)
    BY <1>1, <2>1 DEF IInv, TypeOK, WriteHeader
  <2> QED
    BY <2>1, <2>2 DEF Log!PutHeader
<1>2. CASE ~(pc[p] = "fill" /\ HasFields[p])
  BY <1>2, QuietMaps DEF WriteHeader
<1> QED
  BY <1>1, <1>2

\* Writing a row is writing it once: whoever has a row is done.
LEMMA RowMaps ==
  ASSUME IInv, NEW p \in Proc, WriteRow(p)
  PROVE  Log!PutRow(p) \/ UNCHANGED Log!vars
<1>1. CASE csv' = csv
  BY <1>1, QuietMaps DEF WriteRow
<1>2. CASE csv' # csv
  <2> DEFINE row == [by |-> p, whole |-> Strlcat(LineLen(p), 1, bufLen[p]) = FullLen(p)]
             Row == [by : Proc, whole : BOOLEAN]
  <2>1. csv' = [csv EXCEPT !.rows = Append(csv.rows, row)] /\ hdr' = hdr /\ pc[p] = "row"
    BY <1>2 DEF WriteRow
  <2>2. csv.rows \in Seq(Row) /\ row \in Row /\ row.by = p
    BY DEF IInv, TypeOK
  <2> HIDE DEF row, Row
  <2>3. csv'.rows = Append(csv.rows, row)
    BY <2>1 DEF IInv, TypeOK
  <2>4. \A i \in DOMAIN csv.rows : csv.rows[i].by # p
    BY <2>1 DEF IInv, LogInv
  <2>5. [i \in DOMAIN csv'.rows |-> csv'.rows[i].by]
          = Append([i \in DOMAIN csv.rows |-> csv.rows[i].by], p)
    BY <2>2, <2>3, WritersAppend
  <2> QED
    BY <2>1, <2>4, <2>5 DEF Log!PutRow
<1> QED
  BY <1>1, <1>2

LEMMA WriterMaps ==
  ASSUME IInv, NEW p \in Proc, WriterStep(p)
  PROVE  Log!Next \/ UNCHANGED Log!vars
<1>1. CASE Mkdir(p)
  BY <1>1, QuietMaps DEF Mkdir
<1>2. CASE OpenNoDirectory(p)
  BY <1>2, QuietMaps DEF OpenNoDirectory
<1>3. CASE OpenCreates(p)
  <2>1. csv'.rows = csv.rows
    BY <1>3 DEF OpenCreates, IInv, TypeOK
  <2> QED
    BY <1>3, <2>1, QuietMaps DEF OpenCreates
<1>4. CASE OpenExists(p)
  BY <1>4, QuietMaps DEF OpenExists
<1>5. CASE OpenAppend(p)
  BY <1>5, QuietMaps DEF OpenAppend
<1>6. CASE OpenHeader(p)
  <2>1. hdr'.lines = hdr.lines
    BY <1>6 DEF OpenHeader, IInv, TypeOK
  <2> QED
    BY <1>6, <2>1, QuietMaps DEF OpenHeader
<1>7. CASE WriteHeader(p)
  BY <1>7, HeaderMaps DEF Log!Next
<1>8. CASE WriteRow(p)
  BY <1>8, RowMaps DEF Log!Next
<1>9. CASE CreateExists(p)
  BY <1>9, QuietMaps DEF CreateExists
<1>10. CASE Create(p)
  BY <1>10, QuietMaps DEF Create
<1>11. CASE WriteLine(p)
  BY <1>11, QuietMaps DEF WriteLine
<1> QED
  BY <1>1, <1>2, <1>3, <1>4, <1>5, <1>6, <1>7, <1>8, <1>9, <1>10, <1>11 DEF WriterStep

LEMMA ProcessMaps ==
  ASSUME NEW p \in Proc, ProcessStep(p)
  PROVE  UNCHANGED Log!vars
<1>1. hdr' = hdr /\ csv' = csv
  BY DEF ProcessStep, Start, Finish, Die
<1> QED
  BY <1>1, QuietMaps

\* Whatever the processes of a session do, and wherever they are killed, a reader
\* of the two shared files sees them grow by one header and one row of each.
THEOREM OutputImplementsLog == Spec => ImplementsLog
<1>1. IInv /\ [Next]_vars => [Log!Next]_Log!vars
  <2> SUFFICES ASSUME IInv, [Next]_vars PROVE Log!Next \/ UNCHANGED Log!vars
    OBVIOUS
  <2>1. ASSUME NEW p \in Proc, WriterStep(p) PROVE Log!Next \/ UNCHANGED Log!vars
    BY <2>1, WriterMaps
  <2>2. ASSUME NEW p \in Proc, ProcessStep(p) PROVE Log!Next \/ UNCHANGED Log!vars
    BY <2>2, ProcessMaps
  <2>3. CASE UNCHANGED vars
    BY <2>3, QuietMaps DEF vars
  <2> QED
    BY <2>1, <2>2, <2>3 DEF Next, Terminated
<1> QED
  BY <1>1, InitMaps, Inductive, PTL DEF Spec, ImplementsLog, Log!Spec

-----------------------------------------------------------------------------
(* Data that fit are written, as a whole. *)

\* Every process names its fields, and its line fits the buffer.
AllFit == \A p \in Proc : HasFields[p] /\ FullLen(p) < BufLen

FitInv ==
    /\ RowsWhole /\ NeverFails
    /\ \A p \in Proc : bufLen[p] = BufLen

LEMMA LineFits ==
  ASSUME AllFit, TypeOK, FitInv, NEW p \in Proc
  PROVE  /\ ~RowRejected(p)
         /\ Strlcat(LineLen(p), 1, bufLen[p]) = FullLen(p) /\ FullLen(p) # bufLen[p]
<1> DEFINE data == Threads[p] * ThreadLen
<1>1. data \in Nat /\ HeadLen \in Nat /\ ArgsLen[p] \in Nat /\ BufLen \in Nat
  <2>1. Threads[p] \in Nat /\ ThreadLen \in Nat
    BY OutputAssumption DEF OutputAssumption
  <2> QED
    BY <2>1, OutputAssumption DEF OutputAssumption
<1>2. bufLen[p] = BufLen
  BY DEF FitInv
<1>3. 1 + data + 2 + HeadLen + ArgsLen[p] + 1 < BufLen
  BY DEF AllFit, FullLen
<1> HIDE DEF data
<1>4. ThreadsLen(p) = 1 + data
  BY <1>1, <1>3 DEF ThreadsLen, Strlcat, data
<1>5. HeadEnd(p) = 1 + data + 2 + HeadLen
  BY <1>1, <1>2, <1>3, <1>4 DEF HeadEnd, Strlcat
<1>6. LineLen(p) = 1 + data + 2 + HeadLen + ArgsLen[p]
  BY <1>1, <1>2, <1>3, <1>5 DEF LineLen, Strlcat
<1>7. FullLen(p) = 1 + data + 2 + HeadLen + ArgsLen[p] + 1
  BY DEF FullLen, data
<1> QED
  BY <1>1, <1>2, <1>3, <1>4, <1>5, <1>6, <1>7 DEF RowRejected, Strlcat

LEMMA WriterFits ==
  ASSUME AllFit, IInv, FitInv, NEW p \in Proc, WriterStep(p)
  PROVE  FitInv'
<1>1. TypeOK /\ WayInv
  BY DEF IInv
<1>2. ASSUME NEW l, l # "failed", pc' = [pc EXCEPT ![p] = l],
             csv'.rows = csv.rows, bufLen' = bufLen
      PROVE  FitInv'
  BY <1>1, <1>2 DEF FitInv, TypeOK, RowsWhole, NeverFails
<1> USE DEF Goto
<1>3. CASE Mkdir(p)
  BY <1>2, <1>3 DEF Mkdir, NextOpen
<1>4. CASE OpenNoDirectory(p)
  <2>1. attempt[p] = 0
    BY <1>1, <1>4, Constants DEF OpenNoDirectory, WayInv, TypeOK
  <2> QED
    BY <1>2, <1>4, <2>1 DEF OpenNoDirectory
<1>5. CASE OpenCreates(p)
  <2>1. csv'.rows = csv.rows
    BY <1>1, <1>5 DEF OpenCreates, TypeOK
  <2> QED
    BY <1>2, <1>5, <2>1 DEF OpenCreates
<1>6. CASE OpenExists(p)
  BY <1>2, <1>6 DEF OpenExists
<1>7. CASE OpenAppend(p)
  BY <1>2, <1>7 DEF OpenAppend
<1>8. CASE OpenHeader(p)
  BY <1>2, <1>8 DEF OpenHeader
<1>9. CASE WriteHeader(p)
  BY <1>2, <1>9 DEF WriteHeader, AllFit
<1>10. CASE WriteRow(p)
  <2> DEFINE row == [by |-> p, whole |-> Strlcat(LineLen(p), 1, bufLen[p]) = FullLen(p)]
             Row == [by : Proc, whole : BOOLEAN]
  <2>1. bufLen' = bufLen /\ pc' = [pc EXCEPT ![p] = "done"]
        /\ csv' = [csv EXCEPT !.rows = Append(csv.rows, row)]
    BY <1>1, <1>10, LineFits DEF WriteRow
  <2>2. row.whole
    BY <1>1, LineFits
  <2>3. csv.rows \in Seq(Row) /\ row \in Row
    BY <1>1 DEF TypeOK
  <2> HIDE DEF row, Row
  <2>4. csv'.rows = Append(csv.rows, row)
    BY <1>1, <2>1 DEF TypeOK
  <2>5. RowsWhole'
    <3>1. \A i \in DOMAIN csv'.rows :
            \/ i \in DOMAIN csv.rows /\ csv'.rows[i] = csv.rows[i]
            \/ csv'.rows[i] = row
      BY <2>3, <2>4
    <3> QED
      BY <2>2, <3>1 DEF FitInv, RowsWhole
  <2> QED
    BY <1>1, <2>1, <2>5 DEF FitInv, NeverFails, TypeOK
<1>11. CASE CreateExists(p)
  BY <1>11 DEF CreateExists, FitInv, RowsWhole, NeverFails
<1>12. CASE Create(p)
  BY <1>2, <1>12 DEF Create
<1>13. CASE WriteLine(p)
  BY <1>2, <1>13 DEF WriteLine
<1> QED
  BY <1>3, <1>4, <1>5, <1>6, <1>7, <1>8, <1>9, <1>10, <1>11, <1>12, <1>13 DEF WriterStep

LEMMA ProcessFits ==
  ASSUME TypeOK, FitInv, NEW p \in Proc, ProcessStep(p)
  PROVE  FitInv'
<1>1. csv' = csv /\ bufLen' = bufLen
  BY DEF ProcessStep, Start, Finish, Die
<1>2. \A q \in Proc : pc'[q] # "failed"
  BY DEF ProcessStep, Start, Finish, Die, Goto, TypeOK, FitInv, NeverFails
<1> QED
  BY <1>1, <1>2 DEF FitInv, RowsWhole, NeverFails

\* If the fields of every process are named and its line fits the buffer, no
\* process fails, whoever makes the directories and the files, and every row in
\* the shared file is whole; and write_buffer_v2 never asks for more space.
THEOREM OutputFits ==
  ASSUME AllFit
  PROVE  Spec => [](RowsWhole /\ NeverFails)
<1>1. Init => FitInv
  BY DEF Init, FitInv, RowsWhole, NeverFails
<1>2. IInv /\ FitInv /\ [Next]_vars => FitInv'
  <2> SUFFICES ASSUME IInv, FitInv, [Next]_vars PROVE FitInv'
    OBVIOUS
  <2>1. ASSUME NEW p \in Proc, WriterStep(p) PROVE FitInv'
    BY <2>1, WriterFits
  <2>2. ASSUME NEW p \in Proc, ProcessStep(p) PROVE FitInv'
    BY <2>2, ProcessFits DEF IInv
  <2>3. CASE UNCHANGED vars
    BY <2>3 DEF vars, FitInv, RowsWhole, NeverFails
  <2> QED
    BY <2>1, <2>2, <2>3 DEF Next, Terminated
<1>3. FitInv => RowsWhole /\ NeverFails
  BY DEF FitInv
<1> QED
  BY <1>1, <1>2, <1>3, Inductive, PTL DEF Spec

-----------------------------------------------------------------------------
(* The header is there, and files of single processes have one writer. *)

\* Whoever is past the open of the header knows that somebody created it, and the
\* one who did has written it, or is about to, or was killed.
MadeInv ==
    /\ csv.rows # <<>> => hdr.maker # NoProc
    /\ \A p \in Proc : pc[p] \in {"fill", "count", "row"} => hdr.maker # NoProc
    /\ hdr.maker # NoProc => hdr.lines # <<>> \/ pc[hdr.maker] \in {"fill", "dead"}

LEMMA WriterMakes ==
  ASSUME \A p \in Proc : HasFields[p], IInv, MadeInv, NEW p \in Proc, WriterStep(p)
  PROVE  MadeInv'
<1>1. TypeOK /\ LogInv /\ pc \in [Proc -> Loc] /\ NoProc \notin Proc
  BY Constants DEF IInv, TypeOK
<1>2. ASSUME NEW l, l \notin {"fill", "count", "row"}, pc' = [pc EXCEPT ![p] = l],
             csv'.rows = csv.rows, hdr' = hdr, pc[p] \notin {"fill", "dead"}
      PROVE  MadeInv'
  BY <1>1, <1>2 DEF MadeInv, TypeOK
<1>3. CASE Mkdir(p)
  BY <1>2, <1>3 DEF Mkdir, Goto, NextOpen
<1>4. CASE OpenNoDirectory(p)
  BY <1>2, <1>4 DEF OpenNoDirectory, Goto
<1>5. CASE OpenCreates(p)
  <2>1. csv'.rows = csv.rows
    BY <1>1, <1>5 DEF OpenCreates, TypeOK
  <2> QED
    BY <1>2, <1>5, <2>1 DEF OpenCreates, Goto
<1>6. CASE OpenExists(p)
  BY <1>2, <1>6 DEF OpenExists, Goto
<1>7. CASE OpenAppend(p)
  BY <1>2, <1>7 DEF OpenAppend, Goto
<1>8. CASE OpenHeader(p)
  <2>1. CASE hdr.maker = NoProc
    <3>1. hdr'.maker = p /\ pc' = [pc EXCEPT ![p] = "fill"] /\ csv' = csv
      BY <1>1, <1>8, <2>1 DEF OpenHeader, Goto, TypeOK
    <3> QED
      BY <1>1, <3>1 DEF MadeInv
  <2>2. CASE hdr.maker # NoProc
    <3>1. hdr' = hdr /\ pc' = [pc EXCEPT ![p] = "count"] /\ csv' = csv /\ pc[p] = "header"
      BY <1>8, <2>2 DEF OpenHeader, Goto
    <3> QED
      BY <1>1, <2>2, <3>1 DEF MadeInv
  <2> QED
    BY <2>1, <2>2
<1>9. CASE WriteHeader(p)
  <2>1. pc' = [pc EXCEPT ![p] = "row"] /\ csv' = csv /\ hdr.maker # NoProc
    BY <1>9 DEF WriteHeader, Goto, MadeInv
  <2>2. CASE pc[p] = "fill"
    <3>1. hdr' = [hdr EXCEPT !.lines = Append(hdr.lines, p)]
      BY <1>9, <2>2 DEF WriteHeader
    <3>2. hdr'.maker = hdr.maker /\ hdr'.lines = Append(hdr.lines, p) /\ hdr.lines \in Seq(Proc)
      BY <1>1, <3>1 DEF TypeOK
    <3>3. hdr'.lines # <<>>
      BY <3>2
    <3> QED
      BY <1>1, <2>1, <3>2, <3>3 DEF MadeInv
  <2>3. CASE pc[p] = "count"
    <3>1. hdr' = hdr
      BY <1>9, <2>3 DEF WriteHeader
    <3> QED
      BY <1>1, <2>1, <2>3, <3>1 DEF MadeInv
  <2> QED
    BY <1>9, <2>2, <2>3 DEF WriteHeader
<1>10. CASE WriteRow(p)
  <2>1. /\ pc[p] = "row" /\ hdr' = hdr /\ hdr.maker # NoProc
        /\ \E l \in {"failed", "row", "done"} : pc' = [pc EXCEPT ![p] = l]
    BY <1>10 DEF WriteRow, Goto, MadeInv
  <2> QED
    BY <1>1, <2>1 DEF MadeInv
<1>11. CASE CreateExists(p)
  BY <1>11 DEF CreateExists, MadeInv
<1>12. CASE Create(p)
  BY <1>2, <1>12 DEF Create, Goto
<1>13. CASE WriteLine(p)
  BY <1>2, <1>13 DEF WriteLine, Goto
<1> QED
  BY <1>3, <1>4, <1>5, <1>6, <1>7, <1>8, <1>9, <1>10, <1>11, <1>12, <1>13 DEF WriterStep

LEMMA ProcessMakes ==
  ASSUME IInv, MadeInv, NEW p \in Proc, ProcessStep(p)
  PROVE  MadeInv'
<1>1. csv' = csv /\ hdr' = hdr /\ pc \in [Proc -> Loc]
  BY DEF ProcessStep, Start, Finish, Die, IInv, TypeOK
<1>2. /\ \E l \in {"run", "open", "mkdir", "dead"} : pc' = [pc EXCEPT ![p] = l]
      /\ pc'[p] = "dead" \/ pc[p] \in {"idle", "run"}
  BY <1>1 DEF ProcessStep, Start, Finish, Die, Goto
<1>3. ASSUME NEW q \in Proc, pc'[q] \in {"fill", "count", "row"}
      PROVE  pc[q] \in {"fill", "count", "row"}
  BY <1>1, <1>2, <1>3
<1>4. ASSUME NEW q \in Proc, pc[q] \in {"fill", "dead"}
      PROVE  pc'[q] \in {"fill", "dead"}
  BY <1>1, <1>2, <1>4
<1>5. hdr.maker \in Proc \cup {NoProc}
  BY DEF IInv, TypeOK
<1> QED
  BY <1>1, <1>3, <1>4, <1>5 DEF MadeInv

\* HeaderFilled, if every process can name the fields of its plugins: the header file
\* is never left empty by a session in which nobody was killed.
THEOREM HeaderAlwaysFilled ==
  ASSUME \A p \in Proc : HasFields[p]
  PROVE  Spec => []HeaderFilled
<1>1. Init => MadeInv
  BY DEF Init, MadeInv
<1>2. IInv /\ MadeInv /\ [Next]_vars => MadeInv'
  <2> SUFFICES ASSUME IInv, MadeInv, [Next]_vars PROVE MadeInv'
    OBVIOUS
  <2>1. ASSUME NEW p \in Proc, WriterStep(p) PROVE MadeInv'
    BY <2>1, WriterMakes
  <2>2. ASSUME NEW p \in Proc, ProcessStep(p) PROVE MadeInv'
    BY <2>2, ProcessMakes
  <2>3. CASE UNCHANGED vars
    BY <2>3 DEF vars, MadeInv
  <2> QED
    BY <2>1, <2>2, <2>3 DEF Next, Terminated
<1>3. IInv /\ MadeInv => HeaderFilled
  <2>1. SUFFICES ASSUME IInv, MadeInv, \A p \in Proc : pc[p] \in {"done", "failed"}, csv.rows # <<>>
                 PROVE  hdr.lines # <<>>
    BY DEF HeaderFilled
  <2>2. hdr.maker \in Proc
    BY <2>1 DEF IInv, TypeOK, MadeInv
  <2> QED
    BY <2>1, <2>2 DEF MadeInv
<1> QED
  BY <1>1, <1>2, <1>3, Inductive, PTL DEF Spec

\* A pid is that of one process at a time, and a process that writes lines has the
\* file of its name to itself.
Living(p) == pc[p] \notin Ended \cup {"idle"}

FileInv ==
    /\ \A p, q \in Proc : Living(p) /\ Living(q) /\ Pid[p] = Pid[q] => p = q
    /\ \A p \in Proc : pc[p] = "lines" =>
         Name(p) \in DOMAIN files /\ \A i \in DOMAIN files[Name(p)] : files[Name(p)][i] = p
    /\ FilesOwned

\* A step of p that starts nobody and writes no file.
LEMMA QuietFiles ==
  ASSUME FileInv, NEW p \in Proc, files' = files, gen' = gen,
         \A q \in Proc \ {p} : pc'[q] = pc[q],
         Living(p)' => Living(p), pc'[p] = "lines" => pc[p] = "lines"
  PROVE  FileInv'
<1>1. \A q \in Proc : Living(q)' => Living(q)
  BY DEF Living
<1>2. ASSUME NEW q \in Proc, pc'[q] = "lines"
      PROVE  pc[q] = "lines" /\ Name(q)' = Name(q)
  BY <1>2 DEF Name
<1> QED
  BY <1>1, <1>2 DEF FileInv, FilesOwned, OneWriter

LEMMA WriterFiles ==
  ASSUME TypeOK, FileInv, NEW p \in Proc, WriterStep(p)
  PROVE  FileInv'
<1>1. pc \in [Proc -> Loc] /\ gen \in [Proc -> Nat] /\ \A n \in DOMAIN files : files[n] \in Seq(Proc)
  BY DEF TypeOK
<1>2. CASE \/ Mkdir(p) \/ OpenNoDirectory(p) \/ OpenCreates(p) \/ OpenExists(p) \/ OpenAppend(p)
           \/ OpenHeader(p) \/ WriteHeader(p) \/ WriteRow(p)
  <2>1. /\ files' = files /\ gen' = gen /\ \A q \in Proc \ {p} : pc'[q] = pc[q]
        /\ pc[p] \in {"mkdir", "open", "append", "header", "fill", "count", "row"}
    BY <1>1, <1>2 DEF Mkdir, OpenNoDirectory, OpenCreates, OpenExists, OpenAppend, OpenHeader,
       WriteHeader, WriteRow, Goto
  <2>2. pc'[p] # "lines"
    BY <1>1, <1>2 DEF Mkdir, OpenNoDirectory, OpenCreates, OpenExists, OpenAppend, OpenHeader,
       WriteHeader, WriteRow, Goto, NextOpen
  <2>3. Living(p)
    BY <2>1 DEF Living, Ended
  <2> QED
    BY <2>1, <2>2, <2>3, QuietFiles
<1>3. CASE CreateExists(p)
  <2>1. pc' = pc /\ files' = files /\ pc[p] = "create" /\ \A q \in Proc \ {p} : gen'[q] = gen[q]
    BY <1>1, <1>3 DEF CreateExists
  <2>2. ASSUME NEW q \in Proc, pc[q] = "lines"
        PROVE  Name(q)' = Name(q)
    BY <2>1, <2>2 DEF Name
  <2>3. \A q \in Proc : Living(q)' <=> Living(q)
    BY <2>1 DEF Living
  <2> QED
    BY <2>1, <2>2, <2>3 DEF FileInv, FilesOwned, OneWriter
<1>4. CASE Create(p)
  <2> DEFINE n == Name(p)
  <2>1. /\ n \notin DOMAIN files /\ gen' = gen /\ pc' = [pc EXCEPT ![p] = "lines"] /\ pc[p] = "create"
        /\ DOMAIN files' = DOMAIN files \cup {n} /\ files'[n] = <<>>
        /\ \A m \in DOMAIN files : files'[m] = files[m]
    BY <1>4 DEF Create, Goto
  <2>2. ASSUME NEW q \in Proc
        PROVE  Name(q)' = Name(q) /\ (Living(q)' <=> Living(q))
    BY <1>1, <2>1 DEF Name, Living, Ended
  <2> HIDE DEF n
  <2>3. FilesOwned'
    BY <2>1 DEF FileInv, FilesOwned, OneWriter
  <2>4. ASSUME NEW q \in Proc, pc'[q] = "lines"
        PROVE  Name(q) \in DOMAIN files' /\ \A i \in DOMAIN files'[Name(q)] : files'[Name(q)][i] = q
    <3>1. CASE q = p
      BY <2>1, <3>1 DEF n
    <3>2. CASE q # p
      <4>1. pc[q] = "lines"
        BY <1>1, <2>1, <2>4, <3>2
      <4> QED
        BY <2>1, <4>1 DEF FileInv
    <3> QED
      BY <3>1, <3>2
  <2> QED
    BY <2>2, <2>3, <2>4 DEF FileInv
<1>5. CASE WriteLine(p)
  <2> DEFINE n == Name(p)
  <2>0. pc[p] = "lines" /\ n \in DOMAIN files /\ \A i \in DOMAIN files[n] : files[n][i] = p
    BY <1>5 DEF WriteLine, FileInv
  <2>1. /\ gen' = gen /\ DOMAIN files' = DOMAIN files /\ files'[n] = Append(files[n], p)
        /\ \A m \in DOMAIN files \ {n} : files'[m] = files[m]
        /\ \E l \in {"done", "lines"} : pc' = [pc EXCEPT ![p] = l]
    BY <1>5, <2>0 DEF WriteLine, Goto
  <2>2. ASSUME NEW q \in Proc
        PROVE  /\ Name(q)' = Name(q) /\ (Living(q)' => Living(q))
               /\ (pc'[q] = "lines" => pc[q] = "lines")
    BY <1>1, <2>0, <2>1 DEF Name, Living, Ended
  <2>3. ASSUME NEW q \in Proc, pc[q] = "lines", q # p
        PROVE  Name(q) # n
    BY <2>0, <2>3 DEF FileInv, Living, Ended, Name
  <2> HIDE DEF n
  <2>4. \A i \in DOMAIN files'[n] : files'[n][i] = p
    <3>1. files[n] \in Seq(Proc)
      BY <1>1, <2>0
    <3>2. PICK s \in Seq(Proc) : s = files[n]
      BY <3>1
    <3>3. \A i \in DOMAIN Append(s, p) : Append(s, p)[i] = p
      BY <2>0, <3>2
    <3> QED
      BY <2>1, <3>2, <3>3
  <2>5. FilesOwned'
    BY <2>1, <2>4 DEF FileInv, FilesOwned, OneWriter
  <2>6. ASSUME NEW q \in Proc, pc'[q] = "lines"
        PROVE  Name(q) \in DOMAIN files' /\ \A i \in DOMAIN files'[Name(q)] : files'[Name(q)][i] = q
    <3>1. CASE q = p
      BY <2>0, <2>1, <2>4, <3>1 DEF n
    <3>2. CASE q # p
      <4>1. pc[q] = "lines" /\ Name(q) # n
        BY <2>2, <2>3, <2>6, <3>2
      <4> QED
        BY <2>1, <4>1 DEF FileInv
    <3> QED
      BY <3>1, <3>2
  <2> QED
    BY <2>2, <2>5, <2>6 DEF FileInv
<1> QED
  BY <1>2, <1>3, <1>4, <1>5 DEF WriterStep

LEMMA ProcessFiles ==
  ASSUME TypeOK, FileInv, NEW p \in Proc, ProcessStep(p)
  PROVE  FileInv'
<1>1. pc \in [Proc -> Loc] /\ files' = files /\ gen' = gen
  BY DEF TypeOK, ProcessStep, Start, Finish, Die
<1>2. CASE Finish(p) \/ Die(p)
  <2>1. \A q \in Proc \ {p} : pc'[q] = pc[q]
    BY <1>1, <1>2 DEF Finish, Die, Goto
  <2>2. pc'[p] # "lines" /\ Living(p)
    BY <1>1, <1>2 DEF Finish, Die, Goto, Living, Ended
  <2> QED
    BY <1>1, <2>1, <2>2, QuietFiles
<1>3. CASE Start(p)
  <2>1. /\ pc' = [pc EXCEPT ![p] = "run"]
        /\ \A q \in Proc : Pid[q] = Pid[p] => ~Living(q)
    BY <1>3 DEF Start, Goto, Living
  <2>2. ASSUME NEW q \in Proc, Living(q)'
        PROVE  q = p \/ Living(q)
    BY <1>1, <2>1, <2>2 DEF Living
  <2>3. \A q, r \in Proc : Living(q)' /\ Living(r)' /\ Pid[q] = Pid[r] => q = r
    BY <2>1, <2>2 DEF FileInv
  <2>4. ASSUME NEW q \in Proc, pc'[q] = "lines"
        PROVE  pc[q] = "lines" /\ Name(q)' = Name(q)
    BY <1>1, <2>1, <2>4 DEF Name
  <2> QED
    BY <1>1, <2>3, <2>4 DEF FileInv, FilesOwned, OneWriter
<1> QED
  BY <1>2, <1>3 DEF ProcessStep

\* FilesOwned: the file of a single process has the lines of one process, whatever
\* pids come again and wherever processes are killed.
THEOREM FilesAlwaysOwned == Spec => []FilesOwned
<1>1. Init => FileInv
  BY DEF Init, FileInv, FilesOwned, Living
<1>2. IInv /\ FileInv /\ [Next]_vars => FileInv'
  <2> SUFFICES ASSUME IInv, FileInv, [Next]_vars PROVE FileInv'
    OBVIOUS
  <2>1. ASSUME NEW p \in Proc, WriterStep(p) PROVE FileInv'
    BY <2>1, WriterFiles DEF IInv
  <2>2. ASSUME NEW p \in Proc, ProcessStep(p) PROVE FileInv'
    BY <2>2, ProcessFiles DEF IInv
  <2>3. CASE UNCHANGED vars
    BY <2>3 DEF vars, FileInv, FilesOwned, OneWriter, Living, Name
  <2> QED
    BY <2>1, <2>2, <2>3 DEF Next, Terminated
<1>3. FileInv => FilesOwned
  BY DEF FileInv
<1> QED
  BY <1>1, <1>2, <1>3, Inductive, PTL DEF Spec
=============================================================================
