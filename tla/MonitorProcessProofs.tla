------------------------ MODULE MonitorProcessProofs ------------------------
(***************************************************************************)
(* Proofs about MonitorProcess, for any number of processes and threads.   *)
(* What is proved is about images, lists and locks under SerialFork; the   *)
(* refinement of ProcessLife also needs NoLateFork.                        *)
(***************************************************************************)
EXTENDS MonitorProcess, TLAPS

Lib == {"libTest", "libCb", "libDone"}

\* Some thread is in the child, between the real fork and its init_process.
Forked(s) == \E t \in Thread : s[t].pc = "forkChild"

\* The thread list belongs to the threads of the process.
ListPart(m, s) ==
    /\ ~m.used => m.linked = {}
    /\ \A u \in m.linked : s[u].pc # "none" \/ m.inCleanup \/ Forked(s)

\* Whoever holds the lock is at a place from which it is released.
LockPart(m, s) == m.lock # NoThread => s[m.lock].pc \in {"mkLocked", "linkLocked"}

\* Application code past main, and whoever creates a thread, comes after
\* init_process, which an image gets once.
InitPart(m, s, c) ==
    /\ \A t \in Thread :
         s[t].pc \notin {"none", "forkChild"} /\ s[t].ctx = "main" => m.initCalled
    /\ \A t \in Thread : s[t].pc \in CreateLoc => m.used /\ m.initCalled
    /\ c.init = IF m.initCalled /\ ~Forked(s) THEN 1 ELSE 0

\* inside_fork is set while a thread is in fork, and then the others are in no
\* override but perhaps at their exit; a child has one thread.
ForkPart(m, s) ==
    /\ m.insideFork = (\E t \in Thread : s[t].pc \in ForkLoc)
    /\ \A t, u \in Thread : s[t].pc \in ForkLoc /\ u # t =>
         /\ s[u].pc \in {"none", "app"} \cup Lib
         /\ s[t].pc = "forkChild" => s[u].pc = "none"

\* One thread wins the cookie, and calls fini_process.
OncePart(m, s, c) ==
    /\ c.fini \in {0, 1}
    /\ ~m.cookie => c.fini = 0
    /\ \A t \in Thread : s[t].pc = "shootdown" => m.cookie /\ c.fini = 0
    /\ \A t, u \in Thread : s[t].pc = "shootdown" /\ s[u].pc = "shootdown" => t = u

ImageOK(m, s, c) ==
    ListPart(m, s) /\ LockPart(m, s) /\ InitPart(m, s, c) /\ ForkPart(m, s) /\ OncePart(m, s, c)

\* While it is not alive a process has no threads, and the memory in which the
\* next one starts; one that was never alive has had no callbacks.
ProcessInv ==
    /\ TypeOK
    /\ \A p \in Proc :
         /\ status[p] # "alive" => mem[p] = FreshImage
         /\ status[p] = "unborn" => calls[p] = NoCalls
         /\ calls[p].init <= 1 /\ calls[p].fini <= 1
         /\ status[p] = "alive" => ImageOK(mem[p], th[p], calls[p])

\* The main thread is one, and every other thread has its own node.
NodePart(m, s) ==
    /\ \A t \in Thread : s[t].pc # "none" => GetTn(m, t) \in {t, MainTn}
    /\ \A t, u \in Thread : s[t].pc # "none" /\ s[u].pc # "none"
                            /\ GetTn(m, t) = GetTn(m, u) => t = u

\* Who may pass the end of the process before its fini_process: nobody.
EndPart(m, s, c) ==
    /\ ~m.cookie => m.exitWin = {} /\ ~m.finiDone
    /\ m.cookie => c.fini = 1 \/ \E t \in Thread : s[t].pc = "shootdown"
    /\ m.finiDone => c.fini = 1
    /\ \A t \in Thread :
         /\ s[t].pc \in ForkLoc => ~m.cookie
         /\ s[t].pc = "shootdown" => m.exitWin \subseteq {GetTn(m, t)}
         /\ s[t].pc = "finiProcess" => c.fini = 1
         /\ s[t].ctx = "exiting" => c.fini = 1
         /\ s[t].pc \in Lib /\ s[t].how = "exit" => c.fini = 1

LifeInv ==
    /\ ProcessInv
    /\ \A p \in Proc : status[p] = "alive" =>
         NodePart(mem[p], th[p]) /\ EndPart(mem[p], th[p], calls[p])

-----------------------------------------------------------------------------
(* A step of one process. *)

LEMMA Constants ==
  /\ Root \in Proc /\ NoProc \notin Proc
  /\ Main \in Thread /\ NoThread \notin Thread
  /\ MainTn \notin Thread /\ NoNode \notin Thread \cup {MainTn}
  /\ SerialFork \in BOOLEAN /\ NoLateFork \in BOOLEAN
BY ProcessAssumption DEF ProcessAssumption

LEMMA FreshImageOK == FreshImage \in Image
BY DEF FreshImage, Image, Node

LEMMA NoSlotsType ==
  /\ NoSlots \in [Thread -> Slot] /\ StartSlots \in [Thread -> Slot]
  /\ \A t \in Thread : NoSlots[t].pc = "none" /\ NoSlots[t].ctx = "main"
  /\ StartSlots[Main].pc = "app" /\ StartSlots[Main].ctx = "pre"
  /\ \A t \in Thread \ {Main} : StartSlots[t].pc = "none" /\ StartSlots[t].ctx = "main"
BY Constants DEF NoSlots, StartSlots, Slots, Slot, Loc, Context

\* An image that has just been loaded.
LEMMA StartOK == ImageOK(FreshImage, StartSlots, NoCalls)
<1> USE Constants, NoSlotsType
<1>1. ListPart(FreshImage, StartSlots)
  BY DEF ListPart, FreshImage
<1>2. LockPart(FreshImage, StartSlots)
  BY DEF LockPart, FreshImage
<1>3. InitPart(FreshImage, StartSlots, NoCalls)
  BY DEF InitPart, FreshImage, NoCalls, CreateLoc, Forked
<1>4. ForkPart(FreshImage, StartSlots)
  BY DEF ForkPart, FreshImage, ForkLoc
<1>5. OncePart(FreshImage, StartSlots, NoCalls)
  BY DEF OncePart, FreshImage, NoCalls
<1> QED
  BY <1>1, <1>2, <1>3, <1>4, <1>5 DEF ImageOK

\* Only p, and its thread t, makes a step.
OnlyIn(p) ==
    /\ status' = status
    /\ \A q \in Proc \ {p} : mem'[q] = mem[q] /\ th'[q] = th[q] /\ calls'[q] = calls[q]
OnlyBy(p, t) == OnlyIn(p) /\ \A u \in Thread \ {t} : th'[p][u] = th[p][u]

LEMMA Frame ==
  ASSUME ProcessInv, TypeOK', NEW p \in Proc, status[p] = "alive", OnlyIn(p),
         ImageOK(mem[p], th[p], calls[p])'
  PROVE  ProcessInv'
<1>1. calls'[p].init <= 1 /\ calls'[p].fini <= 1
  BY DEF ImageOK, InitPart, OncePart
<1>2. ASSUME NEW q \in Proc
      PROVE  /\ status'[q] # "alive" => mem'[q] = FreshImage
             /\ status'[q] = "unborn" => calls'[q] = NoCalls
             /\ calls'[q].init <= 1 /\ calls'[q].fini <= 1
             /\ status'[q] = "alive" => ImageOK(mem'[q], th'[q], calls'[q])
  <2>1. CASE q = p
    BY <2>1, <1>1 DEF OnlyIn
  <2>2. CASE q # p
    BY <2>2 DEF ProcessInv, OnlyIn
  <2> QED
    BY <2>1, <2>2
<1> QED
  BY <1>2 DEF ProcessInv

\* What a step of p finds in its process, and leaves there.
LEMMA AliveFacts ==
  ASSUME ProcessInv, NEW p \in Proc, status[p] = "alive"
  PROVE  /\ mem[p] \in Image /\ th[p] \in [Thread -> Slot]
         /\ calls[p] \in [init : Nat, fini : Nat]
         /\ ListPart(mem[p], th[p]) /\ LockPart(mem[p], th[p])
         /\ InitPart(mem[p], th[p], calls[p]) /\ ForkPart(mem[p], th[p])
         /\ OncePart(mem[p], th[p], calls[p])
BY DEF ProcessInv, TypeOK, ImageOK

LEMMA TypeFacts ==
  ASSUME TypeOK', NEW p \in Proc
  PROVE  /\ mem'[p] \in Image /\ th'[p] \in [Thread -> Slot]
         /\ calls'[p] \in [init : Nat, fini : Nat]
BY DEF TypeOK

\* Between these two images nothing changes that the parts about lists, forks and
\* starts look at.
SameLists(m, n) ==
    /\ n.linked = m.linked /\ n.used = m.used /\ n.initCalled = m.initCalled
    /\ n.insideFork = m.insideFork
    /\ m.inCleanup => n.inCleanup

\* A thread goes on, into no fork and out of none.
GoesOn(p, t) ==
    /\ th[p][t].pc \notin {"none"} \cup ForkLoc
    /\ th'[p][t].pc \notin {"none"} \cup ForkLoc
    /\ th'[p][t].ctx = "main" => th[p][t].ctx = "main"
    /\ th'[p][t].pc \in CreateLoc => th[p][t].pc \in CreateLoc
    /\ \/ th[p][t].pc \notin {"app"} \cup Lib
       \/ th'[p][t].pc \in {"app"} \cup Lib
       \/ \A u \in Thread : th[p][u].pc \notin ForkLoc

LEMMA MoveStep ==
  ASSUME ProcessInv, TypeOK', NEW p \in Proc, NEW t \in Thread, status[p] = "alive",
         OnlyBy(p, t), GoesOn(p, t), SameLists(mem[p], mem'[p]),
         calls'[p].init = calls[p].init,
         LockPart(mem[p], th[p])', OncePart(mem[p], th[p], calls[p])'
  PROVE  ProcessInv'
<1>1. /\ th[p] \in [Thread -> Slot] /\ th'[p] \in [Thread -> Slot]
      /\ \A u \in mem[p].linked : u \in Thread
      /\ ListPart(mem[p], th[p]) /\ InitPart(mem[p], th[p], calls[p])
      /\ ForkPart(mem[p], th[p])
      /\ \A u \in Thread \ {t} : th'[p][u] = th[p][u]
  BY AliveFacts, TypeFacts DEF OnlyBy, Image
<1>2. Forked(th'[p]) <=> Forked(th[p])
  BY <1>1 DEF Forked, ForkLoc, GoesOn
<1>3. ListPart(mem'[p], th'[p])
  BY <1>1, <1>2 DEF ListPart, GoesOn, SameLists
<1>4. InitPart(mem'[p], th'[p], calls'[p])
  <2>1. ASSUME NEW u \in Thread, th'[p][u].pc \notin {"none", "forkChild"},
               th'[p][u].ctx = "main"
        PROVE  mem'[p].initCalled
    BY <1>1, <2>1 DEF InitPart, ForkLoc, GoesOn, SameLists
  <2>2. ASSUME NEW u \in Thread, th'[p][u].pc \in CreateLoc
        PROVE  mem'[p].used /\ mem'[p].initCalled
    BY <1>1, <2>2 DEF InitPart, GoesOn, SameLists
  <2> QED
    BY <1>1, <2>1, <2>2, <1>2 DEF InitPart, SameLists
<1>5. ForkPart(mem'[p], th'[p])
  <2>1. (\E u \in Thread : th'[p][u].pc \in ForkLoc) <=> (\E u \in Thread : th[p][u].pc \in ForkLoc)
    BY <1>1 DEF GoesOn
  <2>2. ASSUME NEW u \in Thread, NEW v \in Thread, th'[p][u].pc \in ForkLoc, v # u
        PROVE  /\ th'[p][v].pc \in {"none", "app"} \cup Lib
               /\ th'[p][u].pc = "forkChild" => th'[p][v].pc = "none"
    <3>1. u # t /\ th'[p][u] = th[p][u]
      BY <1>1, <2>2 DEF GoesOn
    <3>2. /\ th[p][v].pc \in {"none", "app"} \cup Lib
          /\ th[p][u].pc = "forkChild" => th[p][v].pc = "none"
      BY <1>1, <2>2, <3>1 DEF ForkPart
    <3>3. CASE v = t
      BY <3>1, <3>2, <3>3, <2>2 DEF GoesOn
    <3>4. CASE v # t
      BY <1>1, <3>2, <3>1, <3>4
    <3> QED
      BY <3>3, <3>4
  <2> QED
    BY <1>1, <2>1, <2>2 DEF ForkPart, SameLists
<1>6. ImageOK(mem'[p], th'[p], calls'[p])
  BY <1>3, <1>4, <1>5 DEF ImageOK
<1> QED
  BY <1>6, Frame DEF OnlyBy

\* The same where neither the lock nor the cookie is touched.
LEMMA QuietStep ==
  ASSUME ProcessInv, TypeOK', NEW p \in Proc, NEW t \in Thread, status[p] = "alive",
         OnlyBy(p, t), GoesOn(p, t), SameLists(mem[p], mem'[p]), calls'[p] = calls[p],
         mem'[p].lock = mem[p].lock, mem'[p].cookie = mem[p].cookie,
         th[p][t].pc \notin {"mkLocked", "linkLocked"}, th'[p][t].pc # "shootdown"
  PROVE  ProcessInv'
<1>0. /\ mem[p] \in Image /\ LockPart(mem[p], th[p]) /\ OncePart(mem[p], th[p], calls[p])
      /\ \A u \in Thread \ {t} : th'[p][u] = th[p][u]
  BY AliveFacts DEF OnlyBy
<1>1. LockPart(mem'[p], th'[p])
  BY <1>0 DEF LockPart, Image
<1>2. OncePart(mem'[p], th'[p], calls'[p])
  BY <1>0 DEF OncePart
<1> QED
  BY <1>1, <1>2, MoveStep

-----------------------------------------------------------------------------
(* One lemma for each action, or for a few that are alike. *)

\* Nobody forks while application code calls an override.
LEMMA CallFacts ==
  ASSUME SerialFork, ProcessInv, NEW p \in Proc, NEW t \in Thread, Call(p, t)
  PROVE  /\ status[p] = "alive" /\ th[p][t].pc = "app"
         /\ \A u \in Thread : th[p][u].pc \notin ForkLoc
         /\ ~mem[p].insideFork /\ ~Forked(th[p])
<1>1. /\ status[p] = "alive" /\ th[p][t].pc = "app"
      /\ \A u \in Thread : th[p][u].pc \notin ForkLoc
  BY DEF Call, At, InFork
<1>2. ForkPart(mem[p], th[p]) /\ mem[p] \in Image
  BY <1>1, AliveFacts
<1> QED
  BY <1>1, <1>2 DEF ForkPart, Image, Forked, ForkLoc

\* A step of a thread that does not hold the lock, and does not take it, keeps it.
LEMMA LockKept ==
  ASSUME NEW p \in Proc, NEW t \in Thread, mem[p] \in Image, LockPart(mem[p], th[p]),
         mem'[p].lock = mem[p].lock, \A u \in Thread \ {t} : th'[p][u] = th[p][u],
         th[p][t].pc \notin {"mkLocked", "linkLocked"}
  PROVE  LockPart(mem'[p], th'[p])
<1> QED
  BY DEF LockPart, Image

\* What a thread's move to l leaves: only its place changes.
Went(p, t, l) ==
    /\ th' \in [Proc -> [Thread -> Slot]]
    /\ \A q \in Proc \ {p} : th'[q] = th[q]
    /\ \A u \in Thread \ {t} : th'[p][u] = th[p][u]
    /\ th'[p][t].pc = l /\ th'[p][t].ctx = th[p][t].ctx /\ th'[p][t].how = th[p][t].how

LEMMA GotoFacts ==
  ASSUME TypeOK, NEW p \in Proc, NEW t \in Thread, NEW l \in Loc, Goto(p, t, l)
  PROVE  Went(p, t, l)
<1>1. th[p][t] \in Slot
  BY DEF TypeOK
<1>2. th' \in [Proc -> [Thread -> Slot]] /\ th'[p][t] = [th[p][t] EXCEPT !.pc = l]
  BY <1>1 DEF Goto, TypeOK, Slot
<1>3. /\ \A q \in Proc \ {p} : th'[q] = th[q]
      /\ \A u \in Thread \ {t} : th'[p][u] = th[p][u]
  BY DEF Goto, TypeOK
<1> QED
  BY <1>1, <1>2, <1>3 DEF Slot, Went

\* Steps that go on, and perhaps mark the end of a callback.
GoingOn(p, t) ==
    \/ LaunchFails(p, t) \/ SystemReturn(p, t) \/ Exit(p, t)
    \/ (\E b \in BOOLEAN : Exec(p, t, b))
    \/ FiniProcessReturn(p, t) \/ RepeatEnd(p, t) \/ LoseEnd(p, t)
    \/ LoserReleased(p, t) \/ HandlersReturn(p, t) \/ EndLibrary(p, t)
    \/ FiniLibraryReturn(p, t) \/ RealExecFails(p, t)

LEMMA GoingOnTypes ==
  ASSUME TypeOK, NEW p \in Proc, NEW t \in Thread, GoingOn(p, t)
  PROVE  /\ TypeOK' /\ OnlyBy(p, t) /\ status[p] = "alive" /\ calls' = calls
         /\ SameLists(mem[p], mem'[p])
         /\ mem'[p].lock = mem[p].lock /\ mem'[p].cookie = mem[p].cookie
<1>1. th[p][t] \in Slot /\ mem[p] \in Image
  BY DEF TypeOK
<1> DEFINE Quiet == UNCHANGED <<status, calls>> /\ status[p] = "alive"
           MemMoves == \/ mem' = mem
                       \/ mem' = [mem EXCEPT ![p].finiDone = TRUE]
                       \/ mem' = [mem EXCEPT ![p].finiLib = TRUE]
           ThMoves == \/ \E l \in {"app", "loser", "libCb", "libDone", "libTest"} : Goto(p, t, l)
                      \/ \E l \in {"libTest", "libDone", "endProcess"},
                           h \in {"exit", "exec", "try"} :
                           th' = [th EXCEPT ![p][t].pc = l, ![p][t].how = h]
                      \/ th' = [th EXCEPT ![p][t].pc = "app", ![p][t].ctx = "exiting"]
                      \/ th' = [th EXCEPT ![p][t].pc = "app", ![p][t].kid = NoProc]
           Moves == Quiet /\ MemMoves /\ ThMoves
<1>2. Moves
  <2>1. ASSUME At(p, t, "finiProcess") \/ At(p, t, "endProcess") \/ At(p, t, "loser"),
               EndReturn(p, t)
        PROVE  <1>2!:
    <3>1. Quiet /\ MemMoves
      BY <2>1 DEF EndReturn, At
    <3>2. CASE th[p][t].how = "exec"
      <4>1. Goto(p, t, "libTest")
        BY <2>1, <3>2 DEF EndReturn, Goto
      <4> QED
        BY <3>1, <4>1
    <3>3. CASE th[p][t].how # "exec"
      <4>1. th' = [th EXCEPT ![p][t].pc = "app", ![p][t].ctx = "exiting"]
        BY <2>1, <3>3, Zenon DEF EndReturn
      <4> QED
        BY <3>1, <4>1
    <3> QED
      BY <3>2, <3>3, Zenon
  <2>2. CASE LaunchFails(p, t)
    BY <2>2, Zenon DEF LaunchFails, At
  <2>3. CASE SystemReturn(p, t)
    BY <2>3, Zenon DEF SystemReturn, At
  <2>4. CASE Exit(p, t)
    BY <2>4, Zenon DEF Exit, Call, At
  <2>5. CASE LoseEnd(p, t)
    BY <2>5, Zenon DEF LoseEnd, At
  <2>6. CASE HandlersReturn(p, t)
    BY <2>6, Zenon DEF HandlersReturn, At
  <2>7. CASE EndLibrary(p, t)
    BY <2>7, Zenon DEF EndLibrary, At
  <2>8. CASE FiniLibraryReturn(p, t)
    BY <2>8, Zenon DEF FiniLibraryReturn, At
  <2>9. CASE RealExecFails(p, t)
    BY <2>9, Zenon DEF RealExecFails, At
  <2>10. CASE \E b \in BOOLEAN : Exec(p, t, b)
    <3>1. PICK b \in BOOLEAN : Exec(p, t, b)
      BY <2>10
    <3>2. Quiet /\ MemMoves
      BY <3>1, Zenon DEF Exec, Call, At
    <3>3. CASE b
      <4>1. th' = [th EXCEPT ![p][t].pc = "endProcess", ![p][t].how = "exec"]
        BY <3>1, <3>3, Zenon DEF Exec
      <4> QED
        BY <3>2, <4>1, Zenon
    <3>4. CASE ~b
      <4>1. th' = [th EXCEPT ![p][t].pc = "libDone", ![p][t].how = "try"]
        BY <3>1, <3>4, Zenon DEF Exec
      <4> QED
        BY <3>2, <4>1, Zenon
    <3> QED
      BY <3>3, <3>4, Zenon
  <2> HIDE DEF Moves
  <2>11. CASE FiniProcessReturn(p, t)
    BY <2>1, <2>11 DEF FiniProcessReturn
  <2>12. CASE RepeatEnd(p, t)
    BY <2>1, <2>12 DEF RepeatEnd
  <2>13. CASE LoserReleased(p, t)
    BY <2>1, <2>13 DEF LoserReleased
  <2> QED
    BY <2>2, <2>3, <2>4, <2>5, <2>6, <2>7, <2>8, <2>9, <2>10, <2>11, <2>12,
       <2>13 DEF GoingOn
<1>4. /\ mem' \in [Proc -> Image]
      /\ \A q \in Proc \ {p} : mem'[q] = mem[q]
      /\ SameLists(mem[p], mem'[p])
      /\ mem'[p].lock = mem[p].lock /\ mem'[p].cookie = mem[p].cookie
  <2>1. CASE mem' = mem
    BY <2>1 DEF TypeOK, SameLists
  <2>2. CASE mem' = [mem EXCEPT ![p].finiDone = TRUE]
    BY <2>2, <1>1 DEF TypeOK, SameLists, Image
  <2>3. CASE mem' = [mem EXCEPT ![p].finiLib = TRUE]
    BY <2>3, <1>1 DEF TypeOK, SameLists, Image
  <2> QED
    BY <1>2, <2>1, <2>2, <2>3
<1>6. /\ th' \in [Proc -> [Thread -> Slot]]
      /\ \A q \in Proc \ {p} : th'[q] = th[q]
      /\ \A u \in Thread \ {t} : th'[p][u] = th[p][u]
  <2>1. ASSUME NEW l \in {"app", "loser", "libCb", "libDone", "libTest"}, Goto(p, t, l)
        PROVE  <1>6!:
    <3>1. l \in Loc
      BY DEF Loc, EndLoc
    <3>2. Went(p, t, l)
      BY <2>1, <3>1, GotoFacts
    <3> QED
      BY <3>2 DEF Went
  <2>2. ASSUME NEW l \in {"libTest", "libDone", "endProcess"},
               NEW h \in {"exit", "exec", "try"},
               th' = [th EXCEPT ![p][t].pc = l, ![p][t].how = h]
        PROVE  <1>6!:
    <3>1. l \in Loc
      BY DEF Loc, EndLoc
    <3> QED
      BY <2>2, <3>1, <1>1 DEF TypeOK, Slot
  <2>3. CASE th' = [th EXCEPT ![p][t].pc = "app", ![p][t].ctx = "exiting"]
    <3>1. "app" \in Loc /\ "exiting" \in Context
      BY DEF Loc, Context
    <3> QED
      BY <2>3, <3>1, <1>1 DEF TypeOK, Slot
  <2>4. CASE th' = [th EXCEPT ![p][t].pc = "app", ![p][t].kid = NoProc]
    <3>1. "app" \in Loc
      BY DEF Loc
    <3> QED
      BY <2>4, <3>1, <1>1 DEF TypeOK, Slot
  <2> QED
    BY <1>2, <2>1, <2>2, <2>3, <2>4, Zenon
<1>7. TypeOK'
  BY <1>2, <1>4, <1>6 DEF TypeOK
<1> QED
  BY <1>2, <1>4, <1>6, <1>7 DEF OnlyBy, OnlyIn

LEMMA GoingOnStep ==
  ASSUME SerialFork, ProcessInv, NEW p \in Proc, NEW t \in Thread, GoingOn(p, t)
  PROVE  ProcessInv'
<1>1. /\ TypeOK' /\ OnlyBy(p, t) /\ status[p] = "alive" /\ calls' = calls
      /\ SameLists(mem[p], mem'[p])
      /\ mem'[p].lock = mem[p].lock /\ mem'[p].cookie = mem[p].cookie
  BY GoingOnTypes DEF ProcessInv
<1>2. th \in [Proc -> [Thread -> Slot]] /\ th[p][t] \in Slot
  BY DEF ProcessInv, TypeOK
<1> DEFINE l == th[p][t].pc
           k == th'[p][t].pc
<1>3. /\ GoesOn(p, t) /\ l \notin {"mkLocked", "linkLocked"} /\ k # "shootdown"
  <2> USE DEF Slot, At
  <2>1. CASE Exit(p, t) \/ \E b \in BOOLEAN : Exec(p, t, b)
    <3>1. Call(p, t)
      BY <2>1 DEF Exit, Exec
    <3>2. th[p][t].pc = "app" /\ \A u \in Thread : th[p][u].pc \notin ForkLoc
      BY <3>1, CallFacts
    <3>3. k \in {"endProcess", "libDone"} /\ th'[p][t].ctx = th[p][t].ctx
      BY <2>1, <1>2 DEF Exit, Exec
    <3> QED
      BY <3>2, <3>3 DEF GoesOn, ForkLoc, CreateLoc
  <2>2. ASSUME l \notin {"none", "mkLocked", "linkLocked", "app"} \cup ForkLoc,
               k \in {"app", "loser"} \cup Lib, k = "loser" => l \notin Lib,
               th'[p][t].ctx \in {th[p][t].ctx, "exiting"}
        PROVE  <1>3!:
    BY <2>2 DEF GoesOn, ForkLoc, CreateLoc, Lib
  <2>3. CASE HandlersReturn(p, t)
    <3>1. l = "app" /\ k = "libTest" /\ th'[p][t].ctx = th[p][t].ctx
      BY <2>3, <1>2 DEF HandlersReturn
    <3> QED
      BY <3>1 DEF GoesOn, ForkLoc, CreateLoc, Lib
  <2>4. CASE LaunchFails(p, t)
    BY <2>2, <2>4, <1>2 DEF LaunchFails, Goto, ForkLoc, Lib
  <2>5. CASE SystemReturn(p, t)
    BY <2>2, <2>5, <1>2 DEF SystemReturn, ForkLoc, Lib
  <2>6. CASE LoseEnd(p, t)
    BY <2>2, <2>6, <1>2 DEF LoseEnd, Goto, ForkLoc, Lib
  <2>7. CASE FiniProcessReturn(p, t) \/ RepeatEnd(p, t) \/ LoserReleased(p, t)
    <3>1. EndReturn(p, t) /\ l \in {"finiProcess", "endProcess", "loser"}
      BY <2>7 DEF FiniProcessReturn, RepeatEnd, LoserReleased
    <3>2. \/ k = "libTest" /\ th'[p][t].ctx = th[p][t].ctx
          \/ k = "app" /\ th'[p][t].ctx = "exiting"
      BY <3>1, <1>2 DEF EndReturn
    <3> QED
      BY <2>2, <3>1, <3>2 DEF ForkLoc, Lib
  <2>8. CASE EndLibrary(p, t)
    BY <2>2, <2>8, <1>2 DEF EndLibrary, Goto, ForkLoc, Lib
  <2>9. CASE FiniLibraryReturn(p, t)
    BY <2>2, <2>9, <1>2 DEF FiniLibraryReturn, Goto, ForkLoc, Lib
  <2>10. CASE RealExecFails(p, t)
    BY <2>2, <2>10, <1>2 DEF RealExecFails, Goto, ForkLoc, Lib
  <2> QED
    BY <2>1, <2>3, <2>4, <2>5, <2>6, <2>7, <2>8, <2>9, <2>10 DEF GoingOn
<1> QED
  BY <1>1, <1>3, QuietStep

\* The lock is taken and released.
LEMMA AcquireStep ==
  ASSUME ProcessInv, NEW p \in Proc, NEW t \in Thread, MakeNodeLock(p, t) \/ LinkLock(p, t)
  PROVE  ProcessInv'
<1>1. PICK from \in {"mkLock", "link"}, to \in {"mkLocked", "linkLocked"} : Acquire(p, t, from, to)
  BY DEF MakeNodeLock, LinkLock
<1>2. /\ status[p] = "alive" /\ th[p][t].pc = from /\ Goto(p, t, to)
      /\ mem' = [mem EXCEPT ![p].lock = t] /\ UNCHANGED <<status, calls>>
  BY <1>1 DEF Acquire, At
<1>3. to \in Loc
  BY DEF Loc, CreateLoc
<1>4. /\ th' \in [Proc -> [Thread -> Slot]]
      /\ \A q \in Proc \ {p} : th'[q] = th[q]
      /\ \A u \in Thread \ {t} : th'[p][u] = th[p][u]
      /\ th'[p][t].pc = to /\ th'[p][t].ctx = th[p][t].ctx
  <2>1. Went(p, t, to)
    BY <1>2, <1>3, GotoFacts DEF ProcessInv
  <2> QED
    BY <2>1 DEF Went
<1>5. /\ mem' \in [Proc -> Image] /\ \A q \in Proc \ {p} : mem'[q] = mem[q]
      /\ SameLists(mem[p], mem'[p]) /\ mem'[p].lock = t /\ mem'[p].cookie = mem[p].cookie
  <2>1. mem \in [Proc -> Image] /\ mem[p] \in Image
    BY DEF ProcessInv, TypeOK
  <2> QED
    BY <1>2, <2>1 DEF Image, SameLists
<1>6. TypeOK' /\ OnlyBy(p, t)
  BY <1>2, <1>4, <1>5 DEF ProcessInv, TypeOK, OnlyBy, OnlyIn
<1>7. GoesOn(p, t)
  BY <1>2, <1>4 DEF GoesOn, ForkLoc, CreateLoc, Lib
<1>8. LockPart(mem'[p], th'[p])
  BY <1>4, <1>5 DEF LockPart
<1>9. OncePart(mem'[p], th'[p], calls'[p])
  <2>1. OncePart(mem[p], th[p], calls[p])
    BY <1>2, AliveFacts
  <2> QED
    BY <1>2, <1>4, <1>5, <2>1 DEF OncePart
<1> QED
  BY <1>2, <1>5, <1>6, <1>7, <1>8, <1>9, MoveStep

LEMMA MakeNodeStep ==
  ASSUME ProcessInv, NEW p \in Proc, NEW t \in Thread, MakeNode(p, t)
  PROVE  ProcessInv'
<1>2. /\ status[p] = "alive" /\ th[p][t].pc = "mkLocked" /\ Goto(p, t, "launch")
      /\ mem' = [mem EXCEPT ![p].lock = NoThread] /\ UNCHANGED <<status, calls>>
  BY DEF MakeNode, At
<1>4. /\ th' \in [Proc -> [Thread -> Slot]]
      /\ \A q \in Proc \ {p} : th'[q] = th[q]
      /\ \A u \in Thread \ {t} : th'[p][u] = th[p][u]
      /\ th'[p][t].pc = "launch" /\ th'[p][t].ctx = th[p][t].ctx
  <2>1. "launch" \in Loc
    BY DEF Loc, CreateLoc
  <2>2. Went(p, t, "launch")
    BY <1>2, <2>1, GotoFacts DEF ProcessInv
  <2> QED
    BY <2>2 DEF Went
<1>5. /\ mem' \in [Proc -> Image] /\ \A q \in Proc \ {p} : mem'[q] = mem[q]
      /\ SameLists(mem[p], mem'[p]) /\ mem'[p].lock = NoThread
      /\ mem'[p].cookie = mem[p].cookie
  <2>1. mem \in [Proc -> Image] /\ mem[p] \in Image
    BY DEF ProcessInv, TypeOK
  <2> QED
    BY <1>2, <2>1 DEF Image, SameLists
<1>6. TypeOK' /\ OnlyBy(p, t)
  BY <1>2, <1>4, <1>5 DEF ProcessInv, TypeOK, OnlyBy, OnlyIn
<1>7. GoesOn(p, t)
  BY <1>2, <1>4 DEF GoesOn, ForkLoc, CreateLoc, Lib
<1>8. LockPart(mem'[p], th'[p])
  BY <1>5 DEF LockPart
<1>9. OncePart(mem'[p], th'[p], calls'[p])
  <2>1. OncePart(mem[p], th[p], calls[p])
    BY <1>2, AliveFacts
  <2> QED
    BY <1>2, <1>4, <1>5, <2>1 DEF OncePart
<1> QED
  BY <1>2, <1>5, <1>6, <1>7, <1>8, <1>9, MoveStep

\* The race for the cookie, and fini_process.
LEMMA WinEndStep ==
  ASSUME ProcessInv, NEW p \in Proc, NEW t \in Thread, WinEnd(p, t)
  PROVE  ProcessInv'
<1> DEFINE n == GetTn(mem[p], t)
<1>1. th \in [Proc -> [Thread -> Slot]] /\ mem \in [Proc -> Image] /\ mem[p] \in Image
  BY DEF ProcessInv, TypeOK
<1>2. /\ status[p] = "alive" /\ th[p][t].pc = "endProcess" /\ ~mem[p].cookie
      /\ Goto(p, t, "shootdown") /\ UNCHANGED <<status, calls>>
      /\ mem' = [mem EXCEPT ![p].cookie = TRUE,
                            ![p].exitWin = IF n = NoNode THEN @ ELSE @ \cup {n}]
  BY DEF WinEnd, At
<1>3. n \in Node \cup {NoNode}
  BY <1>1 DEF GetTn, Image, Node
<1> HIDE DEF n
<1>4. /\ th' \in [Proc -> [Thread -> Slot]]
      /\ \A q \in Proc \ {p} : th'[q] = th[q]
      /\ \A u \in Thread \ {t} : th'[p][u] = th[p][u]
      /\ th'[p][t].pc = "shootdown" /\ th'[p][t].ctx = th[p][t].ctx
  <2>1. "shootdown" \in Loc
    BY DEF Loc, EndLoc
  <2>2. Went(p, t, "shootdown")
    BY <1>2, <2>1, GotoFacts DEF ProcessInv
  <2> QED
    BY <2>2 DEF Went
<1>5. /\ mem' \in [Proc -> Image] /\ \A q \in Proc \ {p} : mem'[q] = mem[q]
      /\ SameLists(mem[p], mem'[p]) /\ mem'[p].lock = mem[p].lock /\ mem'[p].cookie
  <2>1. mem'[p] = [mem[p] EXCEPT !.cookie = TRUE,
                     !.exitWin = IF n = NoNode THEN @ ELSE @ \cup {n}]
    BY <1>1, <1>2
  <2> DEFINE w == IF n = NoNode THEN mem[p].exitWin ELSE mem[p].exitWin \cup {n}
  <2>4. mem[p].exitWin \in SUBSET Node
    BY <1>1 DEF Image
  <2>5. w \in SUBSET Node
    BY <1>3, <2>4
  <2>6. mem'[p] = [mem[p] EXCEPT !.cookie = TRUE, !.exitWin = w]
    BY <2>1
  <2> HIDE DEF w
  <2>2. mem'[p] \in Image
    BY <1>1, <2>5, <2>6 DEF Image
  <2>3. /\ SameLists(mem[p], mem'[p]) /\ mem'[p].lock = mem[p].lock /\ mem'[p].cookie
    BY <1>1, <2>1 DEF Image, SameLists
  <2> QED
    BY <1>1, <1>2, <2>2, <2>3
<1>6. TypeOK' /\ OnlyBy(p, t)
  BY <1>2, <1>4, <1>5 DEF ProcessInv, TypeOK, OnlyBy, OnlyIn
<1>7. GoesOn(p, t)
  BY <1>2, <1>4 DEF GoesOn, ForkLoc, CreateLoc, Lib
<1>8. LockPart(mem'[p], th'[p])
  <2>1. LockPart(mem[p], th[p])
    BY <1>2, AliveFacts
  <2> QED
    BY <1>1, <1>2, <1>4, <1>5, <2>1, LockKept
<1>9. OncePart(mem'[p], th'[p], calls'[p])
  <2>1. OncePart(mem[p], th[p], calls[p])
    BY <1>2, AliveFacts
  <2> QED
    BY <1>2, <1>4, <1>5, <2>1 DEF OncePart
<1> QED
  BY <1>2, <1>5, <1>6, <1>7, <1>8, <1>9, MoveStep

LEMMA ShootdownStep ==
  ASSUME ProcessInv, NEW p \in Proc, NEW t \in Thread, Shootdown(p, t)
  PROVE  ProcessInv' /\ calls[p].fini = 0 /\ calls'[p].fini = 1
<1>1. /\ th \in [Proc -> [Thread -> Slot]] /\ mem \in [Proc -> Image] /\ mem[p] \in Image
      /\ calls \in [Proc -> [init : Nat, fini : Nat]]
  BY DEF ProcessInv, TypeOK
<1>2. /\ status[p] = "alive" /\ th[p][t].pc = "shootdown"
      /\ Goto(p, t, "finiProcess") /\ UNCHANGED status
      /\ mem' = [mem EXCEPT ![p].inCleanup = @ \/ mem[p].used]
      /\ calls' = [calls EXCEPT ![p].fini = @ + 1]
  BY DEF Shootdown, At
<1>3. OncePart(mem[p], th[p], calls[p]) /\ LockPart(mem[p], th[p])
  BY <1>2, AliveFacts
<1>4. /\ th' \in [Proc -> [Thread -> Slot]]
      /\ \A q \in Proc \ {p} : th'[q] = th[q]
      /\ \A u \in Thread \ {t} : th'[p][u] = th[p][u]
      /\ th'[p][t].pc = "finiProcess" /\ th'[p][t].ctx = th[p][t].ctx
  <2>1. "finiProcess" \in Loc
    BY DEF Loc, EndLoc
  <2>2. Went(p, t, "finiProcess")
    BY <1>2, <2>1, GotoFacts DEF ProcessInv
  <2> QED
    BY <2>2 DEF Went
<1>5. /\ mem' \in [Proc -> Image] /\ \A q \in Proc \ {p} : mem'[q] = mem[q]
      /\ SameLists(mem[p], mem'[p]) /\ mem'[p].lock = mem[p].lock
      /\ mem'[p].cookie = mem[p].cookie
  <2>1. mem'[p] = [mem[p] EXCEPT !.inCleanup = mem[p].inCleanup \/ mem[p].used]
    BY <1>1, <1>2
  <2>2. mem[p].inCleanup \in BOOLEAN /\ mem[p].used \in BOOLEAN
    BY <1>1 DEF Image
  <2>3. mem'[p] \in Image
    BY <1>1, <2>1, <2>2 DEF Image
  <2>4. mem'[p].inCleanup = (mem[p].inCleanup \/ mem[p].used)
    BY <1>1, <2>1 DEF Image
  <2>5. /\ mem'[p].linked = mem[p].linked /\ mem'[p].used = mem[p].used
        /\ mem'[p].initCalled = mem[p].initCalled
        /\ mem'[p].insideFork = mem[p].insideFork
        /\ mem'[p].lock = mem[p].lock /\ mem'[p].cookie = mem[p].cookie
    BY <1>1, <2>1 DEF Image
  <2>6. SameLists(mem[p], mem'[p])
    BY <2>2, <2>4, <2>5 DEF SameLists
  <2> QED
    BY <1>1, <1>2, <2>3, <2>5, <2>6
<1>6. /\ calls' \in [Proc -> [init : Nat, fini : Nat]]
      /\ \A q \in Proc \ {p} : calls'[q] = calls[q]
      /\ calls[p].fini = 0 /\ calls'[p].fini = 1 /\ calls'[p].init = calls[p].init
  <2>1. calls[p].fini = 0 /\ calls[p] \in [init : Nat, fini : Nat]
    BY <1>1, <1>2, <1>3 DEF OncePart
  <2> QED
    BY <1>1, <1>2, <2>1
<1>7. TypeOK' /\ OnlyBy(p, t)
  BY <1>2, <1>4, <1>5, <1>6 DEF ProcessInv, TypeOK, OnlyBy, OnlyIn
<1>8. GoesOn(p, t)
  BY <1>2, <1>4 DEF GoesOn, ForkLoc, CreateLoc, Lib
<1>9. LockPart(mem'[p], th'[p])
  BY <1>1, <1>2, <1>3, <1>4, <1>5, LockKept
<1>10. OncePart(mem'[p], th'[p], calls'[p])
  <2>1. mem[p].cookie /\ \A u \in Thread \ {t} : th[p][u].pc # "shootdown"
    BY <1>2, <1>3 DEF OncePart
  <2>2. \A u \in Thread : th'[p][u].pc # "shootdown"
    BY <1>4, <2>1
  <2> QED
    BY <1>5, <1>6, <2>1, <2>2 DEF OncePart
<1> QED
  BY <1>2, <1>5, <1>6, <1>7, <1>8, <1>9, <1>10, MoveStep

\* monitor_begin_process_fcn when the process is not in fork.
\* n is m after the begin code: what that code leaves alone, and what it may clear.
Begun(m, n) ==
    /\ n \in Image /\ n.initCalled
    /\ n.linked = m.linked /\ n.used = m.used /\ n.node = m.node
    /\ n.insideFork = m.insideFork /\ n.inCleanup = m.inCleanup
    /\ n.lock = m.lock /\ n.cookie = m.cookie /\ n.exitWin = m.exitWin
    /\ n.finiDone => m.finiDone

LEMMA BeginFacts ==
  ASSUME NEW m \in Image, NEW t \in Thread
  PROVE  Begun(m, BeginProcess(m, t, FALSE))
BY DEF Begun, BeginProcess, RunsInit, Image

LEMMA CountFacts ==
  ASSUME ProcessInv, NEW p \in Proc, status[p] = "alive", ~Forked(th[p]), CountInit(p, FALSE)
  PROVE  /\ calls' \in [Proc -> [init : Nat, fini : Nat]]
         /\ \A q \in Proc \ {p} : calls'[q] = calls[q]
         /\ calls'[p].init = 1 /\ calls'[p].fini = calls[p].fini
<1>1. /\ mem[p] \in Image /\ calls[p] \in [init : Nat, fini : Nat]
      /\ calls \in [Proc -> [init : Nat, fini : Nat]]
      /\ calls[p].init = IF mem[p].initCalled THEN 1 ELSE 0
  BY AliveFacts DEF InitPart, ProcessInv, TypeOK
<1>2. CASE mem[p].initCalled
  BY <1>1, <1>2 DEF CountInit, RunsInit
<1>3. CASE ~mem[p].initCalled
  <2>1. calls' = [calls EXCEPT ![p].init = 1]
    BY <1>1, <1>3 DEF CountInit, RunsInit
  <2> QED
    BY <1>1, <2>1
<1> QED
  BY <1>2, <1>3

\* The first call of an image, of main or of pthread_create.
LEMMA StartsStep ==
  ASSUME ProcessInv, TypeOK', NEW p \in Proc, NEW t \in Thread, status[p] = "alive",
         OnlyBy(p, t), th[p][t].pc = "app", th'[p][t].pc \in {"app", "mkLock"},
         \A u \in Thread : th[p][u].pc \notin ForkLoc,
         th'[p][t].pc = "mkLock" => mem'[p].used,
         mem'[p].initCalled, mem'[p].linked = mem[p].linked, mem[p].used => mem'[p].used,
         mem'[p].insideFork = mem[p].insideFork, mem'[p].inCleanup = mem[p].inCleanup,
         mem'[p].lock = mem[p].lock, mem'[p].cookie = mem[p].cookie,
         calls'[p].init = 1, calls'[p].fini = calls[p].fini
  PROVE  ProcessInv'
<1>1. /\ mem[p] \in Image
      /\ \A u \in mem[p].linked : u \in Thread
      /\ ListPart(mem[p], th[p]) /\ InitPart(mem[p], th[p], calls[p])
      /\ ForkPart(mem[p], th[p]) /\ LockPart(mem[p], th[p])
      /\ OncePart(mem[p], th[p], calls[p])
      /\ \A u \in Thread \ {t} : th'[p][u] = th[p][u]
  BY AliveFacts DEF OnlyBy, Image
<1>2. \A u \in Thread : th'[p][u].pc \notin ForkLoc
  BY <1>1 DEF ForkLoc
<1>3. ~Forked(th'[p]) /\ ~Forked(th[p])
  BY <1>2 DEF Forked, ForkLoc
<1>4. ListPart(mem'[p], th'[p])
  BY <1>1, <1>3 DEF ListPart
<1>5. LockPart(mem'[p], th'[p])
  BY <1>1 DEF LockPart, Image
<1>6. InitPart(mem'[p], th'[p], calls'[p])
  <2>1. ASSUME NEW u \in Thread, th'[p][u].pc \in CreateLoc PROVE mem'[p].used
    BY <1>1, <2>1 DEF InitPart, CreateLoc
  <2> QED
    BY <1>3, <2>1 DEF InitPart
<1>7. ForkPart(mem'[p], th'[p])
  <2>1. mem[p].insideFork = FALSE
    BY <1>1 DEF ForkPart, Image
  <2> QED
    BY <1>2, <2>1 DEF ForkPart
<1>8. OncePart(mem'[p], th'[p], calls'[p])
  BY <1>1 DEF OncePart
<1>9. ImageOK(mem'[p], th'[p], calls'[p])
  BY <1>4, <1>5, <1>6, <1>7, <1>8 DEF ImageOK
<1> QED
  BY <1>9, Frame DEF OnlyBy

LEMMA MainStartStep ==
  ASSUME SerialFork, ProcessInv, NEW p \in Proc, MainStart(p)
  PROVE  ProcessInv' /\ OnlyBy(p, Main) /\ TypeOK'
<1> USE Constants
<1>1. /\ status[p] = "alive" /\ th[p][Main].pc = "app" /\ ~Forked(th[p])
      /\ \A u \in Thread : th[p][u].pc \notin ForkLoc
  BY CallFacts DEF MainStart
<1>2. mem \in [Proc -> Image] /\ mem[p] \in Image /\ th \in [Proc -> [Thread -> Slot]]
  BY DEF ProcessInv, TypeOK
<1> DEFINE b == BeginProcess(mem[p], Main, FALSE)
<1>3. mem' = [mem EXCEPT ![p] = b]
  BY DEF MainStart
<1>10. /\ b \in Image /\ b.initCalled
       /\ b.linked = mem[p].linked /\ b.used = mem[p].used
       /\ b.insideFork = mem[p].insideFork /\ b.inCleanup = mem[p].inCleanup
       /\ b.lock = mem[p].lock /\ b.cookie = mem[p].cookie
  <2>1. Begun(mem[p], b)
    BY <1>2, BeginFacts
  <2> QED
    BY <2>1 DEF Begun
<1> HIDE DEF b
<1>11. mem' \in [Proc -> Image] /\ (\A q \in Proc \ {p} : mem'[q] = mem[q]) /\ mem'[p] = b
  BY <1>2, <1>3, <1>10
<1>4. /\ mem'[p].initCalled /\ mem'[p].linked = mem[p].linked
      /\ mem'[p].used = mem[p].used /\ mem'[p].insideFork = mem[p].insideFork
      /\ mem'[p].inCleanup = mem[p].inCleanup /\ mem'[p].lock = mem[p].lock
      /\ mem'[p].cookie = mem[p].cookie
  BY <1>10, <1>11
<1>5. /\ calls' \in [Proc -> [init : Nat, fini : Nat]]
      /\ \A q \in Proc \ {p} : calls'[q] = calls[q]
      /\ calls'[p].init = 1 /\ calls'[p].fini = calls[p].fini
  BY <1>1, CountFacts DEF MainStart
<1>6. /\ th' \in [Proc -> [Thread -> Slot]]
      /\ \A q \in Proc \ {p} : th'[q] = th[q]
      /\ \A u \in Thread \ {Main} : th'[p][u] = th[p][u]
      /\ th'[p][Main].pc = "app"
  <2>1. th[p][Main] \in Slot /\ "main" \in Context
    BY <1>2 DEF Context
  <2>2. th' = [th EXCEPT ![p][Main].ctx = "main"]
    BY DEF MainStart
  <2>3. th'[p][Main] = [th[p][Main] EXCEPT !.ctx = "main"]
    BY <1>2, <2>2
  <2>4. th'[p][Main] \in Slot /\ th'[p][Main].pc = "app"
    BY <1>1, <2>1, <2>3 DEF Slot
  <2> QED
    BY <1>2, <2>2, <2>4
<1>7. status' = status
  BY DEF MainStart
<1>8. TypeOK' /\ OnlyBy(p, Main)
  BY <1>1, <1>11, <1>5, <1>6, <1>7 DEF ProcessInv, TypeOK, OnlyBy, OnlyIn
<1>9. ProcessInv'
  BY <1>1, <1>4, <1>5, <1>6, <1>8, StartsStep
<1> QED
  BY <1>8, <1>9

LEMMA CreateEnterStep ==
  ASSUME SerialFork, ProcessInv, NEW p \in Proc, NEW t \in Thread, CreateEnter(p, t)
  PROVE  ProcessInv' /\ OnlyBy(p, t) /\ TypeOK'
<1>1. /\ status[p] = "alive" /\ th[p][t].pc = "app" /\ ~Forked(th[p])
      /\ ~mem[p].insideFork
      /\ \A u \in Thread : th[p][u].pc \notin ForkLoc
  BY CallFacts DEF CreateEnter
<1>2. /\ mem \in [Proc -> Image] /\ mem[p] \in Image /\ th \in [Proc -> [Thread -> Slot]]
      /\ ListPart(mem[p], th[p]) /\ mem[p].insideFork = FALSE
  BY <1>1, AliveFacts DEF ProcessInv, TypeOK, Image
<1> DEFINE b == BeginProcess(mem[p], t, FALSE)
<1>3. mem' = [mem EXCEPT ![p] = ThreadListInit(b, t)]
  BY <1>2 DEF CreateEnter
<1>4. /\ b \in Image /\ b.initCalled
      /\ b.linked = mem[p].linked /\ b.used = mem[p].used
      /\ b.insideFork = mem[p].insideFork /\ b.inCleanup = mem[p].inCleanup
      /\ b.lock = mem[p].lock /\ b.cookie = mem[p].cookie
  <2>1. Begun(mem[p], b)
    BY <1>2, BeginFacts
  <2> QED
    BY <2>1 DEF Begun
<1> HIDE DEF b
<1>5. /\ ThreadListInit(b, t) \in Image
      /\ ThreadListInit(b, t).initCalled /\ ThreadListInit(b, t).used
      /\ ThreadListInit(b, t).linked = mem[p].linked
      /\ ThreadListInit(b, t).insideFork = mem[p].insideFork
      /\ ThreadListInit(b, t).inCleanup = mem[p].inCleanup
      /\ ThreadListInit(b, t).lock = mem[p].lock
      /\ ThreadListInit(b, t).cookie = mem[p].cookie
  <2>1. CASE b.used
    BY <1>4, <2>1 DEF ThreadListInit
  <2>2. CASE ~b.used
    <3>1. ThreadListInit(b, t) = [b EXCEPT !.used = TRUE, !.linked = {}, !.node[t] = MainTn]
      BY <2>2 DEF ThreadListInit
    <3>2. mem[p].linked = {}
      BY <1>2, <1>4, <2>2 DEF ListPart
    <3>3. b.node \in [Thread -> Node \cup {NoNode}]
      BY <1>4 DEF Image
    <3>4. ThreadListInit(b, t) \in Image
      <4> DEFINE n == [b.node EXCEPT ![t] = MainTn]
      <4>1. n \in [Thread -> Node \cup {NoNode}]
        BY <3>3 DEF Node
      <4>2. ThreadListInit(b, t) = [b EXCEPT !.used = TRUE, !.linked = {}, !.node = n]
        BY <1>4, <3>1 DEF Image
      <4> HIDE DEF n
      <4> QED
        BY <1>4, <4>1, <4>2 DEF Image
    <3>5. /\ ThreadListInit(b, t).initCalled = b.initCalled /\ ThreadListInit(b, t).used
          /\ ThreadListInit(b, t).linked = {}
          /\ ThreadListInit(b, t).insideFork = b.insideFork
          /\ ThreadListInit(b, t).inCleanup = b.inCleanup
          /\ ThreadListInit(b, t).lock = b.lock
          /\ ThreadListInit(b, t).cookie = b.cookie
      BY <1>4, <3>1 DEF Image
    <3> QED
      BY <1>4, <3>2, <3>4, <3>5
  <2> QED
    BY <2>1, <2>2
<1>6. mem' \in [Proc -> Image] /\ (\A q \in Proc \ {p} : mem'[q] = mem[q])
      /\ mem'[p] = ThreadListInit(b, t)
  BY <1>2, <1>3, <1>5
<1>7. /\ calls' \in [Proc -> [init : Nat, fini : Nat]]
      /\ \A q \in Proc \ {p} : calls'[q] = calls[q]
      /\ calls'[p].init = 1 /\ calls'[p].fini = calls[p].fini
  BY <1>1, <1>2, CountFacts DEF CreateEnter
<1>8. /\ th' \in [Proc -> [Thread -> Slot]]
      /\ \A q \in Proc \ {p} : th'[q] = th[q]
      /\ \A u \in Thread \ {t} : th'[p][u] = th[p][u]
      /\ th'[p][t].pc = "mkLock"
  <2>1. "mkLock" \in Loc
    BY DEF Loc, CreateLoc
  <2>2. TypeOK /\ Goto(p, t, "mkLock")
    BY DEF CreateEnter, ProcessInv
  <2>3. th[p][t] \in Slot
    BY <1>2
  <2> QED
    BY <1>2, <2>1, <2>2, <2>3 DEF Goto, Slot
<1>9. status' = status
  BY DEF CreateEnter
<1>10. TypeOK' /\ OnlyBy(p, t)
  BY <1>1, <1>6, <1>7, <1>8, <1>9 DEF ProcessInv, TypeOK, OnlyBy, OnlyIn
<1>11. ProcessInv'
  BY <1>1, <1>5, <1>6, <1>7, <1>8, <1>10, StartsStep
<1> QED
  BY <1>10, <1>11

\* A new thread: it is in no list yet.
LEMMA LaunchStep ==
  ASSUME ProcessInv, NEW p \in Proc, NEW t \in Thread, NEW v \in Thread, Launch(p, t, v)
  PROVE  ProcessInv' /\ TypeOK' /\ OnlyIn(p) /\ calls' = calls
         /\ (\A u \in Thread \ {t, v} : th'[p][u] = th[p][u])
         /\ v # t /\ th'[p][t].pc = "app" /\ th'[p][v].pc = "link"
         /\ th'[p][t].ctx = th[p][t].ctx /\ th'[p][v].ctx = "main"
<1>1. /\ status[p] = "alive" /\ th[p][t].pc = "launch" /\ th[p][v].pc = "none"
      /\ v # t /\ v \notin mem[p].linked /\ UNCHANGED <<status, calls>>
      /\ mem' = [mem EXCEPT ![p].node[v] = v, ![p].exitWin = @ \ {v}]
      /\ th' = [th EXCEPT ![p][t].pc = "app", ![p][v].pc = "link", ![p][v].ctx = "main"]
  BY DEF Launch, At
<1>2. /\ mem \in [Proc -> Image] /\ mem[p] \in Image /\ th \in [Proc -> [Thread -> Slot]]
      /\ mem[p].linked \subseteq Thread
      /\ ListPart(mem[p], th[p]) /\ InitPart(mem[p], th[p], calls[p])
      /\ ForkPart(mem[p], th[p]) /\ LockPart(mem[p], th[p])
      /\ OncePart(mem[p], th[p], calls[p])
  BY <1>1, AliveFacts DEF ProcessInv, TypeOK, Image
<1>3. /\ mem' \in [Proc -> Image] /\ \A q \in Proc \ {p} : mem'[q] = mem[q]
      /\ SameLists(mem[p], mem'[p]) /\ mem'[p].inCleanup = mem[p].inCleanup
      /\ mem'[p].lock = mem[p].lock /\ mem'[p].cookie = mem[p].cookie
  <2>1. mem'[p] = [mem[p] EXCEPT !.node[v] = v, !.exitWin = @ \ {v}]
    BY <1>1, <1>2
  <2>2. mem[p].node \in [Thread -> Node \cup {NoNode}] /\ mem[p].exitWin \in SUBSET Node
    BY <1>2 DEF Image
  <2>3. [mem[p].node EXCEPT ![v] = v] \in [Thread -> Node \cup {NoNode}]
        /\ mem[p].exitWin \ {v} \in SUBSET Node
    BY <2>2 DEF Node
  <2>4. mem'[p] = [[mem[p] EXCEPT !.node = [mem[p].node EXCEPT ![v] = v]]
                     EXCEPT !.exitWin = mem[p].exitWin \ {v}]
    BY <1>2, <2>1 DEF Image
  <2>5. mem'[p] \in Image
    BY <1>2, <2>3, <2>4 DEF Image
  <2>6. /\ SameLists(mem[p], mem'[p]) /\ mem'[p].inCleanup = mem[p].inCleanup
        /\ mem'[p].lock = mem[p].lock /\ mem'[p].cookie = mem[p].cookie
    BY <1>2, <2>4 DEF Image, SameLists
  <2> QED
    BY <1>1, <1>2, <2>5, <2>6
<1>4. /\ th' \in [Proc -> [Thread -> Slot]]
      /\ \A q \in Proc \ {p} : th'[q] = th[q]
      /\ \A u \in Thread \ {t, v} : th'[p][u] = th[p][u]
      /\ th'[p][t].pc = "app" /\ th'[p][t].ctx = th[p][t].ctx
      /\ th'[p][v].pc = "link" /\ th'[p][v].ctx = "main"
  <2>1. "app" \in Loc /\ "link" \in Loc /\ "main" \in Context
    BY DEF Loc, CreateLoc, Context
  <2> QED
    BY <1>1, <1>2, <2>1 DEF Slot
<1>5. TypeOK' /\ OnlyIn(p)
  BY <1>1, <1>3, <1>4 DEF ProcessInv, TypeOK, OnlyIn
<1>6. /\ \A u \in Thread : th[p][u].pc \notin ForkLoc
      /\ \A u \in Thread : th'[p][u].pc \notin ForkLoc
  <2>1. \A u \in Thread : th[p][u].pc \notin ForkLoc
    BY <1>1, <1>2 DEF ForkPart, ForkLoc, Lib
  <2> QED
    BY <1>4, <2>1 DEF ForkLoc
<1>7. ~Forked(th'[p]) /\ ~Forked(th[p])
  BY <1>6 DEF Forked, ForkLoc
<1>8. ListPart(mem'[p], th'[p])
  BY <1>1, <1>2, <1>3, <1>4, <1>7 DEF ListPart, SameLists
<1>9. LockPart(mem'[p], th'[p])
  <2>1. ASSUME mem[p].lock # NoThread
        PROVE  /\ mem[p].lock \in Thread \ {t, v}
               /\ th[p][mem[p].lock].pc \in {"mkLocked", "linkLocked"}
    BY <1>1, <1>2, <2>1 DEF LockPart, Image
  <2> QED
    BY <1>3, <1>4, <2>1 DEF LockPart
<1>10. InitPart(mem'[p], th'[p], calls'[p])
  <2>1. mem[p].used /\ mem[p].initCalled
    BY <1>1, <1>2 DEF InitPart, CreateLoc
  <2> QED
    BY <1>1, <1>2, <1>3, <1>7, <2>1 DEF InitPart, SameLists
<1>11. ForkPart(mem'[p], th'[p])
  <2>1. mem[p].insideFork = FALSE
    BY <1>2, <1>6 DEF ForkPart, Image
  <2> QED
    BY <1>3, <1>6, <2>1 DEF ForkPart, SameLists
<1>12. OncePart(mem'[p], th'[p], calls'[p])
  <2>1. \A u \in Thread : th'[p][u].pc = "shootdown" => th[p][u].pc = "shootdown"
    BY <1>4
  <2>2. /\ OncePart(mem[p], th[p], calls[p])
        /\ calls'[p] = calls[p] /\ mem'[p].cookie = mem[p].cookie
    BY <1>1, <1>2, <1>3
  <2> QED
    BY <2>1, <2>2 DEF OncePart
<1>13. ProcessInv'
  BY <1>1, <1>5, <1>8, <1>9, <1>10, <1>11, <1>12, Frame DEF ImageOK
<1> QED
  BY <1>1, <1>4, <1>5, <1>13

\* A thread that reaches the list, or is turned away.
LEMMA LinkNodeStep ==
  ASSUME ProcessInv, NEW p \in Proc, NEW t \in Thread, LinkNode(p, t)
  PROVE  ProcessInv' /\ TypeOK' /\ OnlyBy(p, t) /\ calls' = calls
         /\ th'[p][t].pc \in {"none", "app"} /\ th'[p][t].ctx = th[p][t].ctx
<1> DEFINE to == IF mem[p].inCleanup THEN "none" ELSE "app"
           list == IF mem[p].inCleanup THEN mem[p].linked ELSE mem[p].linked \cup {t}
<1>1. /\ status[p] = "alive" /\ th[p][t].pc = "linkLocked" /\ UNCHANGED <<status, calls>>
      /\ Goto(p, t, to)
  BY DEF LinkNode, At
<1>2. /\ mem \in [Proc -> Image] /\ mem[p] \in Image
      /\ mem[p].linked \subseteq Thread
      /\ ListPart(mem[p], th[p]) /\ InitPart(mem[p], th[p], calls[p])
      /\ ForkPart(mem[p], th[p]) /\ LockPart(mem[p], th[p])
      /\ OncePart(mem[p], th[p], calls[p])
  BY <1>1, AliveFacts DEF ProcessInv, TypeOK, Image
<1>3. mem' = [mem EXCEPT ![p] = [mem[p] EXCEPT !.lock = NoThread, !.linked = list]]
  <2>1. CASE mem[p].inCleanup
    <3>1. mem' = [mem EXCEPT ![p].lock = NoThread]
      BY <2>1 DEF LinkNode
    <3>2. [mem[p] EXCEPT !.lock = NoThread, !.linked = list] = [mem[p] EXCEPT !.lock = NoThread]
      BY <1>2, <2>1 DEF Image
    <3> QED
      BY <3>1, <3>2
  <2>2. CASE ~mem[p].inCleanup
    <3>1. mem' = [mem EXCEPT ![p].lock = NoThread, ![p].linked = @ \cup {t}]
      BY <2>2 DEF LinkNode
    <3> QED
      BY <1>2, <2>2, <3>1 DEF Image
  <2> QED
    BY <2>1, <2>2
<1>4. list \subseteq Thread /\ to \in Loc
  BY <1>2 DEF Loc
<1>5. /\ \A u \in list : u = t \/ u \in mem[p].linked
      /\ to \in {"none", "app"} /\ (to = "none" => mem[p].inCleanup)
  OBVIOUS
<1> HIDE DEF to, list
<1>6. /\ mem' \in [Proc -> Image] /\ \A q \in Proc \ {p} : mem'[q] = mem[q]
      /\ mem'[p].lock = NoThread /\ mem'[p].linked = list
      /\ mem'[p].used = mem[p].used /\ mem'[p].initCalled = mem[p].initCalled
      /\ mem'[p].inCleanup = mem[p].inCleanup
      /\ mem'[p].insideFork = mem[p].insideFork /\ mem'[p].cookie = mem[p].cookie
  <2>1. mem'[p] = [mem[p] EXCEPT !.lock = NoThread, !.linked = list]
    BY <1>2, <1>3
  <2>2. mem'[p] \in Image
    BY <1>2, <1>4, <2>1 DEF Image
  <2>3. /\ mem'[p].lock = NoThread /\ mem'[p].linked = list
        /\ mem'[p].used = mem[p].used /\ mem'[p].initCalled = mem[p].initCalled
        /\ mem'[p].inCleanup = mem[p].inCleanup
        /\ mem'[p].insideFork = mem[p].insideFork /\ mem'[p].cookie = mem[p].cookie
    BY <1>2, <2>1 DEF Image
  <2> QED
    BY <1>2, <1>3, <2>2, <2>3
<1>7. /\ th' \in [Proc -> [Thread -> Slot]]
      /\ \A q \in Proc \ {p} : th'[q] = th[q]
      /\ \A u \in Thread \ {t} : th'[p][u] = th[p][u]
      /\ th'[p][t].pc = to /\ th'[p][t].ctx = th[p][t].ctx
  <2>1. Went(p, t, to)
    BY <1>1, <1>4, GotoFacts DEF ProcessInv
  <2> QED
    BY <2>1 DEF Went
<1>8. TypeOK' /\ OnlyBy(p, t)
  BY <1>1, <1>6, <1>7 DEF ProcessInv, TypeOK, OnlyBy, OnlyIn
<1>9. /\ \A u \in Thread : th[p][u].pc \notin ForkLoc
      /\ \A u \in Thread : th'[p][u].pc \notin ForkLoc
  <2>1. \A u \in Thread : th[p][u].pc \notin ForkLoc
    BY <1>1, <1>2 DEF ForkPart, ForkLoc, Lib
  <2> QED
    BY <1>5, <1>7, <2>1 DEF ForkLoc
<1>10. ~Forked(th'[p]) /\ ~Forked(th[p])
  BY <1>9 DEF Forked, ForkLoc
<1>11. mem[p].used /\ mem[p].initCalled
  BY <1>1, <1>2 DEF InitPart, CreateLoc
<1>12. ListPart(mem'[p], th'[p])
  <2>1. ASSUME NEW u \in list PROVE th'[p][u].pc # "none" \/ mem'[p].inCleanup
    <3>1. CASE u = t
      BY <3>1, <1>5, <1>6, <1>7
    <3>2. CASE u # t
      BY <2>1, <3>2, <1>2, <1>5, <1>6, <1>7, <1>10 DEF ListPart
    <3> QED
      BY <3>1, <3>2
  <2> QED
    BY <2>1, <1>6, <1>11 DEF ListPart
<1>13. LockPart(mem'[p], th'[p])
  BY <1>6 DEF LockPart
<1>14. InitPart(mem'[p], th'[p], calls'[p])
  BY <1>1, <1>2, <1>6, <1>10, <1>11 DEF InitPart
<1>15. ForkPart(mem'[p], th'[p])
  <2>1. mem[p].insideFork = FALSE
    BY <1>2, <1>9 DEF ForkPart, Image
  <2> QED
    BY <1>6, <1>9, <2>1 DEF ForkPart
<1>16. OncePart(mem'[p], th'[p], calls'[p])
  <2>1. \A u \in Thread : th'[p][u].pc = "shootdown" => th[p][u].pc = "shootdown"
    BY <1>5, <1>7
  <2> QED
    BY <1>1, <1>2, <1>6, <2>1 DEF OncePart
<1>17. ImageOK(mem'[p], th'[p], calls'[p])
  BY <1>12, <1>13, <1>14, <1>15, <1>16 DEF ImageOK
<1>18. ProcessInv'
  BY <1>1, <1>8, <1>17, Frame DEF OnlyBy
<1> QED
  BY <1>1, <1>5, <1>7, <1>8, <1>18

LEMMA ThreadEndStep ==
  ASSUME SerialFork, ProcessInv, NEW p \in Proc, NEW t \in Thread, ThreadEnd(p, t)
  PROVE  ProcessInv' /\ TypeOK' /\ OnlyBy(p, t) /\ calls' = calls
         /\ th'[p][t].pc = "none" /\ th'[p][t].ctx = "main"
<1> DEFINE list == IF mem[p].inCleanup THEN mem[p].linked ELSE mem[p].linked \ {t}
<1>0. Call(p, t) /\ UNCHANGED <<status, calls>> /\ Goto(p, t, "none") /\ th[p][t].ctx = "main"
  BY DEF ThreadEnd
<1>1. /\ status[p] = "alive" /\ th[p][t].pc = "app" /\ ~Forked(th[p])
      /\ \A u \in Thread : th[p][u].pc \notin ForkLoc
      /\ ~mem[p].insideFork
  BY <1>0, CallFacts
<1>2. /\ mem \in [Proc -> Image] /\ mem[p] \in Image
      /\ mem[p].linked \subseteq Thread /\ mem[p].node \in [Thread -> Node \cup {NoNode}]
      /\ ListPart(mem[p], th[p]) /\ InitPart(mem[p], th[p], calls[p])
      /\ LockPart(mem[p], th[p]) /\ OncePart(mem[p], th[p], calls[p])
  BY <1>1, AliveFacts DEF ProcessInv, TypeOK, Image
<1>3. mem' = [mem EXCEPT ![p].linked = list, ![p].node[t] = NoNode] /\ mem[p].lock = NoThread
  BY DEF ThreadEnd
<1>4. /\ list \subseteq mem[p].linked /\ list \subseteq Thread
      /\ (t \in list => mem[p].inCleanup)
  BY <1>2
<1> HIDE DEF list
<1>6. /\ mem' \in [Proc -> Image] /\ \A q \in Proc \ {p} : mem'[q] = mem[q]
      /\ mem'[p].lock = NoThread /\ mem'[p].linked = list
      /\ mem'[p].used = mem[p].used /\ mem'[p].initCalled = mem[p].initCalled
      /\ mem'[p].inCleanup = mem[p].inCleanup
      /\ mem'[p].insideFork = mem[p].insideFork /\ mem'[p].cookie = mem[p].cookie
  <2> DEFINE n == [mem[p].node EXCEPT ![t] = NoNode]
  <2>1. n \in [Thread -> Node \cup {NoNode}]
    BY <1>2
  <2>2. mem'[p] = [mem[p] EXCEPT !.linked = list, !.node = n]
    BY <1>2, <1>3 DEF Image
  <2> HIDE DEF n
  <2>3. mem'[p] \in Image
    BY <1>2, <1>4, <2>1, <2>2 DEF Image
  <2>4. /\ mem'[p].lock = mem[p].lock /\ mem'[p].linked = list
        /\ mem'[p].used = mem[p].used /\ mem'[p].initCalled = mem[p].initCalled
        /\ mem'[p].inCleanup = mem[p].inCleanup
        /\ mem'[p].insideFork = mem[p].insideFork /\ mem'[p].cookie = mem[p].cookie
    BY <1>2, <2>2 DEF Image
  <2> QED
    BY <1>2, <1>3, <2>3, <2>4
<1>7. /\ th' \in [Proc -> [Thread -> Slot]]
      /\ \A q \in Proc \ {p} : th'[q] = th[q]
      /\ \A u \in Thread \ {t} : th'[p][u] = th[p][u]
      /\ th'[p][t].pc = "none" /\ th'[p][t].ctx = "main"
  <2>1. "none" \in Loc
    BY DEF Loc
  <2>2. Went(p, t, "none")
    BY <1>0, <2>1, GotoFacts DEF ProcessInv
  <2> QED
    BY <2>2, <1>0 DEF Went
<1>8. TypeOK' /\ OnlyBy(p, t)
  BY <1>0, <1>1, <1>6, <1>7 DEF ProcessInv, TypeOK, OnlyBy, OnlyIn
<1>9. \A u \in Thread : th'[p][u].pc \notin ForkLoc
  BY <1>1, <1>7 DEF ForkLoc
<1>10. ~Forked(th'[p])
  BY <1>9 DEF Forked, ForkLoc
<1>12. ListPart(mem'[p], th'[p])
  <2>1. ASSUME NEW u \in list PROVE th'[p][u].pc # "none" \/ mem'[p].inCleanup
    <3>1. CASE u = t
      BY <2>1, <3>1, <1>4, <1>6
    <3>2. CASE u # t
      BY <2>1, <3>2, <1>1, <1>2, <1>4, <1>6, <1>7 DEF ListPart
    <3> QED
      BY <3>1, <3>2
  <2>2. ~mem[p].used => list = {}
    BY <1>2, <1>4 DEF ListPart
  <2> QED
    BY <2>1, <2>2, <1>6 DEF ListPart
<1>13. LockPart(mem'[p], th'[p])
  BY <1>6 DEF LockPart
<1>14. InitPart(mem'[p], th'[p], calls'[p])
  <2>1. \A u \in Thread : th'[p][u].pc \in CreateLoc => th[p][u].pc \in CreateLoc
    BY <1>7 DEF CreateLoc
  <2>2. \A u \in Thread : th'[p][u].pc # "none" => th'[p][u] = th[p][u]
    BY <1>7
  <2> QED
    BY <1>0, <1>1, <1>2, <1>6, <1>10, <2>1, <2>2 DEF InitPart
<1>15. ForkPart(mem'[p], th'[p])
  <2>1. mem[p].insideFork = FALSE
    BY <1>1, <1>2 DEF Image
  <2> QED
    BY <1>6, <1>9, <2>1 DEF ForkPart
<1>16. OncePart(mem'[p], th'[p], calls'[p])
  <2>1. \A u \in Thread : th'[p][u].pc = "shootdown" => th[p][u].pc = "shootdown"
    BY <1>7
  <2> QED
    BY <1>0, <1>2, <1>6, <2>1 DEF OncePart
<1>17. ImageOK(mem'[p], th'[p], calls'[p])
  BY <1>12, <1>13, <1>14, <1>15, <1>16 DEF ImageOK
<1>18. ProcessInv'
  BY <1>1, <1>8, <1>17, Frame DEF OnlyBy
<1> QED
  BY <1>0, <1>7, <1>8, <1>18

-----------------------------------------------------------------------------
(* Forks, and steps that begin or end a process. *)

\* What ProcessInv says of one process.
ProcessOK(s, m, h, c) ==
    /\ s # "alive" => m = FreshImage
    /\ s = "unborn" => c = NoCalls
    /\ c.init <= 1 /\ c.fini <= 1
    /\ s = "alive" => ImageOK(m, h, c)

\* Only p and c make a step.
LEMMA FrameTwo ==
  ASSUME ProcessInv, TypeOK', NEW p \in Proc, NEW c \in Proc,
         \A q \in Proc \ {p, c} : /\ status'[q] = status[q] /\ mem'[q] = mem[q]
                                  /\ th'[q] = th[q] /\ calls'[q] = calls[q],
         ProcessOK(status'[p], mem'[p], th'[p], calls'[p]),
         ProcessOK(status'[c], mem'[c], th'[c], calls'[c])
  PROVE  ProcessInv'
<1>1. \A q \in Proc : ProcessOK(status[q], mem[q], th[q], calls[q])
  BY DEF ProcessInv, ProcessOK
<1>2. \A q \in Proc : ProcessOK(status'[q], mem'[q], th'[q], calls'[q])
  BY <1>1
<1> QED
  BY <1>2 DEF ProcessInv, ProcessOK

\* A callback count that ImageOK allows.
LEMMA AliveOK ==
  ASSUME NEW m, NEW h, NEW c, ImageOK(m, h, c)
  PROVE  ProcessOK("alive", m, h, c)
BY DEF ProcessOK, ImageOK, InitPart, OncePart

\* The memory of a process in which only inside_fork changes.
LEMMA InsideFacts ==
  ASSUME TypeOK, NEW p \in Proc, NEW b \in BOOLEAN, mem' = [mem EXCEPT ![p].insideFork = b]
  PROVE  /\ mem' \in [Proc -> Image] /\ \A q \in Proc \ {p} : mem'[q] = mem[q]
         /\ mem'[p].insideFork = b
         /\ mem'[p].lock = mem[p].lock /\ mem'[p].linked = mem[p].linked
         /\ mem'[p].used = mem[p].used /\ mem'[p].initCalled = mem[p].initCalled
         /\ mem'[p].inCleanup = mem[p].inCleanup /\ mem'[p].cookie = mem[p].cookie
         /\ mem'[p].finiDone = mem[p].finiDone /\ mem'[p].node = mem[p].node
         /\ mem'[p].exitWin = mem[p].exitWin
<1>1. mem \in [Proc -> Image] /\ mem[p] \in Image
  BY DEF TypeOK
<1>2. mem'[p] = [mem[p] EXCEPT !.insideFork = b]
  BY <1>1
<1>3. mem'[p] \in Image
  BY <1>1, <1>2 DEF Image
<1> QED
  BY <1>1, <1>2, <1>3 DEF Image

LEMMA ForkEnterStep ==
  ASSUME SerialFork, ProcessInv, NEW p \in Proc, NEW t \in Thread, ForkEnter(p, t)
  PROVE  ProcessInv' /\ TypeOK' /\ OnlyBy(p, t) /\ calls' = calls
         /\ th'[p][t].pc = "forking" /\ th'[p][t].ctx = th[p][t].ctx
<1>0. /\ Call(p, t) /\ UNCHANGED <<status, calls>> /\ Goto(p, t, "forking")
      /\ mem' = [mem EXCEPT ![p].insideFork = TRUE]
      /\ \A u \in Thread \ {t} : th[p][u].pc \in {"none", "app"}
  BY DEF ForkEnter, InOverride
<1>1. /\ status[p] = "alive" /\ th[p][t].pc = "app" /\ ~Forked(th[p])
      /\ \A u \in Thread : th[p][u].pc \notin ForkLoc
  BY <1>0, CallFacts
<1>2. /\ ListPart(mem[p], th[p]) /\ LockPart(mem[p], th[p])
      /\ InitPart(mem[p], th[p], calls[p]) /\ OncePart(mem[p], th[p], calls[p])
      /\ mem[p].linked \subseteq Thread
  BY <1>1, AliveFacts DEF Image
<1>3. /\ mem' \in [Proc -> Image] /\ \A q \in Proc \ {p} : mem'[q] = mem[q]
      /\ mem'[p].insideFork
      /\ mem'[p].lock = mem[p].lock /\ mem'[p].linked = mem[p].linked
      /\ mem'[p].used = mem[p].used /\ mem'[p].initCalled = mem[p].initCalled
      /\ mem'[p].inCleanup = mem[p].inCleanup /\ mem'[p].cookie = mem[p].cookie
  BY <1>0, InsideFacts DEF ProcessInv
<1>4. /\ th' \in [Proc -> [Thread -> Slot]]
      /\ \A q \in Proc \ {p} : th'[q] = th[q]
      /\ \A u \in Thread \ {t} : th'[p][u] = th[p][u]
      /\ th'[p][t].pc = "forking" /\ th'[p][t].ctx = th[p][t].ctx
  <2>1. "forking" \in Loc
    BY DEF Loc, ForkLoc
  <2>2. TypeOK /\ Goto(p, t, "forking")
    BY <1>0 DEF ProcessInv
  <2>3. th \in [Proc -> [Thread -> Slot]] /\ th[p][t] \in Slot
    BY <2>2 DEF TypeOK
  <2> QED
    BY <2>1, <2>2, <2>3 DEF Goto, Slot
<1>5. TypeOK' /\ OnlyBy(p, t)
  BY <1>0, <1>1, <1>3, <1>4 DEF ProcessInv, TypeOK, OnlyBy, OnlyIn
<1>6. ~Forked(th'[p])
  BY <1>1, <1>4 DEF Forked
<1>7. ListPart(mem'[p], th'[p])
  BY <1>1, <1>2, <1>3, <1>4 DEF ListPart
<1>8. mem[p].lock = NoThread
  <2>1. mem[p].lock \in Thread \cup {NoThread}
    BY <1>1, AliveFacts DEF Image
  <2> QED
    BY <1>0, <1>1, <1>2, <2>1 DEF LockPart
<1>9. LockPart(mem'[p], th'[p])
  BY <1>3, <1>8 DEF LockPart
<1>10. InitPart(mem'[p], th'[p], calls'[p])
  <2>1. \A u \in Thread : th'[p][u].pc \in CreateLoc => th[p][u].pc \in CreateLoc
    BY <1>4 DEF CreateLoc
  <2> QED
    BY <1>0, <1>1, <1>2, <1>3, <1>4, <1>6, <2>1 DEF InitPart
<1>11. ForkPart(mem'[p], th'[p])
  <2>1. "forking" \in ForkLoc /\ "forking" # "forkChild"
    BY DEF ForkLoc
  <2>2. \A u \in Thread : th'[p][u].pc \in ForkLoc => u = t
    BY <1>1, <1>4
  <2>3. mem'[p].insideFork = TRUE
    BY <1>3, TypeFacts, <1>5 DEF Image
  <2> QED
    BY <1>0, <1>3, <1>4, <2>1, <2>2, <2>3 DEF ForkPart
<1>12. OncePart(mem'[p], th'[p], calls'[p])
  <2>1. \A u \in Thread : th'[p][u].pc = "shootdown" => th[p][u].pc = "shootdown"
    BY <1>4
  <2> QED
    BY <1>0, <1>2, <1>3, <2>1 DEF OncePart
<1>13. ProcessInv'
  BY <1>1, <1>5, <1>7, <1>9, <1>10, <1>11, <1>12, Frame DEF ImageOK, OnlyBy
<1> QED
  BY <1>0, <1>4, <1>5, <1>13

\* The caller of fork, with a child or without, and its return.
LEMMA ForkPartFacts ==
  ASSUME ProcessInv, NEW p \in Proc, NEW t \in Thread, status[p] = "alive",
         th[p][t].pc \in ForkLoc
  PROVE  /\ mem[p].insideFork = TRUE
         /\ \A u \in Thread \ {t} : /\ th[p][u].pc \in {"none", "app"} \cup Lib
                                    /\ th[p][u].pc \notin ForkLoc
                                    /\ th[p][t].pc = "forkChild" => th[p][u].pc = "none"
         /\ mem[p].lock = NoThread
<1>1. mem[p] \in Image /\ ForkPart(mem[p], th[p]) /\ LockPart(mem[p], th[p])
  BY AliveFacts
<1>2. mem[p].insideFork = TRUE
  BY <1>1 DEF ForkPart, Image
<1>3. \A u \in Thread \ {t} : /\ th[p][u].pc \in {"none", "app"} \cup Lib
                              /\ th[p][t].pc = "forkChild" => th[p][u].pc = "none"
  BY <1>1 DEF ForkPart
<1>4. \A u \in Thread \ {t} : th[p][u].pc \notin ForkLoc
  BY <1>3 DEF ForkLoc, Lib
<1>5. mem[p].lock = NoThread
  <2>1. \A u \in Thread : th[p][u].pc \notin {"mkLocked", "linkLocked"}
    BY <1>3 DEF ForkLoc, Lib
  <2> QED
    BY <1>1, <2>1 DEF LockPart, Image
<1> QED
  BY <1>2, <1>3, <1>4, <1>5

\* In the parent, whatever came of the fork.
LEMMA ParentImage ==
  ASSUME ProcessInv, TypeOK', NEW p \in Proc, NEW t \in Thread, status[p] = "alive",
         th[p][t].pc \in {"forking", "forkParent"},
         th'[p][t].ctx = th[p][t].ctx, calls'[p] = calls[p],
         \A u \in Thread \ {t} : th'[p][u] = th[p][u],
         mem'[p].lock = mem[p].lock, mem'[p].linked = mem[p].linked,
         mem'[p].used = mem[p].used, mem'[p].initCalled = mem[p].initCalled,
         mem'[p].inCleanup = mem[p].inCleanup, mem'[p].cookie = mem[p].cookie,
         \/ th'[p][t].pc = "forkParent" /\ mem'[p].insideFork = TRUE
         \/ th'[p][t].pc = "app" /\ mem'[p].insideFork = FALSE
  PROVE  ImageOK(mem'[p], th'[p], calls'[p])
<1>1. /\ ListPart(mem[p], th[p]) /\ InitPart(mem[p], th[p], calls[p])
      /\ OncePart(mem[p], th[p], calls[p]) /\ mem[p].linked \subseteq Thread
  BY AliveFacts DEF Image
<1>2. /\ \A u \in Thread \ {t} : /\ th[p][u].pc \in {"none", "app"} \cup Lib
                                 /\ th[p][u].pc \notin ForkLoc
      /\ mem[p].lock = NoThread
  BY ForkPartFacts DEF ForkLoc
<1>3. ~Forked(th[p]) /\ ~Forked(th'[p])
  BY <1>2 DEF Forked, ForkLoc
<1>4. ListPart(mem'[p], th'[p])
  <2>1. \A u \in Thread : th[p][u].pc # "none" => th'[p][u].pc # "none"
    OBVIOUS
  <2> QED
    BY <1>1, <1>3, <2>1 DEF ListPart
<1>5. LockPart(mem'[p], th'[p])
  BY <1>2 DEF LockPart
<1>6. InitPart(mem'[p], th'[p], calls'[p])
  <2>1. \A u \in Thread : th'[p][u].pc \in CreateLoc => th[p][u].pc \in CreateLoc
    BY DEF CreateLoc
  <2>2. ASSUME NEW u \in Thread, th'[p][u].pc \notin {"none", "forkChild"},
               th'[p][u].ctx = "main"
        PROVE  mem'[p].initCalled
    BY <2>2, <1>1 DEF InitPart
  <2> QED
    BY <1>1, <1>3, <2>1, <2>2 DEF InitPart
<1>7. ForkPart(mem'[p], th'[p])
  <2>1. "forkParent" \in ForkLoc /\ "forkParent" # "forkChild" /\ "app" \notin ForkLoc
    BY DEF ForkLoc
  <2>2. \A u \in Thread : th'[p][u].pc \in ForkLoc => u = t /\ th'[p][t].pc = "forkParent"
    BY <1>2, <2>1
  <2>3. mem'[p].insideFork = (\E u \in Thread : th'[p][u].pc \in ForkLoc)
    <3>1. CASE th'[p][t].pc = "forkParent" /\ mem'[p].insideFork = TRUE
      BY <2>1, <3>1
    <3>2. CASE th'[p][t].pc = "app" /\ mem'[p].insideFork = FALSE
      BY <2>2, <3>2
    <3> QED
      BY <3>1, <3>2
  <2>4. ASSUME NEW u \in Thread, NEW v \in Thread, th'[p][u].pc \in ForkLoc, v # u
        PROVE  /\ th'[p][v].pc \in {"none", "app"} \cup Lib
               /\ th'[p][u].pc # "forkChild"
    BY <1>2, <2>2, <2>4
  <2> QED
    BY <2>3, <2>4 DEF ForkPart
<1>8. OncePart(mem'[p], th'[p], calls'[p])
  <2>1. \A u \in Thread : th'[p][u].pc = "shootdown" => th[p][u].pc = "shootdown"
    OBVIOUS
  <2> QED
    BY <1>1, <2>1 DEF OncePart
<1> QED
  BY <1>4, <1>5, <1>6, <1>7, <1>8 DEF ImageOK

LEMMA ForkReturnStep ==
  ASSUME ProcessInv, NEW p \in Proc, NEW t \in Thread, ForkFails(p, t) \/ ForkParent(p, t)
  PROVE  ProcessInv' /\ TypeOK' /\ OnlyBy(p, t) /\ calls' = calls
         /\ th[p][t].pc \in {"forking", "forkParent"}
         /\ th'[p][t].pc \in {"forkParent", "app"} /\ th'[p][t].ctx = th[p][t].ctx
<1> DEFINE to == IF th[p][t].pc = "forking" THEN "forkParent" ELSE "app"
           in == to = "forkParent"
<1>1. /\ status[p] = "alive" /\ th[p][t].pc \in {"forking", "forkParent"}
      /\ Goto(p, t, to) /\ UNCHANGED <<status, calls>>
  BY DEF ForkFails, ForkParent, At
<1>2. \/ mem' = mem /\ to = "forkParent"
      \/ mem' = [mem EXCEPT ![p].insideFork = FALSE] /\ to = "app"
  BY DEF ForkFails, ForkParent, At
<1>3. mem[p].insideFork = TRUE /\ mem \in [Proc -> Image]
  BY <1>1, ForkPartFacts DEF ForkLoc, ProcessInv, TypeOK
<1>4. to \in Loc /\ to \in {"forkParent", "app"}
  BY DEF Loc, ForkLoc
<1> HIDE DEF to, in
<1>5. /\ mem' \in [Proc -> Image] /\ \A q \in Proc \ {p} : mem'[q] = mem[q]
      /\ mem'[p].lock = mem[p].lock /\ mem'[p].linked = mem[p].linked
      /\ mem'[p].used = mem[p].used /\ mem'[p].initCalled = mem[p].initCalled
      /\ mem'[p].inCleanup = mem[p].inCleanup /\ mem'[p].cookie = mem[p].cookie
      /\ \/ to = "forkParent" /\ mem'[p].insideFork = TRUE
         \/ to = "app" /\ mem'[p].insideFork = FALSE
  <2>1. CASE mem' = mem /\ to = "forkParent"
    BY <2>1, <1>3
  <2>2. CASE mem' = [mem EXCEPT ![p].insideFork = FALSE] /\ to = "app"
    BY <2>2, InsideFacts DEF ProcessInv
  <2> QED
    BY <1>2, <2>1, <2>2
<1>6. /\ th' \in [Proc -> [Thread -> Slot]]
      /\ \A q \in Proc \ {p} : th'[q] = th[q]
      /\ \A u \in Thread \ {t} : th'[p][u] = th[p][u]
      /\ th'[p][t].pc = to /\ th'[p][t].ctx = th[p][t].ctx
  <2>1. Went(p, t, to)
    BY <1>1, <1>4, GotoFacts DEF ProcessInv
  <2> QED
    BY <2>1 DEF Went
<1>7. TypeOK' /\ OnlyBy(p, t)
  BY <1>1, <1>5, <1>6 DEF ProcessInv, TypeOK, OnlyBy, OnlyIn
<1>8. ImageOK(mem'[p], th'[p], calls'[p])
  BY <1>1, <1>5, <1>6, <1>7, ParentImage
<1>9. ProcessInv'
  BY <1>1, <1>7, <1>8, Frame DEF OnlyBy
<1> QED
  BY <1>1, <1>4, <1>6, <1>7, <1>9

\* The child of a fork begins.
LEMMA ForkChildStep ==
  ASSUME ProcessInv, NEW p \in Proc, NEW t \in Thread, ForkChild(p, t)
  PROVE  ProcessInv' /\ TypeOK' /\ OnlyBy(p, t)
         /\ calls[p].init = 0 /\ calls'[p].init = 1 /\ calls'[p].fini = calls[p].fini
         /\ th[p][t].pc = "forkChild" /\ ~mem'[p].used /\ mem'[p].cookie = mem[p].cookie
         /\ (\A u \in Thread \ {t} : th'[p][u].pc = "none")
         /\ th'[p][t].pc = "app" /\ th'[p][t].ctx = th[p][t].ctx
<1>1. /\ status[p] = "alive" /\ th[p][t].pc = "forkChild" /\ Goto(p, t, "app")
      /\ status' = status /\ CountInit(p, mem[p].insideFork)
  BY DEF ForkChild, At
<1>2. /\ mem \in [Proc -> Image] /\ mem[p] \in Image
      /\ calls \in [Proc -> [init : Nat, fini : Nat]]
      /\ ListPart(mem[p], th[p]) /\ InitPart(mem[p], th[p], calls[p])
      /\ OncePart(mem[p], th[p], calls[p])
  BY <1>1, AliveFacts DEF ProcessInv, TypeOK
<1>3. /\ mem[p].insideFork = TRUE /\ mem[p].lock = NoThread
      /\ \A u \in Thread \ {t} : th[p][u].pc = "none"
  BY <1>1, ForkPartFacts DEF ForkLoc
<1> DEFINE r == ResetThreadList(mem[p], t)
           b == [r EXCEPT !.insideFork = FALSE, !.finiLib = FALSE,
                          !.finiDone = FALSE, !.initCalled = TRUE]
<1>4. /\ r \in Image /\ ~r.used /\ r.linked = {}
      /\ r.lock = NoThread /\ r.cookie = mem[p].cookie
  <2>1. CASE ~mem[p].used
    BY <2>1, <1>2, <1>3 DEF ResetThreadList, ListPart
  <2>2. CASE mem[p].used
    <3> DEFINE w == IF GetTn(mem[p], t) \in Thread THEN mem[p].exitWin \ {MainTn} ELSE mem[p].exitWin
               n == [u \in Thread |-> NoNode]
    <3>1. w \in SUBSET Node /\ n \in [Thread -> Node \cup {NoNode}]
      BY <1>2 DEF Image
    <3>2. r = [mem[p] EXCEPT !.used = FALSE, !.linked = {}, !.node = n, !.exitWin = w]
      BY <2>2, <1>2 DEF ResetThreadList, Image
    <3> HIDE DEF w, n, r
    <3> QED
      BY <3>1, <3>2, <1>2, <1>3 DEF Image
  <2> QED
    BY <2>1, <2>2
<1>5. mem' = [mem EXCEPT ![p] = b]
  <2>1. BeginProcess(mem[p], t, TRUE)
          = [[r EXCEPT !.insideFork = FALSE] EXCEPT !.finiLib = FALSE, !.finiDone = FALSE,
                                                    !.initCalled = TRUE]
    BY DEF BeginProcess, RunsInit
  <2>2. mem' = [mem EXCEPT ![p] = [BeginProcess(mem[p], t, TRUE) EXCEPT !.insideFork = FALSE]]
    BY <1>2, <1>3 DEF ForkChild
  <2> HIDE DEF r
  <2>3. [BeginProcess(mem[p], t, TRUE) EXCEPT !.insideFork = FALSE] = b
    BY <1>4, <2>1 DEF Image
  <2> QED
    BY <2>2, <2>3
<1> HIDE DEF r
<1>6. /\ b \in Image /\ ~b.used /\ b.linked = {} /\ b.lock = NoThread
      /\ b.cookie = mem[p].cookie /\ b.initCalled /\ b.insideFork = FALSE
  BY <1>4 DEF Image
<1> HIDE DEF b
<1>7. mem' \in [Proc -> Image] /\ (\A q \in Proc \ {p} : mem'[q] = mem[q]) /\ mem'[p] = b
  BY <1>2, <1>5, <1>6
<1>8. Forked(th[p])
  BY <1>1 DEF Forked
<1>9. /\ calls' \in [Proc -> [init : Nat, fini : Nat]]
      /\ \A q \in Proc \ {p} : calls'[q] = calls[q]
      /\ calls[p].init = 0 /\ calls'[p].init = 1 /\ calls'[p].fini = calls[p].fini
  <2>1. calls[p] \in [init : Nat, fini : Nat] /\ calls[p].init = 0
    BY <1>2, <1>8 DEF InitPart
  <2>2. calls' = [calls EXCEPT ![p].init = 1]
    BY <1>1, <1>2, <1>3, <2>1 DEF CountInit, RunsInit
  <2> QED
    BY <1>2, <2>1, <2>2
<1>10. /\ th' \in [Proc -> [Thread -> Slot]]
       /\ \A q \in Proc \ {p} : th'[q] = th[q]
       /\ \A u \in Thread \ {t} : th'[p][u] = th[p][u]
       /\ th'[p][t].pc = "app" /\ th'[p][t].ctx = th[p][t].ctx
  <2>1. "app" \in Loc
    BY DEF Loc
  <2>2. Went(p, t, "app")
    BY <1>1, <2>1, GotoFacts DEF ProcessInv
  <2> QED
    BY <2>2 DEF Went
<1>11. TypeOK' /\ OnlyBy(p, t)
  BY <1>1, <1>7, <1>9, <1>10 DEF ProcessInv, TypeOK, OnlyBy, OnlyIn
<1>12. \A u \in Thread \ {t} : th'[p][u].pc = "none"
  BY <1>3, <1>10
<1>13. ListPart(mem'[p], th'[p]) /\ LockPart(mem'[p], th'[p])
  BY <1>6, <1>7 DEF ListPart, LockPart
<1>14. ~Forked(th'[p])
  BY <1>10, <1>12 DEF Forked
<1>15. InitPart(mem'[p], th'[p], calls'[p])
  BY <1>6, <1>7, <1>9, <1>10, <1>12, <1>14 DEF InitPart, CreateLoc
<1>16. ForkPart(mem'[p], th'[p])
  BY <1>6, <1>7, <1>10, <1>12 DEF ForkPart, ForkLoc
<1>17. OncePart(mem'[p], th'[p], calls'[p])
  BY <1>2, <1>6, <1>7, <1>9, <1>10, <1>12 DEF OncePart
<1>18. ProcessInv'
  BY <1>1, <1>11, <1>13, <1>15, <1>16, <1>17, Frame DEF ImageOK, OnlyBy
<1> QED
  BY <1>1, <1>6, <1>7, <1>9, <1>10, <1>11, <1>12, <1>18

LEMMA SlotsFacts ==
  ASSUME NEW t \in Thread, NEW s \in Slot
  PROVE  /\ Slots(t, s) \in [Thread -> Slot] /\ Slots(t, s)[t] = s
         /\ \A u \in Thread \ {t} : Slots(t, s)[u].pc = "none" /\ Slots(t, s)[u].ctx = "main"
BY DEF Slots, Slot, Loc, Context

LEMMA RealForkStep ==
  ASSUME ProcessInv, NEW p \in Proc, NEW t \in Thread, NEW c \in Proc, RealFork(p, t, c)
  PROVE  ProcessInv' /\ TypeOK'
<1>1. /\ status[p] = "alive" /\ th[p][t].pc = "forking" /\ status[c] = "unborn" /\ p # c
      /\ mem' = [mem EXCEPT ![c] = mem[p]] /\ calls' = calls
      /\ status' = [status EXCEPT ![c] = "alive"]
      /\ th' = [th EXCEPT ![p][t].pc = "forkParent",
                          ![c] = Slots(t, [th[p][t] EXCEPT !.pc = "forkChild"])]
  BY DEF RealFork, At
<1>2. /\ mem \in [Proc -> Image] /\ mem[p] \in Image /\ th \in [Proc -> [Thread -> Slot]]
      /\ status \in [Proc -> {"unborn", "alive", "dead"}]
      /\ calls \in [Proc -> [init : Nat, fini : Nat]] /\ th[p][t] \in Slot
      /\ ListPart(mem[p], th[p]) /\ calls[c] = NoCalls
  BY <1>1, AliveFacts DEF ProcessInv, TypeOK
<1>3. mem[p].insideFork = TRUE /\ mem[p].lock = NoThread
  BY <1>1, ForkPartFacts DEF ForkLoc
<1> DEFINE s == [th[p][t] EXCEPT !.pc = "forkChild"]
<1>4. s \in Slot /\ s.pc = "forkChild" /\ s.ctx = th[p][t].ctx
  BY <1>2 DEF Slot, Loc, ForkLoc
<1> HIDE DEF s
<1>5. /\ Slots(t, s) \in [Thread -> Slot] /\ Slots(t, s)[t] = s
      /\ \A u \in Thread \ {t} : Slots(t, s)[u].pc = "none" /\ Slots(t, s)[u].ctx = "main"
  BY <1>4, SlotsFacts
<1>6. /\ th' \in [Proc -> [Thread -> Slot]] /\ th'[c] = Slots(t, s)
      /\ \A q \in Proc \ {p, c} : th'[q] = th[q]
      /\ \A u \in Thread \ {t} : th'[p][u] = th[p][u]
      /\ th'[p][t].pc = "forkParent" /\ th'[p][t].ctx = th[p][t].ctx
  <2> DEFINE h == [th[p] EXCEPT ![t] = [th[p][t] EXCEPT !.pc = "forkParent"]]
  <2>1. "forkParent" \in Loc
    BY DEF Loc, ForkLoc
  <2>2. h \in [Thread -> Slot] /\ h[t].pc = "forkParent" /\ h[t].ctx = th[p][t].ctx
        /\ \A u \in Thread \ {t} : h[u] = th[p][u]
    BY <1>2, <2>1 DEF Slot
  <2>3. th' = [[th EXCEPT ![p] = h] EXCEPT ![c] = Slots(t, s)]
    BY <1>1, <1>2 DEF s
  <2> HIDE DEF h
  <2>4. th'[p] = h /\ th'[c] = Slots(t, s) /\ \A q \in Proc \ {p, c} : th'[q] = th[q]
    BY <1>1, <1>2, <2>3
  <2>5. th' \in [Proc -> [Thread -> Slot]]
    BY <1>2, <1>5, <2>2, <2>3
  <2> QED
    BY <2>2, <2>4, <2>5
<1>7. /\ mem' \in [Proc -> Image] /\ mem'[c] = mem[p]
      /\ \A q \in Proc \ {c} : mem'[q] = mem[q]
      /\ status' \in [Proc -> {"unborn", "alive", "dead"}] /\ status'[c] = "alive"
      /\ \A q \in Proc \ {c} : status'[q] = status[q]
  <2>1. mem' = [mem EXCEPT ![c] = mem[p]] /\ status' = [status EXCEPT ![c] = "alive"]
    BY <1>1
  <2>2. /\ mem' \in [Proc -> Image] /\ mem'[c] = mem[p]
        /\ \A q \in Proc \ {c} : mem'[q] = mem[q]
    BY <2>1, <1>2
  <2>3. /\ status' \in [Proc -> {"unborn", "alive", "dead"}] /\ status'[c] = "alive"
        /\ \A q \in Proc \ {c} : status'[q] = status[q]
    BY <2>1, <1>2
  <2> QED
    BY <2>2, <2>3
<1>8. TypeOK'
  <2>1. calls' \in [Proc -> [init : Nat, fini : Nat]]
    BY <1>1, <1>2
  <2>2. ASSUME NEW q \in Proc, status'[q] # "alive"
        PROVE  th'[q] = NoSlots
    <3>1. q \notin {p, c} /\ status[q] # "alive" /\ th'[q] = th[q]
      BY <1>1, <1>6, <1>7, <2>2
    <3> QED
      BY <3>1 DEF ProcessInv, TypeOK
  <2> QED
    BY <2>1, <2>2, <1>6, <1>7 DEF TypeOK
<1>9. ImageOK(mem'[p], th'[p], calls'[p])
  <2>1. mem'[p] = mem[p] /\ calls'[p] = calls[p]
    BY <1>1, <1>7
  <2> QED
    BY <1>1, <1>3, <1>6, <1>8, <2>1, ParentImage
<1>10. ImageOK(mem'[c], th'[c], calls'[c])
  <2>0. /\ th'[c][t].pc = "forkChild" /\ \A u \in Thread \ {t} : th'[c][u].pc = "none"
    BY <1>4, <1>5, <1>6
  <2>1. Forked(th'[c]) /\ calls'[c] = NoCalls /\ mem'[c] = mem[p]
    BY <1>1, <1>2, <1>7, <2>0 DEF Forked
  <2>2. ListPart(mem'[c], th'[c])
    BY <1>2, <2>1 DEF ListPart
  <2>3. LockPart(mem'[c], th'[c])
    BY <1>3, <2>1 DEF LockPart
  <2>4. InitPart(mem'[c], th'[c], calls'[c])
    BY <2>0, <2>1 DEF InitPart, CreateLoc, NoCalls
  <2>5. ForkPart(mem'[c], th'[c])
    BY <1>3, <2>0, <2>1 DEF ForkPart, ForkLoc
  <2>6. OncePart(mem'[c], th'[c], calls'[c])
    BY <2>0, <2>1 DEF OncePart, NoCalls
  <2> QED
    BY <2>2, <2>3, <2>4, <2>5, <2>6 DEF ImageOK
<1>11. /\ ProcessOK(status'[p], mem'[p], th'[p], calls'[p])
       /\ ProcessOK(status'[c], mem'[c], th'[c], calls'[c])
  <2>1. status'[p] = "alive" /\ status'[c] = "alive"
    BY <1>1, <1>7
  <2> QED
    BY <2>1, <1>9, <1>10, AliveOK
<1>12. ProcessInv'
  <2>1. \A q \in Proc \ {p, c} : /\ status'[q] = status[q] /\ mem'[q] = mem[q]
                                /\ th'[q] = th[q] /\ calls'[q] = calls[q]
    BY <1>1, <1>6, <1>7
  <2> QED
    BY <1>8, <1>11, <2>1, FrameTwo
<1> QED
  BY <1>8, <1>12

LEMMA SystemStep ==
  ASSUME SerialFork, ProcessInv, NEW p \in Proc, NEW t \in Thread, NEW c \in Proc,
         System(p, t, c)
  PROVE  ProcessInv' /\ TypeOK'
<1>1. /\ Call(p, t) /\ status[c] = "unborn" /\ UNCHANGED <<mem, calls>>
  BY DEF System
<1>2. PICK s \in {"alive", "dead"} :
         /\ status' = [status EXCEPT ![c] = s]
         /\ th' = [th EXCEPT ![p][t].pc = "wait", ![p][t].kid = c,
                             ![c] = IF s = "alive" THEN StartSlots ELSE NoSlots]
  BY DEF System
<1>3. /\ status[p] = "alive" /\ th[p][t].pc = "app" /\ ~Forked(th[p]) /\ p # c
      /\ \A u \in Thread : th[p][u].pc \notin ForkLoc
  BY <1>1, CallFacts
<1>4. /\ mem \in [Proc -> Image] /\ mem[p] \in Image /\ th \in [Proc -> [Thread -> Slot]]
      /\ status \in [Proc -> {"unborn", "alive", "dead"}]
      /\ calls \in [Proc -> [init : Nat, fini : Nat]] /\ th[p][t] \in Slot
      /\ ListPart(mem[p], th[p]) /\ LockPart(mem[p], th[p])
      /\ InitPart(mem[p], th[p], calls[p]) /\ ForkPart(mem[p], th[p])
      /\ OncePart(mem[p], th[p], calls[p]) /\ mem[p].linked \subseteq Thread
      /\ mem[c] = FreshImage /\ calls[c] = NoCalls
  BY <1>1, <1>3, AliveFacts DEF ProcessInv, TypeOK, Image
<1> DEFINE k == IF s = "alive" THEN StartSlots ELSE NoSlots
<1>5. k \in [Thread -> Slot]
  BY NoSlotsType
<1>6. /\ th' \in [Proc -> [Thread -> Slot]]
      /\ th'[c] = IF s = "alive" THEN StartSlots ELSE NoSlots
      /\ \A q \in Proc \ {p, c} : th'[q] = th[q]
      /\ \A u \in Thread \ {t} : th'[p][u] = th[p][u]
      /\ th'[p][t].pc = "wait" /\ th'[p][t].ctx = th[p][t].ctx
  <2> DEFINE h == [th[p] EXCEPT ![t] = [th[p][t] EXCEPT !.pc = "wait", !.kid = c]]
  <2>1. "wait" \in Loc
    BY DEF Loc
  <2>2. h \in [Thread -> Slot] /\ h[t].pc = "wait" /\ h[t].ctx = th[p][t].ctx
        /\ \A u \in Thread \ {t} : h[u] = th[p][u]
    BY <1>4, <2>1 DEF Slot
  <2>3. th' = [[th EXCEPT ![p] = h] EXCEPT ![c] = k]
    BY <1>2, <1>3, <1>4
  <2> HIDE DEF h
  <2>4. /\ th' \in [Proc -> [Thread -> Slot]] /\ th'[c] = k /\ th'[p] = h
        /\ \A q \in Proc \ {p, c} : th'[q] = th[q]
    <3> HIDE DEF k
    <3> QED
      BY <1>3, <1>4, <1>5, <2>2, <2>3
  <2> QED
    BY <2>2, <2>4
<1>7. /\ status' \in [Proc -> {"unborn", "alive", "dead"}] /\ status'[c] = s
      /\ \A q \in Proc \ {c} : status'[q] = status[q]
  BY <1>2, <1>4
<1>8. TypeOK'
  BY <1>1, <1>3, <1>4, <1>6, <1>7 DEF ProcessInv, TypeOK
<1>9. ImageOK(mem'[p], th'[p], calls'[p])
  <2>0. mem'[p] = mem[p] /\ calls'[p] = calls[p]
    BY <1>1
  <2>1. \A u \in Thread : th'[p][u].pc \notin ForkLoc
    BY <1>3, <1>6 DEF ForkLoc
  <2>2. ~Forked(th'[p])
    BY <2>1 DEF Forked, ForkLoc
  <2>3. ListPart(mem'[p], th'[p])
    BY <2>0, <1>3, <1>4, <1>6 DEF ListPart
  <2>4. LockPart(mem'[p], th'[p])
    BY <2>0, <1>3, <1>4, <1>6, LockKept
  <2>5. InitPart(mem'[p], th'[p], calls'[p])
    <3>1. \A u \in Thread : th'[p][u].pc \in CreateLoc => th[p][u].pc \in CreateLoc
      BY <1>6 DEF CreateLoc
    <3>2. \A u \in Thread : th'[p][u].pc # "none" /\ th'[p][u].ctx = "main" =>
              th[p][u].pc \notin {"none", "forkChild"} /\ th[p][u].ctx = "main"
      BY <1>3, <1>6 DEF ForkLoc
    <3> QED
      BY <2>0, <2>2, <1>3, <1>4, <3>1, <3>2 DEF InitPart
  <2>6. ForkPart(mem'[p], th'[p])
    BY <2>0, <2>1, <1>3, <1>4 DEF ForkPart
  <2>7. OncePart(mem'[p], th'[p], calls'[p])
    <3>1. \A u \in Thread : th'[p][u].pc = "shootdown" => th[p][u].pc = "shootdown"
      BY <1>6
    <3> QED
      BY <2>0, <1>4, <3>1 DEF OncePart
  <2> QED
    BY <2>3, <2>4, <2>5, <2>6, <2>7 DEF ImageOK
<1>10. ProcessOK(status'[c], mem'[c], th'[c], calls'[c])
  <2>1. mem'[c] = FreshImage /\ calls'[c] = NoCalls
    BY <1>1, <1>4
  <2>2. NoCalls.init <= 1 /\ NoCalls.fini <= 1
    BY DEF NoCalls
  <2>3. s = "alive" => th'[c] = StartSlots
    BY <1>6
  <2> QED
    BY <1>7, <2>1, <2>2, <2>3, StartOK DEF ProcessOK
<1>11. ProcessOK(status'[p], mem'[p], th'[p], calls'[p])
  BY <1>3, <1>7, <1>9, AliveOK
<1>12. ProcessInv'
  <2>1. \A q \in Proc \ {p, c} : /\ status'[q] = status[q] /\ mem'[q] = mem[q]
                                /\ th'[q] = th[q] /\ calls'[q] = calls[q]
    BY <1>1, <1>6, <1>7
  <2> QED
    BY <1>8, <1>10, <1>11, <2>1, FrameTwo
<1> QED
  BY <1>8, <1>12

\* An image ends, and perhaps another begins.
LEMMA DieStep ==
  ASSUME ProcessInv, NEW p \in Proc, NEW t \in Thread, Die(p, t)
  PROVE  ProcessInv' /\ TypeOK'
<1>1. /\ status[p] = "alive" /\ calls' = calls
      /\ status' = [status EXCEPT ![p] = "dead"]
      /\ th' = [th EXCEPT ![p] = NoSlots] /\ mem' = [mem EXCEPT ![p] = FreshImage]
  BY DEF Die, At
<1>2. TypeOK
  BY DEF ProcessInv
<1>3. TypeOK'
  BY <1>1, <1>2, FreshImageOK, NoSlotsType DEF TypeOK
<1>4. /\ status'[p] = "dead" /\ mem'[p] = FreshImage
      /\ \A q \in Proc \ {p} : /\ status'[q] = status[q] /\ mem'[q] = mem[q]
                               /\ th'[q] = th[q] /\ calls'[q] = calls[q]
  BY <1>1, <1>2 DEF TypeOK
<1>5. ProcessOK(status'[p], mem'[p], th'[p], calls'[p])
  BY <1>1, <1>4 DEF ProcessOK, ProcessInv
<1>6. ProcessInv'
  BY <1>3, <1>4, <1>5, FrameTwo
<1> QED
  BY <1>3, <1>6

LEMMA RealExecStep ==
  ASSUME ProcessInv, NEW p \in Proc, NEW t \in Thread, RealExec(p, t)
  PROVE  ProcessInv' /\ TypeOK'
<1>1. /\ status[p] = "alive" /\ status' = status
      /\ calls' = [calls EXCEPT ![p] = NoCalls]
      /\ th' = [th EXCEPT ![p] = StartSlots] /\ mem' = [mem EXCEPT ![p] = FreshImage]
  BY DEF RealExec, At
<1>2. TypeOK /\ NoCalls \in [init : Nat, fini : Nat]
  BY DEF ProcessInv, NoCalls
<1>3. TypeOK'
  BY <1>1, <1>2, FreshImageOK, NoSlotsType DEF TypeOK
<1>4. /\ mem'[p] = FreshImage /\ th'[p] = StartSlots /\ calls'[p] = NoCalls
      /\ \A q \in Proc \ {p} : /\ status'[q] = status[q] /\ mem'[q] = mem[q]
                               /\ th'[q] = th[q] /\ calls'[q] = calls[q]
  BY <1>1, <1>2 DEF TypeOK
<1>5. ProcessInv'
  BY <1>1, <1>3, <1>4, StartOK, Frame DEF OnlyIn
<1> QED
  BY <1>3, <1>5

-----------------------------------------------------------------------------
(* The specification. *)

LEMMA InitProcessInv ==
  ASSUME Init
  PROVE  ProcessInv
<1>1. NoCalls \in [init : Nat, fini : Nat] /\ NoCalls.init <= 1 /\ NoCalls.fini <= 1
  BY DEF NoCalls
<1>2. TypeOK
  BY <1>1, FreshImageOK, NoSlotsType, Constants DEF Init, TypeOK
<1>3. ASSUME NEW p \in Proc
      PROVE  ProcessOK(status[p], mem[p], th[p], calls[p])
  <2>1. CASE p = Root
    <3>1. /\ status[p] = "alive" /\ mem[p] = FreshImage /\ th[p] = StartSlots
          /\ calls[p] = NoCalls
      BY <2>1 DEF Init
    <3> QED
      BY <3>1, StartOK, AliveOK
  <2>2. CASE p # Root
    <3>1. status[p] = "unborn" /\ mem[p] = FreshImage /\ calls[p] = NoCalls
      BY <2>2 DEF Init
    <3> QED
      BY <1>1, <3>1 DEF ProcessOK
  <2> QED
    BY <2>1, <2>2
<1> QED
  BY <1>2, <1>3 DEF ProcessInv, ProcessOK

LEMMA NextProcessInv ==
  ASSUME SerialFork, ProcessInv, [Next]_vars
  PROVE  ProcessInv'
<1>1. CASE UNCHANGED vars
  <2>1. mem' = mem /\ th' = th /\ status' = status /\ calls' = calls
    BY <1>1 DEF vars
  <2>2. TypeOK'
    BY <2>1 DEF ProcessInv, TypeOK
  <2> QED
    BY <2>1, <2>2 DEF ProcessInv
<1>2. ASSUME NEW p \in Proc, MainStart(p) PROVE ProcessInv'
  BY <1>2, MainStartStep
<1>3. ASSUME NEW p \in Proc, NEW t \in Thread, CallStep(p, t) PROVE ProcessInv'
  <2>1. CASE CreateEnter(p, t)
    BY <2>1, CreateEnterStep
  <2>2. CASE ThreadEnd(p, t)
    BY <2>2, ThreadEndStep
  <2>3. CASE ForkEnter(p, t)
    BY <2>3, ForkEnterStep
  <2>4. ASSUME NEW c \in Proc, System(p, t, c) PROVE ProcessInv'
    BY <2>4, SystemStep
  <2>5. CASE Exit(p, t) \/ \E b \in BOOLEAN : Exec(p, t, b)
    BY <2>5, GoingOnStep DEF GoingOn
  <2> QED
    BY <1>3, <2>1, <2>2, <2>3, <2>4, <2>5 DEF CallStep
<1>4. ASSUME NEW p \in Proc, NEW t \in Thread, CreateStep(p, t) PROVE ProcessInv'
  <2>1. CASE MakeNodeLock(p, t) \/ LinkLock(p, t)
    BY <2>1, AcquireStep
  <2>2. CASE MakeNode(p, t)
    BY <2>2, MakeNodeStep
  <2>3. ASSUME NEW u \in Thread, Launch(p, t, u) PROVE ProcessInv'
    BY <2>3, LaunchStep
  <2>4. CASE LaunchFails(p, t)
    BY <2>4, GoingOnStep DEF GoingOn
  <2>5. CASE LinkNode(p, t)
    BY <2>5, LinkNodeStep
  <2> QED
    BY <1>4, <2>1, <2>2, <2>3, <2>4, <2>5 DEF CreateStep
<1>5. ASSUME NEW p \in Proc, NEW t \in Thread, ForkStep(p, t) PROVE ProcessInv'
  <2>1. ASSUME NEW c \in Proc, RealFork(p, t, c) PROVE ProcessInv'
    BY <2>1, RealForkStep
  <2>2. CASE ForkFails(p, t) \/ ForkParent(p, t)
    BY <2>2, ForkReturnStep
  <2>3. CASE ForkChild(p, t)
    BY <2>3, ForkChildStep
  <2>4. CASE SystemReturn(p, t)
    BY <2>4, GoingOnStep DEF GoingOn
  <2> QED
    BY <1>5, <2>1, <2>2, <2>3, <2>4 DEF ForkStep
<1>6. ASSUME NEW p \in Proc, NEW t \in Thread, EndStep(p, t) PROVE ProcessInv'
  <2>1. CASE WinEnd(p, t)
    BY <2>1, WinEndStep
  <2>2. CASE Shootdown(p, t)
    BY <2>2, ShootdownStep
  <2>3. CASE GoingOn(p, t)
    BY <2>3, GoingOnStep
  <2>4. CASE Die(p, t)
    BY <2>4, DieStep
  <2>5. CASE RealExec(p, t)
    BY <2>5, RealExecStep
  <2> QED
    BY <1>6, <2>1, <2>2, <2>3, <2>4, <2>5 DEF EndStep, GoingOn
<1> QED
  BY <1>1, <1>2, <1>3, <1>4, <1>5, <1>6 DEF Next, Terminated

\* The inductive invariant: at every step each living process keeps its list,
\* lock, inside_fork, cookie and callback counts together.
THEOREM ProcessInvariant == ASSUME SerialFork PROVE Spec => []ProcessInv
<1>1. Init => ProcessInv
  BY InitProcessInv
<1>2. ProcessInv /\ [Next]_vars => ProcessInv'
  BY NextProcessInv
<1> QED
  BY <1>1, <1>2, PTL DEF Spec

\* Every variable keeps its type, and what is not alive has no threads.
THEOREM ProcessTypes == ASSUME SerialFork PROVE Spec => []TypeOK
<1>1. ProcessInv => TypeOK
  BY DEF ProcessInv
<1> QED
  BY <1>1, ProcessInvariant, PTL

\* No image is given two init_process or two fini_process callbacks.
THEOREM CallbacksOnce == ASSUME SerialFork PROVE Spec => []OncePerImage
<1>1. ProcessInv => OncePerImage
  BY DEF ProcessInv, OncePerImage
<1> QED
  BY <1>1, ProcessInvariant, PTL

\* Application code from main on, in a forked child too, finds its image
\* initialised.
THEOREM InitFirst == ASSUME SerialFork PROVE Spec => []AppAfterInit
<1>1. ASSUME ProcessInv, NEW p \in Proc, NEW t \in Thread,
             At(p, t, "app"), th[p][t].ctx = "main"
      PROVE  calls[p].init > 0
  <2>1. status[p] = "alive" /\ th[p][t].pc = "app"
    BY <1>1 DEF At
  <2>2. InitPart(mem[p], th[p], calls[p]) /\ ForkPart(mem[p], th[p])
    BY <1>1, <2>1, AliveFacts
  <2>3. mem[p].initCalled
    BY <1>1, <2>1, <2>2 DEF InitPart
  <2>4. ~Forked(th[p])
    <3>1. ASSUME NEW u \in Thread, th[p][u].pc = "forkChild" PROVE FALSE
      <4>1. u # t /\ th[p][u].pc \in ForkLoc
        BY <2>1, <3>1 DEF ForkLoc
      <4> QED
        BY <2>1, <2>2, <3>1, <4>1 DEF ForkPart
    <3> QED
      BY <3>1 DEF Forked
  <2> QED
    BY <2>2, <2>3, <2>4 DEF InitPart
<1>2. ProcessInv => AppAfterInit
  BY <1>1 DEF AppAfterInit
<1> QED
  BY <1>2, ProcessInvariant, PTL

\* The thread list holds no thread of another process, a parent's above all.
THEOREM ListOwned == ASSUME SerialFork PROVE Spec => []OwnThreads
<1>1. ASSUME ProcessInv, NEW p \in Proc, NEW u \in mem[p].linked
      PROVE  \/ th[p][u].pc # "none" \/ mem[p].inCleanup
             \/ \E t \in Thread : th[p][t].pc = "forkChild"
  <2>1. CASE status[p] = "alive"
    BY <1>1, <2>1, AliveFacts DEF ListPart, Forked
  <2>2. CASE status[p] # "alive"
    BY <1>1, <2>2 DEF ProcessInv, FreshImage
  <2> QED
    BY <2>1, <2>2
<1>2. ProcessInv => OwnThreads
  BY <1>1 DEF OwnThreads
<1> QED
  BY <1>2, ProcessInvariant, PTL

-----------------------------------------------------------------------------
(* The end of a process, when nobody forks after it has begun. *)

LifeOK(m, s, c) == NodePart(m, s) /\ EndPart(m, s, c)

LEMMA LifeFacts ==
  ASSUME LifeInv, NEW p \in Proc, status[p] = "alive"
  PROVE  /\ ProcessInv /\ NodePart(mem[p], th[p]) /\ EndPart(mem[p], th[p], calls[p])
         /\ OncePart(mem[p], th[p], calls[p])
         /\ mem[p] \in Image /\ th[p] \in [Thread -> Slot]
         /\ mem[p].cookie \in BOOLEAN /\ mem[p].exitWin \in SUBSET Node
         /\ calls[p] \in [init : Nat, fini : Nat]
<1>1. ProcessInv
  BY DEF LifeInv
<1>2. /\ mem[p] \in Image /\ th[p] \in [Thread -> Slot] /\ OncePart(mem[p], th[p], calls[p])
      /\ calls[p] \in [init : Nat, fini : Nat]
  BY <1>1, AliveFacts
<1> QED
  BY <1>1, <1>2 DEF LifeInv, Image

LEMMA LifeFrame ==
  ASSUME LifeInv, ProcessInv', NEW p \in Proc, OnlyIn(p),
         LifeOK(mem'[p], th'[p], calls'[p])
  PROVE  LifeInv'
<1>1. ASSUME NEW q \in Proc, status'[q] = "alive"
      PROVE  NodePart(mem'[q], th'[q]) /\ EndPart(mem'[q], th'[q], calls'[q])
  <2>1. CASE q = p
    BY <2>1 DEF LifeOK
  <2>2. CASE q # p
    BY <1>1, <2>2 DEF LifeInv, OnlyIn
  <2> QED
    BY <2>1, <2>2
<1> QED
  BY <1>1 DEF LifeInv

\* A thread goes on and no node is bound.
LEMMA NodeKept ==
  ASSUME LifeInv, NEW p \in Proc, NEW t \in Thread, status[p] = "alive", OnlyBy(p, t),
         th[p][t].pc # "none", mem'[p].used = mem[p].used, mem'[p].node = mem[p].node
  PROVE  NodePart(mem'[p], th'[p])
<1>1. NodePart(mem[p], th[p]) /\ \A u \in Thread \ {t} : th'[p][u] = th[p][u]
  BY LifeFacts DEF OnlyBy
<1>2. \A u \in Thread : GetTn(mem'[p], u) = GetTn(mem[p], u)
  BY DEF GetTn
<1>3. \A u \in Thread : th'[p][u].pc # "none" => th[p][u].pc # "none"
  BY <1>1
<1> QED
  BY <1>1, <1>2, <1>3 DEF NodePart

\* A thread goes on, and not into or out of the shootdown.
LEMMA EndKept ==
  ASSUME LifeInv, NEW p \in Proc, NEW t \in Thread, status[p] = "alive", OnlyBy(p, t),
         \A u \in Thread : th[p][u].pc = "shootdown" => GetTn(mem'[p], u) = GetTn(mem[p], u),
         mem'[p].exitWin \subseteq mem[p].exitWin, mem'[p].cookie = mem[p].cookie,
         calls'[p].fini = calls[p].fini,
         mem'[p].finiDone => mem[p].finiDone \/ (mem[p].cookie /\ calls[p].fini = 1),
         th[p][t].pc # "shootdown", th'[p][t].pc # "shootdown",
         th'[p][t].pc \in ForkLoc => ~mem[p].cookie,
         th'[p][t].pc = "finiProcess" => calls[p].fini = 1,
         th'[p][t].ctx = "exiting" => calls[p].fini = 1,
         th'[p][t].pc \in Lib /\ th'[p][t].how = "exit" => calls[p].fini = 1
  PROVE  EndPart(mem'[p], th'[p], calls'[p])
<1>1. EndPart(mem[p], th[p], calls[p]) /\ \A u \in Thread \ {t} : th'[p][u] = th[p][u]
  BY LifeFacts DEF OnlyBy
<1>2. ~mem'[p].cookie => mem'[p].exitWin = {} /\ ~mem'[p].finiDone
  BY <1>1 DEF EndPart
<1>3. mem'[p].cookie => calls'[p].fini = 1 \/ \E u \in Thread : th'[p][u].pc = "shootdown"
  BY <1>1 DEF EndPart
<1>4. mem'[p].finiDone => calls'[p].fini = 1
  BY <1>1 DEF EndPart
<1>5. ASSUME NEW u \in Thread
      PROVE  /\ th'[p][u].pc \in ForkLoc => ~mem'[p].cookie
             /\ th'[p][u].pc = "shootdown" => mem'[p].exitWin \subseteq {GetTn(mem'[p], u)}
             /\ th'[p][u].pc = "finiProcess" => calls'[p].fini = 1
             /\ th'[p][u].ctx = "exiting" => calls'[p].fini = 1
             /\ th'[p][u].pc \in Lib /\ th'[p][u].how = "exit" => calls'[p].fini = 1
  <2>1. CASE u = t
    BY <2>1
  <2>2. CASE u # t
    <3>1. th'[p][u] = th[p][u]
      BY <1>1, <2>2
    <3> QED
      BY <1>1, <3>1 DEF EndPart
  <2> QED
    BY <2>1, <2>2
<1> QED
  BY <1>2, <1>3, <1>4, <1>5 DEF EndPart

\* The only thread in the end of its process that may skip fini_process is one
\* that knows of it.
LEMMA EndKnown ==
  ASSUME LifeInv, NEW p \in Proc, NEW t \in Thread, status[p] = "alive",
         mem[p].cookie, th[p][t].pc \notin {"none", "shootdown"},
         HasWon(mem[p], t) \/ mem[p].finiDone
  PROVE  calls[p].fini = 1
<1>1. NodePart(mem[p], th[p]) /\ EndPart(mem[p], th[p], calls[p])
  BY LifeFacts
<1>2. ASSUME NEW u \in Thread, th[p][u].pc = "shootdown", HasWon(mem[p], t) PROVE FALSE
  <2>1. GetTn(mem[p], t) = GetTn(mem[p], u)
    BY <1>1, <1>2 DEF EndPart, HasWon
  <2> QED
    BY <1>1, <1>2, <2>1 DEF NodePart
<1> QED
  BY <1>1, <1>2 DEF EndPart

LEMMA GoingOnLife ==
  ASSUME SerialFork, LifeInv, NEW p \in Proc, NEW t \in Thread, GoingOn(p, t)
  PROVE  LifeInv' /\ status' = status /\ calls' = calls
<1>1. /\ OnlyBy(p, t) /\ status[p] = "alive" /\ calls' = calls /\ status' = status
      /\ SameLists(mem[p], mem'[p]) /\ mem'[p].cookie = mem[p].cookie
  BY GoingOnTypes DEF LifeInv, ProcessInv, OnlyBy, OnlyIn
<1>2. ProcessInv'
  BY GoingOnStep DEF LifeInv
<1>3. /\ th \in [Proc -> [Thread -> Slot]] /\ th[p][t] \in Slot
      /\ mem \in [Proc -> Image] /\ mem[p] \in Image
      /\ EndPart(mem[p], th[p], calls[p]) /\ OncePart(mem[p], th[p], calls[p])
  BY <1>1, LifeFacts DEF ProcessInv, TypeOK
<1> DEFINE l == th[p][t].pc
           k == th'[p][t].pc
<1>4. /\ mem'[p].node = mem[p].node /\ mem'[p].exitWin = mem[p].exitWin
      /\ \/ mem'[p].finiDone = mem[p].finiDone
         \/ (FiniProcessReturn(p, t) \/ RepeatEnd(p, t) \/ LoserReleased(p, t))
  <2>1. \/ mem' = mem
        \/ mem' = [mem EXCEPT ![p].finiLib = TRUE]
        \/ /\ mem' = [mem EXCEPT ![p].finiDone = TRUE]
           /\ (FiniProcessReturn(p, t) \/ RepeatEnd(p, t) \/ LoserReleased(p, t))
    <3>1. CASE FiniProcessReturn(p, t) \/ RepeatEnd(p, t) \/ LoserReleased(p, t)
      <4>1. EndReturn(p, t)
        BY <3>1 DEF FiniProcessReturn, RepeatEnd, LoserReleased
      <4> QED
        BY <3>1, <4>1 DEF EndReturn
    <3>2. CASE FiniLibraryReturn(p, t)
      BY <3>2 DEF FiniLibraryReturn
    <3>3. CASE \/ LaunchFails(p, t) \/ SystemReturn(p, t) \/ Exit(p, t)
               \/ (\E b \in BOOLEAN : Exec(p, t, b)) \/ LoseEnd(p, t)
               \/ HandlersReturn(p, t) \/ EndLibrary(p, t) \/ RealExecFails(p, t)
      BY <3>3 DEF LaunchFails, SystemReturn, Exit, Exec, LoseEnd, HandlersReturn,
                  EndLibrary, RealExecFails
    <3> QED
      BY <3>1, <3>2, <3>3 DEF GoingOn
  <2>2. CASE mem' = mem
    BY <2>2
  <2>3. CASE mem' = [mem EXCEPT ![p].finiLib = TRUE]
    <3>1. mem'[p] = [mem[p] EXCEPT !.finiLib = TRUE]
      BY <2>3, <1>3
    <3> QED
      BY <3>1, <1>3 DEF Image
  <2>4. CASE /\ mem' = [mem EXCEPT ![p].finiDone = TRUE]
             /\ (FiniProcessReturn(p, t) \/ RepeatEnd(p, t) \/ LoserReleased(p, t))
    <3>1. mem'[p] = [mem[p] EXCEPT !.finiDone = TRUE]
      BY <2>4, <1>3
    <3> QED
      BY <2>4, <3>1, <1>3 DEF Image
  <2> QED
    BY <2>1, <2>2, <2>3, <2>4
<1>5. ASSUME FiniProcessReturn(p, t) \/ RepeatEnd(p, t) \/ LoserReleased(p, t)
      PROVE  /\ mem[p].cookie /\ calls[p].fini = 1 /\ EndReturn(p, t)
             /\ l \in {"finiProcess", "endProcess", "loser"}
  <2>1. EndReturn(p, t) /\ l \in {"finiProcess", "endProcess", "loser"}
    BY <1>5 DEF FiniProcessReturn, RepeatEnd, LoserReleased, At
  <2>2. CASE FiniProcessReturn(p, t)
    BY <2>1, <2>2, <1>3 DEF FiniProcessReturn, At, EndPart, OncePart
  <2>3. CASE RepeatEnd(p, t)
    <3>1. mem[p].cookie /\ HasWon(mem[p], t)
      BY <2>3 DEF RepeatEnd
    <3> QED
      BY <1>1, <2>1, <3>1, EndKnown
  <2>4. CASE LoserReleased(p, t)
    <3>1. mem[p].finiDone
      BY <2>4 DEF LoserReleased
    <3>2. mem[p].cookie
      BY <1>3, <3>1 DEF EndPart
    <3> QED
      BY <1>1, <2>1, <3>1, <3>2, EndKnown
  <2> QED
    BY <1>5, <2>1, <2>2, <2>3, <2>4
<1>6. /\ l \notin {"none", "shootdown"} /\ k \notin {"shootdown", "finiProcess"} \cup ForkLoc
      /\ th'[p][t].ctx = "exiting" => calls[p].fini = 1
      /\ k \in Lib /\ th'[p][t].how = "exit" => calls[p].fini = 1
  <2>1. CASE FiniProcessReturn(p, t) \/ RepeatEnd(p, t) \/ LoserReleased(p, t)
    <3>1. calls[p].fini = 1 /\ EndReturn(p, t) /\ l \in {"finiProcess", "endProcess", "loser"}
      BY <1>5, <2>1
    <3>2. k \in {"libTest", "app"}
      BY <1>3, <3>1 DEF EndReturn, Slot
    <3> QED
      BY <3>1, <3>2 DEF ForkLoc
  <2>2. ASSUME l \notin {"none", "shootdown"},
               k \notin {"shootdown", "finiProcess"} \cup ForkLoc \cup Lib,
               th'[p][t].ctx = th[p][t].ctx
        PROVE  <1>6!:
    BY <2>2, <1>3 DEF EndPart
  <2>3. CASE Exit(p, t)
    BY <2>2, <2>3, <1>3 DEF Exit, Call, At, ForkLoc, Lib, Slot
  <2>4. ASSUME NEW b \in BOOLEAN, Exec(p, t, b) PROVE <1>6!:
    <3>1. /\ l = "app" /\ k \in {"endProcess", "libDone"} /\ th'[p][t].ctx = th[p][t].ctx
          /\ k = "libDone" => th'[p][t].how = "try"
      BY <2>4, <1>3 DEF Exec, Call, At, Slot
    <3> QED
      BY <1>3, <3>1 DEF EndPart, ForkLoc, Lib
  <2>5. CASE LaunchFails(p, t)
    BY <2>2, <2>5, <1>3 DEF LaunchFails, Goto, At, ForkLoc, Lib, Slot
  <2>6. CASE SystemReturn(p, t)
    BY <2>2, <2>6, <1>3 DEF SystemReturn, At, ForkLoc, Lib, Slot
  <2>7. CASE LoseEnd(p, t)
    BY <2>2, <2>7, <1>3 DEF LoseEnd, Goto, At, ForkLoc, Lib, Slot
  <2>8. CASE RealExecFails(p, t)
    BY <2>2, <2>8, <1>3 DEF RealExecFails, Goto, At, ForkLoc, Lib, Slot
  <2>9. CASE HandlersReturn(p, t)
    <3>1. l = "app" /\ th[p][t].ctx = "exiting" /\ k = "libTest"
      BY <2>9, <1>3 DEF HandlersReturn, At, Slot
    <3> QED
      BY <1>3, <3>1 DEF EndPart, ForkLoc
  <2>10. CASE EndLibrary(p, t) \/ FiniLibraryReturn(p, t)
    <3>1. /\ l \in Lib /\ k \in Lib /\ th'[p][t].ctx = th[p][t].ctx
          /\ th'[p][t].how = th[p][t].how
      <4>1. l \in Lib /\ \E to \in {"libCb", "libDone"} : Goto(p, t, to)
        BY <2>10 DEF EndLibrary, FiniLibraryReturn, At, Lib
      <4>2. PICK to \in {"libCb", "libDone"} : Goto(p, t, to)
        BY <4>1
      <4>3. th'[p][t] = [th[p][t] EXCEPT !.pc = to]
        BY <4>2, <1>3 DEF Goto
      <4> QED
        BY <4>1, <4>3, <1>3 DEF Slot, Lib
    <3> QED
      BY <1>3, <3>1 DEF EndPart, ForkLoc, Lib
  <2> QED
    BY <2>1, <2>3, <2>4, <2>5, <2>6, <2>7, <2>8, <2>9, <2>10 DEF GoingOn
<1>7. mem'[p].used = mem[p].used
  BY <1>1 DEF SameLists
<1>8. NodePart(mem'[p], th'[p])
  BY <1>1, <1>4, <1>6, <1>7, NodeKept
<1>9. EndPart(mem'[p], th'[p], calls'[p])
  <2>1. \A u \in Thread : GetTn(mem'[p], u) = GetTn(mem[p], u)
    BY <1>4, <1>7 DEF GetTn
  <2>2. mem'[p].finiDone => mem[p].finiDone \/ (mem[p].cookie /\ calls[p].fini = 1)
    BY <1>4, <1>5
  <2>3. mem'[p].exitWin \subseteq mem[p].exitWin /\ calls'[p].fini = calls[p].fini
    BY <1>1, <1>4
  <2> QED
    BY <1>1, <1>6, <2>1, <2>2, <2>3, EndKept
<1>10. LifeInv'
  BY <1>1, <1>2, <1>8, <1>9, LifeFrame DEF LifeOK, OnlyBy
<1> QED
  BY <1>1, <1>10

\* A step to another place, with nothing but the lock, the list or inside_fork.
LEMMA PlainLife ==
  ASSUME LifeInv, ProcessInv', NEW p \in Proc, NEW t \in Thread, status[p] = "alive",
         OnlyBy(p, t), calls'[p].fini = calls[p].fini,
         th[p][t].pc \notin {"none", "shootdown"},
         th'[p][t].pc \notin {"shootdown", "finiProcess"} \cup Lib,
         th'[p][t].pc \in ForkLoc => ~mem[p].cookie,
         th'[p][t].ctx \in {th[p][t].ctx, "main"},
         mem'[p].node = mem[p].node, mem'[p].used = mem[p].used,
         mem'[p].exitWin = mem[p].exitWin, mem'[p].cookie = mem[p].cookie,
         mem'[p].finiDone => mem[p].finiDone
  PROVE  LifeInv'
<1>1. EndPart(mem[p], th[p], calls[p])
  BY LifeFacts
<1>2. NodePart(mem'[p], th'[p])
  BY NodeKept
<1>3. \A u \in Thread : GetTn(mem'[p], u) = GetTn(mem[p], u)
  BY DEF GetTn
<1>4. th'[p][t].ctx = "exiting" => calls[p].fini = 1
  BY <1>1 DEF EndPart
<1>5. EndPart(mem'[p], th'[p], calls'[p])
  BY <1>3, <1>4, EndKept
<1> QED
  BY <1>2, <1>5, LifeFrame DEF LifeOK, OnlyBy

\* What of an image the lock, the list and inside_fork do not reach.
SameEnd(m, n) ==
    /\ n.node = m.node /\ n.used = m.used /\ n.exitWin = m.exitWin
    /\ n.cookie = m.cookie /\ n.finiDone = m.finiDone

LEMMA LockLife ==
  ASSUME LifeInv, NEW p \in Proc, NEW t \in Thread,
         MakeNodeLock(p, t) \/ LinkLock(p, t) \/ MakeNode(p, t)
  PROVE  LifeInv' /\ status' = status /\ calls' = calls
<1>1. PICK to \in {"mkLocked", "linkLocked", "launch"}, k \in Thread \cup {NoThread} :
        /\ th[p][t].pc \in {"mkLock", "link", "mkLocked"} /\ Goto(p, t, to)
        /\ mem' = [mem EXCEPT ![p].lock = k]
  BY DEF MakeNodeLock, LinkLock, Acquire, MakeNode, At
<1>2. status[p] = "alive" /\ status' = status /\ calls' = calls
  BY DEF MakeNodeLock, LinkLock, Acquire, MakeNode, At
<1>3. ProcessInv'
  BY AcquireStep, MakeNodeStep DEF LifeInv
<1>4. TypeOK /\ mem \in [Proc -> Image] /\ mem[p] \in Image
  BY DEF LifeInv, ProcessInv, TypeOK
<1>5. SameEnd(mem[p], mem'[p]) /\ \A q \in Proc \ {p} : mem'[q] = mem[q]
  BY <1>1, <1>4 DEF SameEnd, Image
<1>6. /\ \A q \in Proc \ {p} : th'[q] = th[q]
      /\ \A u \in Thread \ {t} : th'[p][u] = th[p][u]
      /\ th'[p][t].pc = to /\ th'[p][t].ctx = th[p][t].ctx
  <2>1. to \in Loc
    BY DEF Loc, CreateLoc
  <2>2. Went(p, t, to)
    BY <1>1, <1>4, <2>1, GotoFacts
  <2> QED
    BY <2>2 DEF Went
<1>7. OnlyBy(p, t)
  BY <1>2, <1>5, <1>6 DEF OnlyBy, OnlyIn
<1> QED
  BY <1>1, <1>2, <1>3, <1>5, <1>6, <1>7, PlainLife DEF SameEnd, Lib, ForkLoc

LEMMA ForkReturnLife ==
  ASSUME LifeInv, NEW p \in Proc, NEW t \in Thread, ForkFails(p, t) \/ ForkParent(p, t)
  PROVE  LifeInv' /\ status' = status /\ calls' = calls
<1>1. /\ ProcessInv' /\ OnlyBy(p, t) /\ calls' = calls
      /\ th[p][t].pc \in {"forking", "forkParent"}
      /\ th'[p][t].pc \in {"forkParent", "app"} /\ th'[p][t].ctx = th[p][t].ctx
  BY ForkReturnStep DEF LifeInv
<1>2. status[p] = "alive" /\ status' = status
  BY DEF ForkFails, ForkParent, At
<1>3. SameEnd(mem[p], mem'[p])
  <2>1. CASE mem' = mem
    BY <2>1 DEF SameEnd
  <2>2. CASE mem' = [mem EXCEPT ![p].insideFork = FALSE]
    BY <2>2, InsideFacts DEF SameEnd, LifeInv, ProcessInv
  <2> QED
    BY <2>1, <2>2 DEF ForkFails, ForkParent
<1>4. ~mem[p].cookie
  BY <1>1, <1>2, LifeFacts DEF EndPart, ForkLoc
<1> QED
  BY <1>1, <1>2, <1>3, <1>4, PlainLife DEF SameEnd, Lib, ForkLoc

LEMMA ForkEnterLife ==
  ASSUME SerialFork, NoLateFork, LifeInv, NEW p \in Proc, NEW t \in Thread, ForkEnter(p, t)
  PROVE  LifeInv' /\ status' = status /\ calls' = calls
<1>1. /\ ProcessInv' /\ OnlyBy(p, t) /\ calls' = calls
      /\ th'[p][t].pc = "forking" /\ th'[p][t].ctx = th[p][t].ctx
  BY ForkEnterStep DEF LifeInv
<1>2. /\ status[p] = "alive" /\ status' = status /\ ~mem[p].cookie /\ th[p][t].pc = "app"
      /\ mem' = [mem EXCEPT ![p].insideFork = TRUE]
  BY DEF ForkEnter, Call, At
<1>3. SameEnd(mem[p], mem'[p])
  <2>1. TypeOK
    BY DEF LifeInv, ProcessInv
  <2> QED
    BY <1>2, <2>1, InsideFacts DEF SameEnd
<1> QED
  BY <1>1, <1>2, <1>3, PlainLife DEF SameEnd, Lib, ForkLoc

LEMMA LinkNodeLife ==
  ASSUME LifeInv, NEW p \in Proc, NEW t \in Thread, LinkNode(p, t)
  PROVE  LifeInv' /\ status' = status /\ calls' = calls
<1>1. /\ ProcessInv' /\ OnlyBy(p, t) /\ calls' = calls
      /\ th'[p][t].pc \in {"none", "app"} /\ th'[p][t].ctx = th[p][t].ctx
  BY LinkNodeStep DEF LifeInv
<1>2. status[p] = "alive" /\ status' = status /\ th[p][t].pc = "linkLocked"
  BY DEF LinkNode, At
<1>3. SameEnd(mem[p], mem'[p])
  <2>1. mem \in [Proc -> Image] /\ mem[p] \in Image
    BY DEF LifeInv, ProcessInv, TypeOK
  <2>2. \/ mem' = [mem EXCEPT ![p].lock = NoThread]
        \/ mem' = [mem EXCEPT ![p].lock = NoThread, ![p].linked = @ \cup {t}]
    BY DEF LinkNode
  <2>3. CASE mem' = [mem EXCEPT ![p].lock = NoThread]
    BY <2>1, <2>3 DEF SameEnd, Image
  <2>4. CASE mem' = [mem EXCEPT ![p].lock = NoThread, ![p].linked = @ \cup {t}]
    <3>1. mem'[p] = [mem[p] EXCEPT !.lock = NoThread, !.linked = @ \cup {t}]
      BY <2>1, <2>4
    <3> QED
      BY <2>1, <3>1 DEF SameEnd, Image
  <2> QED
    BY <2>2, <2>3, <2>4
<1> QED
  BY <1>1, <1>2, <1>3, PlainLife DEF SameEnd, Lib, ForkLoc

\* main may be called after a thread has ended the process.
LEMMA MainStartLife ==
  ASSUME SerialFork, LifeInv, NEW p \in Proc, MainStart(p)
  PROVE  LifeInv' /\ status' = status
<1>1. ProcessInv' /\ OnlyBy(p, Main)
  BY MainStartStep DEF LifeInv
<1>2. /\ status[p] = "alive" /\ status' = status /\ th[p][Main].pc = "app"
      /\ ~Forked(th[p]) /\ CountInit(p, FALSE)
      /\ mem' = [mem EXCEPT ![p] = BeginProcess(@, Main, FALSE)]
      /\ th' = [th EXCEPT ![p][Main].ctx = "main"]
  <2>1. ProcessInv /\ Main \in Thread /\ Call(p, Main)
    BY Constants DEF LifeInv, MainStart
  <2>2. status[p] = "alive" /\ th[p][Main].pc = "app" /\ ~Forked(th[p])
    BY <2>1, CallFacts
  <2> QED
    BY <2>2 DEF MainStart
<1>3. /\ mem \in [Proc -> Image] /\ mem[p] \in Image /\ th \in [Proc -> [Thread -> Slot]]
      /\ Main \in Thread
  BY Constants DEF LifeInv, ProcessInv, TypeOK
<1>4. calls'[p].fini = calls[p].fini
  BY <1>2, CountFacts DEF LifeInv
<1>5. /\ mem'[p].node = mem[p].node /\ mem'[p].used = mem[p].used
      /\ mem'[p].exitWin = mem[p].exitWin /\ mem'[p].cookie = mem[p].cookie
      /\ mem'[p].finiDone => mem[p].finiDone
  <2> DEFINE b == BeginProcess(mem[p], Main, FALSE)
  <2>1. mem'[p] = b
    BY <1>2, <1>3
  <2>2. /\ b.node = mem[p].node /\ b.used = mem[p].used /\ b.exitWin = mem[p].exitWin
        /\ b.cookie = mem[p].cookie /\ (b.finiDone => mem[p].finiDone)
    <3>1. Begun(mem[p], b)
      BY <1>3, BeginFacts
    <3> QED
      BY <3>1 DEF Begun
  <2> HIDE DEF b
  <2> QED
    BY <2>1, <2>2
<1>6. th'[p][Main].pc = "app" /\ th'[p][Main].ctx = "main"
  <2>1. th[p][Main] \in Slot /\ th'[p][Main] = [th[p][Main] EXCEPT !.ctx = "main"]
    BY <1>2, <1>3
  <2> QED
    BY <1>2, <2>1 DEF Slot
<1> QED
  BY <1>1, <1>2, <1>3, <1>4, <1>5, <1>6, PlainLife DEF Lib, ForkLoc

\* The cookie is taken: fini_process is owed by this thread.
LEMMA WinEndLife ==
  ASSUME LifeInv, NEW p \in Proc, NEW t \in Thread, WinEnd(p, t)
  PROVE  LifeInv' /\ status' = status /\ calls' = calls
<1> DEFINE n == GetTn(mem[p], t)
<1>1. /\ status[p] = "alive" /\ th[p][t].pc = "endProcess" /\ ~mem[p].cookie
      /\ Goto(p, t, "shootdown") /\ status' = status /\ calls' = calls
      /\ mem' = [mem EXCEPT ![p].cookie = TRUE,
                            ![p].exitWin = IF n = NoNode THEN @ ELSE @ \cup {n}]
  BY DEF WinEnd, At
<1>2. ProcessInv'
  BY WinEndStep DEF LifeInv
<1>3. /\ TypeOK /\ mem \in [Proc -> Image] /\ mem[p] \in Image
      /\ EndPart(mem[p], th[p], calls[p])
  BY <1>1, LifeFacts DEF LifeInv, ProcessInv, TypeOK
<1>4. ~mem[p].finiDone /\ mem[p].exitWin = {}
  BY <1>1, <1>3 DEF EndPart
<1>5. /\ \A q \in Proc \ {p} : th'[q] = th[q]
      /\ \A u \in Thread \ {t} : th'[p][u] = th[p][u]
      /\ th'[p][t].pc = "shootdown" /\ th'[p][t].ctx = th[p][t].ctx
  <2>1. "shootdown" \in Loc
    BY DEF Loc, EndLoc
  <2>2. Went(p, t, "shootdown")
    BY <1>1, <1>3, <2>1, GotoFacts
  <2> QED
    BY <2>2 DEF Went
<1>6. \A u \in Thread : th'[p][u].pc \notin ForkLoc
  <2>1. "endProcess" \notin {"none", "app"} \cup Lib /\ "endProcess" \notin ForkLoc
        /\ "shootdown" \notin ForkLoc
    BY DEF Lib, ForkLoc
  <2>2. ForkPart(mem[p], th[p])
    BY <1>1, AliveFacts DEF LifeInv
  <2>3. \A u \in Thread \ {t} : th[p][u].pc \notin ForkLoc
    BY <1>1, <2>1, <2>2 DEF ForkPart
  <2> QED
    BY <1>5, <2>1, <2>3
<1>7. /\ mem'[p].node = mem[p].node /\ mem'[p].used = mem[p].used
      /\ mem'[p].finiDone = mem[p].finiDone /\ mem'[p].cookie
      /\ mem'[p].exitWin \subseteq {n} /\ \A q \in Proc \ {p} : mem'[q] = mem[q]
  <2> DEFINE w == IF n = NoNode THEN {} ELSE {n}
  <2>1. mem'[p] = [mem[p] EXCEPT !.cookie = TRUE, !.exitWin = w]
    BY <1>1, <1>3, <1>4
  <2>2. w \subseteq {n} /\ \A q \in Proc \ {p} : mem'[q] = mem[q]
    BY <1>1, <1>3
  <2> HIDE DEF w, n
  <2> QED
    BY <1>3, <2>1, <2>2 DEF Image
<1>8. OnlyBy(p, t)
  BY <1>1, <1>5, <1>7 DEF OnlyBy, OnlyIn
<1>9. NodePart(mem'[p], th'[p])
  BY <1>1, <1>7, <1>8, NodeKept
<1>10. n = GetTn(mem'[p], t)
  BY <1>7 DEF GetTn
<1>11. \A u \in Thread \ {t} : th[p][u].pc # "shootdown"
  <2>1. OncePart(mem[p], th[p], calls[p])
    BY <1>1, LifeFacts
  <2> QED
    BY <1>1, <2>1 DEF OncePart
<1> HIDE DEF n
<1>12. EndPart(mem'[p], th'[p], calls'[p])
  <2>1. ASSUME NEW u \in Thread
        PROVE  /\ th'[p][u].pc = "shootdown" => mem'[p].exitWin \subseteq {GetTn(mem'[p], u)}
               /\ th'[p][u].pc = "finiProcess" => calls'[p].fini = 1
               /\ th'[p][u].ctx = "exiting" => calls'[p].fini = 1
               /\ th'[p][u].pc \in Lib /\ th'[p][u].how = "exit" => calls'[p].fini = 1
    <3>1. CASE u = t
      BY <3>1, <1>1, <1>3, <1>5, <1>7, <1>10 DEF EndPart, Lib
    <3>2. CASE u # t
      <4>1. th'[p][u] = th[p][u]
        BY <1>5, <3>2
      <4> QED
        BY <3>2, <4>1, <1>1, <1>3, <1>11 DEF EndPart
    <3> QED
      BY <3>1, <3>2
  <2> QED
    BY <1>4, <1>5, <1>6, <1>7, <2>1 DEF EndPart
<1>13. LifeInv'
  BY <1>2, <1>8, <1>9, <1>12, LifeFrame DEF LifeOK, OnlyBy
<1> QED
  BY <1>1, <1>13

LEMMA ShootdownLife ==
  ASSUME LifeInv, NEW p \in Proc, NEW t \in Thread, Shootdown(p, t)
  PROVE  LifeInv' /\ status' = status
         /\ (\A q \in Proc \ {p} : calls'[q] = calls[q])
         /\ calls[p].fini = 0 /\ calls'[p].fini = 1
<1>1. /\ status[p] = "alive" /\ th[p][t].pc = "shootdown" /\ status' = status
      /\ Goto(p, t, "finiProcess") /\ calls' = [calls EXCEPT ![p].fini = @ + 1]
      /\ mem' = [mem EXCEPT ![p].inCleanup = @ \/ mem[p].used]
  BY DEF Shootdown, At
<1>2. ProcessInv' /\ calls[p].fini = 0 /\ calls'[p].fini = 1
  BY ShootdownStep DEF LifeInv
<1>3. /\ TypeOK /\ mem \in [Proc -> Image] /\ mem[p] \in Image
      /\ EndPart(mem[p], th[p], calls[p]) /\ OncePart(mem[p], th[p], calls[p])
      /\ calls \in [Proc -> [init : Nat, fini : Nat]]
  BY <1>1, LifeFacts DEF LifeInv, ProcessInv, TypeOK
<1>4. /\ \A q \in Proc \ {p} : th'[q] = th[q]
      /\ \A u \in Thread \ {t} : th'[p][u] = th[p][u]
      /\ th'[p][t].pc = "finiProcess"
  <2>1. "finiProcess" \in Loc
    BY DEF Loc, EndLoc
  <2>2. TypeOK /\ Goto(p, t, "finiProcess")
    BY <1>1, <1>3
  <2>3. Went(p, t, "finiProcess")
    BY <2>1, <2>2, GotoFacts
  <2> QED
    BY <2>3 DEF Went
<1>5. /\ mem'[p].node = mem[p].node /\ mem'[p].used = mem[p].used /\ mem'[p].cookie
      /\ \A q \in Proc \ {p} : mem'[q] = mem[q]
  <2>1. mem'[p] = [mem[p] EXCEPT !.inCleanup = mem[p].inCleanup \/ mem[p].used]
    BY <1>1, <1>3
  <2>2. mem[p].cookie
    BY <1>1, <1>3 DEF OncePart
  <2> QED
    BY <1>1, <1>3, <2>1, <2>2 DEF Image
<1>6. OnlyBy(p, t) /\ \A q \in Proc \ {p} : calls'[q] = calls[q]
  BY <1>1, <1>3, <1>4, <1>5 DEF OnlyBy, OnlyIn
<1>7. NodePart(mem'[p], th'[p])
  BY <1>1, <1>5, <1>6, NodeKept
<1>8. \A u \in Thread : th'[p][u].pc # "shootdown"
  BY <1>1, <1>3, <1>4 DEF OncePart
<1>9. \A u \in Thread : th'[p][u].pc \notin ForkLoc
  <2>1. "finiProcess" \notin ForkLoc
    BY DEF ForkLoc
  <2>2. \A u \in Thread : th[p][u].pc \notin ForkLoc
    BY <1>1, <1>3 DEF EndPart, OncePart
  <2> QED
    BY <1>4, <2>1, <2>2
<1>10. EndPart(mem'[p], th'[p], calls'[p])
  BY <1>2, <1>5, <1>8, <1>9 DEF EndPart
<1>11. LifeInv'
  BY <1>2, <1>6, <1>7, <1>10, LifeFrame DEF LifeOK, OnlyBy
<1> QED
  BY <1>1, <1>2, <1>6, <1>11

\* The first pthread_create binds the caller to the main node; the others are
\* not there yet.
LEMMA CreateEnterLife ==
  ASSUME SerialFork, LifeInv, NEW p \in Proc, NEW t \in Thread, CreateEnter(p, t)
  PROVE  LifeInv' /\ status' = status
<1>1. ProcessInv' /\ OnlyBy(p, t) /\ TypeOK'
  BY CreateEnterStep DEF LifeInv
<1>2. /\ status[p] = "alive" /\ status' = status /\ th[p][t].pc = "app"
      /\ ~Forked(th[p]) /\ mem[p].insideFork = FALSE
  <2>1. /\ status[p] = "alive" /\ status' = status /\ th[p][t].pc = "app"
        /\ ~Forked(th[p]) /\ ~mem[p].insideFork
    BY CallFacts DEF CreateEnter, LifeInv
  <2> QED
    BY <2>1, LifeFacts DEF Image
<1>3. /\ TypeOK /\ mem \in [Proc -> Image] /\ mem[p] \in Image
      /\ EndPart(mem[p], th[p], calls[p]) /\ NodePart(mem[p], th[p])
  BY <1>2, LifeFacts DEF LifeInv, ProcessInv, TypeOK
<1>4. calls'[p].fini = calls[p].fini
  BY <1>2, CountFacts DEF CreateEnter, LifeInv
<1>5. /\ \A u \in Thread \ {t} : th'[p][u] = th[p][u]
      /\ th'[p][t].pc = "mkLock" /\ th'[p][t].ctx = th[p][t].ctx
  <2>1. "mkLock" \in Loc
    BY DEF Loc, CreateLoc
  <2>2. Goto(p, t, "mkLock")
    BY DEF CreateEnter
  <2>3. TypeOK /\ \A u \in Thread \ {t} : th'[p][u] = th[p][u]
    BY <1>1, <1>3 DEF OnlyBy
  <2>4. th \in [Proc -> [Thread -> Slot]] /\ th[p][t] \in Slot
    BY <2>3 DEF TypeOK
  <2>5. th'[p][t] = [th[p][t] EXCEPT !.pc = "mkLock"]
    BY <2>2, <2>4 DEF Goto
  <2> QED
    BY <2>3, <2>4, <2>5 DEF Slot
<1> DEFINE b == BeginProcess(mem[p], t, FALSE)
<1>6. mem'[p] = ThreadListInit(b, t)
  BY <1>2, <1>3 DEF CreateEnter
<1>7. /\ b \in Image /\ b.used = mem[p].used /\ b.node = mem[p].node
      /\ b.exitWin = mem[p].exitWin /\ b.cookie = mem[p].cookie
      /\ b.finiDone => mem[p].finiDone
  <2>1. Begun(mem[p], b)
    BY <1>3, BeginFacts
  <2> QED
    BY <2>1 DEF Begun
<1> HIDE DEF b
<1>8. CASE mem[p].used
  <2>1. mem'[p] = b
    BY <1>6, <1>7, <1>8 DEF ThreadListInit
  <2> QED
    BY <1>1, <1>2, <1>4, <1>5, <1>7, <2>1, PlainLife DEF Lib, ForkLoc
<1>9. CASE ~mem[p].used
  <2>1. \A u \in Thread \ {t} : th[p][u].pc = "none" /\ th'[p][u].pc = "none"
    BY <1>2, <1>3, <1>5, <1>9 DEF NodePart, GetTn
  <2>2. mem'[p] = [b EXCEPT !.used = TRUE, !.linked = {}, !.node[t] = MainTn]
    BY <1>6, <1>7, <1>9 DEF ThreadListInit
  <2>3. mem'[p].used /\ mem'[p].exitWin = mem[p].exitWin /\ mem'[p].cookie = mem[p].cookie
        /\ mem'[p].finiDone = b.finiDone
    BY <1>7, <2>2 DEF Image
  <2>4. mem'[p].node[t] = MainTn
    <3>1. b.node \in [Thread -> Node \cup {NoNode}]
      BY <1>7 DEF Image
    <3> QED
      BY <1>7, <2>2, <3>1 DEF Image
  <2>5. NodePart(mem'[p], th'[p])
    BY <2>1, <2>3, <2>4 DEF NodePart, GetTn
  <2>6. EndPart(mem'[p], th'[p], calls'[p])
    <3>1. \A u \in Thread : th[p][u].pc # "shootdown"
      BY <1>2, <2>1
    <3>2. /\ th'[p][t].pc \notin {"shootdown", "finiProcess"} \cup Lib \cup ForkLoc
          /\ th[p][t].pc # "shootdown"
      BY <1>2, <1>5 DEF Lib, ForkLoc
    <3>3. th'[p][t].ctx = "exiting" => calls[p].fini = 1
      BY <1>3, <1>5 DEF EndPart
    <3> QED
      BY <1>1, <1>2, <1>4, <1>7, <2>3, <3>1, <3>2, <3>3, EndKept
  <2>7. LifeOK(mem'[p], th'[p], calls'[p]) /\ OnlyIn(p) /\ ProcessInv'
    BY <1>1, <2>5, <2>6 DEF LifeOK, OnlyBy
  <2> QED
    BY <1>2, <2>7, LifeFrame
<1> QED
  BY <1>2, <1>8, <1>9

\* The new thread has a node of its own.
LEMMA LaunchLife ==
  ASSUME LifeInv, NEW p \in Proc, NEW t \in Thread, NEW v \in Thread, Launch(p, t, v)
  PROVE  LifeInv' /\ status' = status /\ calls' = calls
<1>1. /\ ProcessInv' /\ OnlyIn(p) /\ calls' = calls /\ v # t
      /\ \A u \in Thread \ {t, v} : th'[p][u] = th[p][u]
      /\ th'[p][t].pc = "app" /\ th'[p][v].pc = "link"
      /\ th'[p][t].ctx = th[p][t].ctx /\ th'[p][v].ctx = "main"
  BY LaunchStep DEF LifeInv
<1>2. /\ status[p] = "alive" /\ th[p][t].pc = "launch" /\ th[p][v].pc = "none"
      /\ status' = status
      /\ mem' = [mem EXCEPT ![p].node[v] = v, ![p].exitWin = @ \ {v}]
  BY DEF Launch, At
<1>3. /\ mem \in [Proc -> Image] /\ mem[p] \in Image
      /\ NodePart(mem[p], th[p]) /\ EndPart(mem[p], th[p], calls[p])
      /\ InitPart(mem[p], th[p], calls[p]) /\ MainTn \notin Thread
  BY <1>2, LifeFacts, AliveFacts, Constants DEF LifeInv, ProcessInv, TypeOK
<1>4. /\ mem'[p].used = mem[p].used /\ mem'[p].node[v] = v
      /\ \A u \in Thread \ {v} : mem'[p].node[u] = mem[p].node[u]
      /\ mem'[p].exitWin \subseteq mem[p].exitWin
      /\ mem'[p].cookie = mem[p].cookie /\ mem'[p].finiDone = mem[p].finiDone
  <2> DEFINE n == [mem[p].node EXCEPT ![v] = v]
             w == mem[p].exitWin \ {v}
  <2>1. mem[p].node \in [Thread -> Node \cup {NoNode}]
    BY <1>3 DEF Image
  <2>2. n[v] = v /\ (\A u \in Thread \ {v} : n[u] = mem[p].node[u]) /\ w \subseteq mem[p].exitWin
    BY <2>1
  <2>3. mem'[p] = [mem[p] EXCEPT !.node = n, !.exitWin = w]
    BY <1>2, <1>3 DEF Image
  <2> HIDE DEF n, w
  <2> QED
    BY <1>3, <2>2, <2>3 DEF Image
<1>5. mem[p].used
  BY <1>2, <1>3 DEF InitPart, CreateLoc
<1>6. /\ GetTn(mem'[p], v) = v
      /\ \A u \in Thread \ {v} : GetTn(mem'[p], u) = GetTn(mem[p], u)
  BY <1>4, <1>5 DEF GetTn
<1>7. \A u \in Thread \ {v} : th'[p][u].pc # "none" => th[p][u].pc # "none"
  BY <1>1, <1>2
<1>8. NodePart(mem'[p], th'[p])
  <2>1. \A u \in Thread \ {v} : th'[p][u].pc # "none" => GetTn(mem'[p], u) \in {u, MainTn}
    BY <1>3, <1>6, <1>7 DEF NodePart
  <2>2. \A u \in Thread \ {v} : th'[p][u].pc # "none" => GetTn(mem'[p], u) # v
    BY <1>3, <2>1
  <2>3. ASSUME NEW u \in Thread, NEW x \in Thread,
               th'[p][u].pc # "none", th'[p][x].pc # "none",
               GetTn(mem'[p], u) = GetTn(mem'[p], x)
        PROVE  u = x
    <3>1. CASE u = v \/ x = v
      BY <1>6, <2>2, <2>3, <3>1
    <3>2. CASE u # v /\ x # v
      BY <1>3, <1>6, <1>7, <2>3, <3>2 DEF NodePart
    <3> QED
      BY <3>1, <3>2
  <2> QED
    BY <1>6, <2>1, <2>3 DEF NodePart
<1>9. EndPart(mem'[p], th'[p], calls'[p])
  <2>1. \A u \in Thread : th[p][u].pc = "shootdown" => th'[p][u].pc = "shootdown"
    BY <1>1, <1>2
  <2>2. mem'[p].cookie => calls'[p].fini = 1 \/ \E u \in Thread : th'[p][u].pc = "shootdown"
    BY <1>1, <1>3, <1>4, <2>1 DEF EndPart
  <2>3. ASSUME NEW u \in Thread
        PROVE  /\ th'[p][u].pc \in ForkLoc => ~mem'[p].cookie
               /\ th'[p][u].pc = "shootdown" => mem'[p].exitWin \subseteq {GetTn(mem'[p], u)}
               /\ th'[p][u].pc = "finiProcess" => calls'[p].fini = 1
               /\ th'[p][u].ctx = "exiting" => calls'[p].fini = 1
               /\ th'[p][u].pc \in Lib /\ th'[p][u].how = "exit" => calls'[p].fini = 1
    <3>1. CASE u = t
      BY <1>1, <1>3, <3>1 DEF EndPart, ForkLoc, Lib
    <3>2. CASE u = v
      BY <1>1, <3>2 DEF ForkLoc, Lib
    <3>3. CASE u # t /\ u # v
      <4>1. th'[p][u] = th[p][u] /\ GetTn(mem'[p], u) = GetTn(mem[p], u)
        BY <1>1, <1>6, <3>3
      <4> QED
        BY <1>1, <1>3, <1>4, <4>1 DEF EndPart
    <3> QED
      BY <3>1, <3>2, <3>3
  <2> QED
    BY <1>1, <1>3, <1>4, <2>2, <2>3 DEF EndPart
<1>10. LifeInv'
  BY <1>1, <1>8, <1>9, LifeFrame DEF LifeOK
<1> QED
  BY <1>1, <1>2, <1>10

LEMMA ThreadEndLife ==
  ASSUME SerialFork, LifeInv, NEW p \in Proc, NEW t \in Thread, ThreadEnd(p, t)
  PROVE  LifeInv' /\ status' = status /\ calls' = calls
<1>1. /\ ProcessInv' /\ OnlyBy(p, t) /\ calls' = calls
      /\ th'[p][t].pc = "none" /\ th'[p][t].ctx = "main"
  BY ThreadEndStep DEF LifeInv
<1>2. /\ status[p] = "alive" /\ th[p][t].pc = "app" /\ status' = status
      /\ mem' = [mem EXCEPT ![p].linked = IF mem[p].inCleanup THEN @ ELSE @ \ {t},
                            ![p].node[t] = NoNode]
  BY DEF ThreadEnd, Call, At
<1>3. /\ mem \in [Proc -> Image] /\ mem[p] \in Image
      /\ NodePart(mem[p], th[p]) /\ EndPart(mem[p], th[p], calls[p])
      /\ \A u \in Thread \ {t} : th'[p][u] = th[p][u]
  BY <1>1, <1>2, LifeFacts DEF LifeInv, ProcessInv, TypeOK, OnlyBy
<1>4. /\ mem'[p].used = mem[p].used /\ mem'[p].exitWin = mem[p].exitWin
      /\ \A u \in Thread \ {t} : mem'[p].node[u] = mem[p].node[u]
      /\ mem'[p].cookie = mem[p].cookie /\ mem'[p].finiDone = mem[p].finiDone
  <2> DEFINE n == [mem[p].node EXCEPT ![t] = NoNode]
             w == IF mem[p].inCleanup THEN mem[p].linked ELSE mem[p].linked \ {t}
  <2>1. mem[p].node \in [Thread -> Node \cup {NoNode}]
    BY <1>3 DEF Image
  <2>2. \A u \in Thread \ {t} : n[u] = mem[p].node[u]
    BY <2>1
  <2>3. mem'[p] = [mem[p] EXCEPT !.linked = w, !.node = n]
    BY <1>2, <1>3 DEF Image
  <2> HIDE DEF n, w
  <2> QED
    BY <1>3, <2>2, <2>3 DEF Image
<1>5. \A u \in Thread \ {t} : GetTn(mem'[p], u) = GetTn(mem[p], u)
  BY <1>4 DEF GetTn
<1>6. NodePart(mem'[p], th'[p])
  <2>1. \A u \in Thread : th'[p][u].pc # "none" => u # t /\ th[p][u].pc # "none"
    BY <1>1, <1>3
  <2> QED
    BY <1>3, <1>5, <2>1 DEF NodePart
<1>7. EndPart(mem'[p], th'[p], calls'[p])
  <2>1. /\ th'[p][t].pc \notin {"shootdown", "finiProcess"} \cup ForkLoc \cup Lib
        /\ \A u \in Thread : th[p][u].pc = "shootdown" => GetTn(mem'[p], u) = GetTn(mem[p], u)
    BY <1>1, <1>2, <1>5 DEF ForkLoc, Lib
  <2> QED
    BY <1>1, <1>2, <1>4, <2>1, EndKept
<1>8. LifeInv'
  BY <1>1, <1>6, <1>7, LifeFrame DEF LifeOK, OnlyBy
<1> QED
  BY <1>1, <1>2, <1>8

\* One thread, and an end that has not begun.
LEMMA AloneLife ==
  ASSUME NEW m, NEW s, NEW c, NEW t \in Thread,
         \A u \in Thread \ {t} : s[u].pc = "none" /\ s[u].ctx # "exiting",
         GetTn(m, t) \in {t, MainTn}, s[t].pc \in {"app", "forkChild"},
         s[t].ctx # "exiting", ~m.cookie, m.exitWin = {}, ~m.finiDone
  PROVE  LifeOK(m, s, c)
<1>1. NodePart(m, s)
  BY DEF NodePart
<1>2. "app" \notin Lib /\ "forkChild" \notin Lib /\ "none" \notin Lib /\ "none" \notin ForkLoc
  BY DEF Lib, ForkLoc
<1>3. EndPart(m, s, c)
  BY <1>2 DEF EndPart
<1> QED
  BY <1>1, <1>3 DEF LifeOK

\* A child is born while the end of its parent has not begun.
LEMMA InForkFacts ==
  ASSUME LifeInv, NEW p \in Proc, NEW t \in Thread, status[p] = "alive",
         th[p][t].pc \in ForkLoc
  PROVE  /\ ~mem[p].cookie /\ mem[p].exitWin = {} /\ ~mem[p].finiDone
         /\ calls[p].fini = 0 /\ th[p][t].ctx # "exiting"
         /\ GetTn(mem[p], t) \in {t, MainTn}
<1>1. /\ NodePart(mem[p], th[p]) /\ EndPart(mem[p], th[p], calls[p])
      /\ OncePart(mem[p], th[p], calls[p])
  BY LifeFacts
<1>2. ~mem[p].cookie /\ mem[p].exitWin = {} /\ ~mem[p].finiDone /\ calls[p].fini = 0
  BY <1>1 DEF EndPart, OncePart
<1>3. th[p][t].ctx # "exiting"
  BY <1>1, <1>2 DEF EndPart
<1>4. th[p][t].pc # "none"
  BY DEF ForkLoc
<1> QED
  BY <1>1, <1>2, <1>3, <1>4 DEF NodePart

LEMMA ForkChildLife ==
  ASSUME LifeInv, NEW p \in Proc, NEW t \in Thread, ForkChild(p, t)
  PROVE  LifeInv' /\ status' = status
         /\ (\A q \in Proc \ {p} : calls'[q] = calls[q])
         /\ calls[p].init = 0 /\ calls'[p].init = 1
         /\ calls[p].fini = 0 /\ calls'[p].fini = 0
<1>1. /\ ProcessInv' /\ OnlyBy(p, t)
      /\ calls[p].init = 0 /\ calls'[p].init = 1 /\ calls'[p].fini = calls[p].fini
      /\ th[p][t].pc = "forkChild" /\ ~mem'[p].used /\ mem'[p].cookie = mem[p].cookie
      /\ \A u \in Thread \ {t} : th'[p][u].pc = "none"
      /\ th'[p][t].pc = "app" /\ th'[p][t].ctx = th[p][t].ctx
  BY ForkChildStep DEF LifeInv
<1>2. status[p] = "alive" /\ status' = status
  BY DEF ForkChild, At
<1>3. /\ ~mem[p].cookie /\ mem[p].exitWin = {} /\ ~mem[p].finiDone
      /\ calls[p].fini = 0 /\ th[p][t].ctx # "exiting"
  BY <1>1, <1>2, InForkFacts DEF ForkLoc
<1>4. /\ mem \in [Proc -> Image] /\ mem[p] \in Image /\ mem[p].insideFork = TRUE
      /\ EndPart(mem[p], th[p], calls[p])
  <2>1. mem[p].insideFork = TRUE
    BY <1>1, <1>2, ForkPartFacts DEF LifeInv, ForkLoc
  <2>2. mem[p] \in Image /\ EndPart(mem[p], th[p], calls[p])
    BY <1>2, LifeFacts
  <2> QED
    BY <2>1, <2>2 DEF LifeInv, ProcessInv, TypeOK
<1>5. mem'[p].exitWin = {} /\ ~mem'[p].finiDone
  <2> DEFINE r == ResetThreadList(mem[p], t)
             b == BeginProcess(mem[p], t, TRUE)
  <2>1. mem'[p] = [b EXCEPT !.insideFork = FALSE]
    BY <1>4 DEF ForkChild
  <2>2. b = [[r EXCEPT !.insideFork = FALSE] EXCEPT !.finiLib = FALSE, !.finiDone = FALSE,
                                                    !.initCalled = TRUE]
    BY DEF BeginProcess, RunsInit
  <2>3. r \in Image /\ r.exitWin = {}
    <3> DEFINE w == IF GetTn(mem[p], t) \in Thread THEN mem[p].exitWin \ {MainTn} ELSE mem[p].exitWin
               n == [u \in Thread |-> NoNode]
    <3>1. CASE mem[p].used
      <4>1. w = {} /\ n \in [Thread -> Node \cup {NoNode}]
        BY <1>3
      <4>2. r = [mem[p] EXCEPT !.used = FALSE, !.linked = {}, !.node = n, !.exitWin = w]
        BY <3>1, <1>4 DEF ResetThreadList, Image
      <4> HIDE DEF w, n, r
      <4> QED
        BY <4>1, <4>2, <1>4 DEF Image
    <3>2. CASE ~mem[p].used
      BY <3>2, <1>3, <1>4 DEF ResetThreadList
    <3> QED
      BY <3>1, <3>2
  <2> HIDE DEF r
  <2>4. b.exitWin = {} /\ b.finiDone = FALSE /\ b \in Image
    BY <2>2, <2>3 DEF Image
  <2> HIDE DEF b
  <2> QED
    BY <2>1, <2>4 DEF Image
<1>6. \A u \in Thread \ {t} : th'[p][u].ctx # "exiting"
  <2>1. \A u \in Thread \ {t} : th'[p][u] = th[p][u]
    BY <1>1 DEF OnlyBy
  <2> QED
    BY <2>1, <1>3, <1>4 DEF EndPart
<1>7. GetTn(mem'[p], t) = MainTn
  BY <1>1 DEF GetTn
<1>8. LifeOK(mem'[p], th'[p], calls'[p])
  BY <1>1, <1>3, <1>5, <1>6, <1>7, AloneLife
<1>9. (\A q \in Proc \ {p} : calls'[q] = calls[q]) /\ OnlyIn(p)
  BY <1>1 DEF OnlyBy, OnlyIn
<1> QED
  BY <1>1, <1>2, <1>3, <1>8, <1>9, LifeFrame

LEMMA StartLife == LifeOK(FreshImage, StartSlots, NoCalls)
<1>1. /\ StartSlots[Main].pc = "app" /\ StartSlots[Main].ctx = "pre" /\ Main \in Thread
      /\ \A t \in Thread \ {Main} : StartSlots[t].pc = "none" /\ StartSlots[t].ctx = "main"
  BY NoSlotsType, Constants
<1>2. /\ GetTn(FreshImage, Main) = MainTn /\ ~FreshImage.cookie
      /\ FreshImage.exitWin = {} /\ ~FreshImage.finiDone
  BY DEF FreshImage, GetTn
<1> QED
  BY <1>1, <1>2, AloneLife

\* Steps of two processes.
LEMMA LifeFrameTwo ==
  ASSUME LifeInv, ProcessInv', NEW p \in Proc, NEW c \in Proc,
         \A q \in Proc \ {p, c} : /\ status'[q] = status[q] /\ mem'[q] = mem[q]
                                  /\ th'[q] = th[q] /\ calls'[q] = calls[q],
         status'[p] = "alive" => LifeOK(mem'[p], th'[p], calls'[p]),
         status'[c] = "alive" => LifeOK(mem'[c], th'[c], calls'[c])
  PROVE  LifeInv'
<1>1. ASSUME NEW q \in Proc, status'[q] = "alive"
      PROVE  NodePart(mem'[q], th'[q]) /\ EndPart(mem'[q], th'[q], calls'[q])
  <2>1. CASE q \in {p, c}
    BY <1>1, <2>1 DEF LifeOK
  <2>2. CASE q \notin {p, c}
    BY <1>1, <2>2 DEF LifeInv
  <2> QED
    BY <2>1, <2>2
<1> QED
  BY <1>1 DEF LifeInv

LEMMA RealForkLife ==
  ASSUME LifeInv, NEW p \in Proc, NEW t \in Thread, NEW c \in Proc, RealFork(p, t, c)
  PROVE  /\ LifeInv' /\ calls' = calls /\ calls[c] = NoCalls
         /\ status[p] = "alive" /\ status[c] = "unborn" /\ status'[c] = "alive"
         /\ \A q \in Proc \ {c} : status'[q] = status[q]
<1>1. /\ status[p] = "alive" /\ th[p][t].pc = "forking" /\ status[c] = "unborn" /\ p # c
      /\ mem' = [mem EXCEPT ![c] = mem[p]] /\ calls' = calls
      /\ status' = [status EXCEPT ![c] = "alive"]
      /\ th' = [th EXCEPT ![p][t].pc = "forkParent",
                          ![c] = Slots(t, [th[p][t] EXCEPT !.pc = "forkChild"])]
  BY DEF RealFork, At
<1>2. /\ ProcessInv' /\ mem \in [Proc -> Image] /\ th \in [Proc -> [Thread -> Slot]]
      /\ status \in [Proc -> {"unborn", "alive", "dead"}] /\ th[p][t] \in Slot
      /\ calls[c] = NoCalls /\ NodePart(mem[p], th[p]) /\ EndPart(mem[p], th[p], calls[p])
  <2>1. ProcessInv /\ ProcessInv'
    BY RealForkStep DEF LifeInv
  <2>2. /\ mem \in [Proc -> Image] /\ th \in [Proc -> [Thread -> Slot]]
        /\ status \in [Proc -> {"unborn", "alive", "dead"}] /\ calls[c] = NoCalls
    BY <1>1, <2>1 DEF ProcessInv, TypeOK
  <2>3. NodePart(mem[p], th[p]) /\ EndPart(mem[p], th[p], calls[p])
    BY <1>1, LifeFacts
  <2> QED
    BY <2>1, <2>2, <2>3
<1>3. /\ ~mem[p].cookie /\ mem[p].exitWin = {} /\ ~mem[p].finiDone
      /\ calls[p].fini = 0 /\ th[p][t].ctx # "exiting"
      /\ GetTn(mem[p], t) \in {t, MainTn}
  BY <1>1, InForkFacts DEF ForkLoc
<1>4. /\ \A q \in Proc \ {c} : mem'[q] = mem[q] /\ status'[q] = status[q]
      /\ mem'[c] = mem[p] /\ status'[c] = "alive"
  BY <1>1, <1>2
<1> DEFINE s == [th[p][t] EXCEPT !.pc = "forkChild"]
<1>5. s \in Slot /\ s.pc = "forkChild" /\ s.ctx = th[p][t].ctx
  BY <1>2 DEF Slot, Loc, ForkLoc
<1> HIDE DEF s
<1>6. /\ Slots(t, s)[t] = s
      /\ \A u \in Thread \ {t} : Slots(t, s)[u].pc = "none" /\ Slots(t, s)[u].ctx = "main"
  BY <1>5, SlotsFacts
<1>7. /\ th'[c] = Slots(t, s)
      /\ \A q \in Proc \ {p, c} : th'[q] = th[q]
      /\ \A u \in Thread \ {t} : th'[p][u] = th[p][u]
      /\ th'[p][t].pc = "forkParent" /\ th'[p][t].ctx = th[p][t].ctx
      /\ th'[p][t].how = th[p][t].how
  <2> DEFINE h == [th[p] EXCEPT ![t] = [th[p][t] EXCEPT !.pc = "forkParent"]]
  <2>1. h[t].pc = "forkParent" /\ h[t].ctx = th[p][t].ctx /\ h[t].how = th[p][t].how
        /\ \A u \in Thread \ {t} : h[u] = th[p][u]
    BY <1>2 DEF Slot
  <2>2. th' = [[th EXCEPT ![p] = h] EXCEPT ![c] = Slots(t, s)]
    BY <1>1, <1>2 DEF s
  <2> HIDE DEF h
  <2> QED
    BY <1>1, <1>2, <2>1, <2>2
<1>8. LifeOK(mem'[c], th'[c], calls'[c])
  BY <1>3, <1>4, <1>5, <1>6, <1>7, AloneLife
<1>9. LifeOK(mem'[p], th'[p], calls'[p])
  <2>1. mem'[p] = mem[p] /\ calls'[p] = calls[p]
    BY <1>1, <1>4
  <2>2. NodePart(mem'[p], th'[p])
    <3>1. \A u \in Thread : th'[p][u].pc # "none" => th[p][u].pc # "none"
      BY <1>1, <1>7
    <3> QED
      BY <1>2, <2>1, <3>1 DEF NodePart
  <2>3. ASSUME NEW u \in Thread
        PROVE  /\ th'[p][u].pc \in ForkLoc => ~mem'[p].cookie
               /\ th'[p][u].pc = "shootdown" => mem'[p].exitWin \subseteq {GetTn(mem'[p], u)}
               /\ th'[p][u].pc = "finiProcess" => calls'[p].fini = 1
               /\ th'[p][u].ctx = "exiting" => calls'[p].fini = 1
               /\ th'[p][u].pc \in Lib /\ th'[p][u].how = "exit" => calls'[p].fini = 1
    <3>1. CASE u = t
      BY <1>3, <1>7, <2>1, <3>1 DEF Lib
    <3>2. CASE u # t
      <4>1. th'[p][u] = th[p][u]
        BY <1>7, <3>2
      <4> QED
        BY <1>2, <2>1, <4>1 DEF EndPart
    <3> QED
      BY <3>1, <3>2
  <2>4. EndPart(mem'[p], th'[p], calls'[p])
    BY <1>3, <2>1, <2>3 DEF EndPart
  <2> QED
    BY <2>2, <2>4 DEF LifeOK
<1>10. LifeInv'
  <2>1. \A q \in Proc \ {p, c} : /\ status'[q] = status[q] /\ mem'[q] = mem[q]
                                /\ th'[q] = th[q] /\ calls'[q] = calls[q]
    BY <1>1, <1>4, <1>7
  <2> QED
    BY <1>2, <1>8, <1>9, <2>1, LifeFrameTwo
<1> QED
  BY <1>1, <1>2, <1>4, <1>10

LEMMA SystemLife ==
  ASSUME SerialFork, LifeInv, NEW p \in Proc, NEW t \in Thread, NEW c \in Proc,
         System(p, t, c)
  PROVE  /\ LifeInv' /\ calls' = calls /\ calls[c] = NoCalls
         /\ status[p] = "alive" /\ status[c] = "unborn" /\ status'[c] \in {"alive", "dead"}
         /\ \A q \in Proc \ {c} : status'[q] = status[q]
<1>1. /\ status[p] = "alive" /\ th[p][t].pc = "app" /\ status[c] = "unborn" /\ p # c
      /\ UNCHANGED <<mem, calls>>
  BY DEF System, Call, At
<1>2. PICK s \in {"alive", "dead"} :
         /\ status' = [status EXCEPT ![c] = s]
         /\ th' = [th EXCEPT ![p][t].pc = "wait", ![p][t].kid = c,
                             ![c] = IF s = "alive" THEN StartSlots ELSE NoSlots]
  BY DEF System
<1>3. /\ ProcessInv' /\ th \in [Proc -> [Thread -> Slot]] /\ th[p][t] \in Slot
      /\ status \in [Proc -> {"unborn", "alive", "dead"}]
      /\ calls[c] = NoCalls /\ mem[c] = FreshImage
      /\ NodePart(mem[p], th[p]) /\ EndPart(mem[p], th[p], calls[p])
  BY <1>1, SystemStep, LifeFacts DEF LifeInv, ProcessInv, TypeOK
<1>4. /\ \A q \in Proc \ {c} : status'[q] = status[q]
      /\ status'[c] = s
  BY <1>2, <1>3
<1>5. /\ s = "alive" => th'[c] = StartSlots
      /\ \A q \in Proc \ {p, c} : th'[q] = th[q]
      /\ \A u \in Thread \ {t} : th'[p][u] = th[p][u]
      /\ th'[p][t].pc = "wait" /\ th'[p][t].ctx = th[p][t].ctx
  <2> DEFINE h == [th[p] EXCEPT ![t] = [th[p][t] EXCEPT !.pc = "wait", !.kid = c]]
             k == IF s = "alive" THEN StartSlots ELSE NoSlots
  <2>1. h[t].pc = "wait" /\ h[t].ctx = th[p][t].ctx
        /\ \A u \in Thread \ {t} : h[u] = th[p][u]
    BY <1>3 DEF Slot
  <2>2. th' = [[th EXCEPT ![p] = h] EXCEPT ![c] = k]
    BY <1>1, <1>2, <1>3
  <2>3. s = "alive" => k = StartSlots
    OBVIOUS
  <2> HIDE DEF h, k
  <2> QED
    BY <1>1, <1>3, <2>1, <2>2, <2>3
<1>6. LifeOK(mem'[p], th'[p], calls'[p])
  <2>1. mem'[p] = mem[p] /\ calls'[p] = calls[p]
    BY <1>1
  <2>2. NodePart(mem'[p], th'[p])
    <3>1. \A u \in Thread : th'[p][u].pc # "none" => th[p][u].pc # "none"
      BY <1>1, <1>5
    <3> QED
      BY <1>3, <2>1, <3>1 DEF NodePart
  <2>3. ASSUME NEW u \in Thread
        PROVE  /\ th'[p][u].pc \in ForkLoc => ~mem'[p].cookie
               /\ th'[p][u].pc = "shootdown" => mem'[p].exitWin \subseteq {GetTn(mem'[p], u)}
               /\ th'[p][u].pc = "finiProcess" => calls'[p].fini = 1
               /\ th'[p][u].ctx = "exiting" => calls'[p].fini = 1
               /\ th'[p][u].pc \in Lib /\ th'[p][u].how = "exit" => calls'[p].fini = 1
    <3>1. CASE u = t
      BY <1>3, <1>5, <2>1, <3>1 DEF EndPart, Lib, ForkLoc
    <3>2. CASE u # t
      <4>1. th'[p][u] = th[p][u]
        BY <1>5, <3>2
      <4> QED
        BY <1>3, <2>1, <4>1 DEF EndPart
    <3> QED
      BY <3>1, <3>2
  <2>4. mem'[p].cookie => calls'[p].fini = 1 \/ \E u \in Thread : th'[p][u].pc = "shootdown"
    <3>1. \A u \in Thread : th[p][u].pc = "shootdown" => th'[p][u].pc = "shootdown"
      BY <1>1, <1>5
    <3> QED
      BY <1>3, <2>1, <3>1 DEF EndPart
  <2>5. EndPart(mem'[p], th'[p], calls'[p])
    BY <1>3, <2>1, <2>3, <2>4 DEF EndPart
  <2> QED
    BY <2>2, <2>5 DEF LifeOK
<1>7. status'[c] = "alive" => LifeOK(mem'[c], th'[c], calls'[c])
  <2>1. mem'[c] = FreshImage /\ calls'[c] = NoCalls
    BY <1>1, <1>3
  <2> QED
    BY <1>4, <1>5, <2>1, StartLife
<1>8. LifeInv'
  <2>1. \A q \in Proc \ {p, c} : /\ status'[q] = status[q] /\ mem'[q] = mem[q]
                                /\ th'[q] = th[q] /\ calls'[q] = calls[q]
    BY <1>1, <1>4, <1>5
  <2> QED
    BY <1>3, <1>6, <1>7, <2>1, LifeFrameTwo
<1> QED
  BY <1>1, <1>3, <1>4, <1>8

LEMMA DieLife ==
  ASSUME LifeInv, NEW p \in Proc, NEW t \in Thread, Die(p, t)
  PROVE  /\ LifeInv' /\ calls' = calls /\ status[p] = "alive" /\ status'[p] = "dead"
         /\ calls[p].fini = 1 /\ \A q \in Proc \ {p} : status'[q] = status[q]
<1>1. /\ status[p] = "alive" /\ calls' = calls /\ th[p][t].pc = "libDone"
      /\ th[p][t].how = "exit" /\ status' = [status EXCEPT ![p] = "dead"]
      /\ th' = [th EXCEPT ![p] = NoSlots] /\ mem' = [mem EXCEPT ![p] = FreshImage]
  BY DEF Die, At
<1>2. ProcessInv' /\ TypeOK
  BY DieStep DEF LifeInv, ProcessInv
<1>3. calls[p].fini = 1
  <2>1. EndPart(mem[p], th[p], calls[p]) /\ "libDone" \in Lib
    BY <1>1, LifeFacts DEF Lib
  <2> QED
    BY <1>1, <2>1 DEF EndPart
<1>4. /\ status'[p] = "dead"
      /\ \A q \in Proc \ {p, p} : /\ status'[q] = status[q] /\ mem'[q] = mem[q]
                                  /\ th'[q] = th[q] /\ calls'[q] = calls[q]
  BY <1>1, <1>2 DEF TypeOK
<1>5. LifeInv'
  BY <1>2, <1>4, LifeFrameTwo
<1> QED
  BY <1>1, <1>3, <1>4, <1>5

LEMMA RealExecLife ==
  ASSUME LifeInv, NEW p \in Proc, NEW t \in Thread, RealExec(p, t)
  PROVE  /\ LifeInv' /\ status' = status /\ status[p] = "alive" /\ calls'[p] = NoCalls
         /\ \A q \in Proc \ {p} : calls'[q] = calls[q]
<1>1. /\ status[p] = "alive" /\ status' = status
      /\ calls' = [calls EXCEPT ![p] = NoCalls]
      /\ th' = [th EXCEPT ![p] = StartSlots] /\ mem' = [mem EXCEPT ![p] = FreshImage]
  BY DEF RealExec, At
<1>2. ProcessInv' /\ TypeOK
  BY RealExecStep DEF LifeInv, ProcessInv
<1>3. /\ mem'[p] = FreshImage /\ th'[p] = StartSlots /\ calls'[p] = NoCalls
      /\ \A q \in Proc \ {p} : /\ status'[q] = status[q] /\ mem'[q] = mem[q]
                               /\ th'[q] = th[q] /\ calls'[q] = calls[q]
  BY <1>1, <1>2 DEF TypeOK
<1>4. LifeInv'
  BY <1>1, <1>2, <1>3, StartLife, LifeFrame DEF OnlyIn
<1> QED
  BY <1>1, <1>3, <1>4

-----------------------------------------------------------------------------
(* Processes behave as ProcessLife. *)

\* LifeOf, of a status and the callbacks.
LifeVal(s, c) ==
    CASE s # "alive" -> s
      [] s = "alive" /\ c.fini > 0 -> "ended"
      [] s = "alive" /\ c.fini = 0 /\ c.init > 0 -> "running"
      [] OTHER -> "new"

LEMMA LifeVals ==
  ASSUME NEW s, NEW c \in [init : Nat, fini : Nat]
  PROVE  /\ s # "alive" => LifeVal(s, c) = s
         /\ s = "alive" /\ c.fini > 0 => LifeVal(s, c) = "ended"
         /\ s = "alive" /\ c.fini = 0 /\ c.init > 0 => LifeVal(s, c) = "running"
         /\ s = "alive" /\ c.fini = 0 /\ c.init = 0 => LifeVal(s, c) = "new"
BY DEF LifeVal

LifeMap == [p \in Proc |-> LifeVal(status[p], calls[p])]

LEMMA LifeMapIs ==
  /\ [p \in Proc |-> LifeOf(p)] = LifeMap
  /\ [p \in Proc |-> LifeOf(p)]' = LifeMap'
<1>1. \A p \in Proc : LifeOf(p) = LifeVal(status[p], calls[p])
  BY DEF LifeOf, LifeVal
<1>2. \A p \in Proc : LifeOf(p)' = LifeVal(status'[p], calls'[p])
  BY DEF LifeOf, LifeVal
<1> QED
  BY <1>1, <1>2 DEF LifeMap

LEMMA LifeSame ==
  ASSUME status' = status, calls' = calls
  PROVE  LifeMap' = LifeMap
BY DEF LifeMap

LEMMA LifeChange ==
  ASSUME NEW p \in Proc,
         \A q \in Proc \ {p} : status'[q] = status[q] /\ calls'[q] = calls[q]
  PROVE  LifeMap' = [LifeMap EXCEPT ![p] = LifeVal(status'[p], calls'[p])]
BY DEF LifeMap

\* An init_process counted, or not.
LEMMA CountLife ==
  ASSUME TypeOK, TypeOK', NEW p \in Proc, status[p] = "alive", status' = status,
         \A q \in Proc \ {p} : calls'[q] = calls[q],
         calls[p].fini = calls'[p].fini,
         calls[p].init <= 1, calls'[p].init = 1
  PROVE  \/ LifeMap' = LifeMap
         \/ LifeMap[p] = "new" /\ LifeMap' = [LifeMap EXCEPT ![p] = "running"]
<1>1. /\ calls[p] \in [init : Nat, fini : Nat] /\ calls'[p] \in [init : Nat, fini : Nat]
      /\ LifeMap[p] = LifeVal(status[p], calls[p])
      /\ LifeMap' = [LifeMap EXCEPT ![p] = LifeVal(status'[p], calls'[p])]
      /\ LifeMap = [LifeMap EXCEPT ![p] = LifeMap[p]]
  BY LifeChange DEF TypeOK, LifeMap
<1>2. CASE calls[p].init = 0 /\ calls[p].fini = 0
  <2>1. status'[p] = "alive" /\ calls'[p].fini = 0 /\ calls'[p].init > 0
    BY <1>2
  <2>2. LifeVal(status[p], calls[p]) = "new"
    BY <1>1, <1>2, LifeVals
  <2>3. LifeVal(status'[p], calls'[p]) = "running"
    BY <1>1, <2>1, LifeVals
  <2> QED
    BY <1>1, <2>2, <2>3
<1>3. CASE calls[p].fini > 0
  <2>1. status'[p] = "alive" /\ calls'[p].fini > 0
    BY <1>3
  <2>2. LifeVal(status[p], calls[p]) = "ended"
    BY <1>1, <1>3, LifeVals
  <2>3. LifeVal(status'[p], calls'[p]) = "ended"
    BY <1>1, <2>1, LifeVals
  <2> QED
    BY <1>1, <2>2, <2>3
<1>4. CASE calls[p].init = 1 /\ calls[p].fini = 0
  <2>1. status'[p] = "alive" /\ calls'[p].fini = 0 /\ calls'[p].init > 0
    BY <1>4
  <2>2. LifeVal(status[p], calls[p]) = "running"
    BY <1>1, <1>4, LifeVals
  <2>3. LifeVal(status'[p], calls'[p]) = "running"
    BY <1>1, <2>1, LifeVals
  <2> QED
    BY <1>1, <2>2, <2>3
<1> QED
  BY <1>1, <1>2, <1>3, <1>4

\* What a step does to the life of the processes.
LifeStep ==
    \/ LifeMap' = LifeMap
    \/ \E p \in Proc :
         \/ LifeMap[p] = "new" /\ LifeMap' = [LifeMap EXCEPT ![p] = "running"]
         \/ LifeMap[p] \in {"new", "running"} /\ LifeMap' = [LifeMap EXCEPT ![p] = "ended"]
         \/ LifeMap[p] = "ended" /\ LifeMap' = [LifeMap EXCEPT ![p] = "dead"]
         \/ LifeMap[p] \notin {"unborn", "dead"} /\ LifeMap' = [LifeMap EXCEPT ![p] = "new"]
         \/ \E c \in Proc : /\ LifeMap[p] \notin {"unborn", "dead"} /\ LifeMap[c] = "unborn"
                            /\ \E s \in {"new", "dead"} : LifeMap' = [LifeMap EXCEPT ![c] = s]

LEMMA LifeStepIs == LifeStep => [Life!Next]_([p \in Proc |-> LifeOf(p)])
BY LifeMapIs DEF LifeStep, Life!Next, Life!InitProcess, Life!FiniProcess, Life!Exit, Life!Exec,
      Life!Fork, Life!Alive

LEMMA LifeMapFacts ==
  ASSUME ProcessInv, NEW p \in Proc
  PROVE  /\ calls[p] \in [init : Nat, fini : Nat] /\ calls[p].init <= 1
         /\ LifeMap[p] = LifeVal(status[p], calls[p])
         /\ status[p] = "alive" => LifeMap[p] \in {"new", "running", "ended"}
         /\ status[p] = "alive" /\ calls[p].fini = 0 => LifeMap[p] \in {"new", "running"}
         /\ status[p] = "alive" /\ calls[p].fini = 1 => LifeMap[p] = "ended"
         /\ status[p] = "unborn" => LifeMap[p] = "unborn"
<1>1. /\ calls[p] \in [init : Nat, fini : Nat] /\ calls[p].init <= 1
      /\ LifeMap[p] = LifeVal(status[p], calls[p])
  BY DEF ProcessInv, TypeOK, LifeMap
<1>2. calls[p].fini = 0 \/ calls[p].fini > 0
  BY <1>1
<1>3. calls[p].init = 0 \/ calls[p].init > 0
  BY <1>1
<1> QED
  BY <1>1, <1>2, <1>3, LifeVals

\* Steps that neither begin nor end a process and give it no callback.
LEMMA StillLife ==
  ASSUME LifeInv', status' = status, calls' = calls
  PROVE  LifeInv' /\ LifeStep
BY LifeSame DEF LifeStep

LEMMA BornStep ==
  ASSUME ProcessInv, NEW p \in Proc, NEW c \in Proc,
         calls' = calls, calls[c] = NoCalls, status[p] = "alive", status[c] = "unborn",
         status'[c] \in {"alive", "dead"},
         \A q \in Proc \ {c} : status'[q] = status[q]
  PROVE  LifeStep
<1>1. LifeMap[p] \notin {"unborn", "dead"} /\ LifeMap[c] = "unborn"
  BY LifeMapFacts
<1>2. LifeVal(status'[c], calls'[c]) \in {"new", "dead"}
  BY DEF LifeVal, NoCalls
<1>3. LifeMap' = [LifeMap EXCEPT ![c] = LifeVal(status'[c], calls'[c])]
  BY LifeChange
<1> QED
  BY <1>1, <1>2, <1>3 DEF LifeStep

LEMMA NextLife ==
  ASSUME SerialFork, NoLateFork, LifeInv, [Next]_vars
  PROVE  LifeInv' /\ LifeStep
<1>0. ProcessInv /\ TypeOK
  BY DEF LifeInv, ProcessInv
<1>1. CASE UNCHANGED vars
  <2>1. mem' = mem /\ th' = th /\ status' = status /\ calls' = calls
    BY <1>1 DEF vars
  <2>2. ProcessInv'
    BY <1>0, NextProcessInv
  <2>3. LifeInv'
    BY <2>1, <2>2 DEF LifeInv
  <2> QED
    BY <2>1, <2>3, StillLife
<1>2. ASSUME NEW p \in Proc, MainStart(p) PROVE LifeInv' /\ LifeStep
  <2>1. LifeInv' /\ status' = status
    BY <1>2, MainStartLife
  <2>2. status[p] = "alive" /\ ~Forked(th[p]) /\ CountInit(p, FALSE) /\ Main \in Thread
    BY <1>0, <1>2, CallFacts, Constants DEF MainStart
  <2>3. TypeOK'
    BY <1>0, <1>2, MainStartStep
  <2>4. /\ \A q \in Proc \ {p} : calls'[q] = calls[q]
        /\ calls'[p].init = 1 /\ calls'[p].fini = calls[p].fini
    BY <1>0, <2>2, CountFacts
  <2>5. calls[p].init <= 1
    BY <1>0, LifeMapFacts
  <2>6. LifeStep
    BY <1>0, <2>1, <2>2, <2>3, <2>4, <2>5, CountLife DEF LifeStep
  <2> QED
    BY <2>1, <2>6
<1>3. ASSUME NEW p \in Proc, NEW t \in Thread, CreateEnter(p, t) PROVE LifeInv' /\ LifeStep
  <2>1. LifeInv' /\ status' = status
    BY <1>3, CreateEnterLife
  <2>2. status[p] = "alive" /\ ~Forked(th[p]) /\ CountInit(p, FALSE)
    <3>1. Call(p, t) /\ CountInit(p, mem[p].insideFork) /\ mem[p] \in Image
      BY <1>0, <1>3 DEF CreateEnter, TypeOK
    <3>2. status[p] = "alive" /\ ~Forked(th[p]) /\ ~mem[p].insideFork
      BY <1>0, <3>1, CallFacts
    <3>3. mem[p].insideFork = FALSE
      BY <3>1, <3>2 DEF Image
    <3> QED
      BY <3>1, <3>2, <3>3
  <2>3. TypeOK'
    BY <1>0, <1>3, CreateEnterStep
  <2>4. /\ \A q \in Proc \ {p} : calls'[q] = calls[q]
        /\ calls'[p].init = 1 /\ calls'[p].fini = calls[p].fini
    BY <1>0, <2>2, CountFacts
  <2>5. calls[p].init <= 1
    BY <1>0, LifeMapFacts
  <2>6. LifeStep
    BY <1>0, <2>1, <2>2, <2>3, <2>4, <2>5, CountLife DEF LifeStep
  <2> QED
    BY <2>1, <2>6
<1>4. ASSUME NEW p \in Proc, NEW t \in Thread, GoingOn(p, t) PROVE LifeInv' /\ LifeStep
  BY <1>4, GoingOnLife, StillLife
<1>5. ASSUME NEW p \in Proc, NEW t \in Thread, CallStep(p, t) PROVE LifeInv' /\ LifeStep
  <2>1. CASE CreateEnter(p, t)
    BY <2>1, <1>3
  <2>2. CASE ThreadEnd(p, t)
    BY <2>2, ThreadEndLife, StillLife
  <2>3. CASE ForkEnter(p, t)
    BY <2>3, ForkEnterLife, StillLife
  <2>4. ASSUME NEW c \in Proc, System(p, t, c) PROVE LifeInv' /\ LifeStep
    <3>1. /\ LifeInv' /\ calls' = calls /\ calls[c] = NoCalls
          /\ status[p] = "alive" /\ status[c] = "unborn" /\ status'[c] \in {"alive", "dead"}
          /\ \A q \in Proc \ {c} : status'[q] = status[q]
      BY <2>4, SystemLife
    <3>2. LifeStep
      BY <1>0, <3>1, BornStep
    <3> QED
      BY <3>1, <3>2
  <2>5. CASE Exit(p, t) \/ \E b \in BOOLEAN : Exec(p, t, b)
    BY <2>5, <1>4 DEF GoingOn
  <2> QED
    BY <1>5, <2>1, <2>2, <2>3, <2>4, <2>5 DEF CallStep
<1>6. ASSUME NEW p \in Proc, NEW t \in Thread, CreateStep(p, t) PROVE LifeInv' /\ LifeStep
  <2>1. CASE MakeNodeLock(p, t) \/ LinkLock(p, t) \/ MakeNode(p, t)
    BY <2>1, LockLife, StillLife
  <2>2. ASSUME NEW u \in Thread, Launch(p, t, u) PROVE LifeInv' /\ LifeStep
    BY <2>2, LaunchLife, StillLife
  <2>3. CASE LaunchFails(p, t)
    BY <2>3, <1>4 DEF GoingOn
  <2>4. CASE LinkNode(p, t)
    BY <2>4, LinkNodeLife, StillLife
  <2> QED
    BY <1>6, <2>1, <2>2, <2>3, <2>4 DEF CreateStep
<1>7. ASSUME NEW p \in Proc, NEW t \in Thread, ForkStep(p, t) PROVE LifeInv' /\ LifeStep
  <2>1. ASSUME NEW c \in Proc, RealFork(p, t, c) PROVE LifeInv' /\ LifeStep
    <3>1. /\ LifeInv' /\ calls' = calls /\ calls[c] = NoCalls
          /\ status[p] = "alive" /\ status[c] = "unborn" /\ status'[c] = "alive"
          /\ \A q \in Proc \ {c} : status'[q] = status[q]
      BY <2>1, RealForkLife
    <3>2. LifeStep
      BY <1>0, <3>1, BornStep
    <3> QED
      BY <3>1, <3>2
  <2>2. CASE ForkFails(p, t) \/ ForkParent(p, t)
    BY <2>2, ForkReturnLife, StillLife
  <2>3. CASE ForkChild(p, t)
    <3>1. /\ LifeInv' /\ status' = status /\ \A q \in Proc \ {p} : calls'[q] = calls[q]
          /\ calls[p].init = 0 /\ calls'[p].init = 1
          /\ calls[p].fini = 0 /\ calls'[p].fini = 0
      BY <2>3, ForkChildLife
    <3>2. TypeOK' /\ status[p] = "alive"
      BY <1>0, <2>3, ForkChildStep DEF ForkChild, At
    <3>3. LifeStep
      BY <1>0, <3>1, <3>2, CountLife DEF LifeStep
    <3> QED
      BY <3>1, <3>3
  <2>4. CASE SystemReturn(p, t)
    BY <2>4, <1>4 DEF GoingOn
  <2> QED
    BY <1>7, <2>1, <2>2, <2>3, <2>4 DEF ForkStep
<1>8. ASSUME NEW p \in Proc, NEW t \in Thread, EndStep(p, t) PROVE LifeInv' /\ LifeStep
  <2>1. CASE WinEnd(p, t)
    BY <2>1, WinEndLife, StillLife
  <2>2. CASE Shootdown(p, t)
    <3>1. /\ LifeInv' /\ status' = status /\ status[p] = "alive"
          /\ \A q \in Proc \ {p} : calls'[q] = calls[q]
          /\ calls[p].fini = 0 /\ calls'[p].fini = 1
      BY <2>2, ShootdownLife DEF Shootdown, At
    <3>2. LifeMap[p] \in {"new", "running"}
      BY <1>0, <3>1, LifeMapFacts
    <3>3. calls'[p] \in [init : Nat, fini : Nat]
      BY <3>1 DEF LifeInv, ProcessInv, TypeOK
    <3>4. LifeVal(status'[p], calls'[p]) = "ended"
      BY <3>1, <3>3, LifeVals
    <3>5. LifeMap' = [LifeMap EXCEPT ![p] = "ended"]
      BY <3>1, <3>4, LifeChange
    <3> QED
      BY <3>1, <3>2, <3>5 DEF LifeStep
  <2>3. CASE GoingOn(p, t)
    BY <2>3, <1>4
  <2>4. CASE Die(p, t)
    <3>1. /\ LifeInv' /\ calls' = calls /\ status[p] = "alive" /\ status'[p] = "dead"
          /\ calls[p].fini = 1 /\ \A q \in Proc \ {p} : status'[q] = status[q]
      BY <2>4, DieLife
    <3>2. LifeMap[p] = "ended" /\ calls[p] \in [init : Nat, fini : Nat]
      BY <1>0, <3>1, LifeMapFacts
    <3>3. LifeVal(status'[p], calls'[p]) = "dead"
      BY <3>1, <3>2, LifeVals
    <3>4. LifeMap' = [LifeMap EXCEPT ![p] = "dead"]
      BY <3>1, <3>3, LifeChange
    <3> QED
      BY <3>1, <3>2, <3>4 DEF LifeStep
  <2>5. CASE RealExec(p, t)
    <3>1. /\ LifeInv' /\ status' = status /\ status[p] = "alive" /\ calls'[p] = NoCalls
          /\ \A q \in Proc \ {p} : calls'[q] = calls[q]
      BY <2>5, RealExecLife
    <3>2. LifeMap[p] \notin {"unborn", "dead"}
      BY <1>0, <3>1, LifeMapFacts
    <3>3. LifeVal("alive", NoCalls) = "new"
      BY DEF LifeVal, NoCalls
    <3>4. LifeMap' = [LifeMap EXCEPT ![p] = "new"]
      BY <3>1, <3>3, LifeChange
    <3> QED
      BY <3>1, <3>2, <3>4 DEF LifeStep
  <2> QED
    BY <1>8, <2>1, <2>2, <2>3, <2>4, <2>5 DEF EndStep, GoingOn
<1> QED
  BY <1>1, <1>2, <1>5, <1>6, <1>7, <1>8 DEF Next, Terminated

\* The inductive invariant with what it says of the end of a process.
THEOREM LifeInvariant == ASSUME SerialFork, NoLateFork PROVE Spec => []LifeInv
<1>1. Init => LifeInv
  <2> SUFFICES ASSUME Init PROVE LifeInv
    OBVIOUS
  <2>1. ProcessInv
    BY InitProcessInv
  <2>2. ASSUME NEW p \in Proc, status[p] = "alive"
        PROVE  NodePart(mem[p], th[p]) /\ EndPart(mem[p], th[p], calls[p])
    <3>1. mem[p] = FreshImage /\ th[p] = StartSlots /\ calls[p] = NoCalls
      BY <2>2 DEF Init
    <3> QED
      BY <3>1, StartLife DEF LifeOK
  <2> QED
    BY <2>1, <2>2 DEF LifeInv
<1>2. LifeInv /\ [Next]_vars => LifeInv'
  BY NextLife
<1> QED
  BY <1>1, <1>2, PTL DEF Spec

\* Every process under monitor lives as ProcessLife says: init_process, then
\* fini_process, each once in an image, and no process that ends by exit ends
\* without its fini_process.
THEOREM LifeRefined == ASSUME SerialFork, NoLateFork PROVE Spec => ImplementsLife
<1>1. Init => Life!Init
  <2> SUFFICES ASSUME Init PROVE Life!Init
    OBVIOUS
  <2>1. ASSUME NEW p \in Proc
        PROVE  LifeVal(status[p], calls[p]) = IF p = Root THEN "new" ELSE "unborn"
    <3>1. calls[p] = NoCalls /\ status[p] = IF p = Root THEN "alive" ELSE "unborn"
      BY DEF Init
    <3> QED
      BY <3>1 DEF LifeVal, NoCalls
  <2>2. LifeMap = [p \in Proc |-> IF p = Root THEN "new" ELSE "unborn"]
    BY <2>1 DEF LifeMap
  <2> QED
    BY <2>2, LifeMapIs DEF Life!Init
<1>2. LifeInv /\ [Next]_vars => [Life!Next]_([p \in Proc |-> LifeOf(p)])
  BY NextLife, LifeStepIs
<1> QED
  BY <1>1, <1>2, LifeInvariant, PTL DEF Spec, ImplementsLife, Life!Spec
=============================================================================
