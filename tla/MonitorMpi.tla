------------------------------ MODULE MonitorMpi ------------------------------
(***************************************************************************)
(* The MPI overrides of libmonitor (src/monitor/src/mpi.c, pmpi.c and the  *)
(* mpi_*.c shims): MPI_Init, MPI_Init_thread, MPI_Finalize, MPI_Comm_rank, *)
(* their PMPI names and three Fortran names each.  All the names of one    *)
(* call have one body and share one counter, so "init" and "fini" stand    *)
(* for all of them; a library's function may call another name of it, so   *)
(* that overrides nest.                                                    *)
(*                                                                         *)
(* What a thread is doing is a stack of frames, one for each override it   *)
(* is in.  A size or a rank is named after the communicator it was asked   *)
(* of; -1 is Unset.                                                        *)
(***************************************************************************)
EXTENDS Naturals, FiniteSets, SequencesExt

CONSTANTS
    Thread, Main,  \* Main calls MPI_Init and MPI_Finalize
    Comm,          \* communicators
    Bad,           \* a communicator that the library refuses
    Client,        \* what a client without MPI publishes
    Unset,
    Inner,         \* the calls in which the library asks for a rank itself
    MaxNest,       \* bound: overrides that are open in one thread
    MaxCalls       \* bound: calls that the application and the client make

ASSUME MpiAssumption ==
    /\ Main \in Thread
    /\ Bad \notin Comm /\ Client \notin Comm \cup {Bad} /\ Unset \notin Comm \cup {Bad, Client}
    /\ Inner \subseteq {"init", "fini"}
    /\ MaxNest \in Nat \ {0} /\ MaxCalls \in Nat

Op == {"init", "fini"}
Source == Comm \cup {Bad, Client, Unset}

\* at: "before" and "after" are in the callbacks, "real" in the library, "leave"
\* at the decrement; "test" to "close" in monitor_set_mpi_size_rank.
Frame == [op : Op \cup {"rank", "publish"},
          at : {"before", "real", "after", "leave", "test", "size", "rank", "close"},
          count : Nat, from : Source, appl : BOOLEAN]

VARIABLES
    count,      \* mpi_init_count and mpi_fini_count
    maxInit,    \* max_init_count
    size, rank, \* mpi_size and mpi_rank
    firstMpi,   \* first, in monitor_set_mpi_size_rank
    firstSet,   \* first, in monitor_set_size_rank
    stack,      \* the overrides that each thread is in
    lib,        \* the library: "none", "up" or "over"
    last,       \* the last callback that the client was given
    calls,      \* calls made so far (a bound)
    overlap,    \* history: two calls have set the size and the rank together
    told        \* history: an application's call of MPI_Comm_rank has returned

rankVars == <<size, rank, firstMpi, firstSet, overlap, told>>
vars == <<count, maxInit, rankVars, stack, lib, last, calls>>

Init ==
    /\ count = [o \in Op |-> 0] /\ maxInit = 0
    /\ size = Unset /\ rank = Unset
    /\ firstMpi = TRUE /\ firstSet = TRUE
    /\ stack = [t \in Thread |-> <<>>]
    /\ lib = "none" /\ last = "none" /\ calls = 0
    /\ overlap = FALSE /\ told = FALSE

Top(t) == Last(stack[t])
At(t, l) == stack[t] # <<>> /\ Top(t).at = l
Idle(t) == stack[t] = <<>>
InLibrary(t, ops) == At(t, "real") /\ Top(t).op \in ops

Push(t, f) == stack' = [stack EXCEPT ![t] = Append(@, f)]
Pop(t) == stack' = [stack EXCEPT ![t] = Front(@)]
Goto(t, l) == stack' = [stack EXCEPT ![t][Len(stack[t])].at = l]

Call == calls < MaxCalls /\ calls' = calls + 1

-----------------------------------------------------------------------------
(***************************************************************************)
(* The overrides of MPI_Init and MPI_Finalize.                             *)
(***************************************************************************)

BeforeName(o) == IF o = "init" THEN "pre_init" ELSE "fini"
AfterName(o)  == IF o = "init" THEN "init" ELSE "post_fini"

\* Fault: every override calls back.
CalledBackAlways(n) == n > 0

\* "call the callback function just once per application call".
CalledBack(n) == n = 1

\* The application may make the call now, or the library makes it itself.
MayEnter(t, o) ==
    \/ /\ Idle(t) /\ t = Main /\ Call
       /\ lib = (IF o = "init" THEN "none" ELSE "up")
       /\ o = "fini" => \A u \in Thread : Idle(u)
    \/ InLibrary(t, {o}) /\ Len(stack[t]) < MaxNest /\ UNCHANGED calls

\* Fault: the largest count is not kept.
EnterForgets(t, o) ==
    /\ MayEnter(t, o)
    /\ count' = [count EXCEPT ![o] = @ + 1]
    /\ Push(t, [op |-> o, at |-> IF CalledBack(count'[o]) THEN "before" ELSE "real",
                count |-> count'[o], from |-> Unset, appl |-> Idle(t)])
    /\ last' = IF CalledBack(count'[o]) THEN BeforeName(o) ELSE last
    /\ UNCHANGED <<maxInit, rankVars, lib>>

\* The count goes up, and the first of them calls back.
Enter(t, o) ==
    /\ MayEnter(t, o)
    /\ count' = [count EXCEPT ![o] = @ + 1]
    /\ maxInit' = IF count'["init"] > maxInit THEN count'["init"] ELSE maxInit
    /\ Push(t, [op |-> o, at |-> IF CalledBack(count'[o]) THEN "before" ELSE "real",
                count |-> count'[o], from |-> Unset, appl |-> Idle(t)])
    /\ last' = IF CalledBack(count'[o]) THEN BeforeName(o) ELSE last
    /\ UNCHANGED <<rankVars, lib>>

BeforeReturn(t) ==
    /\ At(t, "before")
    /\ Goto(t, "real")
    /\ UNCHANGED <<count, maxInit, rankVars, lib, last, calls>>

\* The library's function returns, with success or not: monitor does not look.
RealReturn(t) ==
    /\ At(t, "real")
    /\ LET o == Top(t).op IN
       /\ lib' \in {lib, IF o = "init" THEN "up" ELSE "over"}
       /\ Goto(t, IF CalledBack(Top(t).count) THEN "after" ELSE "leave")
       /\ last' = IF CalledBack(Top(t).count) THEN AfterName(o) ELSE last
    /\ UNCHANGED <<count, maxInit, rankVars, calls>>

AfterReturn(t) ==
    /\ At(t, "after")
    /\ Goto(t, "leave")
    /\ UNCHANGED <<count, maxInit, rankVars, lib, last, calls>>

Leave(t) ==
    /\ At(t, "leave")
    /\ count' = [count EXCEPT ![Top(t).op] = @ - 1]
    /\ Pop(t)
    /\ UNCHANGED <<maxInit, rankVars, lib, last, calls>>

-----------------------------------------------------------------------------
(***************************************************************************)
(* MPI_Comm_rank, and monitor_set_size_rank for clients without MPI.       *)
(***************************************************************************)

Asking(o, at, c, appl) ==
    [op |-> o, at |-> at, count |-> 0, from |-> c, appl |-> appl]

\* The override has asked the library for size and rank.  When it refuses, the
\* size stays -1 and the rank is what the caller's variable held.
CommRank(t, c) ==
    /\ \/ Idle(t) /\ lib = "up" /\ Call
       \/ InLibrary(t, Inner) /\ c \in Comm /\ UNCHANGED calls
    /\ Push(t, Asking("rank", "test", c, Idle(t)))
    /\ UNCHANGED <<count, maxInit, rankVars, lib, last>>

\* monitor_set_size_rank, called by the client in a callback or a thread of its own.
Publish(t) ==
    /\ Idle(t) \/ At(t, "before") \/ At(t, "after")
    /\ Call
    /\ Push(t, Asking("publish", "test", Client, FALSE))
    /\ UNCHANGED <<count, maxInit, rankVars, lib, last>>

\* Fault: whoever calls MPI_Comm_rank inside MPI_Init is taken at his word.
FirstRankAnywhere == firstMpi /\ maxInit > 0

\* "wait until after MPI_Init() finishes in case it calls MPI_Comm_rank() itself
\* with some other communicator".
FirstRank == firstMpi /\ count["init"] = 0 /\ maxInit > 0

Setting(u) == At(u, "size") \/ At(u, "rank") \/ At(u, "close")

\* The override returns to its caller.
RankReturns(t) ==
    /\ Pop(t)
    /\ told' = (told \/ (Top(t).appl /\ Top(t).from \in Comm /\ count["init"] = 0))

\* The tests of both functions, in one step; what they allow is stored in others.
TestRank(t) ==
    /\ At(t, "test")
    /\ IF (Top(t).op = "rank" => FirstRank)
         THEN /\ Goto(t, IF firstSet THEN "size" ELSE "close")
              /\ overlap' = (overlap \/ \E u \in Thread \ {t} : Setting(u))
              /\ UNCHANGED told
         ELSE RankReturns(t) /\ UNCHANGED overlap
    /\ UNCHANGED <<count, maxInit, size, rank, firstMpi, firstSet, lib, last, calls>>

\* Fault: the size is always asked of one communicator.
SetSizeFixed(t) ==
    /\ At(t, "size")
    /\ size' = CHOOSE c \in Comm : TRUE
    /\ Goto(t, "rank")
    /\ UNCHANGED <<count, maxInit, rank, firstMpi, firstSet, overlap, told, lib, last, calls>>

SetSize(t) ==
    /\ At(t, "size")
    /\ size' = IF Top(t).from = Bad THEN Unset ELSE Top(t).from
    /\ Goto(t, "rank")
    /\ UNCHANGED <<count, maxInit, rank, firstMpi, firstSet, overlap, told, lib, last, calls>>

SetRank(t) ==
    /\ At(t, "rank")
    /\ rank' = Top(t).from
    /\ Goto(t, "close")
    /\ UNCHANGED <<count, maxInit, size, firstMpi, firstSet, overlap, told, lib, last, calls>>

Close(t) ==
    /\ At(t, "close")
    /\ firstSet' = FALSE
    /\ firstMpi' = (firstMpi /\ Top(t).op # "rank")
    /\ RankReturns(t)
    /\ UNCHANGED <<count, maxInit, size, rank, overlap, lib, last, calls>>

-----------------------------------------------------------------------------

Step(t) ==
    \/ \E o \in Op : Enter(t, o)
    \/ BeforeReturn(t) \/ RealReturn(t) \/ AfterReturn(t) \/ Leave(t)
    \/ \E c \in Comm \cup {Bad} : CommRank(t, c)
    \/ Publish(t)
    \/ TestRank(t) \/ SetSize(t) \/ SetRank(t) \/ Close(t)

Next == \E t \in Thread : Step(t)

Spec == Init /\ [][Next]_vars

-----------------------------------------------------------------------------
(***************************************************************************)
(* Properties.                                                             *)
(***************************************************************************)

\* Types; only Main is ever in MPI_Init or MPI_Finalize.
TypeOK ==
    /\ count \in [Op -> Nat] /\ maxInit \in Nat
    /\ size \in Source \ {Bad} /\ rank \in Source
    /\ {firstMpi, firstSet, overlap, told} \subseteq BOOLEAN
    /\ stack \in [Thread -> Seq(Frame)]
    /\ \A t \in Thread \ {Main} : \A i \in DOMAIN stack[t] : stack[t][i].op \notin Op
    /\ lib \in {"none", "up", "over"} /\ calls \in Nat
    /\ last \in {"none", "pre_init", "init", "fini", "post_fini"}

\* The overrides of o that are open, by their place in the stack.
Open(o) == {i \in DOMAIN stack[Main] : stack[Main][i].op = o}

\* The counters say how deep the overrides are nested, and go back to nothing.
CountsNest == \A o \in Op : count[o] = Cardinality(Open(o))

\* The client gets one callback before and one after a call of the application,
\* however many names of it the library calls inside: "call the callback
\* function just once per application call" (mpi.c:59-61).
Callbacks == INSTANCE MpiCallbacks WITH
    real <- \E i \in DOMAIN stack[Main] : stack[Main][i].at = "real"

ImplementsCallbacks == Callbacks!Spec

\* "wait until after MPI_Init() finishes" (mpi.c:106-108): what a library asks
\* inside its own MPI_Init never becomes the size and the rank of the process.
NothingInside ==
    [][\A c \in Comm : Open("init") # {} =>
         (size' = c => size = c) /\ (rank' = c => rank = c)]_vars

\* "If called more than once, the first one wins" (mpi.c:82-83): what has been
\* set never changes, unless two calls overlap.
FirstWins ==
    [][~overlap' /\ rank # Unset => UNCHANGED <<size, rank>>]_vars

\* "ensures consistent answers" (mpi.c:83): size and rank are those of one
\* communicator, or of none, when no call is setting them and none overlapped.
OneSource ==
    ~overlap /\ (\A t \in Thread : ~Setting(t)) =>
        rank = size \/ (rank = Bad /\ size = Unset)

\* After the application has been told its rank outside MPI_Init, monitor knows
\* one too: "won't know the size/rank until that happens" (monitor/README:135-137).
KnownOnceTold == told => rank # Unset
=============================================================================
