------------------------------ MODULE ExitGate ------------------------------
(***************************************************************************)
(* What monitor_end_process_fcn promises to the threads that call it: one  *)
(* thread wins and keeps the gate closed while it runs the callbacks; all  *)
(* the others wait at the gate until it is open.  A thread may ask again   *)
(* from anywhere (a signal handler calls exit too); if the winner asks     *)
(* again, its callbacks have had their chance and the gate opens.          *)
(* MonitorExit is shown to implement this.                                 *)
(***************************************************************************)
CONSTANTS Thread, NoThread

VARIABLES
    at,      \* "out", "asking", "won" or "waiting"
    winner,  \* the first thread that asked, or NoThread
    open     \* is the gate open?

gateVars == <<at, winner, open>>

Init ==
    /\ at = [t \in Thread |-> "out"]
    /\ winner = NoThread
    /\ open = FALSE

Move(t, from, to) == at[t] \in from /\ at' = [at EXCEPT ![t] = to]

\* A call of exit; a fatal signal calls it from inside the gate.
Ask(t) ==
    /\ Move(t, {"out", "asking", "won", "waiting"}, "asking")
    /\ UNCHANGED <<winner, open>>

Win(t) ==
    /\ winner = NoThread
    /\ Move(t, {"asking"}, "won")
    /\ winner' = t
    /\ UNCHANGED open

Wait(t) ==
    /\ winner \notin {NoThread, t}
    /\ Move(t, {"asking"}, "waiting")
    /\ UNCHANGED <<winner, open>>

\* The callbacks have returned, or the winner asks again.
Open(t) ==
    /\ winner = t
    /\ Move(t, {"won", "asking"}, "out")
    /\ open' = TRUE
    /\ UNCHANGED winner

Pass(t) ==
    /\ open
    /\ Move(t, {"waiting"}, "out")
    /\ UNCHANGED <<winner, open>>

Next == \E t \in Thread : Ask(t) \/ Win(t) \/ Wait(t) \/ Open(t) \/ Pass(t)

Spec == Init /\ [][Next]_gateVars
=============================================================================
