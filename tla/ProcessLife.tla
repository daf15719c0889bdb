----------------------------- MODULE ProcessLife -----------------------------
(***************************************************************************)
(* What a client of libmonitor may rely on about processes: each program   *)
(* image gets init_process, then fini_process, each at most once, and a    *)
(* process does not end without its fini_process.  fork starts a child     *)
(* that has had neither; exec starts a new image in the same process.      *)
(***************************************************************************)
CONSTANTS Proc, Root

VARIABLE life

Init == life = [p \in Proc |-> IF p = Root THEN "new" ELSE "unborn"]

Alive(p) == life[p] \notin {"unborn", "dead"}

InitProcess(p) ==
    /\ life[p] = "new"
    /\ life' = [life EXCEPT ![p] = "running"]

\* A process may exit before main, and then has had no init_process.
FiniProcess(p) ==
    /\ life[p] \in {"new", "running"}
    /\ life' = [life EXCEPT ![p] = "ended"]

\* fork, and the fork of system, whose child may fail to run the shell.
Fork(p, c) ==
    /\ Alive(p)
    /\ life[c] = "unborn"
    /\ \E s \in {"new", "dead"} : life' = [life EXCEPT ![c] = s]

\* Whether fini_process comes before an exec is only approximated.
Exec(p) ==
    /\ Alive(p)
    /\ life' = [life EXCEPT ![p] = "new"]

Exit(p) ==
    /\ life[p] = "ended"
    /\ life' = [life EXCEPT ![p] = "dead"]

Next ==
    \E p \in Proc :
        \/ InitProcess(p) \/ FiniProcess(p) \/ Exec(p) \/ Exit(p)
        \/ \E c \in Proc : Fork(p, c)

Spec == Init /\ [][Next]_life
=============================================================================
