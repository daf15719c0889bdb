----------------------------- MODULE MpiCallbacks -----------------------------
(***************************************************************************)
(* What a client is told of MPI_Init and MPI_Finalize: one callback before *)
(* and one after the library's own code, whatever the library's functions  *)
(* call inside.  A call that failed may be made again.                     *)
(***************************************************************************)

VARIABLES
    last,   \* the last callback that the client was given
    real    \* the library's own code runs

vars == <<last, real>>

Init == last = "none" /\ real = FALSE

Before(from, to) == ~real /\ last \in from /\ last' = to /\ UNCHANGED real

EnterReal ==
    /\ ~real /\ last \in {"pre_init", "fini"}
    /\ real' = TRUE
    /\ UNCHANGED last

After(from, to) == real /\ last = from /\ last' = to /\ real' = FALSE

Next ==
    \/ Before({"none", "init"}, "pre_init") \/ Before({"init", "post_fini"}, "fini")
    \/ EnterReal
    \/ After("pre_init", "init") \/ After("fini", "post_fini")

Spec == Init /\ [][Next]_vars
=============================================================================
