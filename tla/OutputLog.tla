----------------------------- MODULE OutputLog ------------------------------
(***************************************************************************)
(* What the collated output of papiex promises to whoever reads the two    *)
(* files of a host when a session is over: at most one header, and at most *)
(* one row of each process, each of them added as a whole.                 *)
(***************************************************************************)
EXTENDS Sequences

CONSTANT Proc

VARIABLES
    header,   \* the processes that wrote the lines of the header file
    rows      \* the processes that wrote the lines of the data file

vars == <<header, rows>>

Init == header = <<>> /\ rows = <<>>

PutHeader(p) ==
    /\ header = <<>>
    /\ header' = <<p>>
    /\ UNCHANGED rows

PutRow(p) ==
    /\ \A i \in DOMAIN rows : rows[i] # p
    /\ rows' = Append(rows, p)
    /\ UNCHANGED header

Next == \E p \in Proc : PutHeader(p) \/ PutRow(p)

Spec == Init /\ [][Next]_vars
=============================================================================
