--------------------------- MODULE MCMonitorExit ---------------------------
(* Instances of MonitorExit for TLC. *)
EXTENDS MonitorExit, TLC

\* Side threads and nodes are interchangeable.  Sound for safety only.
Symmetry == Permutations(Side) \cup Permutations(Pool)
=============================================================================
