-------------------------- MODULE MCMonitorProcess --------------------------
(* Instances of MonitorProcess for TLC. *)
EXTENDS MonitorProcess, TLC

\* Children are interchangeable, and so are created threads.
Symmetry == Permutations(Proc \ {Root}) \cup Permutations(Thread \ {Main})
=============================================================================
