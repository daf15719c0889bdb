----------------------------- MODULE MCMonitorMpi -----------------------------
(* An instance of MonitorMpi for TLC: the main thread and one more, the      *)
(* world communicator and another one.                                       *)
EXTENDS MonitorMpi, TLC
=============================================================================
