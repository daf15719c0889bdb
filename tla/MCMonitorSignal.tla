--------------------------- MODULE MCMonitorSignal ---------------------------
(***************************************************************************)
(* Two threads and three signals: shut, the first candidate that is        *)
(* allowed, which becomes the shootdown signal, and whose default does     *)
(* nothing (SIGWINCH); usr, which the client may take, which system        *)
(* ignores and blocks, and which ends a process; and urg, which monitor    *)
(* avoids.                                                                 *)
(***************************************************************************)
EXTENDS MonitorSignal

CandidateList == <<"urg", "shut">>
Masks == {{"shut", "usr"}}
Ignored == [hand |-> "ign", mask |-> {}]
Handled == [hand : Handler, mask : Masks]

\* shut is ignored, urg is handled; of usr the application asks for either.
Acts == [s \in Sig |-> CASE s = "shut" -> {Ignored}
                        [] s = "urg"  -> Handled
                        [] s = "usr"  -> {Ignored} \cup Handled]
=============================================================================
