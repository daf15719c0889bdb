--------------------------- MODULE MCPapiexOutput ---------------------------
(* Processes of a session, and their data, for TLC. *)
EXTENDS PapiexOutput

CONSTANTS p1, p2, p3, p4

\* p1 and p2 write collated output; p4 is a later process with the pid of p3.
OnePid == [p \in Proc |-> IF p = p4 THEN p3 ELSE p]
Options == [p \in Proc |-> p \in {p1, p2}]

TwoThreads == [p \in Proc |-> IF p = p1 THEN 2 ELSE 1]

\* With two threads of length 3 and a head of 4, the row of p1 fills a buffer of
\* 16 to the last place if its arguments have length 1, and spills over if 2.
Fits == [p \in Proc |-> 1]
Spills == [p \in Proc |-> 2]

\* p3 was ended by a thread other than its main thread (PapiexClient).
SomeFields == [p \in Proc |-> p # p3]
=============================================================================
