--------------------------- MODULE MCPapiexClient ---------------------------
(* The events that PAPIEX_OPTIONS names, in order, and the thread symmetry. *)
EXTENDS PapiexClient

CONSTANTS A, B, C

TwoEvents == <<A, B>>
ThreeEvents == <<A, B, C>>

Symmetry == Permutations(Thread \ {Main})
=============================================================================
