--------------------------- MODULE MCObjectTable ---------------------------
(* Model values for ObjectTable. *)
EXTENDS ObjectTable, TLC

CONSTANTS t1, t2, a, b, n1, ev, sem

Symmetry == Permutations({t1, t2}) \cup Permutations({a, b}) \cup Permutations({ev, sem})
=============================================================================
