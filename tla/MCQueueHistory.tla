--------------------------- MODULE MCQueueHistory ---------------------------
(* QueueHistory on small instances.                                        *)
EXTENDS QueueHistory, TLC

OneLane == {"general"}
Symmetry == Permutations(Counters) \cup Permutations(Requests) \cup Permutations(Customers)
=============================================================================
