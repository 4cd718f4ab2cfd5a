------------------------ MODULE MCSlotConfiguration ------------------------
(* SlotConfiguration on a small instance.                                  *)
EXTENDS SlotConfiguration, TLC

Symmetry == Permutations(Bookings) \cup Permutations(Editors)
=============================================================================
