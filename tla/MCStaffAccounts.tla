-------------------------- MODULE MCStaffAccounts --------------------------
(* StaffAccounts on small instances.                                       *)
EXTENDS StaffAccounts, TLC

BothLanes == {"general", "priority"}
CounterRole == {"counter_staff"}
Symmetry ==
  Permutations(Counters) \cup Permutations(Staff) \cup Permutations(Requests)
    \cup Permutations(AccountRequests)
=============================================================================
