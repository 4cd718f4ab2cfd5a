-------------------------- MODULE MCQueueLifecycle --------------------------
(* QueueLifecycle on small instances.                                      *)
EXTENDS QueueLifecycle, TLC

BothLanes == {"general", "priority"}
OneLane == {"general"}
Symmetry == Permutations(Counters) \cup Permutations(Requests) \cup Permutations(Customers)

(* A branch without counters: booking, walking in, checking in and moving. *)
ArrivalsSpec == Init /\ [][VisitStep \/ Tick]_vars

(* The lifecycle on a day the counters stay open: the instance starts with *)
(* every counter staffed, open and in the general lane, a state the        *)
(* counters' own steps lead to, and takes of those steps only the one that *)
(* begins a Call Next.  What it leaves out, the instances of StaffAccounts *)
(* and QueueHistory cover; in exchange it affords a longer clock.          *)
OpenInit ==
  /\ BookingsInit
  /\ counterStatus = [c \in Counters |-> "open"]
  /\ counterType = [c \in Counters |-> "general"]
  /\ \E staffing \in [Counters -> Staff] :
       /\ \A c, d \in Counters : staffing[c] = staffing[d] => c = d
       /\ assignedStaff = staffing
  /\ request = [r \in Requests |-> None]

CallOnly ==
  /\ UNCHANGED <<now, bookingVars, ticketVars>>
  /\ \E r \in Requests, c \in Counters : Desk!BeginCall(r, c)

OpenSpec == OpenInit /\ [][VisitStep \/ CallOnly \/ Tick]_vars
=============================================================================
