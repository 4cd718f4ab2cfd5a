--------------------------- MODULE MCWaitingTime ---------------------------
(* WaitingTime on small instances.                                         *)
EXTENDS WaitingTime, TLC

CONSTANT Resting  \* members of staff who pause their counter

OneLane == {"general"}
Symmetry == Permutations(Counters)

(* A day in one lane with staffed counters that are open at the start and  *)
(* are then paused and resumed; the instances of StaffAccounts and of      *)
(* QueueHistory cover their staffing, closing and configuration.           *)
LaneInit ==
  /\ BookingsInit
  /\ counterStatus = [c \in Counters |-> "open"]
  /\ counterType = [c \in Counters |-> "general"]
  /\ assignedStaff \in [Counters -> Staff]
  /\ \A c, d \in Counters : assignedStaff[c] = assignedStaff[d] => c = d
  /\ request = [r \in Requests |-> None]
  /\ serviceStartedAt = [b \in Bookings |-> None]

RunCounters ==
  /\ UNCHANGED <<now, bookingVars, ticketVars>>
  /\ \E c \in Counters :
       \/ assignedStaff[c] \in Resting /\ (Desk!PauseCounter(c) \/ Desk!ResumeCounter(c))
       \/ \E r \in Requests : Desk!BeginCall(r, c)

LaneSpec == LaneInit /\ [][(VisitStep \/ RunCounters \/ Tick) /\ ServiceClock]_timedVars
=============================================================================
