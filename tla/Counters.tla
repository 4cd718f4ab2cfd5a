------------------------------ MODULE Counters ------------------------------
(***************************************************************************)
(* Service counters of one branch: staffing, the OPEN / PAUSED / CLOSED    *)
(* lifecycle, and the two operations whose HTTP view reads the counter row *)
(* in one transaction and acts on it in a later one: Call Next and the     *)
(* System Admin's change of a counter's configuration.                     *)
(*                                                                         *)
(* Every service function of counters/services.py re-reads the row inside  *)
(* transaction.atomic(), so each is one action.  The database serialises   *)
(* writers, so an action never sees half of another one.                   *)
(*                                                                         *)
(* What happens to the tickets is not modelled here: "busy" is the set of  *)
(* counters a SERVING ticket is assigned to.  QueueLifecycle instantiates  *)
(* this module with that set computed from its tickets.                    *)
(***************************************************************************)
EXTENDS Integers, FiniteSets

CONSTANTS
  Counters,    \* the branch's counters
  Staff,       \* the Counter Staff of the branch
  Requests,    \* HTTP requests in flight between their read and their write
  QueueTypes,  \* the lanes: general and priority
  None         \* SQL NULL

ASSUME NoneAssumption ==
  /\ None \notin Staff
  /\ None \notin [op : {"call", "configure"}, counter : Counters, type : QueueTypes]

VARIABLES
  counterStatus,   \* Counter.status
  counterType,     \* Counter.queue_type
  assignedStaff,   \* Counter.assigned_staff
  busy,            \* counters with a SERVING ticket
  request          \* what each in-flight request has read so far

counterVars == <<counterStatus, counterType, assignedStaff>>
deskVars == <<counterStatus, counterType, assignedStaff, busy, request>>

CounterStatuses == {"open", "paused", "closed"}
InFlight == [op : {"call", "configure"}, counter : Counters, type : QueueTypes]

CountersTypeOK ==
  /\ counterStatus \in [Counters -> CounterStatuses]
  /\ counterType \in [Counters -> QueueTypes]
  /\ assignedStaff \in [Counters -> Staff \cup {None}]
  /\ busy \subseteq Counters
  /\ request \in [Requests -> InFlight \cup {None}]

CountersInit ==
  /\ counterStatus = [c \in Counters |-> "closed"]
  /\ counterType \in [Counters -> QueueTypes]
  /\ assignedStaff = [c \in Counters |-> None]
  /\ busy = {}
  /\ request = [r \in Requests |-> None]

-----------------------------------------------------------------------------
(* Staffing: assign_counter_staff, unassign_counter_staff.                 *)

MutantClosedOnly(c) == counterStatus[c] = "closed"

ClosedAndIdle(c) == counterStatus[c] = "closed" /\ c \notin busy

MutantAssignStaffTwice(c, s) ==
  /\ ClosedAndIdle(c)
  /\ assignedStaff' = [assignedStaff EXCEPT ![c] = s]
  /\ UNCHANGED <<counterStatus, counterType, busy, request>>

AssignStaff(c, s) ==
  /\ ClosedAndIdle(c)
  /\ \A d \in Counters \ {c} : assignedStaff[d] # s
  /\ assignedStaff' = [assignedStaff EXCEPT ![c] = s]
  /\ UNCHANGED <<counterStatus, counterType, busy, request>>

MutantUnassignInOperation(c) ==
  /\ c \notin busy
  /\ assignedStaff' = [assignedStaff EXCEPT ![c] = None]
  /\ UNCHANGED <<counterStatus, counterType, busy, request>>

UnassignStaff(c) ==
  /\ ClosedAndIdle(c)
  /\ assignedStaff' = [assignedStaff EXCEPT ![c] = None]
  /\ UNCHANGED <<counterStatus, counterType, busy, request>>

-----------------------------------------------------------------------------
(* Lifecycle: open_counter, pause_counter, resume_counter, close_counter.  *)

MoveCounter(c, from, to) ==
  /\ counterStatus[c] \in from
  /\ counterStatus' = [counterStatus EXCEPT ![c] = to]
  /\ UNCHANGED <<counterType, assignedStaff, busy, request>>

MutantPauseMisspelt(c) == MoveCounter(c, {"open"}, "pause")

OpenCounter(c)   == assignedStaff[c] # None /\ MoveCounter(c, {"closed"}, "open")
PauseCounter(c)  == MoveCounter(c, {"open"}, "paused")
ResumeCounter(c) == assignedStaff[c] # None /\ MoveCounter(c, {"paused"}, "open")
CloseCounter(c)  == c \notin busy /\ MoveCounter(c, {"open", "paused"}, "closed")

-----------------------------------------------------------------------------
(* Call Next.  The view loads the counter, checks that it is open and      *)
(* staffed, and hands that object to call_next_ticket, which opens its own *)
(* transaction and tests counter.status and counter.queue_type of the      *)
(* object it was given: it reads the tickets again, the counter never.     *)

BeginCall(r, c) ==
  /\ request[r] = None
  /\ counterStatus[c] = "open"
  /\ assignedStaff[c] # None
  /\ request' = [request EXCEPT ![r] = [op |-> "call", counter |-> c, type |-> counterType[c]]]
  /\ UNCHANGED <<counterStatus, counterType, assignedStaff, busy>>

Calling(r) == request[r] # None /\ request[r].op = "call"

FinishCall(r) ==
  /\ Calling(r)
  /\ request' = [request EXCEPT ![r] = None]
  /\ UNCHANGED <<counterStatus, counterType, assignedStaff>>

(* A customer was found for an idle counter.                               *)
ServeCustomer(r) ==
  /\ FinishCall(r)
  /\ request[r].counter \notin busy
  /\ busy' = busy \cup {request[r].counter}

(* Nobody is waiting, or the counter is serving already.                   *)
ServeNobody(r) == FinishCall(r) /\ UNCHANGED busy

(* The customer is completed, marked no-show, or leaves by cancelling or   *)
(* rescheduling.  None of these looks at the counter's status.             *)
EndService(c) ==
  /\ c \in busy
  /\ busy' = busy \ {c}
  /\ UNCHANGED <<counterStatus, counterType, assignedStaff, request>>

-----------------------------------------------------------------------------
(* CounterAdminDetailAPIView.patch: the checks and the save are separate   *)
(* statements of no common transaction, and save() writes the type alone.  *)

BeginConfigure(r, c, q) ==
  /\ request[r] = None
  /\ ClosedAndIdle(c)
  /\ request' = [request EXCEPT ![r] = [op |-> "configure", counter |-> c, type |-> q]]
  /\ UNCHANGED <<counterStatus, counterType, assignedStaff, busy>>

FinishConfigure(r) ==
  /\ request[r] # None /\ request[r].op = "configure"
  /\ counterType' = [counterType EXCEPT ![request[r].counter] = request[r].type]
  /\ request' = [request EXCEPT ![r] = None]
  /\ UNCHANGED <<counterStatus, assignedStaff, busy>>

-----------------------------------------------------------------------------
(* The steps that leave "busy" alone: QueueLifecycle takes them as its own. *)
CounterStep ==
  \/ \E c \in Counters :
       \/ \E s \in Staff : AssignStaff(c, s)
       \/ UnassignStaff(c)
       \/ OpenCounter(c)
       \/ PauseCounter(c)
       \/ ResumeCounter(c)
       \/ CloseCounter(c)
       \/ \E r \in Requests : BeginCall(r, c)
       \/ \E r \in Requests, q \in QueueTypes : BeginConfigure(r, c, q)
  \/ \E r \in Requests : FinishConfigure(r)

CountersNext ==
  \/ CounterStep
  \/ \E r \in Requests : ServeCustomer(r) \/ ServeNobody(r)
  \/ \E c \in Counters : EndService(c)

CountersSpec == CountersInit /\ [][CountersNext]_deskVars

-----------------------------------------------------------------------------
(* An OPEN or PAUSED counter has staff ("An unassigned counter cannot be   *)
(* opened"): no order of assign, unassign, open, pause, resume and close   *)
(* loses the staff of a counter that is in operation.                      *)
ActiveIsStaffed ==
  \A c \in Counters : counterStatus[c] # "closed" => assignedStaff[c] # None

(* One member of staff runs at most one counter, whatever the order of     *)
(* assignments, and the unique constraint behind it never has to fire.     *)
OneCounterPerStaff ==
  \A c, d \in Counters :
    assignedStaff[c] # None /\ assignedStaff[c] = assignedStaff[d] => c = d

(* Whoever runs a counter keeps it until the customer at it has left: a    *)
(* reassignment cannot slip in between Call Next and Complete, even at a   *)
(* counter that was closed under a Call Next in flight.                    *)
StaffKeptWhileServing ==
  [][\A c \in busy : assignedStaff'[c] = assignedStaff[c]]_deskVars

-----------------------------------------------------------------------------
(* docs/DAY33, "CLOSE is blocked while a customer is currently SERVING":   *)
(* a customer is never at a closed counter.  A Call Next that read the     *)
(* counter while it was open breaks it.                                    *)
ClosedServesNobody == \A c \in busy : counterStatus[c] # "closed"
=============================================================================
