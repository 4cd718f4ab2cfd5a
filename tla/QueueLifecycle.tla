--------------------------- MODULE QueueLifecycle ---------------------------
(***************************************************************************)
(* Bookings, queue tickets, counters and the clock of one branch offering  *)
(* one service: booking online, walking in, checking in, being called,     *)
(* completing, missing the call, cancelling, rescheduling, and expiring    *)
(* unchecked.                                                              *)
(*                                                                         *)
(* A booking and its ticket are a one-to-one pair created in the same      *)
(* transaction, so one identifier stands for both; identifiers are given   *)
(* out in increasing order, as the database does.  Every service function  *)
(* runs in transaction.atomic() on rows it reads there, so it is one       *)
(* action, except Call Next (see Counters).                                *)
(*                                                                         *)
(* A customer's lane follows from age, disability, gender and pregnancy    *)
(* (determine_queue_type); profiles change at any time, so every reading   *)
(* of it is a free choice of lane.                                         *)
(***************************************************************************)
EXTENDS Integers, FiniteSets

CONSTANTS
  Bookings,       \* identifiers of the bookings and of their tickets
  Customers,      \* registered customers
  Guest,          \* stands for the guest customers that reception creates
  Counters, Staff, Requests, QueueTypes, None,
  DayLength,      \* ticks of the clock in a day
  Horizon,        \* the last tick: bounds the clock
  CheckInWindow,  \* ticks check-in is open for: six hours in the code
  Slots,          \* the appointment times generate_slot_times yields
  SlotCapacity,   \* BranchService.max_bookings_per_slot
  MaxNumber       \* bound on the queue numbers of a day and lane

Times == 0..Horizon
DateOf(t) == t \div DayLength
Dates == {DateOf(t) : t \in Times}
Scopes == Dates \X QueueTypes

ASSUME LifecycleAssumption ==
  /\ Bookings \subseteq Nat
  /\ Guest \notin Customers
  /\ "general" \in QueueTypes
  /\ Horizon \in Nat
  /\ DayLength \in Nat \ {0}
  /\ CheckInWindow \in Nat
  /\ Slots \subseteq Times
  /\ SlotCapacity \in Nat
  /\ MaxNumber \in Nat
  /\ None \notin Nat \cup Counters \cup Staff \cup Scopes
  /\ None \notin [op : {"call", "configure"}, counter : Counters, type : QueueTypes]

VARIABLES
  now,
  bookingStatus, source, customer, appointment, checkedInAt,  \* Booking
  ticketStatus, queueType, queueNumber, assignedCounter,      \* QueueTicket
  lastNumber,                                                 \* QueueNumberSequence
  counterStatus, counterType, assignedStaff,                  \* Counter
  request                                                     \* see Counters

bookingVars == <<bookingStatus, source, customer, appointment, checkedInAt>>
ticketVars == <<ticketStatus, queueType, queueNumber, assignedCounter, lastNumber>>
counterVars == <<counterStatus, counterType, assignedStaff>>
vars == <<now, bookingVars, ticketVars, counterVars, request>>

BookingStatuses == {"none", "pending", "confirmed", "completed", "cancelled", "no_show"}
TicketStatuses ==
  {"none", "scheduled", "waiting", "serving", "completed", "cancelled", "no_show"}
FinalStatuses == {"completed", "cancelled", "no_show"}

-----------------------------------------------------------------------------
(* What the components make of the state.                                  *)

Exists(b) == bookingStatus[b] # "none"
Serving(c) == {b \in Bookings : assignedCounter[b] = c /\ ticketStatus[b] = "serving"}
BusyCounters == {c \in Counters : Serving(c) # {}}
ScopeOf(b) == <<DateOf(appointment[b]), queueType[b]>>
TicketScope == [b \in Bookings |-> IF Exists(b) THEN ScopeOf(b) ELSE None]

Desk == INSTANCE Counters WITH busy <- BusyCounters
Numbers == INSTANCE QueueNumbers WITH
  Tickets <- Bookings, Unissued <- None, scope <- TicketScope, number <- queueNumber

TypeOK ==
  /\ now \in Times
  /\ bookingStatus \in [Bookings -> BookingStatuses]
  /\ source \in [Bookings -> {"online", "walk_in"}]
  /\ customer \in [Bookings -> Customers \cup {Guest}]
  /\ appointment \in [Bookings -> Times]
  /\ checkedInAt \in [Bookings -> Times \cup {None}]
  /\ ticketStatus \in [Bookings -> TicketStatuses]
  /\ queueType \in [Bookings -> QueueTypes]
  /\ queueNumber \in [Bookings -> 0..MaxNumber]
  /\ assignedCounter \in [Bookings -> Counters \cup {None}]
  /\ lastNumber \in [Scopes -> 0..MaxNumber]
  /\ Desk!CountersTypeOK

BookingsInit ==
  /\ now = 0
  /\ bookingStatus = [b \in Bookings |-> "none"]
  /\ source = [b \in Bookings |-> "online"]
  /\ customer = [b \in Bookings |-> Guest]
  /\ appointment = [b \in Bookings |-> 0]
  /\ checkedInAt = [b \in Bookings |-> None]
  /\ ticketStatus = [b \in Bookings |-> "none"]
  /\ queueType = [b \in Bookings |-> "general"]
  /\ queueNumber = [b \in Bookings |-> 0]
  /\ assignedCounter = [b \in Bookings |-> None]
  /\ lastNumber = [s \in Scopes |-> 0]

Init == BookingsInit /\ Desk!CountersInit

-----------------------------------------------------------------------------
(* Appointments: services/availability.py.                                 *)

Larger(i, j) == IF i >= j THEN i ELSE j

(* get_reserved_booking_count: the online bookings that hold a place.      *)
Reserved(at) ==
  {b \in Bookings : /\ source[b] = "online"
                    /\ appointment[b] = at
                    /\ bookingStatus[b] \in {"pending", "confirmed", "completed", "no_show"}}

(* validate_booking_slot, for a new booking or for moving booking b.       *)
MutantSlotAvailable(at, b) ==
  /\ at \in Slots
  /\ at > now
  /\ Cardinality(Reserved(at) \ {b}) <= SlotCapacity

SlotAvailable(at, b) ==
  /\ at \in Slots
  /\ at > now
  /\ Cardinality(Reserved(at) \ {b}) < SlotCapacity

-----------------------------------------------------------------------------
(* generate_queue_number, as booking b, already moved to "at", gets a      *)
(* number in lane q.  The scan for the highest number reads the tickets'   *)
(* rows: b's own row still has its former lane and number.                 *)

NumbersIn(date, q, b, at) ==
  {queueNumber[x] : x \in {y \in Bookings :
     /\ ticketStatus[y] # "none"
     /\ queueType[y] = q
     /\ DateOf(IF y = b THEN at ELSE appointment[y]) = date}}

(* Mutant: the next number is one more than the number of tickets.         *)
MutantNumberByCount(b, at, q) ==
  LET date == DateOf(at)
      next == Cardinality({x \in Bookings \ {b} : Exists(x) /\ ScopeOf(x) = <<date, q>>}) + 1
  IN /\ next <= MaxNumber
     /\ lastNumber' = [lastNumber EXCEPT ![<<date, q>>] = next]
     /\ queueNumber' = [queueNumber EXCEPT ![b] = next]
     /\ queueType' = [queueType EXCEPT ![b] = q]

GenerateQueueNumber(b, at, q) ==
  LET date == DateOf(at)
      numbers == {0} \cup NumbersIn(date, q, b, at)
  IN \E seed \in numbers :
       /\ \A n \in numbers : n <= seed
       /\ LET next == Larger(seed, lastNumber[<<date, q>>]) + 1
          IN /\ next <= MaxNumber
             /\ lastNumber' = [lastNumber EXCEPT ![<<date, q>>] = next]
             /\ queueNumber' = [queueNumber EXCEPT ![b] = next]
             /\ queueType' = [queueType EXCEPT ![b] = q]

-----------------------------------------------------------------------------
(* New bookings.                                                           *)

(* Rows b of the two tables are inserted with these values.                *)
Insert(b, from, who, at, checked, ticket, q) ==
  /\ ~Exists(b)
  /\ \A x \in Bookings : x < b => Exists(x)
  /\ bookingStatus' = [bookingStatus EXCEPT ![b] = "pending"]
  /\ source' = [source EXCEPT ![b] = from]
  /\ customer' = [customer EXCEPT ![b] = who]
  /\ appointment' = [appointment EXCEPT ![b] = at]
  /\ checkedInAt' = [checkedInAt EXCEPT ![b] = checked]
  /\ ticketStatus' = [ticketStatus EXCEPT ![b] = ticket]
  /\ GenerateQueueNumber(b, at, q)
  /\ UNCHANGED <<now, assignedCounter, counterVars, request>>

(* BookingCreateAPIView: a SCHEDULED ticket.                               *)
BookOnline(b, u, at, q) ==
  SlotAvailable(at, b) /\ Insert(b, "online", u, at, None, "scheduled", q)

(* Walk-ins are checked in as they are created: a WAITING ticket, and the  *)
(* present moment as appointment.  create_customer_walk_in refuses a       *)
(* customer who is in today's live queue already.                          *)
InLiveQueueToday(u) ==
  \E b \in Bookings : /\ customer[b] = u
                      /\ DateOf(appointment[b]) = DateOf(now)
                      /\ ticketStatus[b] \in {"waiting", "serving"}

CustomerWalkIn(b, u, q) ==
  ~InLiveQueueToday(u) /\ Insert(b, "walk_in", u, now, now, "waiting", q)

GuestWalkIn(b, q) == Insert(b, "walk_in", Guest, now, now, "waiting", q)

-----------------------------------------------------------------------------
(* Check-in, cancellation, expiry and rescheduling.                        *)

Unchecked(b) == checkedInAt[b] = None /\ bookingStatus[b] \in {"pending", "confirmed"}

MutantCancelMisspelt(b) ==
  /\ bookingStatus' = [bookingStatus EXCEPT ![b] = "cancelled"]
  /\ ticketStatus' = [ticketStatus EXCEPT ![b] = "canceled"]
  /\ assignedCounter' = [assignedCounter EXCEPT ![b] = None]
  /\ UNCHANGED <<now, source, customer, appointment, checkedInAt,
                 queueType, queueNumber, lastNumber, counterVars, request>>

MutantCancelKeepsCounter(b) ==
  /\ bookingStatus' = [bookingStatus EXCEPT ![b] = "cancelled"]
  /\ ticketStatus' = [ticketStatus EXCEPT ![b] = "cancelled"]
  /\ UNCHANGED <<now, source, customer, appointment, checkedInAt, assignedCounter,
                 queueType, queueNumber, lastNumber, counterVars, request>>

CancelBoth(b) ==
  /\ bookingStatus' = [bookingStatus EXCEPT ![b] = "cancelled"]
  /\ ticketStatus' = [ticketStatus EXCEPT ![b] = "cancelled"]
  /\ assignedCounter' = [assignedCounter EXCEPT ![b] = None]
  /\ UNCHANGED <<now, source, customer, appointment, checkedInAt,
                 queueType, queueNumber, lastNumber, counterVars, request>>

(* check_in_booking within the window: into the live queue, with a number  *)
(* of the other lane if the customer's lane has changed since.             *)
Activate(b, q) ==
  /\ Unchecked(b)
  /\ now <= appointment[b]
  /\ now >= appointment[b] - CheckInWindow
  /\ ticketStatus[b] \notin FinalStatuses
  /\ \/ q = queueType[b] /\ UNCHANGED <<queueType, queueNumber, lastNumber>>
     \/ q # queueType[b] /\ GenerateQueueNumber(b, appointment[b], q)
  /\ ticketStatus' = [ticketStatus EXCEPT ![b] = "waiting"]
  /\ assignedCounter' = [assignedCounter EXCEPT ![b] = None]
  /\ checkedInAt' = [checkedInAt EXCEPT ![b] = now]
  /\ bookingStatus' = [bookingStatus EXCEPT ![b] = "pending"]
  /\ UNCHANGED <<now, source, customer, appointment, counterVars, request>>

(* cancel_expired_unchecked_booking.                                       *)
CancelExpired(b) == Unchecked(b) /\ now > appointment[b] /\ CancelBoth(b)

CheckIn(b, q) == Activate(b, q) \/ CancelExpired(b)

(* create_due_check_in_reminders, on a booking its query returns.          *)
ExpireUnchecked(b) ==
  source[b] = "online" /\ customer[b] # Guest /\ CancelExpired(b)

(* BookingCancelAPIView and BookingRescheduleAPIView serve the booking's   *)
(* registered customer, even one who is waiting or being served.           *)
MutantChangeable(b) ==
  customer[b] # Guest /\ bookingStatus[b] \notin {"completed", "cancelled"}

Changeable(b) ==
  customer[b] # Guest /\ bookingStatus[b] \in {"pending", "confirmed"}

Cancel(b) == Changeable(b) /\ CancelBoth(b)

MutantRescheduleKeepsNumber(b, at, q) ==
  /\ Changeable(b)
  /\ SlotAvailable(at, b)
  /\ queueType' = [queueType EXCEPT ![b] = q]
  /\ appointment' = [appointment EXCEPT ![b] = at]
  /\ ticketStatus' = [ticketStatus EXCEPT ![b] = "scheduled"]
  /\ assignedCounter' = [assignedCounter EXCEPT ![b] = None]
  /\ checkedInAt' = [checkedInAt EXCEPT ![b] = None]
  /\ bookingStatus' = [bookingStatus EXCEPT ![b] = "pending"]
  /\ UNCHANGED <<now, source, customer, queueNumber, lastNumber, counterVars, request>>

MutantRescheduleKeepsCheckIn(b, at, q) ==
  /\ Changeable(b)
  /\ SlotAvailable(at, b)
  /\ GenerateQueueNumber(b, at, q)
  /\ appointment' = [appointment EXCEPT ![b] = at]
  /\ ticketStatus' = [ticketStatus EXCEPT ![b] = "scheduled"]
  /\ assignedCounter' = [assignedCounter EXCEPT ![b] = None]
  /\ bookingStatus' = [bookingStatus EXCEPT ![b] = "pending"]
  /\ UNCHANGED <<now, source, customer, checkedInAt, counterVars, request>>

Reschedule(b, at, q) ==
  /\ Changeable(b)
  /\ SlotAvailable(at, b)
  /\ GenerateQueueNumber(b, at, q)
  /\ appointment' = [appointment EXCEPT ![b] = at]
  /\ ticketStatus' = [ticketStatus EXCEPT ![b] = "scheduled"]
  /\ assignedCounter' = [assignedCounter EXCEPT ![b] = None]
  /\ checkedInAt' = [checkedInAt EXCEPT ![b] = None]
  /\ bookingStatus' = [bookingStatus EXCEPT ![b] = "pending"]
  /\ UNCHANGED <<now, source, customer, counterVars, request>>

-----------------------------------------------------------------------------
(* The live queue: queues/eligibility.py and call_next_ticket.             *)

EligibleAt(b) ==
  IF source[b] = "walk_in" THEN checkedInAt[b]
                           ELSE Larger(checkedInAt[b], appointment[b])

(* Mutant: the order in which the tickets were created.                    *)
MutantBeforeByCreation(x, y) == x < y

(* x is ahead of y where positions and waits are counted, as the sort keys *)
(* of waiting_time.py and of the learned estimate have it: by eligibility, *)
(* then check-in, then ticket id.                                          *)
Before(x, y) ==
  \/ EligibleAt(x) < EligibleAt(y)
  \/ /\ EligibleAt(x) = EligibleAt(y)
     /\ \/ checkedInAt[x] < checkedInAt[y]
        \/ checkedInAt[x] = checkedInAt[y] /\ x < y

(* call_next_ticket has a sort key of its own, in which the appointment    *)
(* counts for ONLINE bookings.                                             *)
SortTime(b) ==
  IF source[b] = "online" THEN Larger(checkedInAt[b], appointment[b])
                          ELSE checkedInAt[b]

(* Mutant: the order of the candidates query, by check-in and ticket id.   *)
MutantServedByCheckIn(x, y) ==
  \/ checkedInAt[x] < checkedInAt[y]
  \/ checkedInAt[x] = checkedInAt[y] /\ x < y

(* Of two candidates, x is the one Call Next takes.                        *)
ServedBefore(x, y) ==
  \/ SortTime(x) < SortTime(y)
  \/ SortTime(x) = SortTime(y) /\ checkedInAt[x] < checkedInAt[y]
  \/ SortTime(x) = SortTime(y) /\ checkedInAt[x] = checkedInAt[y] /\ x < y

(* The tickets call_next_ticket may assign to a counter of lane q.         *)
Candidates(q) ==
  {b \in Bookings : /\ queueType[b] = q
                    /\ DateOf(appointment[b]) = DateOf(now)
                    /\ checkedInAt[b] # None
                    /\ bookingStatus[b] \in {"pending", "confirmed"}
                    /\ ticketStatus[b] = "waiting"
                    /\ assignedCounter[b] = None
                    /\ EligibleAt(b) <= now}

Serve(b, c) ==
  /\ ticketStatus' = [ticketStatus EXCEPT ![b] = "serving"]
  /\ assignedCounter' = [assignedCounter EXCEPT ![b] = c]
  /\ bookingStatus' = [bookingStatus EXCEPT ![b] = "confirmed"]
  /\ UNCHANGED <<source, customer, appointment, checkedInAt,
                 queueType, queueNumber, lastNumber>>

(* Mutant: a busy counter is not turned away.                              *)
MutantCallAtBusyCounter(r) ==
  LET c == request[r].counter
      candidates == Candidates(request[r].type)
  IN /\ Desk!Calling(r)
     /\ request' = [request EXCEPT ![r] = None]
     /\ UNCHANGED <<now, counterVars>>
     /\ \E b \in candidates :
          /\ \A x \in candidates \ {b} : ServedBefore(b, x)
          /\ Serve(b, c)

(* Mutant: the counter object the view read is saved as well.              *)
MutantCallSavesCounter(r) ==
  LET c == request[r].counter
      candidates == Candidates(request[r].type)
  IN /\ Desk!Calling(r)
     /\ request' = [request EXCEPT ![r] = None]
     /\ counterStatus' = [counterStatus EXCEPT ![c] = "open"]
     /\ UNCHANGED <<now, counterType, assignedStaff>>
     /\ c \notin BusyCounters
     /\ \E b \in candidates :
          /\ \A x \in candidates \ {b} : ServedBefore(b, x)
          /\ Serve(b, c)

(* The lane is the one the request read, whatever the counter's is now.    *)
CallNext(r) ==
  LET c == request[r].counter
      candidates == Candidates(request[r].type)
  IN /\ Desk!Calling(r)
     /\ request' = [request EXCEPT ![r] = None]
     /\ UNCHANGED <<now, counterVars>>
     /\ IF c \in BusyCounters \/ candidates = {}
          THEN UNCHANGED <<bookingVars, ticketVars>>
          ELSE \E b \in candidates :
                 /\ \A x \in candidates \ {b} : ServedBefore(b, x)
                 /\ Serve(b, c)

(* complete_current_ticket and mark_current_ticket_no_show.                *)
Finish(b, outcome) ==
  /\ ticketStatus' = [ticketStatus EXCEPT ![b] = outcome]
  /\ assignedCounter' = [assignedCounter EXCEPT ![b] = None]
  /\ bookingStatus' = [bookingStatus EXCEPT ![b] = outcome]
  /\ UNCHANGED <<now, source, customer, appointment, checkedInAt,
                 queueType, queueNumber, lastNumber, counterVars, request>>

Complete(c) == \E b \in Serving(c) : Finish(b, "completed")
MarkNoShow(c) == \E b \in Serving(c) : checkedInAt[b] # None /\ Finish(b, "no_show")

-----------------------------------------------------------------------------
Tick ==
  /\ now < Horizon
  /\ now' = now + 1
  /\ UNCHANGED <<bookingVars, ticketVars, counterVars, request>>

(* Staffing, opening, pausing, resuming, closing, configuring, and the     *)
(* first half of Call Next.                                                *)
OperateCounters == UNCHANGED <<now, bookingVars, ticketVars>> /\ Desk!CounterStep

VisitStep ==
  \/ \E b \in Bookings, q \in QueueTypes :
       \/ \E u \in Customers :
            \/ \E at \in Slots : BookOnline(b, u, at, q)
            \/ CustomerWalkIn(b, u, q)
       \/ GuestWalkIn(b, q)
       \/ CheckIn(b, q)
       \/ \E at \in Slots : Reschedule(b, at, q)
  \/ \E b \in Bookings : Cancel(b) \/ ExpireUnchecked(b)
  \/ \E r \in Requests : CallNext(r)
  \/ \E c \in Counters : Complete(c) \/ MarkNoShow(c)

Next == VisitStep \/ OperateCounters \/ Tick

Spec == Init /\ [][Next]_vars

-----------------------------------------------------------------------------
(* A booking and its ticket tell the same story in every state ("Their     *)
(* final states must not contradict", docs/DAY28), although each operation *)
(* writes the two rows, and the counter, by separate statements: the live  *)
(* queue holds exactly the checked-in pending bookings, a counter is held  *)
(* exactly while serving, and the final states coincide.                   *)
TicketAgrees(b) ==
  CASE ticketStatus[b] = "none"      -> bookingStatus[b] = "none"
    [] ticketStatus[b] = "scheduled" -> bookingStatus[b] = "pending" /\ checkedInAt[b] = None
    [] ticketStatus[b] = "waiting"   -> bookingStatus[b] = "pending" /\ checkedInAt[b] # None
    [] ticketStatus[b] = "serving"   -> bookingStatus[b] = "confirmed" /\ checkedInAt[b] # None
    [] OTHER                         -> bookingStatus[b] = ticketStatus[b]

StatusAgreement ==
  \A b \in Bookings :
    /\ TicketAgrees(b)
    /\ ticketStatus[b] = "serving" <=> assignedCounter[b] # None

(* A counter serves at most one customer, although Call Next decides on a  *)
(* counter it read in an earlier transaction and two calls may be in       *)
(* flight for one counter.                                                 *)
OneServingPerCounter ==
  \A x, y \in Bookings :
    /\ ticketStatus[x] = "serving" /\ ticketStatus[y] = "serving"
    /\ assignedCounter[x] = assignedCounter[y]
    => x = y

(* Two tickets of one date and lane never show the same number, although   *)
(* rescheduling carries tickets from one date to another and check-in from *)
(* one lane to another.                                                    *)
UniqueNumbers ==
  \A x, y \in Bookings :
    Exists(x) /\ Exists(y) /\ x # y /\ ScopeOf(x) = ScopeOf(y)
      => queueNumber[x] # queueNumber[y]

(* Whoever is or was in the live queue joined it inside the check-in       *)
(* window of the appointment now on record: rescheduling never leaves the  *)
(* check-in of the appointment it replaced.                                *)
CheckedInWithinWindow ==
  \A b \in Bookings :
    checkedInAt[b] # None =>
      checkedInAt[b] \in (appointment[b] - CheckInWindow)..appointment[b]

(* A slot is never overbooked by online bookings, by creating one or by    *)
(* moving one, and no cancellation or no-show makes room twice.            *)
SlotsWithinCapacity == \A at \in Slots : Cardinality(Reserved(at)) <= SlotCapacity

-----------------------------------------------------------------------------
(* waiting_time.py shows every customer who is ahead.                      *)
WaitingAhead(b) ==
  {x \in Bookings \ {b} : /\ DateOf(appointment[x]) = DateOf(appointment[b])
                          /\ checkedInAt[x] # None
                          /\ queueType[x] = queueType[b]
                          /\ ticketStatus[x] = "waiting"
                          /\ assignedCounter[x] = None
                          /\ Before(x, b)}

(* A customer is called only when the position they are shown says nobody  *)
(* waits ahead of them: call_next_ticket and waiting_time.py, which sort   *)
(* by separate code over different filters, keep the same order.           *)
CalledFromTheFront ==
  [][\A b \in Bookings :
       ticketStatus[b] = "waiting" /\ ticketStatus'[b] = "serving" => WaitingAhead(b) = {}]_vars

(* Nobody overtakes a waiting customer whose turn has come: once eligible, *)
(* the set of people ahead only shrinks, whoever books, walks in, checks   *)
(* in or is rescheduled meanwhile.                                         *)
NoOvertaking ==
  [][\A b \in Bookings :
       /\ ticketStatus[b] = "waiting" /\ ticketStatus'[b] = "waiting"
       /\ EligibleAt(b) < now
       => WaitingAhead(b)' \subseteq WaitingAhead(b)]_vars

(* A completed, cancelled or missed visit is never taken up again, moved   *)
(* or renumbered.                                                          *)
FinalStatesKept ==
  [][\A b \in Bookings :
       bookingStatus[b] \in FinalStatuses =>
         /\ bookingStatus'[b] = bookingStatus[b] /\ ticketStatus'[b] = ticketStatus[b]
         /\ appointment'[b] = appointment[b] /\ queueNumber'[b] = queueNumber[b]]_vars

(* An appointment whose time passes unchecked does not stay scheduled: the *)
(* reminder job of module Reminders cancels it, unless it is rescheduled   *)
(* first.                                                                  *)
UncheckedExpires ==
  \A b \in Bookings :
    source[b] = "online" /\ ticketStatus[b] = "scheduled" /\ now > appointment[b]
      ~> ~(ticketStatus[b] = "scheduled" /\ now > appointment[b])

(* Counters behave as module Counters says, with "busy" computed from the  *)
(* tickets: customers who leave by cancelling or rescheduling end service. *)
ImplementsCounters == Desk!CountersSpec

(* Numbers are issued as module QueueNumbers promises: every change of a   *)
(* ticket's date, lane or number is a fresh issue in the scope it enters.  *)
ImplementsNumbers == Numbers!NumbersSpec

-----------------------------------------------------------------------------
(* README, "it does not mean the system may call them before the booked    *)
(* appointment time": a call never precedes the appointment on record.  A  *)
(* walk-in that was rescheduled to an appointment keeps its source.        *)
NeverCalledEarly ==
  [][\A b \in Bookings :
       ticketStatus[b] = "waiting" /\ ticketStatus'[b] = "serving" => now >= appointment[b]]_vars
=============================================================================
