------------------------ MODULE QueueLifecycleProofs ------------------------
(***************************************************************************)
(* Proofs about module QueueLifecycle, for any number of bookings,         *)
(* customers, counters, requests, lanes, any clock and any slots; the last *)
(* two sections show that it implements QueueNumbers and Counters: every   *)
(* step of the branch is, seen through the mapping, a step of each or a    *)
(* stutter.                                                                *)
(***************************************************************************)
EXTENDS QueueLifecycle, FiniteSetTheorems, TLAPS

NumbersProofs == INSTANCE QueueNumbersProofs WITH
  Tickets <- Bookings, Unissued <- None, scope <- TicketScope, number <- queueNumber

(* Status agreement needs the types; one customer per counter needs the    *)
(* agreement, for a counter is held by serving tickets only.               *)
LifeInv == TypeOK /\ StatusAgreement /\ OneServingPerCounter

-----------------------------------------------------------------------------
(* Facts about the operators.                                              *)

LEMMA TimesAreNaturals == Times \subseteq Nat /\ None \notin Times
BY LifecycleAssumption DEF Times

LEMMA ScopesOfTimes ==
  ASSUME NEW at \in Times, NEW q \in QueueTypes
  PROVE  <<DateOf(at), q>> \in Scopes
BY DEF Scopes, Dates

(* The number generated is above the scope's last one, becomes its last    *)
(* one, and is given to the ticket together with the lane; how the scan of *)
(* the tickets seeds it does not matter.                                   *)
LEMMA GenerateIssues ==
  ASSUME TypeOK, NEW b \in Bookings, NEW at \in Times, NEW q \in QueueTypes,
         GenerateQueueNumber(b, at, q)
  PROVE  \E n \in 1..MaxNumber :
           /\ n > lastNumber[<<DateOf(at), q>>]
           /\ lastNumber' = [lastNumber EXCEPT ![<<DateOf(at), q>>] = n]
           /\ queueNumber' = [queueNumber EXCEPT ![b] = n]
           /\ queueType' = [queueType EXCEPT ![b] = q]
<1> DEFINE s == <<DateOf(at), q>>
           numbers == {0} \cup NumbersIn(DateOf(at), q, b, at)
<1>1. PICK seed \in numbers :
        LET next == Larger(seed, lastNumber[s]) + 1
        IN /\ next <= MaxNumber
           /\ lastNumber' = [lastNumber EXCEPT ![s] = next]
           /\ queueNumber' = [queueNumber EXCEPT ![b] = next]
           /\ queueType' = [queueType EXCEPT ![b] = q]
  BY DEF GenerateQueueNumber
<1>2. lastNumber[s] \in 0..MaxNumber
  BY ScopesOfTimes DEF TypeOK
<1>3. seed \in 0..MaxNumber
  BY LifecycleAssumption DEF NumbersIn, TypeOK
<1>4. Larger(seed, lastNumber[s]) \in Nat /\ Larger(seed, lastNumber[s]) >= lastNumber[s]
  BY <1>2, <1>3, LifecycleAssumption DEF Larger
<1>5. /\ Larger(seed, lastNumber[s]) + 1 \in 1..MaxNumber
      /\ Larger(seed, lastNumber[s]) + 1 > lastNumber[s]
  BY <1>1, <1>2, <1>4, LifecycleAssumption
<1> QED
  BY <1>1, <1>5

(* So it keeps the types of the four things it writes.                     *)
LEMMA GenerateType ==
  ASSUME TypeOK, NEW b \in Bookings, NEW at \in Times, NEW q \in QueueTypes,
         GenerateQueueNumber(b, at, q)
  PROVE  /\ queueType' \in [Bookings -> QueueTypes]
         /\ queueNumber' \in [Bookings -> 0..MaxNumber]
         /\ lastNumber' \in [Scopes -> 0..MaxNumber]
<1>1. PICK n \in 1..MaxNumber :
        /\ lastNumber' = [lastNumber EXCEPT ![<<DateOf(at), q>>] = n]
        /\ queueNumber' = [queueNumber EXCEPT ![b] = n]
        /\ queueType' = [queueType EXCEPT ![b] = q]
  BY GenerateIssues
<1>2. n \in 0..MaxNumber
  BY LifecycleAssumption
<1> QED
  BY <1>1, <1>2 DEF TypeOK

-----------------------------------------------------------------------------
(* Type correctness, action by action.                                     *)

(* The desk's own types hold whenever its variables are left alone.        *)
LEMMA DeskTypeKept ==
  ASSUME TypeOK, UNCHANGED <<counterVars, request>>
  PROVE  Desk!CountersTypeOK'
BY DEF TypeOK, counterVars, Desk!CountersTypeOK, BusyCounters

LEMMA InsertType ==
  ASSUME TypeOK, NEW b \in Bookings, NEW from \in {"online", "walk_in"},
         NEW who \in Customers \cup {Guest}, NEW at \in Times,
         NEW checked \in Times \cup {None}, NEW ticket \in TicketStatuses,
         NEW q \in QueueTypes, Insert(b, from, who, at, checked, ticket, q)
  PROVE  TypeOK'
<1>1. GenerateQueueNumber(b, at, q)
  BY DEF Insert
<1>2. Desk!CountersTypeOK'
  BY DeskTypeKept DEF Insert
<1> QED
  BY <1>1, <1>2, GenerateType DEF TypeOK, Insert, BookingStatuses

LEMMA CancelType ==
  ASSUME TypeOK, NEW b \in Bookings, CancelBoth(b)
  PROVE  TypeOK'
<1>1. Desk!CountersTypeOK'
  BY DeskTypeKept DEF CancelBoth
<1> QED
  BY <1>1 DEF TypeOK, CancelBoth, BookingStatuses, TicketStatuses

LEMMA ActivateType ==
  ASSUME TypeOK, NEW b \in Bookings, NEW q \in QueueTypes, Activate(b, q)
  PROVE  TypeOK'
<1>1. /\ queueType' \in [Bookings -> QueueTypes]
      /\ queueNumber' \in [Bookings -> 0..MaxNumber]
      /\ lastNumber' \in [Scopes -> 0..MaxNumber]
  <2>1. CASE UNCHANGED <<queueType, queueNumber, lastNumber>>
    BY <2>1 DEF TypeOK
  <2>2. CASE GenerateQueueNumber(b, appointment[b], q)
    BY <2>2, GenerateType DEF TypeOK
  <2> QED
    BY <2>1, <2>2 DEF Activate
<1>2. Desk!CountersTypeOK'
  BY DeskTypeKept DEF Activate
<1> QED
  BY <1>1, <1>2 DEF TypeOK, Activate, BookingStatuses, TicketStatuses

LEMMA RescheduleType ==
  ASSUME TypeOK, NEW b \in Bookings, NEW at \in Slots, NEW q \in QueueTypes, Reschedule(b, at, q)
  PROVE  TypeOK'
<1>1. at \in Times
  BY LifecycleAssumption
<1>2. GenerateQueueNumber(b, at, q)
  BY DEF Reschedule
<1>3. Desk!CountersTypeOK'
  BY DeskTypeKept DEF Reschedule
<1> QED
  BY <1>1, <1>2, <1>3, GenerateType DEF TypeOK, Reschedule, BookingStatuses, TicketStatuses

(* The counter a request names is a counter.                               *)
LEMMA RequestedCounter ==
  ASSUME TypeOK, NEW r \in Requests, Desk!Calling(r)
  PROVE  request[r].counter \in Counters
<1>1. request[r] \in Desk!InFlight
  BY DEF Desk!Calling, TypeOK, Desk!CountersTypeOK
<1> QED
  BY <1>1 DEF Desk!InFlight

LEMMA CallType ==
  ASSUME TypeOK, NEW r \in Requests, CallNext(r)
  PROVE  TypeOK'
<1> DEFINE c == request[r].counter
<1>1. c \in Counters
  BY RequestedCounter DEF CallNext
<1>2. Desk!CountersTypeOK'
  BY DEF CallNext, counterVars, TypeOK, Desk!CountersTypeOK, BusyCounters
<1>3. CASE UNCHANGED <<bookingVars, ticketVars>>
  BY <1>2, <1>3 DEF TypeOK, CallNext, bookingVars, ticketVars
<1>4. ASSUME NEW b \in Bookings, Serve(b, c)
      PROVE  TypeOK'
  BY <1>1, <1>2, <1>4 DEF TypeOK, CallNext, Serve, BookingStatuses, TicketStatuses
<1> QED
  BY <1>3, <1>4 DEF CallNext, Candidates

LEMMA FinishType ==
  ASSUME TypeOK, NEW b \in Bookings, NEW outcome \in {"completed", "no_show"}, Finish(b, outcome)
  PROVE  TypeOK'
<1>1. Desk!CountersTypeOK'
  BY DeskTypeKept DEF Finish
<1> QED
  BY <1>1 DEF TypeOK, Finish, BookingStatuses, TicketStatuses

(* A move of a counter along its lifecycle keeps the desk's types.          *)
LEMMA DeskMoveType ==
  ASSUME Desk!CountersTypeOK, NEW c \in Counters, NEW from,
         NEW to \in {"open", "closed", "paused"}, Desk!MoveCounter(c, from, to)
  PROVE  Desk!CountersTypeOK'
BY DEF Desk!CountersTypeOK, Desk!MoveCounter, Desk!CounterStatuses

(* Every operation on counters keeps the desk's types.                     *)
LEMMA DeskTypeStep ==
  ASSUME Desk!CountersTypeOK, Desk!CounterStep
  PROVE  Desk!CountersTypeOK'
<1>1. ASSUME NEW c \in Counters,
             \/ \E s \in Staff : Desk!AssignStaff(c, s)
             \/ Desk!UnassignStaff(c)
      PROVE  Desk!CountersTypeOK'
  BY <1>1 DEF Desk!CountersTypeOK, Desk!AssignStaff, Desk!UnassignStaff
<1>2. ASSUME NEW c \in Counters,
             \/ Desk!OpenCounter(c) \/ Desk!PauseCounter(c)
             \/ Desk!ResumeCounter(c) \/ Desk!CloseCounter(c)
      PROVE  Desk!CountersTypeOK'
  BY <1>2, DeskMoveType
     DEF Desk!OpenCounter, Desk!PauseCounter, Desk!ResumeCounter, Desk!CloseCounter
<1>3. ASSUME NEW r \in Requests, NEW c \in Counters, Desk!BeginCall(r, c)
      PROVE  Desk!CountersTypeOK'
  <2>1. [op |-> "call", counter |-> c, type |-> counterType[c]] \in Desk!InFlight
    BY DEF Desk!CountersTypeOK, Desk!InFlight
  <2> QED
    BY <1>3, <2>1 DEF Desk!CountersTypeOK, Desk!BeginCall
<1>4. ASSUME NEW r \in Requests, NEW c \in Counters, NEW q \in QueueTypes,
             Desk!BeginConfigure(r, c, q)
      PROVE  Desk!CountersTypeOK'
  <2>1. [op |-> "configure", counter |-> c, type |-> q] \in Desk!InFlight
    BY DEF Desk!InFlight
  <2> QED
    BY <1>4, <2>1 DEF Desk!CountersTypeOK, Desk!BeginConfigure
<1>5. ASSUME NEW r \in Requests, Desk!FinishConfigure(r)
      PROVE  Desk!CountersTypeOK'
  <2>1. request[r].type \in QueueTypes
    BY <1>5 DEF Desk!FinishConfigure, Desk!CountersTypeOK, Desk!InFlight
  <2> QED
    BY <1>5, <2>1 DEF Desk!CountersTypeOK, Desk!FinishConfigure
<1> QED
  BY <1>1, <1>2, <1>3, <1>4, <1>5 DEF Desk!CounterStep

(* The counters' own steps.                                                *)
LEMMA OperateType ==
  ASSUME TypeOK, OperateCounters
  PROVE  TypeOK'
<1>1. Desk!CountersTypeOK'
  BY DeskTypeStep DEF TypeOK, OperateCounters
<1> QED
  BY <1>1 DEF TypeOK, OperateCounters, bookingVars, ticketVars

LEMMA TypeStep == TypeOK /\ [Next]_vars => TypeOK'
<1> SUFFICES ASSUME TypeOK, [Next]_vars
             PROVE  TypeOK'
  OBVIOUS
<1>1. ASSUME NEW b \in Bookings, NEW q \in QueueTypes, NEW u \in Customers,
             NEW at \in Slots, BookOnline(b, u, at, q)
      PROVE  TypeOK'
  <2>1. at \in Times /\ "scheduled" \in TicketStatuses
    BY LifecycleAssumption DEF TicketStatuses
  <2> QED
    BY <1>1, <2>1, InsertType DEF BookOnline
<1>2. ASSUME NEW b \in Bookings, NEW q \in QueueTypes, NEW u \in Customers, CustomerWalkIn(b, u, q)
      PROVE  TypeOK'
  <2>1. now \in Times /\ "waiting" \in TicketStatuses
    BY DEF TypeOK, TicketStatuses
  <2> QED
    BY <1>2, <2>1, InsertType DEF CustomerWalkIn
<1>3. ASSUME NEW b \in Bookings, NEW q \in QueueTypes, GuestWalkIn(b, q)
      PROVE  TypeOK'
  <2>1. now \in Times /\ "waiting" \in TicketStatuses
    BY DEF TypeOK, TicketStatuses
  <2> QED
    BY <1>3, <2>1, InsertType DEF GuestWalkIn
<1>4. ASSUME NEW b \in Bookings, NEW q \in QueueTypes, CheckIn(b, q)
      PROVE  TypeOK'
  BY <1>4, ActivateType, CancelType DEF CheckIn, CancelExpired
<1>5. ASSUME NEW b \in Bookings, NEW q \in QueueTypes, NEW at \in Slots, Reschedule(b, at, q)
      PROVE  TypeOK'
  BY <1>5, RescheduleType
<1>6. ASSUME NEW b \in Bookings, Cancel(b) \/ ExpireUnchecked(b)
      PROVE  TypeOK'
  BY <1>6, CancelType DEF Cancel, ExpireUnchecked, CancelExpired
<1>7. ASSUME NEW r \in Requests, CallNext(r)
      PROVE  TypeOK'
  BY <1>7, CallType
<1>8. ASSUME NEW c \in Counters, Complete(c) \/ MarkNoShow(c)
      PROVE  TypeOK'
  BY <1>8, FinishType DEF Complete, MarkNoShow, Serving
<1>9. CASE OperateCounters
  BY <1>9, OperateType
<1>10. CASE Tick
  <2>1. now' \in Times
    BY <1>10, LifecycleAssumption DEF Tick, TypeOK, Times
  <2>2. Desk!CountersTypeOK'
    BY <1>10, DeskTypeKept DEF Tick
  <2> QED
    BY <1>10, <2>1, <2>2 DEF Tick, TypeOK, bookingVars, ticketVars
<1>11. CASE UNCHANGED vars
  <2>1. Desk!CountersTypeOK'
    BY <1>11, DeskTypeKept DEF vars
  <2> QED
    BY <1>11, <2>1 DEF TypeOK, vars, bookingVars, ticketVars
<1> QED
  BY <1>1, <1>2, <1>3, <1>4, <1>5, <1>6, <1>7, <1>8, <1>9, <1>10, <1>11 DEF Next, VisitStep

(* The clock never goes back.                                              *)
LEMMA ClockGoesOn ==
  ASSUME TypeOK, [Next]_vars
  PROVE  now' \in Times /\ now' >= now
<1>1. now \in Nat
  BY TimesAreNaturals DEF TypeOK
<1>2. now' \in Times
  BY TypeStep DEF TypeOK
<1>3. now' = now \/ Tick
  BY DEF Next, VisitStep, BookOnline, CustomerWalkIn, GuestWalkIn, Insert, CheckIn, Activate,
         Cancel, ExpireUnchecked, CancelExpired, CancelBoth, Reschedule, CallNext, Complete,
         MarkNoShow, Finish, OperateCounters, vars
<1> QED
  BY <1>1, <1>2, <1>3 DEF Tick

-----------------------------------------------------------------------------
(* Status agreement, and one customer per counter.                         *)

(* A step that writes the row of one booking keeps the agreement if it     *)
(* leaves that booking in agreement.                                       *)
LEMMA RowAgrees ==
  ASSUME StatusAgreement, NEW b \in Bookings,
         TicketAgrees(b)', (ticketStatus[b] = "serving" <=> assignedCounter[b] # None)',
         \A x \in Bookings \ {b} :
           UNCHANGED <<bookingStatus[x], ticketStatus[x], checkedInAt[x], assignedCounter[x]>>
  PROVE  StatusAgreement'
<1> SUFFICES ASSUME NEW x \in Bookings, x # b
             PROVE  /\ TicketAgrees(x)'
                    /\ (ticketStatus[x] = "serving" <=> assignedCounter[x] # None)'
  BY DEF StatusAgreement
<1>1. UNCHANGED <<bookingStatus[x], ticketStatus[x], checkedInAt[x], assignedCounter[x]>>
  OBVIOUS
<1> QED
  BY <1>1 DEF StatusAgreement, TicketAgrees

(* A step that takes a booking from its counter, if it has one, and serves *)
(* nobody new, keeps one customer per counter.                             *)
LEMMA RowLeaves ==
  ASSUME OneServingPerCounter, NEW b \in Bookings, ticketStatus'[b] # "serving",
         \A x \in Bookings \ {b} : UNCHANGED <<ticketStatus[x], assignedCounter[x]>>
  PROVE  OneServingPerCounter'
BY DEF OneServingPerCounter

LEMMA InsertAgrees ==
  ASSUME LifeInv, NEW b \in Bookings, NEW from, NEW who, NEW at, NEW q,
         NEW checked \in Times \cup {None}, NEW ticket \in {"scheduled", "waiting"},
         checked = None <=> ticket = "scheduled",
         Insert(b, from, who, at, checked, ticket, q)
  PROVE  StatusAgreement' /\ OneServingPerCounter'
<1>1. /\ bookingStatus'[b] = "pending" /\ ticketStatus'[b] = ticket
      /\ checkedInAt'[b] = checked /\ UNCHANGED assignedCounter
      /\ \A x \in Bookings \ {b} :
           UNCHANGED <<bookingStatus[x], ticketStatus[x], checkedInAt[x], assignedCounter[x]>>
  BY DEF LifeInv, TypeOK, Insert
<1>2. ticketStatus[b] = "none"
  BY DEF LifeInv, TypeOK, StatusAgreement, TicketAgrees, Insert, Exists, TicketStatuses
<1>3. assignedCounter[b] = None
  BY <1>2 DEF LifeInv, StatusAgreement
<1>4. TicketAgrees(b)'
  BY <1>1 DEF TicketAgrees
<1> QED
  BY <1>1, <1>3, <1>4, RowAgrees, RowLeaves DEF LifeInv

LEMMA CancelAgrees ==
  ASSUME LifeInv, NEW b \in Bookings, CancelBoth(b)
  PROVE  StatusAgreement' /\ OneServingPerCounter'
<1>1. /\ bookingStatus'[b] = "cancelled" /\ ticketStatus'[b] = "cancelled"
      /\ assignedCounter'[b] = None
      /\ \A x \in Bookings \ {b} :
           UNCHANGED <<bookingStatus[x], ticketStatus[x], checkedInAt[x], assignedCounter[x]>>
  BY DEF LifeInv, TypeOK, CancelBoth
<1> QED
  BY <1>1, RowAgrees, RowLeaves DEF LifeInv, TicketAgrees

LEMMA ActivateAgrees ==
  ASSUME LifeInv, NEW b \in Bookings, NEW q \in QueueTypes, Activate(b, q)
  PROVE  StatusAgreement' /\ OneServingPerCounter'
<1>1. /\ bookingStatus'[b] = "pending" /\ ticketStatus'[b] = "waiting"
      /\ assignedCounter'[b] = None /\ checkedInAt'[b] = now
      /\ \A x \in Bookings \ {b} :
           UNCHANGED <<bookingStatus[x], ticketStatus[x], checkedInAt[x], assignedCounter[x]>>
  BY DEF LifeInv, TypeOK, Activate
<1>2. now # None
  BY TimesAreNaturals DEF LifeInv, TypeOK
<1> QED
  BY <1>1, <1>2, RowAgrees, RowLeaves DEF LifeInv, TicketAgrees

LEMMA RescheduleAgrees ==
  ASSUME LifeInv, NEW b \in Bookings, NEW at \in Slots, NEW q \in QueueTypes, Reschedule(b, at, q)
  PROVE  StatusAgreement' /\ OneServingPerCounter'
<1>1. /\ bookingStatus'[b] = "pending" /\ ticketStatus'[b] = "scheduled"
      /\ assignedCounter'[b] = None /\ checkedInAt'[b] = None
      /\ \A x \in Bookings \ {b} :
           UNCHANGED <<bookingStatus[x], ticketStatus[x], checkedInAt[x], assignedCounter[x]>>
  BY DEF LifeInv, TypeOK, Reschedule
<1> QED
  BY <1>1, RowAgrees, RowLeaves DEF LifeInv, TicketAgrees

LEMMA FinishAgrees ==
  ASSUME LifeInv, NEW b \in Bookings, NEW outcome \in {"completed", "no_show"}, Finish(b, outcome)
  PROVE  StatusAgreement' /\ OneServingPerCounter'
<1>1. /\ bookingStatus'[b] = outcome /\ ticketStatus'[b] = outcome
      /\ assignedCounter'[b] = None
      /\ \A x \in Bookings \ {b} :
           UNCHANGED <<bookingStatus[x], ticketStatus[x], checkedInAt[x], assignedCounter[x]>>
  BY DEF LifeInv, TypeOK, Finish
<1> QED
  BY <1>1, RowAgrees, RowLeaves DEF LifeInv, TicketAgrees

(* Nobody is being served at a counter that is not busy.                   *)
LEMMA IdleServesNobody ==
  ASSUME NEW c \in Counters, c \notin BusyCounters, NEW x \in Bookings, ticketStatus[x] = "serving"
  PROVE  assignedCounter[x] # c
BY DEF BusyCounters, Serving

LEMMA CallAgrees ==
  ASSUME LifeInv, NEW r \in Requests, CallNext(r)
  PROVE  StatusAgreement' /\ OneServingPerCounter'
<1> DEFINE c == request[r].counter
<1>1. c \in Counters
  BY RequestedCounter DEF CallNext, LifeInv
<1>2. CASE UNCHANGED <<bookingVars, ticketVars>>
  BY <1>2 DEF LifeInv, StatusAgreement, TicketAgrees, OneServingPerCounter,
              bookingVars, ticketVars
<1>3. ASSUME NEW b \in Candidates(request[r].type), c \notin BusyCounters, Serve(b, c)
      PROVE  StatusAgreement' /\ OneServingPerCounter'
  <2>1. b \in Bookings /\ checkedInAt[b] # None
    BY <1>3 DEF Candidates
  <2>2. /\ bookingStatus'[b] = "confirmed" /\ ticketStatus'[b] = "serving"
        /\ assignedCounter'[b] = c /\ checkedInAt'[b] = checkedInAt[b]
        /\ \A x \in Bookings \ {b} :
             UNCHANGED <<bookingStatus[x], ticketStatus[x], checkedInAt[x], assignedCounter[x]>>
    BY <1>3, <2>1 DEF LifeInv, TypeOK, Serve
  <2>3. c # None
    BY <1>1, LifecycleAssumption
  <2>4. StatusAgreement'
    BY <2>1, <2>2, <2>3, RowAgrees DEF LifeInv, TicketAgrees
  <2>5. OneServingPerCounter'
    BY <1>1, <1>3, <2>1, <2>2, IdleServesNobody DEF LifeInv, OneServingPerCounter
  <2> QED
    BY <2>4, <2>5
<1> QED
  BY <1>2, <1>3 DEF CallNext

LEMMA AgreementStep == LifeInv /\ [Next]_vars => StatusAgreement' /\ OneServingPerCounter'
<1> SUFFICES ASSUME LifeInv, [Next]_vars
             PROVE  StatusAgreement' /\ OneServingPerCounter'
  OBVIOUS
<1>1. ASSUME NEW b \in Bookings, NEW q \in QueueTypes, NEW u \in Customers, NEW at \in Slots,
             BookOnline(b, u, at, q)
      PROVE  StatusAgreement' /\ OneServingPerCounter'
  BY <1>1, InsertAgrees DEF BookOnline
<1>2. ASSUME NEW b \in Bookings, NEW q \in QueueTypes, NEW u \in Customers, CustomerWalkIn(b, u, q)
      PROVE  StatusAgreement' /\ OneServingPerCounter'
  <2>1. now \in Times /\ now # None
    BY TimesAreNaturals DEF LifeInv, TypeOK
  <2> QED
    BY <1>2, <2>1, InsertAgrees DEF CustomerWalkIn
<1>3. ASSUME NEW b \in Bookings, NEW q \in QueueTypes, GuestWalkIn(b, q)
      PROVE  StatusAgreement' /\ OneServingPerCounter'
  <2>1. now \in Times /\ now # None
    BY TimesAreNaturals DEF LifeInv, TypeOK
  <2> QED
    BY <1>3, <2>1, InsertAgrees DEF GuestWalkIn
<1>4. ASSUME NEW b \in Bookings, NEW q \in QueueTypes, CheckIn(b, q)
      PROVE  StatusAgreement' /\ OneServingPerCounter'
  BY <1>4, ActivateAgrees, CancelAgrees DEF CheckIn, CancelExpired
<1>5. ASSUME NEW b \in Bookings, NEW q \in QueueTypes, NEW at \in Slots, Reschedule(b, at, q)
      PROVE  StatusAgreement' /\ OneServingPerCounter'
  BY <1>5, RescheduleAgrees
<1>6. ASSUME NEW b \in Bookings, Cancel(b) \/ ExpireUnchecked(b)
      PROVE  StatusAgreement' /\ OneServingPerCounter'
  BY <1>6, CancelAgrees DEF Cancel, ExpireUnchecked, CancelExpired
<1>7. ASSUME NEW r \in Requests, CallNext(r)
      PROVE  StatusAgreement' /\ OneServingPerCounter'
  BY <1>7, CallAgrees
<1>8. ASSUME NEW c \in Counters, Complete(c) \/ MarkNoShow(c)
      PROVE  StatusAgreement' /\ OneServingPerCounter'
  BY <1>8, FinishAgrees DEF Complete, MarkNoShow, Serving
<1>9. CASE UNCHANGED <<bookingVars, ticketVars>>
  BY <1>9 DEF LifeInv, StatusAgreement, TicketAgrees, OneServingPerCounter,
              bookingVars, ticketVars
<1> QED
  BY <1>1, <1>2, <1>3, <1>4, <1>5, <1>6, <1>7, <1>8, <1>9
     DEF Next, VisitStep, OperateCounters, Tick, vars

-----------------------------------------------------------------------------
(* The strengthening holds in every reachable state.                       *)
LEMMA LifeInit == Init => LifeInv
<1> SUFFICES ASSUME Init
             PROVE  LifeInv
  OBVIOUS
<1>1. 0 \in Times
  BY LifecycleAssumption DEF Times
<1>2. BusyCounters = {}
  BY DEF Init, BookingsInit, BusyCounters, Serving
<1>3. Desk!CountersTypeOK
  BY <1>2 DEF Init, Desk!CountersInit, Desk!CountersTypeOK, Desk!CounterStatuses
<1>4. TypeOK
  BY <1>1, <1>3, LifecycleAssumption
     DEF Init, BookingsInit, TypeOK, BookingStatuses, TicketStatuses
<1> QED
  BY <1>4 DEF Init, BookingsInit, LifeInv, StatusAgreement, TicketAgrees, OneServingPerCounter

LEMMA LifeInvariant == Spec => []LifeInv
<1>1. LifeInv /\ [Next]_vars => LifeInv'
  BY TypeStep, AgreementStep DEF LifeInv
<1> QED
  BY <1>1, LifeInit, PTL DEF Spec

(* Every variable of the branch keeps its type.                            *)
THEOREM TypeCorrect == Spec => []TypeOK
<1>1. LifeInv => TypeOK
  BY DEF LifeInv
<1> QED
  BY <1>1, LifeInvariant, PTL

(* A booking and its ticket never contradict each other, whatever order    *)
(* booking, check-in, call, completion, cancellation, rescheduling and     *)
(* expiry come in.                                                         *)
THEOREM StatusesAgree == Spec => []StatusAgreement
<1>1. LifeInv => StatusAgreement
  BY DEF LifeInv
<1> QED
  BY <1>1, LifeInvariant, PTL

(* Any number of stale calls in flight never put two customers at one      *)
(* counter.                                                                *)
THEOREM OneServing == Spec => []OneServingPerCounter
<1>1. LifeInv => OneServingPerCounter
  BY DEF LifeInv
<1> QED
  BY <1>1, LifeInvariant, PTL
-----------------------------------------------------------------------------
(* What a step may do to one booking, whichever action it is.              *)

Same(b) ==
  UNCHANGED <<bookingStatus[b], source[b], customer[b], appointment[b], checkedInAt[b],
              ticketStatus[b], queueType[b], queueNumber[b], assignedCounter[b]>>

Entry(b) ==
  /\ ~Exists(b) /\ bookingStatus'[b] = "pending"
  /\ \/ /\ source'[b] = "online" /\ ticketStatus'[b] = "scheduled"
        /\ SlotAvailable(appointment'[b], b) /\ checkedInAt'[b] = None
     \/ /\ source'[b] = "walk_in" /\ ticketStatus'[b] = "waiting"
        /\ appointment'[b] = now /\ checkedInAt'[b] = now

(* The five changes of an existing booking keep its customer and source.   *)
Activation(b) ==
  /\ Unchecked(b) /\ now <= appointment[b] /\ now >= appointment[b] - CheckInWindow
  /\ bookingStatus'[b] = "pending" /\ ticketStatus'[b] = "waiting"
  /\ checkedInAt'[b] = now /\ UNCHANGED appointment[b]

Move(b) ==
  /\ bookingStatus[b] \in {"pending", "confirmed"} /\ SlotAvailable(appointment'[b], b)
  /\ bookingStatus'[b] = "pending" /\ ticketStatus'[b] = "scheduled" /\ checkedInAt'[b] = None

Cancellation(b) ==
  /\ bookingStatus[b] \in {"pending", "confirmed"}
  /\ bookingStatus'[b] = "cancelled" /\ ticketStatus'[b] = "cancelled"
  /\ UNCHANGED <<appointment[b], checkedInAt[b]>>

Turn(b) ==
  /\ ticketStatus[b] = "waiting" /\ bookingStatus[b] = "pending"
  /\ ticketStatus'[b] = "serving" /\ bookingStatus'[b] = "confirmed"
  /\ UNCHANGED <<appointment[b], checkedInAt[b]>>

Departure(b) ==
  /\ ticketStatus[b] = "serving" /\ bookingStatus[b] = "confirmed"
  /\ bookingStatus'[b] \in {"completed", "no_show"} /\ ticketStatus'[b] = bookingStatus'[b]
  /\ UNCHANGED <<appointment[b], checkedInAt[b]>>

Change(b) ==
  \/ Entry(b)
  \/ /\ UNCHANGED <<source[b], customer[b]>>
     /\ Activation(b) \/ Move(b) \/ Cancellation(b) \/ Turn(b) \/ Departure(b)

(* A step changes the row of one booking, at one moment, or of none.       *)
OneChange ==
  \/ \A x \in Bookings : Same(x)
  \/ /\ now' = now
     /\ \E b \in Bookings : Change(b) /\ \A x \in Bookings \ {b} : Same(x)

LEMMA GenerateWritesOne ==
  ASSUME TypeOK, NEW b \in Bookings, NEW at, NEW q, GenerateQueueNumber(b, at, q)
  PROVE  \A x \in Bookings \ {b} : UNCHANGED <<queueType[x], queueNumber[x]>>
<1>1. PICK n : /\ queueNumber' = [queueNumber EXCEPT ![b] = n]
               /\ queueType' = [queueType EXCEPT ![b] = q]
  BY DEF GenerateQueueNumber
<1> QED
  BY <1>1 DEF TypeOK

LEMMA EntryIsChange ==
  ASSUME LifeInv, NEW b \in Bookings, NEW from, NEW who, NEW at, NEW checked, NEW ticket, NEW q,
         Insert(b, from, who, at, checked, ticket, q),
         \/ from = "online" /\ ticket = "scheduled" /\ SlotAvailable(at, b) /\ checked = None
         \/ from = "walk_in" /\ ticket = "waiting" /\ at = now /\ checked = now
  PROVE  OneChange
<1>1. Entry(b)
  BY DEF Entry, Insert, LifeInv, TypeOK
<1>2. \A x \in Bookings \ {b} : Same(x)
  BY GenerateWritesOne DEF Same, Insert, LifeInv, TypeOK
<1> QED
  BY <1>1, <1>2 DEF OneChange, Change, Insert

LEMMA ActivationIsChange ==
  ASSUME LifeInv, NEW b \in Bookings, NEW q, Activate(b, q)
  PROVE  OneChange
<1>1. Activation(b) /\ UNCHANGED <<source[b], customer[b]>>
  BY DEF Activation, Activate, LifeInv, TypeOK
<1>2. \A x \in Bookings \ {b} : Same(x)
  BY GenerateWritesOne DEF Same, Activate, LifeInv, TypeOK
<1> QED
  BY <1>1, <1>2 DEF OneChange, Change, Activate

LEMMA MoveIsChange ==
  ASSUME LifeInv, NEW b \in Bookings, NEW at, NEW q, Reschedule(b, at, q)
  PROVE  OneChange
<1>1. Move(b) /\ UNCHANGED <<source[b], customer[b]>>
  BY DEF Move, Reschedule, Changeable, LifeInv, TypeOK
<1>2. \A x \in Bookings \ {b} : Same(x)
  BY GenerateWritesOne DEF Same, Reschedule, LifeInv, TypeOK
<1> QED
  BY <1>1, <1>2 DEF OneChange, Change, Reschedule

LEMMA CancellationIsChange ==
  ASSUME LifeInv, NEW b \in Bookings, bookingStatus[b] \in {"pending", "confirmed"}, CancelBoth(b)
  PROVE  OneChange
<1>1. Cancellation(b) /\ UNCHANGED <<source[b], customer[b]>>
  BY DEF Cancellation, CancelBoth, LifeInv, TypeOK
<1>2. \A x \in Bookings \ {b} : Same(x)
  BY DEF Same, CancelBoth, LifeInv, TypeOK
<1> QED
  BY <1>1, <1>2 DEF OneChange, Change, CancelBoth

LEMMA CallIsChange ==
  ASSUME LifeInv, NEW r \in Requests, CallNext(r)
  PROVE  OneChange
<1>1. CASE UNCHANGED <<bookingVars, ticketVars>>
  BY <1>1 DEF OneChange, Same, bookingVars, ticketVars
<1>2. ASSUME NEW b \in Candidates(request[r].type), Serve(b, request[r].counter)
      PROVE  OneChange
  <2>1. b \in Bookings /\ ticketStatus[b] = "waiting" /\ bookingStatus[b] = "pending"
    BY DEF Candidates, LifeInv, StatusAgreement, TicketAgrees
  <2>2. Turn(b) /\ UNCHANGED <<source[b], customer[b]>>
    BY <1>2, <2>1 DEF Turn, Serve, LifeInv, TypeOK
  <2>3. \A x \in Bookings \ {b} : Same(x)
    BY <1>2, <2>1 DEF Same, Serve, LifeInv, TypeOK
  <2> QED
    BY <2>1, <2>2, <2>3 DEF OneChange, Change, CallNext
<1> QED
  BY <1>1, <1>2 DEF CallNext

LEMMA DepartureIsChange ==
  ASSUME LifeInv, NEW c \in Counters, NEW b \in Serving(c), NEW outcome \in {"completed", "no_show"},
         Finish(b, outcome)
  PROVE  OneChange
<1>1. b \in Bookings /\ ticketStatus[b] = "serving" /\ bookingStatus[b] = "confirmed"
  BY DEF Serving, LifeInv, StatusAgreement, TicketAgrees
<1>2. Departure(b) /\ UNCHANGED <<source[b], customer[b]>>
  BY <1>1 DEF Departure, Finish, LifeInv, TypeOK
<1>3. \A x \in Bookings \ {b} : Same(x)
  BY <1>1 DEF Same, Finish, LifeInv, TypeOK
<1> QED
  BY <1>1, <1>2, <1>3 DEF OneChange, Change, Finish

LEMMA StepIsOneChange ==
  ASSUME LifeInv, [Next]_vars
  PROVE  OneChange
<1>1. ASSUME NEW b \in Bookings, NEW q \in QueueTypes, NEW u \in Customers, NEW at \in Slots,
             BookOnline(b, u, at, q)
      PROVE  OneChange
  BY <1>1, EntryIsChange DEF BookOnline
<1>2. ASSUME NEW b \in Bookings, NEW q \in QueueTypes, NEW u \in Customers, CustomerWalkIn(b, u, q)
      PROVE  OneChange
  BY <1>2, EntryIsChange DEF CustomerWalkIn
<1>3. ASSUME NEW b \in Bookings, NEW q \in QueueTypes, GuestWalkIn(b, q)
      PROVE  OneChange
  BY <1>3, EntryIsChange DEF GuestWalkIn
<1>4. ASSUME NEW b \in Bookings, NEW q \in QueueTypes, CheckIn(b, q)
      PROVE  OneChange
  BY <1>4, ActivationIsChange, CancellationIsChange DEF CheckIn, CancelExpired, Unchecked
<1>5. ASSUME NEW b \in Bookings, NEW q \in QueueTypes, NEW at \in Slots, Reschedule(b, at, q)
      PROVE  OneChange
  BY <1>5, MoveIsChange
<1>6. ASSUME NEW b \in Bookings, Cancel(b) \/ ExpireUnchecked(b)
      PROVE  OneChange
  BY <1>6, CancellationIsChange DEF Cancel, Changeable, ExpireUnchecked, CancelExpired, Unchecked
<1>7. ASSUME NEW r \in Requests, CallNext(r)
      PROVE  OneChange
  BY <1>7, CallIsChange
<1>8. ASSUME NEW c \in Counters, Complete(c) \/ MarkNoShow(c)
      PROVE  OneChange
  BY <1>8, DepartureIsChange DEF Complete, MarkNoShow
<1>9. CASE UNCHANGED <<bookingVars, ticketVars>>
  BY <1>9 DEF OneChange, Same, bookingVars, ticketVars
<1> QED
  BY <1>1, <1>2, <1>3, <1>4, <1>5, <1>6, <1>7, <1>8, <1>9
     DEF Next, VisitStep, OperateCounters, Tick, vars

-----------------------------------------------------------------------------
(* Check-in windows and final states.                                      *)

LEMMA WindowStep ==
  ASSUME LifeInv, CheckedInWithinWindow, [Next]_vars
  PROVE  CheckedInWithinWindow'
<1> SUFFICES ASSUME NEW b \in Bookings, checkedInAt'[b] # None
             PROVE  checkedInAt'[b] \in (appointment'[b] - CheckInWindow)..appointment'[b]
  BY DEF CheckedInWithinWindow
<1>1. now \in Nat /\ appointment[b] \in Nat /\ CheckInWindow \in Nat
  BY TimesAreNaturals, LifecycleAssumption DEF LifeInv, TypeOK
<1>2. CASE UNCHANGED <<appointment[b], checkedInAt[b]>>
  BY <1>2 DEF CheckedInWithinWindow
<1>3. CASE Entry(b)
  BY <1>1, <1>3 DEF Entry
<1>4. CASE Activation(b)
  BY <1>1, <1>4 DEF Activation
<1>5. ~Move(b)
  BY DEF Move
<1> QED
  BY <1>2, <1>3, <1>4, <1>5, StepIsOneChange
     DEF OneChange, Change, Same, Cancellation, Turn, Departure

(* Rescheduling never leaves the check-in of another appointment behind.   *)
THEOREM WindowsRespected == Spec => []CheckedInWithinWindow
<1>1. Init => CheckedInWithinWindow
  BY DEF Init, BookingsInit, CheckedInWithinWindow
<1>2. LifeInv /\ CheckedInWithinWindow /\ [Next]_vars => CheckedInWithinWindow'
  BY WindowStep
<1> QED
  BY <1>1, <1>2, LifeInvariant, PTL DEF Spec

(* No operation, in any order, takes up a visit that is over.              *)
THEOREM FinalKept == Spec => FinalStatesKept
<1>1. LifeInv /\ [Next]_vars
        => [\A b \in Bookings :
              bookingStatus[b] \in FinalStatuses =>
                /\ bookingStatus'[b] = bookingStatus[b] /\ ticketStatus'[b] = ticketStatus[b]
                /\ appointment'[b] = appointment[b] /\ queueNumber'[b] = queueNumber[b]]_vars
  <2> SUFFICES ASSUME LifeInv, [Next]_vars, NEW b \in Bookings, bookingStatus[b] \in FinalStatuses
               PROVE  Same(b)
    BY DEF Same
  <2>1. ~Change(b)
    BY DEF FinalStatuses, Change, Entry, Exists, Activation, Unchecked, Move, Cancellation, Turn,
           Departure
  <2> QED
    BY <2>1, StepIsOneChange DEF OneChange
<1> QED
  BY <1>1, LifeInvariant, PTL DEF Spec, FinalStatesKept

-----------------------------------------------------------------------------
(* The order of the queue.                                                 *)

LEMMA LiveTimes ==
  ASSUME LifeInv, NEW x \in Bookings, ticketStatus[x] = "waiting"
  PROVE  checkedInAt[x] \in Nat /\ EligibleAt(x) \in Nat /\ EligibleAt(x) >= checkedInAt[x]
<1>1. checkedInAt[x] \in Nat /\ appointment[x] \in Nat
  BY TimesAreNaturals DEF LifeInv, TypeOK, StatusAgreement, TicketAgrees
<1> QED
  BY <1>1 DEF EligibleAt, Larger

(* The sort key of Call Next orders the waiting as the one the positions   *)
(* are computed from does: a booking is online or a walk-in.               *)
LEMMA SortsAgree ==
  ASSUME LifeInv, NEW x \in Bookings, NEW y \in Bookings,
         ticketStatus[x] = "waiting", ticketStatus[y] = "waiting"
  PROVE  ServedBefore(x, y) <=> Before(x, y)
<1>1. \A z \in Bookings : source[z] \in {"online", "walk_in"}
  BY DEF LifeInv, TypeOK
<1>2. SortTime(x) = EligibleAt(x) /\ SortTime(y) = EligibleAt(y)
  BY <1>1 DEF SortTime, EligibleAt
<1>3. /\ checkedInAt[x] \in Nat /\ EligibleAt(x) \in Nat /\ x \in Nat
      /\ checkedInAt[y] \in Nat /\ EligibleAt(y) \in Nat /\ y \in Nat
  BY LiveTimes, LifecycleAssumption
<1> QED
  BY <1>2, <1>3 DEF ServedBefore, Before

(* Whoever Call Next calls is seen by nobody as waiting behind somebody.   *)
LEMMA CallFromFront ==
  ASSUME LifeInv, NEW r \in Requests, CallNext(r),
         NEW b \in Bookings, ticketStatus[b] = "waiting", ticketStatus'[b] = "serving"
  PROVE  WaitingAhead(b) = {}
<1> DEFINE candidates == Candidates(request[r].type)
<1>1. PICK called \in candidates :
        /\ \A x \in candidates \ {called} : ServedBefore(called, x)
        /\ Serve(called, request[r].counter)
  BY DEF CallNext, ticketVars
<1>2. b = called
  BY <1>1 DEF Candidates, Serve, LifeInv, TypeOK
<1> SUFFICES ASSUME NEW x \in WaitingAhead(b)
             PROVE  FALSE
  OBVIOUS
<1>3. x \in Bookings \ {b} /\ ticketStatus[x] = "waiting" /\ Before(x, b)
  BY DEF WaitingAhead
<1>4. /\ checkedInAt[x] \in Nat /\ EligibleAt(x) \in Nat
      /\ checkedInAt[b] \in Nat /\ EligibleAt(b) \in Nat
      /\ b \in Nat /\ x \in Nat /\ now \in Nat
  BY <1>3, LiveTimes, LifecycleAssumption, TimesAreNaturals DEF LifeInv, TypeOK
<1>5. EligibleAt(x) <= EligibleAt(b) /\ EligibleAt(b) <= now
  BY <1>1, <1>2, <1>3, <1>4 DEF Before, Candidates
<1>6. bookingStatus[x] = "pending"
  BY <1>3 DEF LifeInv, StatusAgreement, TicketAgrees
<1>7. x \in candidates
  BY <1>1, <1>2, <1>3, <1>4, <1>5, <1>6 DEF WaitingAhead, Candidates
<1>8. Before(b, x)
  BY <1>1, <1>2, <1>3, <1>7, SortsAgree
<1> QED
  BY <1>3, <1>4, <1>8 DEF Before

(* Only Call Next takes a customer out of the live queue to be served.     *)
LEMMA OnlyCallsServe ==
  ASSUME LifeInv, [Next]_vars, NEW b \in Bookings,
         ticketStatus[b] = "waiting", ticketStatus'[b] = "serving"
  PROVE  \E r \in Requests : CallNext(r)
<1>1. ASSUME NEW c, NEW x \in Serving(c), NEW outcome \in {"completed", "no_show"},
             Finish(x, outcome)
      PROVE  FALSE
  BY <1>1 DEF Serving, Finish, LifeInv, TypeOK
<1>2. ~\E c \in Counters : Complete(c) \/ MarkNoShow(c)
  BY <1>1 DEF Complete, MarkNoShow
<1>3. ASSUME NEW x \in Bookings,
             \/ CancelBoth(x)
             \/ \E q : Activate(x, q)
             \/ \E at, q : Reschedule(x, at, q)
      PROVE  FALSE
  BY <1>3 DEF CancelBoth, Activate, Reschedule, LifeInv, TypeOK
<1>4. ASSUME NEW x \in Bookings, NEW from, NEW who, NEW at, NEW checked,
             NEW ticket \in {"scheduled", "waiting"}, NEW q,
             Insert(x, from, who, at, checked, ticket, q)
      PROVE  FALSE
  BY <1>4 DEF Insert, LifeInv, TypeOK
<1>5. ~UNCHANGED <<bookingVars, ticketVars>>
  BY DEF ticketVars
<1> QED
  BY <1>2, <1>3, <1>4, <1>5
     DEF Next, VisitStep, BookOnline, CustomerWalkIn, GuestWalkIn, CheckIn, Cancel,
         ExpireUnchecked, CancelExpired, OperateCounters, Tick, vars

(* The position shown and the order of calls agree: nobody is called while *)
(* they are told that somebody waits ahead.                                *)
THEOREM FrontIsCalled == Spec => CalledFromTheFront
<1>1. LifeInv /\ [Next]_vars
        => [\A b \in Bookings :
              ticketStatus[b] = "waiting" /\ ticketStatus'[b] = "serving"
                => WaitingAhead(b) = {}]_vars
  BY CallFromFront, OnlyCallsServe
<1> QED
  BY <1>1, LifeInvariant, PTL DEF Spec, CalledFromTheFront

(* Whoever comes to wait now is not before one whose turn has come.        *)
LEMMA NobodyJumps ==
  ASSUME LifeInv, [Next]_vars, NEW b \in Bookings,
         ticketStatus[b] = "waiting", ticketStatus'[b] = "waiting", EligibleAt(b) < now
  PROVE  WaitingAhead(b)' \subseteq WaitingAhead(b)
<1>1. bookingStatus[b] = "pending" /\ checkedInAt[b] # None
  BY DEF LifeInv, StatusAgreement, TicketAgrees
<1>2. ~Change(b)
  BY <1>1 DEF Change, Entry, Exists, Activation, Unchecked, Move, Cancellation, Turn, Departure
<1>3. Same(b)
  BY <1>2, StepIsOneChange DEF OneChange
<1>4. EligibleAt(b)' = EligibleAt(b) /\ EligibleAt(b) \in Nat /\ now \in Nat
  BY <1>3, LiveTimes, TimesAreNaturals DEF Same, EligibleAt, LifeInv, TypeOK
<1> SUFFICES ASSUME NEW x \in WaitingAhead(b)'
             PROVE  x \in WaitingAhead(b)
  OBVIOUS
<1>5. x \in Bookings \ {b} /\ ticketStatus'[x] = "waiting" /\ Before(x, b)'
  BY DEF WaitingAhead
<1>6. CASE Same(x)
  BY <1>3, <1>5, <1>6 DEF Same, WaitingAhead, Before, EligibleAt
<1>7. CASE Change(x)
  <2>1. checkedInAt'[x] = now
    <3>1. CASE Entry(x)
      BY <1>5, <3>1 DEF Entry
    <3>2. CASE Activation(x)
      BY <3>2 DEF Activation
    <3>3. ~Move(x) /\ ~Cancellation(x) /\ ~Turn(x) /\ ~Departure(x)
      BY <1>5 DEF Move, Cancellation, Turn, Departure
    <3> QED
      BY <1>7, <3>1, <3>2, <3>3 DEF Change
  <2>2. appointment'[x] \in Nat
    BY <1>5, TypeStep, TimesAreNaturals DEF LifeInv, TypeOK
  <2>3. EligibleAt(x)' >= now /\ EligibleAt(x)' \in Nat
    BY <1>4, <2>1, <2>2 DEF EligibleAt, Larger
  <2>4. EligibleAt(x)' > EligibleAt(b)'
    BY <1>4, <2>3
  <2> QED
    BY <1>4, <1>5, <2>3, <2>4 DEF Before
<1> QED
  BY <1>5, <1>6, <1>7, StepIsOneChange DEF OneChange

(* The queue ahead of a customer whose turn has come only ever shrinks.    *)
THEOREM NobodyOvertakes == Spec => NoOvertaking
<1>1. LifeInv /\ [Next]_vars
        => [\A b \in Bookings :
              /\ ticketStatus[b] = "waiting" /\ ticketStatus'[b] = "waiting"
              /\ EligibleAt(b) < now
              => WaitingAhead(b)' \subseteq WaitingAhead(b)]_vars
  BY NobodyJumps
<1> QED
  BY <1>1, LifeInvariant, PTL DEF Spec, NoOvertaking

-----------------------------------------------------------------------------
(* Capacity.                                                               *)

(* A slot keeps to its capacity as bookings leave it, and when one that    *)
(* was allowed to comes to it.                                             *)
LEMMA PlaceTaken ==
  ASSUME IsFiniteSet(Bookings), SlotsWithinCapacity, NEW at \in Slots,
         \/ Reserved(at)' \subseteq Reserved(at)
         \/ \E b \in Bookings :
              SlotAvailable(at, b) /\ Reserved(at)' \subseteq Reserved(at) \cup {b}
  PROVE  Cardinality(Reserved(at)') <= SlotCapacity
<1>1. /\ IsFiniteSet(Reserved(at)) /\ Cardinality(Reserved(at)) \in Nat
      /\ IsFiniteSet(Reserved(at)') /\ Cardinality(Reserved(at)') \in Nat
  BY FS_Subset, FS_CardinalityType DEF Reserved
<1>2. Cardinality(Reserved(at)) <= SlotCapacity /\ SlotCapacity \in Nat
  BY LifecycleAssumption DEF SlotsWithinCapacity
<1>3. CASE Reserved(at)' \subseteq Reserved(at)
  <2>1. Cardinality(Reserved(at)') <= Cardinality(Reserved(at))
    BY <1>1, <1>3, FS_Subset
  <2> QED
    BY <1>1, <1>2, <2>1
<1>4. ASSUME NEW b \in Bookings, SlotAvailable(at, b), Reserved(at)' \subseteq Reserved(at) \cup {b}
      PROVE  Cardinality(Reserved(at)') <= SlotCapacity
  <2> DEFINE others == Reserved(at) \ {b}
  <2>1. IsFiniteSet(others) /\ Cardinality(others) \in Nat /\ Cardinality(others) < SlotCapacity
    BY <1>1, <1>4, FS_Subset, FS_CardinalityType DEF SlotAvailable
  <2>2. IsFiniteSet(others \cup {b}) /\ Cardinality(others \cup {b}) = Cardinality(others) + 1
    BY <2>1, FS_AddElement
  <2>3. Reserved(at)' \subseteq others \cup {b}
    BY <1>4
  <2>4. Cardinality(Reserved(at)') <= Cardinality(others \cup {b})
    BY <2>2, <2>3, FS_Subset
  <2> QED
    BY <1>1, <1>2, <2>1, <2>2, <2>4
<1> QED
  BY <1>3, <1>4

LEMMA CapacityStep ==
  ASSUME IsFiniteSet(Bookings), LifeInv, SlotsWithinCapacity, [Next]_vars
  PROVE  SlotsWithinCapacity'
<1> SUFFICES ASSUME NEW at \in Slots
             PROVE  Cardinality(Reserved(at)') <= SlotCapacity
  BY DEF SlotsWithinCapacity
<1>5. ASSUME NEW b \in Bookings, Change(b), \A x \in Bookings \ {b} : Same(x)
      PROVE  Cardinality(Reserved(at)') <= SlotCapacity
  <2>1. Reserved(at)' \subseteq Reserved(at) \cup {b}
    BY <1>5 DEF Same, Reserved
  <2>2. CASE b \in Reserved(at)' /\ b \notin Reserved(at)
    <3>1. SlotAvailable(at, b)
      <4>1. CASE Entry(b)
        BY <2>2, <4>1 DEF Entry, Reserved
      <4>2. CASE Move(b)
        BY <2>2, <4>2 DEF Move, Reserved
      <4>3. ASSUME UNCHANGED source[b], Activation(b) \/ Cancellation(b) \/ Turn(b) \/ Departure(b)
            PROVE  FALSE
        <5>1. /\ bookingStatus[b] \in {"pending", "confirmed"} /\ UNCHANGED appointment[b]
          BY <4>3 DEF Activation, Unchecked, Cancellation, Turn, Departure
        <5> QED
          BY <2>2, <4>3, <5>1 DEF Reserved
      <4> QED
        BY <1>5, <4>1, <4>2, <4>3 DEF Change
    <3> QED
      BY <2>1, <3>1, PlaceTaken
  <2>3. CASE Reserved(at)' \subseteq Reserved(at)
    BY <2>3, PlaceTaken
  <2> QED
    BY <2>1, <2>2, <2>3
<1>6. CASE \A x \in Bookings : Same(x)
  <2>1. Reserved(at)' \subseteq Reserved(at)
    BY <1>6 DEF Same, Reserved
  <2> QED
    BY <2>1, PlaceTaken
<1> QED
  BY <1>5, <1>6, StepIsOneChange DEF OneChange

(* No slot is overbooked online, by new bookings or by moved ones.         *)
THEOREM CapacityRespected ==
  ASSUME IsFiniteSet(Bookings)
  PROVE  Spec => []SlotsWithinCapacity
<1>1. Init => SlotsWithinCapacity
  <2> SUFFICES ASSUME Init, NEW at \in Slots
               PROVE  Cardinality(Reserved(at)) <= SlotCapacity
    BY DEF SlotsWithinCapacity
  <2>1. Reserved(at) = {}
    BY DEF Init, BookingsInit, Reserved
  <2> QED
    BY <2>1, FS_EmptySet, LifecycleAssumption
<1>2. LifeInv /\ SlotsWithinCapacity /\ [Next]_vars => SlotsWithinCapacity'
  BY CapacityStep
<1> QED
  BY <1>1, <1>2, LifeInvariant, PTL DEF Spec

-----------------------------------------------------------------------------
(* The branch implements QueueNumbers.                                     *)

(* A booking that generates a number for the date it is moved to and lane  *)
(* q, other bookings staying where they are, issues one in that scope.     *)
LEMMA GenerateIsIssue ==
  ASSUME TypeOK, NEW b \in Bookings, NEW at \in Times, NEW q \in QueueTypes,
         GenerateQueueNumber(b, at, q),
         bookingStatus'[b] # "none", appointment'[b] = at,
         \A x \in Bookings \ {b} : UNCHANGED <<bookingStatus[x], appointment[x]>>
  PROVE  \E s \in Scopes : Numbers!Issue(b, s)
<1> DEFINE s == <<DateOf(at), q>>
<1>1. s \in Scopes
  BY ScopesOfTimes
<1>2. PICK n \in 1..MaxNumber :
        /\ n > lastNumber[s]
        /\ lastNumber' = [lastNumber EXCEPT ![s] = n]
        /\ queueNumber' = [queueNumber EXCEPT ![b] = n]
        /\ queueType' = [queueType EXCEPT ![b] = q]
  BY GenerateIssues
<1>3. TicketScope' = [TicketScope EXCEPT ![b] = s]
  BY <1>2 DEF TicketScope, Exists, ScopeOf, TypeOK
<1> QED
  BY <1>1, <1>2, <1>3 DEF Numbers!Issue

(* A step that neither creates a booking nor changes a date, a lane, a     *)
(* number or a sequence is a stutter of QueueNumbers.                      *)
LEMMA NothingIssued ==
  ASSUME UNCHANGED <<appointment, queueType, queueNumber, lastNumber>>,
         \A x \in Bookings : bookingStatus'[x] = "none" <=> bookingStatus[x] = "none"
  PROVE  UNCHANGED Numbers!numberVars
BY DEF Numbers!numberVars, TicketScope, Exists, ScopeOf

LEMMA InsertIssues ==
  ASSUME TypeOK, NEW b \in Bookings, NEW from, NEW who, NEW at \in Times, NEW checked, NEW ticket,
         NEW q \in QueueTypes, Insert(b, from, who, at, checked, ticket, q)
  PROVE  Numbers!NumbersNext
<1>1. /\ GenerateQueueNumber(b, at, q)
      /\ bookingStatus'[b] # "none" /\ appointment'[b] = at
      /\ \A x \in Bookings \ {b} : UNCHANGED <<bookingStatus[x], appointment[x]>>
  BY DEF Insert, TypeOK
<1> QED
  BY <1>1, GenerateIsIssue DEF Numbers!NumbersNext

LEMMA ActivateIssues ==
  ASSUME TypeOK, NEW b \in Bookings, NEW q \in QueueTypes, Activate(b, q)
  PROVE  [Numbers!NumbersNext]_Numbers!numberVars
<1>1. /\ bookingStatus[b] # "none" /\ bookingStatus'[b] = "pending"
      /\ appointment' = appointment /\ appointment[b] \in Times
      /\ \A x \in Bookings \ {b} : UNCHANGED <<bookingStatus[x], appointment[x]>>
  BY DEF Activate, Unchecked, TypeOK
<1>2. CASE UNCHANGED <<queueType, queueNumber, lastNumber>>
  BY <1>1, <1>2, NothingIssued
<1>3. CASE GenerateQueueNumber(b, appointment[b], q)
  BY <1>1, <1>3, GenerateIsIssue DEF Numbers!NumbersNext
<1> QED
  BY <1>2, <1>3 DEF Activate

LEMMA RescheduleIssues ==
  ASSUME TypeOK, NEW b \in Bookings, NEW at \in Slots, NEW q \in QueueTypes, Reschedule(b, at, q)
  PROVE  Numbers!NumbersNext
<1>1. /\ GenerateQueueNumber(b, at, q) /\ at \in Times
      /\ bookingStatus'[b] # "none" /\ appointment'[b] = at
      /\ \A x \in Bookings \ {b} : UNCHANGED <<bookingStatus[x], appointment[x]>>
  BY LifecycleAssumption DEF Reschedule, TypeOK
<1> QED
  BY <1>1, GenerateIsIssue DEF Numbers!NumbersNext

LEMMA CancelIssuesNothing ==
  ASSUME TypeOK, NEW b \in Bookings, bookingStatus[b] # "none", CancelBoth(b)
  PROVE  UNCHANGED Numbers!numberVars
<1>1. /\ UNCHANGED <<appointment, queueType, queueNumber, lastNumber>>
      /\ \A x \in Bookings : bookingStatus'[x] = "none" <=> bookingStatus[x] = "none"
  BY DEF CancelBoth, TypeOK
<1> QED
  BY <1>1, NothingIssued

LEMMA CallIssuesNothing ==
  ASSUME TypeOK, NEW r \in Requests, CallNext(r)
  PROVE  UNCHANGED Numbers!numberVars
<1>1. CASE UNCHANGED <<bookingVars, ticketVars>>
  BY <1>1, NothingIssued DEF bookingVars, ticketVars
<1>2. ASSUME NEW b \in Candidates(request[r].type), Serve(b, request[r].counter)
      PROVE  UNCHANGED Numbers!numberVars
  <2>1. /\ UNCHANGED <<appointment, queueType, queueNumber, lastNumber>>
        /\ \A x \in Bookings : bookingStatus'[x] = "none" <=> bookingStatus[x] = "none"
    BY <1>2 DEF Candidates, Serve, TypeOK
  <2> QED
    BY <2>1, NothingIssued
<1> QED
  BY <1>1, <1>2 DEF CallNext

(* Here the agreement is needed: who is being served has a booking.        *)
LEMMA FinishIssuesNothing ==
  ASSUME LifeInv, NEW c, NEW b \in Serving(c), NEW outcome \in {"completed", "no_show"},
         Finish(b, outcome)
  PROVE  UNCHANGED Numbers!numberVars
<1>1. b \in Bookings /\ bookingStatus[b] # "none"
  BY DEF LifeInv, StatusAgreement, TicketAgrees, Serving
<1>2. /\ UNCHANGED <<appointment, queueType, queueNumber, lastNumber>>
      /\ \A x \in Bookings : bookingStatus'[x] = "none" <=> bookingStatus[x] = "none"
  BY <1>1 DEF Finish, LifeInv, TypeOK
<1> QED
  BY <1>2, NothingIssued

LEMMA NumbersStep == LifeInv /\ [Next]_vars => [Numbers!NumbersNext]_Numbers!numberVars
<1> SUFFICES ASSUME LifeInv, [Next]_vars
             PROVE  [Numbers!NumbersNext]_Numbers!numberVars
  OBVIOUS
<1> USE DEF LifeInv
<1>1. ASSUME NEW b \in Bookings, NEW q \in QueueTypes, NEW u \in Customers, NEW at \in Slots,
             BookOnline(b, u, at, q)
      PROVE  Numbers!NumbersNext
  BY <1>1, InsertIssues, LifecycleAssumption DEF BookOnline
<1>2. ASSUME NEW b \in Bookings, NEW q \in QueueTypes, NEW u \in Customers, CustomerWalkIn(b, u, q)
      PROVE  Numbers!NumbersNext
  BY <1>2, InsertIssues DEF CustomerWalkIn, TypeOK
<1>3. ASSUME NEW b \in Bookings, NEW q \in QueueTypes, GuestWalkIn(b, q)
      PROVE  Numbers!NumbersNext
  BY <1>3, InsertIssues DEF GuestWalkIn, TypeOK
<1>4. ASSUME NEW b \in Bookings, NEW q \in QueueTypes, CheckIn(b, q)
      PROVE  [Numbers!NumbersNext]_Numbers!numberVars
  BY <1>4, ActivateIssues, CancelIssuesNothing DEF CheckIn, CancelExpired, Unchecked
<1>5. ASSUME NEW b \in Bookings, NEW q \in QueueTypes, NEW at \in Slots, Reschedule(b, at, q)
      PROVE  Numbers!NumbersNext
  BY <1>5, RescheduleIssues
<1>6. ASSUME NEW b \in Bookings, Cancel(b) \/ ExpireUnchecked(b)
      PROVE  UNCHANGED Numbers!numberVars
  BY <1>6, CancelIssuesNothing DEF Cancel, Changeable, ExpireUnchecked, CancelExpired, Unchecked
<1>7. ASSUME NEW r \in Requests, CallNext(r)
      PROVE  UNCHANGED Numbers!numberVars
  BY <1>7, CallIssuesNothing
<1>8. ASSUME NEW c \in Counters, Complete(c) \/ MarkNoShow(c)
      PROVE  UNCHANGED Numbers!numberVars
  BY <1>8, FinishIssuesNothing DEF Complete, MarkNoShow
<1>9. CASE UNCHANGED <<bookingVars, ticketVars>>
  BY <1>9, NothingIssued DEF bookingVars, ticketVars
<1> QED
  BY <1>1, <1>2, <1>3, <1>4, <1>5, <1>6, <1>7, <1>8, <1>9
     DEF Next, VisitStep, OperateCounters, Tick, vars

(* The branch implements the allocator's promise.                          *)
THEOREM NumbersImplemented == Spec => ImplementsNumbers
<1>1. Init => Numbers!NumbersInit
  BY DEF Init, BookingsInit, Numbers!NumbersInit, TicketScope, Exists
<1> QED
  BY <1>1, NumbersStep, LifeInvariant, PTL DEF Spec, ImplementsNumbers, Numbers!NumbersSpec

(* NumbersProofs speaks of the same formulas as Numbers.                   *)
LEMMA NumbersSame ==
  /\ NumbersProofs!NumbersAssumption
  /\ Numbers!NumbersInit <=> NumbersProofs!NumbersInit
  /\ [Numbers!NumbersNext]_Numbers!numberVars
       <=> [NumbersProofs!NumbersNext]_NumbersProofs!numberVars
BY LifecycleAssumption
   DEF NumbersProofs!NumbersAssumption, Numbers!NumbersInit, NumbersProofs!NumbersInit,
       Numbers!NumbersNext, NumbersProofs!NumbersNext, Numbers!Issue, NumbersProofs!Issue,
       Numbers!numberVars, NumbersProofs!numberVars

(* So no two tickets of one date and lane ever show the same number: what  *)
(* is proved of the abstract allocator carries over.                       *)
THEOREM TicketNumbersUnique == Spec => []UniqueNumbers
<1>1. Spec => NumbersProofs!NumbersSpec
  BY NumbersImplemented, NumbersSame, PTL
     DEF ImplementsNumbers, Numbers!NumbersSpec, NumbersProofs!NumbersSpec
<1>2. NumbersProofs!NumbersSpec => []NumbersProofs!NumbersUnique
  BY NumbersSame, NumbersProofs!IssuedNumbersUnique
<1>3. TypeOK /\ NumbersProofs!NumbersUnique => UniqueNumbers
  BY DEF TypeOK, NumbersProofs!NumbersUnique, UniqueNumbers, TicketScope, ScopeOf, Scopes, Dates
<1> QED
  BY <1>1, <1>2, <1>3, TypeCorrect, PTL

-----------------------------------------------------------------------------
(* The branch implements Counters.                                         *)

(* While nobody's ticket or counter changes, the same counters are busy.   *)
LEMMA BusyKept ==
  ASSUME UNCHANGED <<ticketStatus, assignedCounter>>
  PROVE  BusyCounters' = BusyCounters
BY DEF BusyCounters, Serving

(* A customer who leaves the counter they are at, by whatever operation,   *)
(* ends service there: they were the only one.  Any other customer leaves  *)
(* the counters as they were.                                              *)
LEMMA LeavingEndsService ==
  ASSUME LifeInv, NEW b \in Bookings,
         ticketStatus'[b] # "serving",
         \A x \in Bookings \ {b} : UNCHANGED <<ticketStatus[x], assignedCounter[x]>>,
         UNCHANGED <<counterVars, request>>
  PROVE  [Desk!CountersNext]_Desk!deskVars
<1>1. \A c \in Counters : Serving(c)' = Serving(c) \ {b}
  BY DEF Serving
<1>2. CASE ticketStatus[b] = "serving"
  <2> DEFINE c == assignedCounter[b]
  <2>1. c \in Counters
    BY <1>2 DEF LifeInv, TypeOK, StatusAgreement
  <2>2. \A d \in Counters : b \in Serving(d) <=> d = c
    BY <1>2 DEF Serving
  <2>3. Serving(c) = {b}
    BY <1>2, <2>1, <2>2 DEF LifeInv, OneServingPerCounter, Serving
  <2>4. c \in BusyCounters /\ BusyCounters' = BusyCounters \ {c}
    BY <1>1, <2>1, <2>2, <2>3 DEF BusyCounters
  <2>5. Desk!EndService(c)
    BY <2>4 DEF Desk!EndService, counterVars
  <2> QED
    BY <2>1, <2>5 DEF Desk!CountersNext
<1>3. CASE ticketStatus[b] # "serving"
  <2>1. BusyCounters' = BusyCounters
    BY <1>1, <1>3 DEF BusyCounters, Serving
  <2> QED
    BY <2>1 DEF Desk!deskVars, counterVars
<1> QED
  BY <1>2, <1>3

LEMMA InsertKeepsDesk ==
  ASSUME LifeInv, NEW b \in Bookings, NEW from, NEW who, NEW at, NEW checked,
         NEW ticket \in {"scheduled", "waiting"}, NEW q, Insert(b, from, who, at, checked, ticket, q)
  PROVE  [Desk!CountersNext]_Desk!deskVars
<1>1. /\ ticketStatus'[b] # "serving" /\ UNCHANGED <<counterVars, request>>
      /\ \A x \in Bookings \ {b} : UNCHANGED <<ticketStatus[x], assignedCounter[x]>>
  BY DEF Insert, LifeInv, TypeOK
<1> QED
  BY <1>1, LeavingEndsService

(* A Call Next that finds a customer serves them at a counter that was     *)
(* idle; one that finds nobody, or a busy counter, serves nobody.          *)
LEMMA CallServes ==
  ASSUME LifeInv, NEW r \in Requests, CallNext(r)
  PROVE  Desk!CountersNext
<1> DEFINE c == request[r].counter
<1>1. c \in Counters
  BY RequestedCounter DEF CallNext, LifeInv
<1>2. Desk!FinishCall(r)
  BY DEF CallNext, Desk!FinishCall, counterVars
<1>3. CASE UNCHANGED <<bookingVars, ticketVars>>
  <2>1. Desk!ServeNobody(r)
    BY <1>2, <1>3, BusyKept DEF Desk!ServeNobody, ticketVars
  <2> QED
    BY <2>1 DEF Desk!CountersNext
<1>4. ASSUME NEW b \in Candidates(request[r].type), c \notin BusyCounters, Serve(b, c)
      PROVE  Desk!CountersNext
  <2>1. b \in Bookings /\ ticketStatus[b] = "waiting"
    BY <1>4 DEF Candidates
  <2>2. \A d \in Counters : Serving(d)' = IF d = c THEN Serving(d) \cup {b} ELSE Serving(d)
    BY <1>4, <2>1 DEF Serving, Serve, LifeInv, TypeOK
  <2>3. BusyCounters' = BusyCounters \cup {c}
    BY <1>1, <2>2 DEF BusyCounters
  <2>4. Desk!ServeCustomer(r)
    BY <1>2, <1>4, <2>3 DEF Desk!ServeCustomer
  <2> QED
    BY <2>4 DEF Desk!CountersNext
<1> QED
  BY <1>3, <1>4 DEF CallNext

LEMMA DeskStep == LifeInv /\ [Next]_vars => [Desk!CountersNext]_Desk!deskVars
<1> SUFFICES ASSUME LifeInv, [Next]_vars
             PROVE  [Desk!CountersNext]_Desk!deskVars
  OBVIOUS
<1>1. ASSUME NEW b \in Bookings, NEW q \in QueueTypes, NEW u \in Customers, NEW at \in Slots,
             BookOnline(b, u, at, q)
      PROVE  [Desk!CountersNext]_Desk!deskVars
  BY <1>1, InsertKeepsDesk DEF BookOnline
<1>2. ASSUME NEW b \in Bookings, NEW q \in QueueTypes, NEW u \in Customers, CustomerWalkIn(b, u, q)
      PROVE  [Desk!CountersNext]_Desk!deskVars
  BY <1>2, InsertKeepsDesk DEF CustomerWalkIn
<1>3. ASSUME NEW b \in Bookings, NEW q \in QueueTypes, GuestWalkIn(b, q)
      PROVE  [Desk!CountersNext]_Desk!deskVars
  BY <1>3, InsertKeepsDesk DEF GuestWalkIn
<1>4. ASSUME NEW b \in Bookings, CancelBoth(b)
      PROVE  [Desk!CountersNext]_Desk!deskVars
  <2>1. /\ ticketStatus'[b] # "serving" /\ UNCHANGED <<counterVars, request>>
        /\ \A x \in Bookings \ {b} : UNCHANGED <<ticketStatus[x], assignedCounter[x]>>
    BY <1>4 DEF CancelBoth, LifeInv, TypeOK
  <2> QED
    BY <2>1, LeavingEndsService
<1>5. ASSUME NEW b \in Bookings, NEW q \in QueueTypes, Activate(b, q)
      PROVE  [Desk!CountersNext]_Desk!deskVars
  <2>1. /\ ticketStatus'[b] # "serving" /\ UNCHANGED <<counterVars, request>>
        /\ \A x \in Bookings \ {b} : UNCHANGED <<ticketStatus[x], assignedCounter[x]>>
    BY <1>5 DEF Activate, LifeInv, TypeOK
  <2> QED
    BY <2>1, LeavingEndsService
<1>6. ASSUME NEW b \in Bookings, NEW q \in QueueTypes, NEW at \in Slots, Reschedule(b, at, q)
      PROVE  [Desk!CountersNext]_Desk!deskVars
  <2>1. /\ ticketStatus'[b] # "serving" /\ UNCHANGED <<counterVars, request>>
        /\ \A x \in Bookings \ {b} : UNCHANGED <<ticketStatus[x], assignedCounter[x]>>
    BY <1>6 DEF Reschedule, LifeInv, TypeOK
  <2> QED
    BY <2>1, LeavingEndsService
<1>7. ASSUME NEW r \in Requests, CallNext(r)
      PROVE  [Desk!CountersNext]_Desk!deskVars
  BY <1>7, CallServes
<1>8. ASSUME NEW b \in Bookings, NEW outcome \in {"completed", "no_show"}, Finish(b, outcome)
      PROVE  [Desk!CountersNext]_Desk!deskVars
  <2>1. /\ ticketStatus'[b] # "serving" /\ UNCHANGED <<counterVars, request>>
        /\ \A x \in Bookings \ {b} : UNCHANGED <<ticketStatus[x], assignedCounter[x]>>
    BY <1>8 DEF Finish, LifeInv, TypeOK
  <2> QED
    BY <2>1, LeavingEndsService
<1>9. CASE OperateCounters
  BY <1>9 DEF OperateCounters, Desk!CountersNext
<1>10. CASE UNCHANGED <<bookingVars, ticketVars, counterVars, request>>
  BY <1>10, BusyKept DEF ticketVars, counterVars, Desk!deskVars
<1>11. ASSUME NEW c \in Counters, Complete(c) \/ MarkNoShow(c)
       PROVE  [Desk!CountersNext]_Desk!deskVars
  BY <1>8, <1>11 DEF Complete, MarkNoShow, Serving
<1> QED
  BY <1>1, <1>2, <1>3, <1>4, <1>5, <1>6, <1>7, <1>9, <1>10, <1>11
     DEF Next, VisitStep, CheckIn, Cancel, ExpireUnchecked, CancelExpired, Tick, vars

(* The branch's counters behave as module Counters says, with "busy"       *)
(* computed from the tickets; two customers at one counter would break it. *)
THEOREM CountersImplemented == Spec => ImplementsCounters
<1>1. Init => Desk!CountersInit
  BY DEF Init
<1> QED
  BY <1>1, DeskStep, LifeInvariant, PTL DEF Spec, ImplementsCounters, Desk!CountersSpec
=============================================================================
