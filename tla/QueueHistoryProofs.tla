------------------------- MODULE QueueHistoryProofs -------------------------
(***************************************************************************)
(* Proofs about module QueueHistory, for any number of bookings and any    *)
(* length of their histories: recording leaves the branch alone, events    *)
(* explain the rows, and an observation follows the visit it belongs to.   *)
(***************************************************************************)
EXTENDS QueueHistory, QueueLifecycleProofs

EventTypes ==
  {"ticket_scheduled", "checked_in", "called", "completed", "no_show", "cancelled", "rescheduled"}

EventRows == [type : EventTypes, ticket : TicketStatuses \X TicketStatuses,
              booking : BookingStatuses \X BookingStatuses, at : Times]

ObservationRows == [checkedInAt : Times, calledAt : Times \cup {None},
                    completedAt : Times \cup {None}]

-----------------------------------------------------------------------------
(* What every operation that records has in common.                        *)

(* The five ways in which a visit goes on, by the event that tells of it.  *)
Turns(b, type) ==
  \/ /\ type = "checked_in"
     /\ ticketStatus[b] \in {"none", "scheduled"} /\ ticketStatus'[b] = "waiting"
     /\ checkedInAt'[b] = now
  \/ /\ type = "called"
     /\ ticketStatus[b] = "waiting" /\ ticketStatus'[b] = "serving"
     /\ checkedInAt'[b] = checkedInAt[b]
  \/ /\ type \in {"completed", "no_show"}
     /\ ticketStatus[b] = "serving" /\ ticketStatus'[b] = type
     /\ checkedInAt'[b] = checkedInAt[b]
  \/ /\ type \in {"ticket_scheduled", "cancelled", "rescheduled"}
     /\ ticketStatus[b] # "completed" /\ ticketStatus'[b] \in {"scheduled", "cancelled"}

(* Booking b's ticket went from t0, as recorded, to t1, the booking from   *)
(* b0 to b1.                                                               *)
Written(b, type, t0, t1, b0, b1) ==
  /\ Record(b, type, <<t0, t1>>, <<b0, b1>>)
  /\ type \in EventTypes
  /\ t0 \in TicketStatuses /\ t1 \in TicketStatuses
  /\ b0 \in BookingStatuses /\ b1 \in BookingStatuses \ {"none"}
  /\ now' = now
  /\ \A x \in Bookings \ {b} : UNCHANGED <<bookingStatus[x], ticketStatus[x], checkedInAt[x]>>
  /\ Exists(b) => t0 = ticketStatus[b] /\ b0 = bookingStatus[b]
  /\ ticketStatus'[b] = t1 /\ bookingStatus'[b] = b1
  /\ Turns(b, type)

(* The statuses of a booking agree before an operation looks at them.      *)
LEMMA Agreed ==
  ASSUME LifeInv, NEW b \in Bookings
  PROVE  /\ ~Exists(b) => ticketStatus[b] = "none"
         /\ Unchecked(b) => ticketStatus[b] = "scheduled" /\ bookingStatus[b] = "pending"
         /\ bookingStatus[b] \in {"pending", "confirmed"} => ticketStatus[b] # "completed"
         /\ ticketStatus[b] = "waiting" => bookingStatus[b] = "pending"
         /\ ticketStatus[b] = "serving" => bookingStatus[b] = "confirmed"
         /\ ticketStatus[b] \in TicketStatuses /\ bookingStatus[b] \in BookingStatuses
BY DEF LifeInv, TypeOK, StatusAgreement, TicketAgrees, Exists, Unchecked,
       TicketStatuses, BookingStatuses

LEMMA BookingWritten ==
  ASSUME LifeInv, NEW b \in Bookings, NEW u, NEW at, NEW q, RecordedBookOnline(b, u, at, q)
  PROVE  Written(b, "ticket_scheduled", "none", "scheduled", "none", "pending")
BY Agreed DEF RecordedBookOnline, BookOnline, Insert, Written, Turns, LifeInv, TypeOK,
              TicketStatuses, BookingStatuses, EventTypes

LEMMA WalkInWritten ==
  ASSUME LifeInv, NEW b \in Bookings, NEW u, NEW q, RecordedWalkIn(b, u, q)
  PROVE  Written(b, "checked_in", "scheduled", "waiting", "none", "pending")
BY Agreed DEF RecordedWalkIn, CustomerWalkIn, GuestWalkIn, Insert, Written, Turns, LifeInv, TypeOK,
              TicketStatuses, BookingStatuses, EventTypes

LEMMA ActivationWritten ==
  ASSUME LifeInv, NEW b \in Bookings, NEW q, RecordedActivate(b, q)
  PROVE  Written(b, "checked_in", ticketStatus[b], "waiting", bookingStatus[b], "pending")
BY Agreed DEF RecordedActivate, Activate, Written, Turns, LifeInv, TypeOK,
              TicketStatuses, BookingStatuses, EventTypes

LEMMA CancellationWritten ==
  ASSUME LifeInv, NEW b \in Bookings, RecordedCancel(b) \/ RecordedCancelExpired(b)
  PROVE  Written(b, "cancelled", ticketStatus[b], "cancelled", bookingStatus[b], "cancelled")
BY Agreed DEF RecordedCancel, RecordedCancelExpired, RecordCancelled, Cancel, Changeable,
              CancelExpired, Unchecked, CancelBoth, Written, Turns, LifeInv, TypeOK,
              TicketStatuses, BookingStatuses, EventTypes

LEMMA ReschedulingWritten ==
  ASSUME LifeInv, NEW b \in Bookings, NEW at, NEW q, RecordedReschedule(b, at, q)
  PROVE  Written(b, "rescheduled", ticketStatus[b], "scheduled", bookingStatus[b], "pending")
BY Agreed DEF RecordedReschedule, Reschedule, Changeable, Written, Turns, LifeInv, TypeOK,
              TicketStatuses, BookingStatuses, EventTypes

LEMMA CompletionWritten ==
  ASSUME LifeInv, NEW c \in Counters, NEW b \in Serving(c), Finish(b, "completed"),
         Record(b, "completed", <<"serving", "completed">>, <<bookingStatus[b], "completed">>)
  PROVE  Written(b, "completed", "serving", "completed", bookingStatus[b], "completed")
BY Agreed DEF Serving, Finish, Written, Turns, LifeInv, TypeOK,
              TicketStatuses, BookingStatuses, EventTypes

LEMMA NoShowWritten ==
  ASSUME LifeInv, NEW c \in Counters, NEW b \in Serving(c), Finish(b, "no_show"),
         Record(b, "no_show", <<"serving", "no_show">>, <<bookingStatus[b], "no_show">>)
  PROVE  Written(b, "no_show", "serving", "no_show", bookingStatus[b], "no_show")
BY Agreed DEF Serving, Finish, Written, Turns, LifeInv, TypeOK,
              TicketStatuses, BookingStatuses, EventTypes

(* A call writes the row it changes, and only if it changes one.           *)
LEMMA CallWritten ==
  ASSUME LifeInv, NEW r \in Requests, RecordedCallNext(r)
  PROVE  \/ UNCHANGED <<historyVars, now, bookingStatus, ticketStatus, checkedInAt>>
         \/ \E b \in Bookings :
              Written(b, "called", "waiting", "serving", bookingStatus[b], "confirmed")
<1>1. CallNext(r)
  BY DEF RecordedCallNext
<1>2. CASE UNCHANGED <<bookingVars, ticketVars>>
  BY <1>1, <1>2 DEF RecordedCallNext, CallNext, bookingVars, ticketVars
<1>3. ASSUME NEW b \in Candidates(request[r].type), NEW c, Serve(b, c)
      PROVE  \E x \in Bookings :
               Written(x, "called", "waiting", "serving", bookingStatus[x], "confirmed")
  <2>1. /\ b \in Bookings /\ ticketStatus[b] = "waiting" /\ ticketStatus'[b] = "serving"
        /\ bookingStatus'[b] = "confirmed"
        /\ \A x \in Bookings \ {b} :
             UNCHANGED <<bookingStatus[x], ticketStatus[x], checkedInAt[x]>>
        /\ UNCHANGED <<now, checkedInAt>>
    BY <1>1, <1>3 DEF Candidates, Serve, CallNext, LifeInv, TypeOK
  <2>2. PICK x \in Bookings :
          /\ ticketStatus'[x] # ticketStatus[x]
          /\ Record(x, "called", <<"waiting", "serving">>, <<bookingStatus[x], "confirmed">>)
    BY <2>1 DEF RecordedCallNext
  <2>3. x = b
    BY <2>1, <2>2
  <2> QED
    BY <2>1, <2>2, <2>3, Agreed DEF Written, Turns, TicketStatuses, BookingStatuses, EventTypes
<1> QED
  BY <1>1, <1>2, <1>3 DEF CallNext

(* A step of the branch writes one event, or leaves the visits alone.      *)
LEMMA StepWritten ==
  ASSUME LifeInv, [HistoryNext]_recordedVars
  PROVE  \/ \E b \in Bookings : \E type, t0, t1, b0, b1 : Written(b, type, t0, t1, b0, b1)
         \/ UNCHANGED <<historyVars, bookingStatus, ticketStatus, checkedInAt>>
<1>1. CASE RecordedStep
  BY <1>1, BookingWritten, WalkInWritten, ActivationWritten, CancellationWritten,
     ReschedulingWritten, CallWritten, CompletionWritten, NoShowWritten
     DEF RecordedStep, RecordedComplete, RecordedNoShow, Serving
<1>2. CASE UNCHANGED <<historyVars, bookingStatus, ticketStatus, checkedInAt>>
  BY <1>2
<1> QED
  BY <1>1, <1>2 DEF HistoryNext, OperateCounters, Tick, recordedVars, vars, bookingVars, ticketVars

(* And what it does to the branch is a step of QueueLifecycle.             *)
LEMMA RecordedIsStep ==
  ASSUME [HistoryNext]_recordedVars
  PROVE  [Next]_vars
<1>1. ASSUME NEW b \in Bookings, NEW q \in QueueTypes, NEW u \in Customers \cup {Guest},
             RecordedWalkIn(b, u, q)
      PROVE  GuestWalkIn(b, q) \/ (u \in Customers /\ CustomerWalkIn(b, u, q))
  BY <1>1 DEF RecordedWalkIn
<1>2. ASSUME NEW c \in Counters, RecordedComplete(c) \/ RecordedNoShow(c)
      PROVE  Complete(c) \/ MarkNoShow(c)
  BY <1>2 DEF RecordedComplete, RecordedNoShow, Complete, MarkNoShow
<1>3. \A b \in Bookings, q \in QueueTypes :
        /\ \A u \in Customers, at \in Slots : RecordedBookOnline(b, u, at, q) => BookOnline(b, u, at, q)
        /\ RecordedActivate(b, q) => CheckIn(b, q)
        /\ \A at \in Slots : RecordedReschedule(b, at, q) => Reschedule(b, at, q)
  BY DEF RecordedBookOnline, RecordedActivate, RecordedReschedule, CheckIn
<1>4. \A b \in Bookings :
        /\ RecordedCancel(b) => Cancel(b)
        /\ RecordedCancelExpired(b) => \A q \in QueueTypes : CheckIn(b, q)
  BY DEF RecordedCancel, RecordedCancelExpired, CheckIn
<1>5. \A r \in Requests : RecordedCallNext(r) => CallNext(r)
  BY DEF RecordedCallNext
<1>6. "general" \in QueueTypes
  BY LifecycleAssumption
<1>7. RecordedStep => VisitStep
  BY <1>1, <1>2, <1>3, <1>4, <1>5, <1>6 DEF RecordedStep, VisitStep
<1> QED
  BY <1>7 DEF HistoryNext, Next, recordedVars

-----------------------------------------------------------------------------
(* Events.                                                                 *)

Follows(e, f) ==
  /\ f.ticket[1] = e.ticket[2] /\ f.booking[1] = e.booking[2]
  /\ f.at >= e.at

Chained(s) == \A i \in 2..Len(s) : Follows(s[i - 1], s[i])

(* The events of one booking: typed, chained, and of the past; the last    *)
(* one leaves the statuses on record.                                      *)
Explained(b) ==
  /\ events[b] \in Seq(EventRows)
  /\ Exists(b) <=> events[b] # << >>
  /\ Chained(events[b])
  /\ events[b] # << >> =>
       /\ Last(events[b]).ticket[2] = ticketStatus[b]
       /\ Last(events[b]).booking[2] = bookingStatus[b]
       /\ Last(events[b]).at <= now

EventsInv == DOMAIN events = Bookings /\ \A b \in Bookings : Explained(b)

LEMMA AppendLast ==
  ASSUME NEW S, NEW s \in Seq(S), NEW e \in S
  PROVE  /\ Append(s, e) \in Seq(S) /\ Append(s, e) # << >>
         /\ Len(Append(s, e)) = Len(s) + 1 /\ Last(Append(s, e)) = e
         /\ \A i \in 1..Len(s) : Append(s, e)[i] = s[i]
BY DEF Last

LEMMA LastIn ==
  ASSUME NEW S, NEW s \in Seq(S), s # << >>
  PROVE  Last(s) \in S
BY DEF Last

LEMMA ChainGrows ==
  ASSUME NEW s \in Seq(EventRows), NEW e \in EventRows, Chained(s),
         s # << >> => Follows(Last(s), e)
  PROVE  Chained(Append(s, e))
<1> SUFFICES ASSUME NEW i \in 2..Len(Append(s, e))
             PROVE  Follows(Append(s, e)[i - 1], Append(s, e)[i])
  BY DEF Chained
<1>1. Len(s) \in Nat /\ Len(Append(s, e)) = Len(s) + 1
  BY AppendLast
<1>2. CASE i \in 2..Len(s)
  BY <1>1, <1>2, AppendLast DEF Chained
<1>3. CASE i = Len(s) + 1
  <2>1. s # << >> /\ Append(s, e)[i - 1] = Last(s) /\ Append(s, e)[i] = e
    BY <1>1, <1>3, AppendLast DEF Last
  <2> QED
    BY <2>1
<1> QED
  BY <1>1, <1>2, <1>3

(* The event an operation writes goes on from the one before.              *)
LEMMA WrittenExplained ==
  ASSUME LifeInv, EventsInv, NEW b \in Bookings, NEW type, NEW t0, NEW t1, NEW b0, NEW b1,
         Written(b, type, t0, t1, b0, b1)
  PROVE  EventsInv'
<1> DEFINE e == [type |-> type, ticket |-> <<t0, t1>>, booking |-> <<b0, b1>>, at |-> now]
<1>1. events' = [events EXCEPT ![b] = Append(@, e)]
  BY DEF Written, Record
<1>2. e \in EventRows /\ now \in Nat
  BY TimesAreNaturals DEF Written, EventRows, LifeInv, TypeOK
<1>3. events[b] \in Seq(EventRows) /\ events'[b] = Append(events[b], e)
  BY <1>1 DEF EventsInv, Explained
<1>4. events[b] # << >> => Follows(Last(events[b]), e)
  BY DEF EventsInv, Explained, Written, Follows
<1>5. Chained(events'[b])
  BY <1>2, <1>3, <1>4, ChainGrows DEF EventsInv, Explained
<1>6. /\ events'[b] \in Seq(EventRows) /\ events'[b] # << >> /\ Last(events'[b]) = e
  BY <1>2, <1>3, AppendLast
<1>7. Explained(b)'
  BY <1>2, <1>5, <1>6 DEF Explained, Exists, Written
<1>8. ASSUME NEW x \in Bookings \ {b}
      PROVE  Explained(x)'
  <2>1. UNCHANGED <<events[x], bookingStatus[x], ticketStatus[x], now>>
    BY <1>1 DEF Written, EventsInv
  <2> QED
    BY <2>1 DEF EventsInv, Explained, Exists, Chained, Last
<1> QED
  BY <1>1, <1>7, <1>8 DEF EventsInv

LEMMA EventsKept ==
  ASSUME LifeInv, EventsInv, [Next]_vars, UNCHANGED <<events, bookingStatus, ticketStatus>>
  PROVE  EventsInv'
<1>1. now' >= now /\ now \in Nat /\ now' \in Nat
  BY ClockGoesOn, TimesAreNaturals DEF LifeInv, TypeOK
<1>2. ASSUME NEW b \in Bookings, events[b] # << >>
      PROVE  Last(events[b]).at <= now'
  <2>1. Last(events[b]) \in EventRows
    BY <1>2, LastIn DEF EventsInv, Explained
  <2>2. Last(events[b]).at \in Nat /\ Last(events[b]).at <= now
    BY <1>2, <2>1, TimesAreNaturals DEF EventRows, EventsInv, Explained
  <2> QED
    BY <1>1, <2>2
<1>3. ASSUME NEW b \in Bookings
      PROVE  Explained(b)'
  <2>1. UNCHANGED <<events[b], bookingStatus[b], ticketStatus[b]>>
    OBVIOUS
  <2> QED
    BY <1>2, <2>1 DEF EventsInv, Explained, Exists, Chained, Last
<1> QED
  BY <1>3 DEF EventsInv

-----------------------------------------------------------------------------
(* Observations.  That the outcome reaches the right one rests on the      *)
(* clock: they are in the order of their check-ins and of their calls, so  *)
(* the latest of those still open is the last one there is.                *)

InOrder(all) ==
  \A i, j \in 1..Len(all) : i <= j =>
    /\ all[i].checkedInAt <= all[j].checkedInAt
    /\ all[i].calledAt # None /\ all[j].calledAt # None => all[i].calledAt <= all[j].calledAt

Past(t, all) ==
  \A i \in 1..Len(all) :
    /\ all[i].checkedInAt <= t
    /\ all[i].calledAt # None => all[i].calledAt <= t

OnVisit(status, checked, all) ==
  /\ \A i \in 1..Len(all) :
       all[i].completedAt # None => i = Len(all) /\ status = "completed"
  /\ status \in {"waiting", "serving", "completed", "no_show"} =>
       /\ all # << >>
       /\ Last(all).checkedInAt = checked
       /\ Last(all).calledAt = None <=> status = "waiting"
       /\ Last(all).completedAt = None <=> status # "completed"

Observed(b) ==
  /\ observations[b] \in Seq(ObservationRows)
  /\ InOrder(observations[b]) /\ Past(now, observations[b])
  /\ OnVisit(ticketStatus[b], checkedInAt[b], observations[b])

ObservationsInv == DOMAIN observations = Bookings /\ \A b \in Bookings : Observed(b)

LEMMA RowTimes ==
  ASSUME NEW all \in Seq(ObservationRows), NEW i \in 1..Len(all)
  PROVE  /\ all[i] \in ObservationRows
         /\ all[i].checkedInAt \in Nat
         /\ all[i].calledAt \in Nat \cup {None}
<1>1. all[i] \in ObservationRows
  OBVIOUS
<1> QED
  BY <1>1, TimesAreNaturals DEF ObservationRows

LEMMA OpenIsLast ==
  ASSUME NEW b, Observed(b), ticketStatus[b] = "waiting"
  PROVE  LatestOpen(b) = {Len(observations[b])}
<1> DEFINE all == observations[b]
           n == Len(all)
           open == {i \in 1..n : all[i].calledAt = None}
<1>1. /\ n \in 1..n /\ Indices(b) = 1..n /\ n \in open /\ InOrder(all)
      /\ all \in Seq(ObservationRows)
  BY DEF Observed, OnVisit, Last, Indices
<1>2. \A i \in 1..n : all[i].checkedInAt \in Nat /\ all[i].checkedInAt <= all[n].checkedInAt
  BY <1>1, RowTimes DEF InOrder
<1>3. LatestOpen(b) = {i \in open : \A j \in open :
                         \/ all[j].checkedInAt < all[i].checkedInAt
                         \/ all[j].checkedInAt = all[i].checkedInAt /\ j <= i}
  BY <1>1 DEF LatestOpen
<1> QED
  BY <1>1, <1>2, <1>3

LEMMA InServiceIsLast ==
  ASSUME NEW b, Observed(b), ticketStatus[b] = "serving"
  PROVE  LatestInService(b) = {Len(observations[b])}
<1> DEFINE all == observations[b]
           n == Len(all)
           serving == {i \in 1..n : all[i].calledAt # None /\ all[i].completedAt = None}
<1>1. /\ n \in 1..n /\ Indices(b) = 1..n /\ n \in serving /\ InOrder(all)
      /\ all \in Seq(ObservationRows)
  BY DEF Observed, OnVisit, Last, Indices
<1>2. \A i \in serving : all[i].calledAt \in Nat /\ all[i].calledAt <= all[n].calledAt
  BY <1>1, RowTimes DEF InOrder
<1>3. LatestInService(b) = {i \in serving : \A j \in serving :
                              \/ all[j].calledAt < all[i].calledAt
                              \/ all[j].calledAt = all[i].calledAt /\ j <= i}
  BY <1>1 DEF LatestInService
<1> QED
  BY <1>1, <1>2, <1>3

(* The three ways in which the observations of a booking change.           *)
LEMMA RowReplaced ==
  ASSUME NEW all \in Seq(ObservationRows), all # << >>, NEW row \in ObservationRows,
         NEW new, new = [i \in DOMAIN all |-> IF i \in {Len(all)} THEN row ELSE all[i]]
  PROVE  /\ new \in Seq(ObservationRows) /\ Len(new) = Len(all) /\ new # << >>
         /\ Last(new) = row
         /\ \A i \in 1..(Len(all) - 1) : new[i] = all[i]
<1> DEFINE n == Len(all)
<1>1. n \in Nat \ {0} /\ DOMAIN all = 1..n
  OBVIOUS
<1>2. \A i \in 1..n : all[i] \in ObservationRows
  OBVIOUS
<1>3. new \in [1..n -> ObservationRows]
  BY <1>1, <1>2
<1>4. new \in Seq(ObservationRows) /\ Len(new) = n
  BY <1>1, <1>3
<1>5. new[n] = row
  BY <1>1
<1>6. \A i \in DOMAIN all : i # n => new[i] = all[i]
  BY <1>1
<1>7. \A i \in 1..(n - 1) : i \in 1..n /\ i # n
  <2> HIDE DEF n
  <2> QED
    BY <1>1
<1>8. \A i \in 1..(n - 1) : new[i] = all[i]
  BY <1>1, <1>6, <1>7
<1> QED
  BY <1>1, <1>4, <1>5, <1>8 DEF Last

LEMMA AddedInOrder ==
  ASSUME LifeInv, NEW all \in Seq(ObservationRows), InOrder(all), Past(now, all),
         NEW row \in ObservationRows, row.checkedInAt = now, row.calledAt = None
  PROVE  InOrder(Append(all, row)) /\ Past(now, Append(all, row))
<1> DEFINE new == Append(all, row)
<1>1. /\ Len(new) = Len(all) + 1 /\ Len(all) \in Nat
      /\ \A i \in 1..Len(all) : new[i] = all[i]
      /\ new[Len(all) + 1] = row
  BY AppendLast DEF Last
<1>2. now \in Nat
  BY TimesAreNaturals DEF LifeInv, TypeOK
<1> HIDE DEF new
<1>3. InOrder(new)
  <2> SUFFICES ASSUME NEW i \in 1..Len(new), NEW j \in 1..Len(new), i <= j
               PROVE  /\ new[i].checkedInAt <= new[j].checkedInAt
                      /\ new[i].calledAt # None /\ new[j].calledAt # None
                           => new[i].calledAt <= new[j].calledAt
    BY DEF InOrder
  <2>1. CASE j \in 1..Len(all)
    <3>1. i \in 1..Len(all)
      BY <1>1, <2>1
    <3> QED
      BY <1>1, <2>1, <3>1 DEF InOrder
  <2>2. CASE j = Len(all) + 1
    <3>1. i \in 1..Len(all) \/ i = j
      BY <1>1, <2>2
    <3> QED
      BY <1>1, <1>2, <2>2, <3>1 DEF Past
  <2> QED
    BY <1>1, <2>1, <2>2
<1>4. Past(now, new)
  <2> SUFFICES ASSUME NEW i \in 1..Len(new)
               PROVE  /\ new[i].checkedInAt <= now
                      /\ new[i].calledAt # None => new[i].calledAt <= now
    BY DEF Past
  <2>1. i \in 1..Len(all) \/ i = Len(all) + 1
    BY <1>1
  <2> QED
    BY <1>1, <1>2, <2>1 DEF Past
<1> QED
  BY <1>3, <1>4 DEF new

(* A row that keeps its check-in, and its call if it has one, is called    *)
(* now if it was not.                                                      *)
LEMMA ReplacedInOrder ==
  ASSUME LifeInv, NEW all \in Seq(ObservationRows), InOrder(all), Past(now, all), all # << >>,
         NEW new \in Seq(ObservationRows), Len(new) = Len(all),
         \A i \in 1..(Len(all) - 1) : new[i] = all[i],
         Last(new).checkedInAt = Last(all).checkedInAt,
         Last(new).calledAt \in {Last(all).calledAt, now}
  PROVE  InOrder(new) /\ Past(now, new)
<1> DEFINE n == Len(all)
<1>1. /\ n \in Nat \ {0} /\ Last(new) = new[n] /\ Last(all) = all[n]
      /\ now \in Nat
  BY TimesAreNaturals DEF Last, LifeInv, TypeOK
<1>2. \A i \in 1..n : /\ new[i].checkedInAt \in Nat /\ all[i].calledAt \in Nat \cup {None}
                      /\ new[i].calledAt \in Nat \cup {None}
  BY RowTimes
<1> HIDE DEF n
<1>3. \A i \in 1..n : i \in 1..(n - 1) \/ i = n
  BY <1>1
<1>4. InOrder(new)
  <2> SUFFICES ASSUME NEW i \in 1..n, NEW j \in 1..n, i <= j
               PROVE  /\ new[i].checkedInAt <= new[j].checkedInAt
                      /\ new[i].calledAt # None /\ new[j].calledAt # None
                           => new[i].calledAt <= new[j].calledAt
    BY DEF InOrder, n
  <2>1. /\ all[i].checkedInAt <= all[j].checkedInAt
        /\ all[i].calledAt # None /\ all[j].calledAt # None => all[i].calledAt <= all[j].calledAt
        /\ all[i].calledAt # None => all[i].calledAt <= now
    BY DEF InOrder, Past, n
  <2>2. CASE j \in 1..(n - 1)
    <3>1. i \in 1..(n - 1)
      BY <1>1, <2>2
    <3> QED
      BY <2>1, <2>2, <3>1 DEF n
  <2>3. CASE j = n /\ i \in 1..(n - 1)
    <3>1. new[i] = all[i] /\ new[j].checkedInAt = all[j].checkedInAt
          /\ new[j].calledAt \in {all[j].calledAt, now}
      BY <1>1, <2>3 DEF n
    <3> QED
      BY <2>1, <3>1
  <2>4. CASE i = j
    BY <1>2, <2>4
  <2> QED
    BY <1>1, <1>3, <2>2, <2>3, <2>4
<1>5. Past(now, new)
  <2> SUFFICES ASSUME NEW i \in 1..n
               PROVE  /\ new[i].checkedInAt <= now
                      /\ new[i].calledAt # None => new[i].calledAt <= now
    BY DEF Past, n
  <2>1. /\ all[i].checkedInAt <= now
        /\ all[i].calledAt # None => all[i].calledAt <= now
    BY DEF Past, n
  <2>2. CASE i \in 1..(n - 1)
    BY <2>1, <2>2 DEF n
  <2>3. CASE i = n
    BY <1>1, <2>1, <2>3 DEF n
  <2> QED
    BY <1>3, <2>2, <2>3
<1> QED
  BY <1>4, <1>5

LEMMA EnteredObserved ==
  ASSUME LifeInv, ObservationsInv, NEW b \in Bookings, Entered(b), now' = now,
         ticketStatus[b] # "completed", ticketStatus'[b] = "waiting", checkedInAt'[b] = now
  PROVE  Observed(b)'
<1> DEFINE old == observations[b]
           row == [checkedInAt |-> now, calledAt |-> None, completedAt |-> None]
<1>1. /\ observations'[b] = Append(old, row)
      /\ old \in Seq(ObservationRows) /\ InOrder(old) /\ Past(now, old) /\ OnVisit(ticketStatus[b], checkedInAt[b], old)
  BY DEF Entered, ObservationsInv, Observed
<1>2. row \in ObservationRows
  BY DEF ObservationRows, LifeInv, TypeOK
<1>3. InOrder(Append(old, row)) /\ Past(now, Append(old, row))
  BY <1>1, <1>2, AddedInOrder
<1>4. /\ Append(old, row) \in Seq(ObservationRows) /\ Append(old, row) # << >>
      /\ Len(Append(old, row)) = Len(old) + 1 /\ Len(old) \in Nat
      /\ Last(Append(old, row)) = row /\ Append(old, row)[Len(old) + 1] = row
      /\ \A i \in 1..Len(old) : Append(old, row)[i] = old[i]
  BY <1>1, <1>2, AppendLast DEF Last
<1>5. OnVisit("waiting", now, Append(old, row))
  <2>1. \A i \in 1..Len(Append(old, row)) : Append(old, row)[i].completedAt = None
    <3>1. \A i \in 1..Len(old) : old[i].completedAt = None
      BY <1>1 DEF OnVisit
    <3>2. \A i \in 1..Len(Append(old, row)) : i \in 1..Len(old) \/ i = Len(old) + 1
      BY <1>4
    <3> QED
      BY <1>4, <3>1, <3>2
  <2> QED
    BY <1>1, <1>4, <2>1 DEF OnVisit, Last
<1> QED
  BY <1>1, <1>3, <1>4, <1>5 DEF Observed, InOrder, Past

(* The call, or the completion, of the visit of the last observation.      *)
LEMMA LabelledObserved ==
  ASSUME LifeInv, NEW b \in Bookings, Observed(b), observations[b] # << >>, now' = now,
         NEW row \in ObservationRows,
         row.checkedInAt = Last(observations[b]).checkedInAt,
         row.calledAt \in {Last(observations[b]).calledAt, now}, row.calledAt # None,
         row.completedAt = None <=> ticketStatus'[b] # "completed",
         observations'[b] = [i \in DOMAIN observations[b] |->
           IF i \in {Len(observations[b])} THEN row ELSE observations[b][i]],
         ticketStatus[b] \in {"waiting", "serving"}, ticketStatus'[b] \in {"serving", "completed"},
         checkedInAt'[b] = checkedInAt[b]
  PROVE  Observed(b)'
<1> DEFINE old == observations[b]
           new == observations'[b]
           n == Len(old)
<1>1. /\ old \in Seq(ObservationRows) /\ InOrder(old) /\ Past(now, old) /\ OnVisit(ticketStatus[b], checkedInAt[b], old)
      /\ n \in Nat \ {0}
  BY DEF Observed
<1>2. /\ new \in Seq(ObservationRows) /\ Len(new) = n /\ new # << >> /\ Last(new) = row
      /\ \A i \in 1..(n - 1) : new[i] = old[i]
  BY <1>1, RowReplaced
<1>3. InOrder(new) /\ Past(now, new)
  BY <1>1, <1>2, ReplacedInOrder
<1>4. \A i \in 1..(n - 1) : new[i].completedAt = None
  <2>1. \A i \in 1..(n - 1) : i \in 1..n /\ i # n
    BY <1>1
  <2>2. \A i \in 1..n : i # n => old[i].completedAt = None
    BY <1>1 DEF OnVisit
  <2> QED
    BY <1>2, <2>1, <2>2
<1>5. \A i \in 1..n : i \in 1..(n - 1) \/ i = n
  BY <1>1
<1>6. new[n] = row
  BY <1>2 DEF Last
<1>7. row.checkedInAt = checkedInAt'[b]
  BY <1>1 DEF OnVisit
<1>8. \A i \in 1..n : new[i].completedAt # None => i = n /\ ticketStatus'[b] = "completed"
  BY <1>4, <1>5, <1>6
<1>9. OnVisit(ticketStatus'[b], checkedInAt'[b], new)
  BY <1>2, <1>7, <1>8 DEF OnVisit, Last
<1> QED
  BY <1>2, <1>3, <1>9 DEF Observed, InOrder, Past

LEMMA WrittenObserved ==
  ASSUME LifeInv, ObservationsInv, NEW b \in Bookings, NEW type, NEW t0, NEW t1, NEW b0, NEW b1,
         Written(b, type, t0, t1, b0, b1)
  PROVE  ObservationsInv'
<1>1. /\ now' = now /\ Turns(b, type) /\ Observe(b, type) /\ Observed(b)
      /\ \A x \in Bookings \ {b} : UNCHANGED <<ticketStatus[x], checkedInAt[x]>>
  BY DEF Written, Record, ObservationsInv
<1>2. DOMAIN observations' = Bookings /\ \A x \in Bookings \ {b} : observations'[x] = observations[x]
  BY <1>1 DEF Observe, Entered, Called, Completed, ObservationsInv, Turns
<1>3. ASSUME NEW x \in Bookings \ {b}
      PROVE  Observed(x)'
  <2>1. UNCHANGED <<observations[x], ticketStatus[x], checkedInAt[x], now>> /\ Observed(x)
    BY <1>1, <1>2, <1>3 DEF ObservationsInv
  <2> QED
    BY <2>1 DEF Observed, InOrder, Past, OnVisit, Last
<1> DEFINE old == observations[b]
<1>4. ASSUME type = "checked_in"
      PROVE  Observed(b)'
  BY <1>1, <1>4, EnteredObserved DEF Observe, Turns
<1>5. ASSUME type = "called"
      PROVE  Observed(b)'
  <2>1. old # << >> /\ LatestOpen(b) = {Len(old)} /\ Last(old).completedAt = None
    BY <1>1, <1>5, OpenIsLast DEF Turns, Observed, OnVisit
  <2> DEFINE row == [Last(old) EXCEPT !.calledAt = now]
  <2>2. Last(old) \in ObservationRows
    BY <1>1, <2>1, LastIn DEF Observed
  <2>3. /\ row \in ObservationRows /\ row.checkedInAt = Last(old).checkedInAt
        /\ row.calledAt = now /\ row.calledAt # None /\ row.completedAt = None
    BY <2>1, <2>2, TimesAreNaturals DEF ObservationRows, LifeInv, TypeOK
  <2>4. observations'[b] =
          [i \in DOMAIN old |-> IF i \in {Len(old)} THEN row ELSE old[i]]
    BY <1>1, <1>5, <2>1 DEF Observe, Called, ObservationsInv, Last
  <2> QED
    BY <1>1, <1>5, <2>1, <2>3, <2>4, LabelledObserved DEF Turns
<1>6. ASSUME type = "completed"
      PROVE  Observed(b)'
  <2>1. old # << >> /\ LatestInService(b) = {Len(old)} /\ Last(old).calledAt # None
    BY <1>1, <1>6, InServiceIsLast DEF Turns, Observed, OnVisit
  <2> DEFINE row == [Last(old) EXCEPT !.completedAt = now]
  <2>2. Last(old) \in ObservationRows
    BY <1>1, <2>1, LastIn DEF Observed
  <2>3. /\ row \in ObservationRows /\ row.checkedInAt = Last(old).checkedInAt
        /\ row.calledAt = Last(old).calledAt /\ row.calledAt # None /\ row.completedAt # None
    BY <2>1, <2>2, TimesAreNaturals DEF ObservationRows, LifeInv, TypeOK
  <2>4. observations'[b] =
          [i \in DOMAIN old |-> IF i \in {Len(old)} THEN row ELSE old[i]]
    BY <1>1, <1>6, <2>1 DEF Observe, Completed, ObservationsInv, Last
  <2> QED
    BY <1>1, <1>6, <2>1, <2>3, <2>4, LabelledObserved DEF Turns
<1>7. ASSUME type \in {"no_show", "ticket_scheduled", "cancelled", "rescheduled"}
      PROVE  Observed(b)'
  <2>1. observations'[b] = old
    BY <1>1, <1>7 DEF Observe
  <2>2. \/ /\ ticketStatus[b] = "serving" /\ ticketStatus'[b] = "no_show"
           /\ checkedInAt'[b] = checkedInAt[b]
        \/ ticketStatus[b] # "completed" /\ ticketStatus'[b] \in {"scheduled", "cancelled"}
    BY <1>1, <1>7 DEF Turns
  <2>3. OnVisit(ticketStatus'[b], checkedInAt'[b], old)
    BY <1>1, <2>1, <2>2 DEF Observed, OnVisit, Last
  <2> QED
    BY <1>1, <2>1, <2>3 DEF Observed, InOrder, Past
<1>8. Observed(b)'
  BY <1>1, <1>4, <1>5, <1>6, <1>7 DEF Turns
<1> QED
  BY <1>2, <1>3, <1>8 DEF ObservationsInv

LEMMA ObservationsKept ==
  ASSUME LifeInv, ObservationsInv, [Next]_vars, UNCHANGED <<observations, ticketStatus, checkedInAt>>
  PROVE  ObservationsInv'
<1>1. now' >= now /\ now \in Nat /\ now' \in Nat
  BY ClockGoesOn, TimesAreNaturals DEF LifeInv, TypeOK
<1> SUFFICES ASSUME NEW b \in Bookings
             PROVE  Observed(b)'
  BY DEF ObservationsInv
<1>2. Observed(b) /\ UNCHANGED <<observations[b], ticketStatus[b], checkedInAt[b]>>
  BY DEF ObservationsInv
<1>3. Past(now', observations[b])
  <2> SUFFICES ASSUME NEW i \in 1..Len(observations[b])
               PROVE  /\ observations[b][i].checkedInAt <= now'
                      /\ observations[b][i].calledAt # None => observations[b][i].calledAt <= now'
    BY <1>2 DEF Past
  <2>1. /\ observations[b][i].checkedInAt \in Nat
        /\ observations[b][i].calledAt \in Nat \cup {None}
    BY <1>2, RowTimes DEF Observed
  <2> QED
    BY <1>1, <1>2, <2>1 DEF Observed, Past
<1> QED
  BY <1>2, <1>3 DEF Observed, InOrder, OnVisit, Last

-----------------------------------------------------------------------------
HistoryInv == LifeInv /\ EventsInv /\ ObservationsInv

LEMMA HistoryStep ==
  ASSUME HistoryInv, [HistoryNext]_recordedVars
  PROVE  HistoryInv'
<1>1. [Next]_vars
  BY RecordedIsStep
<1>2. LifeInv'
  BY <1>1, TypeStep, AgreementStep DEF HistoryInv, LifeInv
<1>3. CASE \E b \in Bookings : \E type, t0, t1, b0, b1 : Written(b, type, t0, t1, b0, b1)
  BY <1>2, <1>3, WrittenExplained, WrittenObserved DEF HistoryInv
<1>4. CASE UNCHANGED <<historyVars, bookingStatus, ticketStatus, checkedInAt>>
  BY <1>1, <1>2, <1>4, EventsKept, ObservationsKept DEF HistoryInv, historyVars
<1> QED
  BY <1>3, <1>4, StepWritten DEF HistoryInv

LEMMA HistoryInvariant == HistorySpec => []HistoryInv
<1>1. HistoryInit => HistoryInv
  <2> SUFFICES ASSUME HistoryInit
               PROVE  HistoryInv
    OBVIOUS
  <2>1. /\ LifeInv
        /\ \A b \in Bookings : events[b] = << >> /\ observations[b] = << >> /\ ~Exists(b)
        /\ \A b \in Bookings : ticketStatus[b] = "none"
    BY LifeInit DEF HistoryInit, Init, BookingsInit, Exists
  <2>2. EventsInv
    BY <2>1 DEF HistoryInit, EventsInv, Explained, Chained
  <2>3. ObservationsInv
    BY <2>1 DEF HistoryInit, ObservationsInv, Observed, InOrder, Past, OnVisit
  <2> QED
    BY <2>1, <2>2, <2>3 DEF HistoryInv
<1>2. HistoryInv /\ [HistoryNext]_recordedVars => HistoryInv'
  BY HistoryStep
<1> QED
  BY <1>1, <1>2, PTL DEF HistorySpec

(* What is recorded does not change what happens.                          *)
THEOREM HistoryImplementsBranch == HistorySpec => Spec
<1>1. HistoryInit => Init
  BY DEF HistoryInit
<1>2. [HistoryNext]_recordedVars => [Next]_vars
  BY RecordedIsStep
<1> QED
  BY <1>1, <1>2, PTL DEF HistorySpec, Spec

(* The events of a ticket tell how it came to the statuses it has.         *)
THEOREM EventsExplainState == HistorySpec => []HistoryExplainsState
<1>1. HistoryInv => HistoryExplainsState
  <2> SUFFICES ASSUME HistoryInv, NEW b \in Bookings
               PROVE  /\ Exists(b) <=> events[b] # << >>
                      /\ \A i \in DOMAIN events[b] \ {1} :
                           /\ events[b][i].ticket[1] = events[b][i - 1].ticket[2]
                           /\ events[b][i].booking[1] = events[b][i - 1].booking[2]
                           /\ events[b][i].at >= events[b][i - 1].at
                      /\ Exists(b) =>
                           /\ Last(events[b]).ticket[2] = ticketStatus[b]
                           /\ Last(events[b]).booking[2] = bookingStatus[b]
    BY DEF HistoryExplainsState
  <2>1. Explained(b)
    BY DEF HistoryInv, EventsInv
  <2>2. \A i \in DOMAIN events[b] \ {1} : i \in 2..Len(events[b])
    BY <2>1 DEF Explained
  <2> QED
    BY <2>1, <2>2 DEF Explained, Chained, Follows
<1> QED
  BY <1>1, HistoryInvariant, PTL

(* An outcome reaches the observation of the visit it ends, whatever other *)
(* observations the ticket left behind.                                    *)
THEOREM OutcomeReachesVisit == HistorySpec => []ObservationFollowsVisit
<1>1. HistoryInv => ObservationFollowsVisit
  <2> SUFFICES ASSUME HistoryInv, NEW b \in Bookings
               PROVE  LET all == observations[b]
                      IN /\ \A i \in DOMAIN all \ {Len(all)} : all[i].completedAt = None
                         /\ ticketStatus[b] \in {"waiting", "serving", "completed", "no_show"} =>
                              /\ all # << >>
                              /\ Last(all).checkedInAt = checkedInAt[b]
                              /\ Last(all).calledAt = None <=> ticketStatus[b] = "waiting"
                              /\ Last(all).completedAt = None <=> ticketStatus[b] # "completed"
    BY DEF ObservationFollowsVisit
  <2>1. Observed(b) /\ DOMAIN observations[b] = 1..Len(observations[b])
    BY DEF HistoryInv, ObservationsInv, Observed
  <2> QED
    BY <2>1 DEF Observed, OnVisit
<1> QED
  BY <1>1, HistoryInvariant, PTL

(* A label, once given, is not given again.                                *)
THEOREM LabelsOnce == HistorySpec => LabelsKept
<1> DEFINE Kept == \A b \in Bookings : \A i \in Indices(b) :
             /\ i \in Indices(b)'
             /\ observations'[b][i].checkedInAt = observations[b][i].checkedInAt
             /\ observations[b][i].calledAt # None =>
                  observations'[b][i].calledAt = observations[b][i].calledAt
             /\ observations[b][i].completedAt # None =>
                  observations'[b][i].completedAt = observations[b][i].completedAt
<1>1. ASSUME HistoryInv, [HistoryNext]_recordedVars
      PROVE  Kept
  <2>1. CASE UNCHANGED observations
    BY <2>1 DEF Indices
  <2>2. ASSUME NEW x \in Bookings, Entered(x)
        PROVE  Kept
    BY <1>1, <2>2 DEF Entered, Indices, HistoryInv, ObservationsInv, Observed
  <2>3. ASSUME NEW x \in Bookings, Called(x)
        PROVE  Kept
    BY <1>1, <2>3 DEF Called, LatestOpen, Indices, HistoryInv, ObservationsInv, Observed
  <2>4. ASSUME NEW x \in Bookings, Completed(x)
        PROVE  Kept
    BY <1>1, <2>4 DEF Completed, LatestInService, Indices, HistoryInv, ObservationsInv,
                       Observed
  <2>5. ASSUME NEW x \in Bookings, NEW type, Observe(x, type)
        PROVE  Kept
    BY <2>1, <2>2, <2>3, <2>4, <2>5 DEF Observe
  <2> QED
    BY <1>1, <2>1, <2>5, StepWritten DEF HistoryInv, Written, Record, historyVars
<1> QED
  BY <1>1, HistoryInvariant, PTL DEF HistorySpec, LabelsKept
=============================================================================
