---------------------------- MODULE QueueHistory ----------------------------
(***************************************************************************)
(* What the branch writes down about a visit: the append-only events of a  *)
(* ticket (queues/events.py), the forecast observations that a signal      *)
(* derives from the events inside the same transaction (queues/signals.py, *)
(* forecasting.py), and the waits the operational report computes from the *)
(* events afterwards (queues/reporting.py).                                *)
(*                                                                         *)
(* An operation records literal statuses next to the rows it saves, so an  *)
(* event may contradict them; an observation is found by ticket and by     *)
(* what it still lacks, so an outcome may reach the wrong one.             *)
(***************************************************************************)
EXTENDS QueueLifecycle, Sequences

VARIABLES
  events,       \* QueueEvent rows of each ticket, by id
  observations  \* QueueForecastObservation rows of each ticket, by id

historyVars == <<events, observations>>
recordedVars == <<vars, historyVars>>

HistoryInit ==
  /\ Init
  /\ events = [b \in Bookings |-> << >>]
  /\ observations = [b \in Bookings |-> << >>]

-----------------------------------------------------------------------------
(* Observations.                                                           *)

Indices(b) == DOMAIN observations[b]

(* Mutant: the ticket's first observation, called or not.                  *)
MutantFirstEntered(b) == {1} \cap Indices(b)

(* record_call_outcome labels the latest observation that is not called.   *)
LatestOpen(b) ==
  LET open == {i \in Indices(b) : observations[b][i].calledAt = None}
  IN {i \in open : \A j \in open :
        \/ observations[b][j].checkedInAt < observations[b][i].checkedInAt
        \/ observations[b][j].checkedInAt = observations[b][i].checkedInAt /\ j <= i}

(* Mutant: the first one that was called and is not completed.             *)
MutantLatestInService(b) ==
  LET serving == {i \in Indices(b) : /\ observations[b][i].calledAt # None
                                     /\ observations[b][i].completedAt = None}
  IN {i \in serving : \A j \in serving : i <= j}

(* record_service_outcome: the latest one called and not completed.        *)
LatestInService(b) ==
  LET serving == {i \in Indices(b) : /\ observations[b][i].calledAt # None
                                     /\ observations[b][i].completedAt = None}
  IN {i \in serving : \A j \in serving :
        \/ observations[b][j].calledAt < observations[b][i].calledAt
        \/ observations[b][j].calledAt = observations[b][i].calledAt /\ j <= i}

Entered(b) ==
  observations' = [observations EXCEPT
    ![b] = Append(@, [checkedInAt |-> now, calledAt |-> None, completedAt |-> None])]

Called(b) ==
  observations' = [observations EXCEPT
    ![b] = [i \in DOMAIN @ |->
              IF i \in LatestOpen(b) THEN [@[i] EXCEPT !.calledAt = now] ELSE @[i]]]

Completed(b) ==
  observations' = [observations EXCEPT
    ![b] = [i \in DOMAIN @ |->
              IF i \in LatestInService(b) THEN [@[i] EXCEPT !.completedAt = now] ELSE @[i]]]

(* capture_forecasting_observation, on a new event of ticket b.            *)
Observe(b, type) ==
  CASE type = "checked_in" -> Entered(b)
    [] type = "called"     -> Called(b)
    [] type = "completed"  -> Completed(b)
    [] OTHER               -> UNCHANGED observations

-----------------------------------------------------------------------------
(* Events: "ticket" and "booking" are the pairs of statuses before and     *)
(* after, "none" standing for the empty string.                            *)
Record(b, type, ticket, booking) ==
  /\ events' = [events EXCEPT
       ![b] = Append(@, [type |-> type, ticket |-> ticket, booking |-> booking, at |-> now])]
  /\ Observe(b, type)

RecordedBookOnline(b, u, at, q) ==
  /\ BookOnline(b, u, at, q)
  /\ Record(b, "ticket_scheduled", <<"none", "scheduled">>, <<"none", "pending">>)

(* Walk-ins record no scheduling: the ticket is SCHEDULED for a moment.    *)
RecordedWalkIn(b, u, q) ==
  /\ IF u = Guest THEN GuestWalkIn(b, q) ELSE CustomerWalkIn(b, u, q)
  /\ Record(b, "checked_in", <<"scheduled", "waiting">>, <<"none", "pending">>)

RecordedActivate(b, q) ==
  /\ Activate(b, q)
  /\ Record(b, "checked_in", <<ticketStatus[b], "waiting">>, <<bookingStatus[b], "pending">>)

RecordCancelled(b) ==
  Record(b, "cancelled", <<ticketStatus[b], "cancelled">>, <<bookingStatus[b], "cancelled">>)

RecordedCancelExpired(b) == CancelExpired(b) /\ RecordCancelled(b)

RecordedCancel(b) == Cancel(b) /\ RecordCancelled(b)

(* Mutant: the statuses are read after they were changed.                  *)
MutantRecordedReschedule(b, at, q) ==
  /\ Reschedule(b, at, q)
  /\ Record(b, "rescheduled", <<"scheduled", "scheduled">>, <<"pending", "pending">>)

RecordedReschedule(b, at, q) ==
  /\ Reschedule(b, at, q)
  /\ Record(b, "rescheduled", <<ticketStatus[b], "scheduled">>, <<bookingStatus[b], "pending">>)

(* A call that serves nobody records nothing.                              *)
RecordedCallNext(r) ==
  /\ CallNext(r)
  /\ IF UNCHANGED ticketStatus THEN UNCHANGED historyVars
     ELSE \E b \in Bookings :
            /\ ticketStatus'[b] # ticketStatus[b]
            /\ Record(b, "called", <<"waiting", "serving">>, <<bookingStatus[b], "confirmed">>)

RecordedComplete(c) ==
  \E b \in Serving(c) :
    /\ Finish(b, "completed")
    /\ Record(b, "completed", <<"serving", "completed">>, <<bookingStatus[b], "completed">>)

RecordedNoShow(c) ==
  \E b \in Serving(c) :
    /\ checkedInAt[b] # None
    /\ Finish(b, "no_show")
    /\ Record(b, "no_show", <<"serving", "no_show">>, <<bookingStatus[b], "no_show">>)

RecordedStep ==
  \/ \E b \in Bookings, q \in QueueTypes :
       \/ \E u \in Customers, at \in Slots : RecordedBookOnline(b, u, at, q)
       \/ \E u \in Customers \cup {Guest} : RecordedWalkIn(b, u, q)
       \/ RecordedActivate(b, q)
       \/ \E at \in Slots : RecordedReschedule(b, at, q)
  \/ \E b \in Bookings : RecordedCancel(b) \/ RecordedCancelExpired(b)
  \/ \E r \in Requests : RecordedCallNext(r)
  \/ \E c \in Counters : RecordedComplete(c) \/ RecordedNoShow(c)

HistoryNext ==
  \/ RecordedStep
  \/ OperateCounters /\ UNCHANGED historyVars
  \/ Tick /\ UNCHANGED historyVars

HistorySpec == HistoryInit /\ [][HistoryNext]_recordedVars

-----------------------------------------------------------------------------
(* build_branch_operational_report, over a period that holds everything:   *)
(* the times of the first event of a type, and the waits between them.     *)
Of(b, type) == {i \in DOMAIN events[b] : events[b][i].type = type}

FirstAt(b, type) ==
  events[b][CHOOSE i \in Of(b, type) : \A j \in Of(b, type) : i <= j].at

ReportedWaits(b) ==
  IF Of(b, "checked_in") = {} \/ Of(b, "called") = {} THEN {}
  ELSE {w \in {FirstAt(b, "called") - FirstAt(b, "checked_in")} : w >= 0}

ReportedServices(b) ==
  IF Of(b, "called") = {} \/ Of(b, "completed") = {} THEN {}
  ELSE {w \in {FirstAt(b, "completed") - FirstAt(b, "called")} : w >= 0}

-----------------------------------------------------------------------------
Last(s) == s[Len(s)]

(* The events explain the rows (docs/DAY36, the sequence of transitions    *)
(* that produced the current state): each one starts from the statuses the *)
(* one before left, and the last one leaves the statuses on record.        *)
HistoryExplainsState ==
  \A b \in Bookings :
    /\ Exists(b) <=> events[b] # << >>
    /\ \A i \in DOMAIN events[b] \ {1} :
         /\ events[b][i].ticket[1] = events[b][i - 1].ticket[2]
         /\ events[b][i].booking[1] = events[b][i - 1].booking[2]
         /\ events[b][i].at >= events[b][i - 1].at
    /\ Exists(b) =>
         /\ Last(events[b]).ticket[2] = ticketStatus[b]
         /\ Last(events[b]).booking[2] = bookingStatus[b]

(* Every outcome reaches the observation of the visit it ends, although a  *)
(* customer who is rescheduled and checks in again leaves observations     *)
(* behind that are still open, or in service for ever: the last one has    *)
(* the visit's own check-in, and what it lacks follows the ticket; those   *)
(* before it never are completed.                                          *)
ObservationFollowsVisit ==
  \A b \in Bookings :
    LET all == observations[b]
    IN /\ \A i \in DOMAIN all \ {Len(all)} : all[i].completedAt = None
       /\ ticketStatus[b] \in {"waiting", "serving", "completed", "no_show"} =>
            /\ all # << >>
            /\ Last(all).checkedInAt = checkedInAt[b]
            /\ Last(all).calledAt = None <=> ticketStatus[b] = "waiting"
            /\ Last(all).completedAt = None <=> ticketStatus[b] # "completed"

(* "An earlier observation should not be overwritten by a later attempt"   *)
(* (docs/DAY59): a label, once given, stays.                               *)
LabelsKept ==
  [][\A b \in Bookings : \A i \in Indices(b) :
       /\ i \in Indices(b)'
       /\ observations'[b][i].checkedInAt = observations[b][i].checkedInAt
       /\ observations[b][i].calledAt # None =>
            observations'[b][i].calledAt = observations[b][i].calledAt
       /\ observations[b][i].completedAt # None =>
            observations'[b][i].completedAt = observations[b][i].completedAt]_recordedVars

(* docs/DAY39, "Actual Wait = CALLED.occurred_at - CHECKED_IN.occurred_at" *)
(* and "Actual Service Time = COMPLETED.occurred_at - CALLED.occurred_at": *)
(* a time in the report is that of one of the ticket's visits, and not of  *)
(* a check-in and a call, or a call and a completion, of different visits. *)
ReportedTimesHappened ==
  \A b \in Bookings :
    /\ \A w \in ReportedWaits(b) :
         \E i \in Indices(b) :
           /\ observations[b][i].calledAt # None
           /\ w = observations[b][i].calledAt - observations[b][i].checkedInAt
    /\ \A w \in ReportedServices(b) :
         \E i \in Indices(b) :
           /\ observations[b][i].completedAt # None
           /\ w = observations[b][i].completedAt - observations[b][i].calledAt
=============================================================================
