----------------------------- MODULE Disruptions -----------------------------
(***************************************************************************)
(* Service disruptions next to the life of the branch (QueueLifecycle): a  *)
(* manager pauses the service for a date and later resumes it; resuming    *)
(* records which waiting customers were affected, notifies them, and       *)
(* offers those at risk other appointments; a registered customer selects  *)
(* one, which moves the booking.                                           *)
(*                                                                         *)
(* Neither request of a manager runs in a transaction of its own: each is  *)
(* a sequence of transactions, and "task" holds what a request in flight   *)
(* has read and still has to do.  A request may fail between any two.      *)
(* The customer's selection is one transaction.                            *)
(***************************************************************************)
EXTENDS QueueLifecycle

CONSTANTS
  Pauses,              \* identifiers of the pauses
  Managers,            \* the managers' requests that may be in flight
  AverageServiceTime,  \* ticks a customer takes; a tick is whole minutes
  DaysAhead,           \* days searched for another appointment: 14
  MaxOptions           \* most appointments offered: 5

Impacts == Pauses \X Bookings \X {"affected", "reschedule_risk"}
Tasks ==
  [phase : {"create"}, date : Dates]
    \cup [phase : {"close", "find"}, pause : Pauses]
    \cup [phase : {"impacts"}, pause : Pauses, end : Times]
    \cup [phase : {"notify"}, pause : Pauses, work : SUBSET Impacts]
    \cup [phase : {"insert", "mark"}, pause : Pauses, work : SUBSET Impacts, impact : Impacts]
    \cup [phase : {"recommend"}, pause : Pauses, work : SUBSET (Impacts \X Dates)]
Recommendations ==
  [status : {"pending", "applied"}, options : SUBSET Slots, selected : Slots \cup {None}]

ASSUME DisruptionsAssumption ==
  /\ Pauses \subseteq Nat
  /\ AverageServiceTime \in Nat \ {0}
  /\ DaysAhead \in Nat
  /\ MaxOptions \in Nat
  /\ None \notin Tasks
  /\ None \notin Recommendations
  /\ "priority" \in QueueTypes

VARIABLES
  pauseDate, startedAt, endedAt,  \* QueuePause; active while endedAt is None
  impacts, notified,              \* QueueDisruptionImpact, and its is_notified
  notices,                        \* how many Notifications each impact has
  recommendation,                 \* RescheduleRecommendation and its options
  task

disruptionVars ==
  <<pauseDate, startedAt, endedAt, impacts, notified, notices, recommendation, task>>
allVars == <<vars, disruptionVars>>

DisruptionsTypeOK ==
  /\ TypeOK
  /\ pauseDate \in [Pauses -> Dates \cup {None}]
  /\ startedAt \in [Pauses -> Times]
  /\ endedAt \in [Pauses -> Times \cup {None}]
  /\ impacts \subseteq Impacts
  /\ notified \subseteq impacts
  /\ notices \in [Impacts -> Nat]
  /\ recommendation \in [Impacts -> Recommendations \cup {None}]
  /\ task \in [Managers -> Tasks \cup {None}]

NoDisruptions ==
  /\ pauseDate = [p \in Pauses |-> None]
  /\ startedAt = [p \in Pauses |-> 0]
  /\ endedAt = [p \in Pauses |-> None]
  /\ impacts = {}
  /\ notified = {}
  /\ notices = [i \in Impacts |-> 0]
  /\ recommendation = [i \in Impacts |-> None]
  /\ task = [m \in Managers |-> None]

Active(p) == pauseDate[p] # None /\ endedAt[p] = None
Registered(i) == customer[i[2]] # Guest

(* Request m goes on to task t, and nothing of the queue changes.          *)
Proceed(m, t) == task' = [task EXCEPT ![m] = t] /\ UNCHANGED vars

-----------------------------------------------------------------------------
(* Pausing: pause_queue looks for an active pause, then creates one.       *)

BeginPause(m, d) ==
  /\ task[m] = None
  /\ ~\E p \in Pauses : Active(p) /\ pauseDate[p] = d
  /\ Proceed(m, [phase |-> "create", date |-> d])
  /\ UNCHANGED <<pauseDate, startedAt, endedAt, impacts, notified, notices, recommendation>>

CreatePause(m, p) ==
  /\ task[m] # None /\ task[m].phase = "create"
  /\ pauseDate[p] = None
  /\ \A x \in Pauses : x < p => pauseDate[x] # None
  /\ pauseDate' = [pauseDate EXCEPT ![p] = task[m].date]
  /\ startedAt' = [startedAt EXCEPT ![p] = now]
  /\ Proceed(m, None)
  /\ UNCHANGED <<endedAt, impacts, notified, notices, recommendation>>

-----------------------------------------------------------------------------
(* Resuming: QueuePauseResumeAPIView.  A pause that has ended is processed *)
(* again.                                                                  *)

BeginResume(m, p) ==
  /\ task[m] = None
  /\ pauseDate[p] # None
  /\ Proceed(m, IF Active(p) THEN [phase |-> "close", pause |-> p]
                             ELSE [phase |-> "impacts", pause |-> p, end |-> endedAt[p]])
  /\ UNCHANGED <<pauseDate, startedAt, endedAt, impacts, notified, notices, recommendation>>

(* resume_queue, on the object the view read.                              *)
ClosePause(m) ==
  /\ task[m] # None /\ task[m].phase = "close"
  /\ LET p == task[m].pause
     IN /\ endedAt' = [endedAt EXCEPT ![p] = now]
        /\ Proceed(m, [phase |-> "impacts", pause |-> p, end |-> now])
  /\ UNCHANGED <<pauseDate, startedAt, impacts, notified, notices, recommendation>>

(* Python's round(n / d), to the even neighbour when halfway.              *)
RoundHalfEven(n, d) ==
  LET k == n \div d
      twice == 2 * (n % d)
  IN IF twice < d \/ (twice = d /\ k % 2 = 0) THEN k ELSE k + 1

LostCapacity(p, end) == RoundHalfEven(end - startedAt[p], AverageServiceTime)

Affected(p) ==
  {b \in Bookings : ticketStatus[b] = "waiting" /\ DateOf(appointment[b]) = pauseDate[p]}

(* The last "lost" of the affected tickets, in the order of creation.      *)
AtRisk(p, lost) ==
  {b \in Affected(p) : Cardinality({x \in Affected(p) : x > b}) < lost}

CreateImpacts(m) ==
  /\ task[m] # None /\ task[m].phase = "impacts"
  /\ LET p == task[m].pause
         lost == LostCapacity(p, task[m].end)
     IN /\ impacts' = impacts \cup ({p} \X Affected(p) \X {"affected"})
                              \cup ({p} \X AtRisk(p, lost) \X {"reschedule_risk"})
        /\ Proceed(m, [phase |-> "find", pause |-> p])
  /\ UNCHANGED <<pauseDate, startedAt, endedAt, notified, notices, recommendation>>

-----------------------------------------------------------------------------
(* create_notification_for_unnotified_impacts: the impacts found by one    *)
(* query, and then, for each, get_or_create (a query and an insertion) and *)
(* the mark, each a transaction.                                           *)

FindUnnotified(m) ==
  /\ task[m] # None /\ task[m].phase = "find"
  /\ LET p == task[m].pause
         work == {i \in impacts \ notified : i[1] = p}
     IN Proceed(m, [phase |-> "notify", pause |-> p, work |-> work])
  /\ UNCHANGED <<pauseDate, startedAt, endedAt, impacts, notified, notices, recommendation>>

(* Mutant: the impact is marked before its notification is inserted.       *)
MutantMarkFirst(m, i) ==
  /\ task[m] # None /\ task[m].phase = "notify"
  /\ i \in task[m].work
  /\ LET rest == task[m].work \ {i}
         Then(phase) ==
           [phase |-> phase, pause |-> task[m].pause, work |-> rest, impact |-> i]
     IN \/ /\ ~Registered(i) /\ Proceed(m, [task[m] EXCEPT !.work = rest])
           /\ UNCHANGED notified
        \/ /\ Registered(i) /\ notices[i] = 0 /\ Proceed(m, Then("insert"))
           /\ notified' = notified \cup {i}
        \/ /\ Registered(i) /\ notices[i] = 1 /\ Proceed(m, Then("mark"))
           /\ UNCHANGED notified
  /\ UNCHANGED <<pauseDate, startedAt, endedAt, impacts, notices, recommendation>>

(* Guests have no inbox: their impacts stay unnotified.  get() raises when *)
(* it finds more than one row, which ends the request.                     *)
GetNotice(m, i) ==
  /\ task[m] # None /\ task[m].phase = "notify"
  /\ i \in task[m].work
  /\ LET rest == task[m].work \ {i}
         Then(phase) ==
           [phase |-> phase, pause |-> task[m].pause, work |-> rest, impact |-> i]
     IN \/ ~Registered(i) /\ Proceed(m, [task[m] EXCEPT !.work = rest])
        \/ Registered(i) /\ notices[i] = 0 /\ Proceed(m, Then("insert"))
        \/ Registered(i) /\ notices[i] = 1 /\ Proceed(m, Then("mark"))
        \/ Registered(i) /\ notices[i] > 1 /\ Proceed(m, None)
  /\ UNCHANGED <<pauseDate, startedAt, endedAt, impacts, notified, notices, recommendation>>

InsertNotice(m) ==
  /\ task[m] # None /\ task[m].phase = "insert"
  /\ notices' = [notices EXCEPT ![task[m].impact] = @ + 1]
  /\ Proceed(m, [task[m] EXCEPT !.phase = "mark"])
  /\ UNCHANGED <<pauseDate, startedAt, endedAt, impacts, notified, recommendation>>

(* Mutant: the loop returns after the first impact it marks.               *)
MutantMarkNotified(m) ==
  /\ task[m] # None /\ task[m].phase = "mark"
  /\ notified' = notified \cup {task[m].impact}
  /\ Proceed(m, [phase |-> "notify", pause |-> task[m].pause, work |-> {}])
  /\ UNCHANGED <<pauseDate, startedAt, endedAt, impacts, notices, recommendation>>

MarkNotified(m) ==
  /\ task[m] # None /\ task[m].phase = "mark"
  /\ notified' = notified \cup {task[m].impact}
  /\ Proceed(m, [phase |-> "notify", pause |-> task[m].pause, work |-> task[m].work])
  /\ UNCHANGED <<pauseDate, startedAt, endedAt, impacts, notices, recommendation>>

-----------------------------------------------------------------------------
(* create_reschedule_recommendations_for_risk_impacts: one query for the   *)
(* risks with their bookings, then a transaction for each.                 *)

Recommending(p, work) ==
  IF work = {} THEN None ELSE [phase |-> "recommend", pause |-> p, work |-> work]

FindRisks(m) ==
  /\ task[m] # None /\ task[m].phase = "notify" /\ task[m].work = {}
  /\ LET p == task[m].pause
         risks == {i \in impacts : i[1] = p /\ i[3] = "reschedule_risk"}
     IN Proceed(m, Recommending(p, {<<i, DateOf(appointment[i[2]])>> : i \in risks}))
  /\ UNCHANGED <<pauseDate, startedAt, endedAt, impacts, notified, notices, recommendation>>

(* get_available_reschedule_slots, counting from the booking's date "d".   *)
RescheduleSlots(b, d) ==
  LET open == {s \in Slots : DateOf(s) \in (d + 1)..(d + DaysAhead) /\ SlotAvailable(s, b)}
  IN {s \in open : Cardinality({t \in open : t < s}) < MaxOptions}

(* Mutant: a recommendation is refreshed whatever its status.              *)
MutantRecommend(m, i, d) ==
  /\ task[m] # None /\ task[m].phase = "recommend"
  /\ <<i, d>> \in task[m].work
  /\ LET slots == RescheduleSlots(i[2], d)
     IN recommendation' =
          IF slots # {}
            THEN [recommendation EXCEPT ![i] =
                    [status |-> "pending", options |-> slots, selected |-> None]]
            ELSE recommendation
  /\ Proceed(m, Recommending(task[m].pause, task[m].work \ {<<i, d>>}))
  /\ UNCHANGED <<pauseDate, startedAt, endedAt, impacts, notified, notices>>

(* A new recommendation, or new options for a pending one.                 *)
Recommend(m, i, d) ==
  /\ task[m] # None /\ task[m].phase = "recommend"
  /\ <<i, d>> \in task[m].work
  /\ LET slots == RescheduleSlots(i[2], d)
         open == recommendation[i] = None \/ recommendation[i].status = "pending"
     IN recommendation' =
          IF slots # {} /\ open
            THEN [recommendation EXCEPT ![i] =
                    [status |-> "pending", options |-> slots, selected |-> None]]
            ELSE recommendation
  /\ Proceed(m, Recommending(task[m].pause, task[m].work \ {<<i, d>>}))
  /\ UNCHANGED <<pauseDate, startedAt, endedAt, impacts, notified, notices>>

(* The request dies: what it committed stays.                              *)
Fail(m) ==
  /\ task[m] # None
  /\ Proceed(m, None)
  /\ UNCHANGED <<pauseDate, startedAt, endedAt, impacts, notified, notices, recommendation>>

-----------------------------------------------------------------------------
(* select_and_apply_reschedule_option, by the customer of the booking:     *)
(* the slot is validated again, whatever state the visit has reached.      *)

(* apply_approved_reschedule, on booking b.                                *)
MutantMoveMixesStatuses(b, at) ==
  /\ GenerateQueueNumber(b, at, "priority")
  /\ appointment' = [appointment EXCEPT ![b] = at]
  /\ checkedInAt' = [checkedInAt EXCEPT ![b] = None]
  /\ bookingStatus' = [bookingStatus EXCEPT ![b] = "scheduled"]
  /\ ticketStatus' = [ticketStatus EXCEPT ![b] = "pending"]
  /\ assignedCounter' = [assignedCounter EXCEPT ![b] = None]
  /\ UNCHANGED <<now, source, customer, counterVars, request>>

MutantMoveKeepsCounter(b, at) ==
  /\ GenerateQueueNumber(b, at, "priority")
  /\ appointment' = [appointment EXCEPT ![b] = at]
  /\ checkedInAt' = [checkedInAt EXCEPT ![b] = None]
  /\ bookingStatus' = [bookingStatus EXCEPT ![b] = "pending"]
  /\ ticketStatus' = [ticketStatus EXCEPT ![b] = "scheduled"]
  /\ UNCHANGED <<now, source, customer, assignedCounter, counterVars, request>>

MutantMoveKeepsNumber(b, at) ==
  /\ queueType' = [queueType EXCEPT ![b] = "priority"]
  /\ appointment' = [appointment EXCEPT ![b] = at]
  /\ checkedInAt' = [checkedInAt EXCEPT ![b] = None]
  /\ bookingStatus' = [bookingStatus EXCEPT ![b] = "pending"]
  /\ ticketStatus' = [ticketStatus EXCEPT ![b] = "scheduled"]
  /\ assignedCounter' = [assignedCounter EXCEPT ![b] = None]
  /\ UNCHANGED <<now, source, customer, queueNumber, lastNumber, counterVars, request>>

MoveWithPriority(b, at) ==
  /\ GenerateQueueNumber(b, at, "priority")
  /\ appointment' = [appointment EXCEPT ![b] = at]
  /\ checkedInAt' = [checkedInAt EXCEPT ![b] = None]
  /\ bookingStatus' = [bookingStatus EXCEPT ![b] = "pending"]
  /\ ticketStatus' = [ticketStatus EXCEPT ![b] = "scheduled"]
  /\ assignedCounter' = [assignedCounter EXCEPT ![b] = None]
  /\ UNCHANGED <<now, source, customer, counterVars, request>>

(* Mutant: the option is trusted to be still available.                    *)
MutantSelectStale(i, at) ==
  /\ recommendation[i] # None /\ recommendation[i].status = "pending"
  /\ at \in recommendation[i].options
  /\ Registered(i)
  /\ MoveWithPriority(i[2], at)
  /\ recommendation' = [recommendation EXCEPT ![i].status = "applied", ![i].selected = at]
  /\ UNCHANGED <<pauseDate, startedAt, endedAt, impacts, notified, notices, task>>

(* Mutant: whether the option has room is looked at again, and nothing else.*)
MutantSelectWithRoom(i, at) ==
  /\ recommendation[i] # None /\ recommendation[i].status = "pending"
  /\ at \in recommendation[i].options
  /\ Registered(i)
  /\ Cardinality(Reserved(at) \ {i[2]}) < SlotCapacity
  /\ MoveWithPriority(i[2], at)
  /\ recommendation' = [recommendation EXCEPT ![i].status = "applied", ![i].selected = at]
  /\ UNCHANGED <<pauseDate, startedAt, endedAt, impacts, notified, notices, task>>

SelectOption(i, at) ==
  /\ recommendation[i] # None /\ recommendation[i].status = "pending"
  /\ at \in recommendation[i].options
  /\ Registered(i)
  /\ SlotAvailable(at, i[2])
  /\ MoveWithPriority(i[2], at)
  /\ recommendation' = [recommendation EXCEPT ![i].status = "applied", ![i].selected = at]
  /\ UNCHANGED <<pauseDate, startedAt, endedAt, impacts, notified, notices, task>>

-----------------------------------------------------------------------------
PauseStep(m) ==
  \/ \E d \in Dates : BeginPause(m, d)
  \/ \E p \in Pauses : CreatePause(m, p)

(* What a resuming request does once it has read the pause.                *)
ResumeStep(m) ==
  \/ ClosePause(m)
  \/ CreateImpacts(m)
  \/ FindUnnotified(m)
  \/ \E i \in Impacts : GetNotice(m, i)
  \/ InsertNotice(m)
  \/ MarkNotified(m)
  \/ FindRisks(m)
  \/ \E i \in Impacts, d \in Dates : Recommend(m, i, d)

Select == \E i \in Impacts, at \in Slots : SelectOption(i, at)

DisruptionStep ==
  \/ \E m \in Managers :
       \/ PauseStep(m)
       \/ \E p \in Pauses : BeginResume(m, p)
       \/ ResumeStep(m)
       \/ Fail(m)
  \/ Select

DisruptionNext == (Next /\ UNCHANGED disruptionVars) \/ DisruptionStep

DisruptionInit == Init /\ NoDisruptions
DisruptionSpec == DisruptionInit /\ [][DisruptionNext]_allVars

-----------------------------------------------------------------------------
(* No registered customer is taken for notified without a notification to  *)
(* read: the mark is written after the notification, by requests that may  *)
(* overlap, and may fail between the two.                                  *)
NoticeBehindEveryMark == \A i \in notified : Registered(i) /\ notices[i] > 0

(* Whoever has accepted another appointment keeps the record of it: no     *)
(* later or overlapping resume of the pause reopens or rewrites a          *)
(* recommendation that was applied ("finalized recommendations are not     *)
(* silently rewritten", docs/DAY35).                                       *)
AppliedKept ==
  [][\A i \in Impacts :
       recommendation[i] # None /\ recommendation[i].status = "applied"
         => recommendation'[i] = recommendation[i]]_allVars

(* A booking is only ever moved to a slot of the future, however old the   *)
(* options are that the customer chooses from.                             *)
MovedToTheFuture ==
  [][\A b \in Bookings :
       Exists(b) /\ appointment'[b] # appointment[b]
         => appointment'[b] \in Slots /\ appointment'[b] > now]_allVars

-----------------------------------------------------------------------------
(* docs/DAY35: "those customers are furthest from service": of one lane's  *)
(* affected customers, nobody at risk is served before one who is not.     *)
RiskFurthestFromService ==
  \A p \in Pauses : \A x, y \in Affected(p) :
    LET At(b, type) == <<p, b, type>> \in impacts
    IN /\ At(x, "affected") /\ At(x, "reschedule_risk")
       /\ At(y, "affected") /\ ~At(y, "reschedule_risk")
       /\ queueType[x] = queueType[y]
       => Before(y, x)

(* docs/DAY35: "gives the displaced customer Priority on the replacement   *)
(* appointment".                                                           *)
PriorityOnReplacement ==
  \A i \in Impacts :
    recommendation[i] # None /\ recommendation[i].status = "applied" =>
      LET b == i[2]
      IN appointment[b] = recommendation[i].selected /\ ticketStatus[b] = "waiting"
           => queueType[b] = "priority"

(* bookings/api_views.py:268-272: "Completed bookings cannot be            *)
(* rescheduled", nor cancelled and no-show ones.                           *)
FinishedNotMoved ==
  [][\A b \in Bookings :
       bookingStatus[b] \in FinalStatuses => appointment'[b] = appointment[b]]_allVars
=============================================================================
