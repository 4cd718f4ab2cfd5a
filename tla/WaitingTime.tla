---------------------------- MODULE WaitingTime ----------------------------
(***************************************************************************)
(* The wait a customer in the live queue is shown (queues/waiting_time.py):*)
(* the people ahead are laid, in the order of service, on the counters of  *)
(* the lane, each on the one that is free first.  One service is offered,  *)
(* so every visit is expected to take AverageServiceTime.                  *)
(***************************************************************************)
EXTENDS QueueLifecycle, FiniteSetsExt

CONSTANT AverageServiceTime  \* Service.average_service_time, in ticks

ASSUME WaitingTimeAssumption == AverageServiceTime \in Nat \ {0}

VARIABLE serviceStartedAt    \* QueueTicket.service_started_at

timedVars == <<vars, serviceStartedAt>>

(* Call Next stamps the ticket it serves; nothing clears the stamp, not    *)
(* even rescheduling a customer who is being served.                       *)
ServiceClock ==
  serviceStartedAt' =
    [b \in Bookings |->
       IF ticketStatus'[b] = "serving" /\ ticketStatus[b] # "serving"
         THEN now ELSE serviceStartedAt[b]]

TimedInit == Init /\ serviceStartedAt = [b \in Bookings |-> None]
TimedSpec == TimedInit /\ [][Next /\ ServiceClock]_timedVars

-----------------------------------------------------------------------------
(* _serving_ahead_queryset, for customer b.                                *)
ServingAhead(b) ==
  {x \in Bookings : /\ DateOf(appointment[x]) = DateOf(appointment[b])
                    /\ queueType[x] = queueType[b]
                    /\ ticketStatus[x] = "serving"}

(* get_service_clock: what is left of the expected service, never negative.*)
Remaining(x) == Larger(AverageServiceTime - (now - serviceStartedAt[x]), 0)

(* The counters that count as usable: those that serve the lane, whatever  *)
(* their status, and the open ones, staffed or not.                        *)
UsableCounters(b) ==
  {c \in Counters : counterStatus[c] = "open" /\ counterType[c] = queueType[b]}
    \cup {assignedCounter[x] : x \in ServingAhead(b)}

(* When each usable counter becomes free, from now; with none usable, one  *)
(* that is imagined, and free at once.                                     *)
FreeIn(b) ==
  IF UsableCounters(b) = {} THEN [v \in {None} |-> 0]
  ELSE [c \in UsableCounters(b) |->
          IF \E x \in ServingAhead(b) : assignedCounter[x] = c
            THEN Remaining(CHOOSE x \in ServingAhead(b) : assignedCounter[x] = c)
            ELSE 0]

(* Mutants: the counter that is free last; everybody is laid on one counter*)
MutantSoonest(free) ==
  CHOOSE c \in DOMAIN free : \A d \in DOMAIN free : free[c] >= free[d]

Soonest(free) ==
  CHOOSE c \in DOMAIN free : \A d \in DOMAIN free : free[c] <= free[d]

MutantLaid(free, n) ==
  LET c == Soonest(free)
  IN [free EXCEPT ![c] = @ + n * AverageServiceTime]

(* The counters once n customers have been laid on them.                   *)
Laid(free, n) ==
  LET lay[k \in 0..n] ==
        IF k = 0 THEN free
        ELSE [lay[k - 1] EXCEPT ![Soonest(lay[k - 1])] = @ + AverageServiceTime]
  IN lay[n]

CounterDelay(b) ==
  LET free == Laid(FreeIn(b), Cardinality(WaitingAhead(b)))
  IN free[Soonest(free)]

(* Mutant: until the appointment, whatever the customer's source.          *)
MutantEligibilityDelay(b) == Larger(appointment[b] - now, 0)

(* service_eligibility_delay_seconds.                                      *)
EligibilityDelay(b) == Larger(EligibleAt(b) - now, 0)

(* calculate_estimated_wait_seconds of a customer who is waiting.          *)
Estimate(b) == Larger(CounterDelay(b), EligibilityDelay(b))

-----------------------------------------------------------------------------
(* The live state the learned estimate is given (queues/ml_prediction.py), *)
(* which a trained regressor turns into another wait: the same people, by  *)
(* code of its own.                                                        *)

(* _waiting_tickets of the branch on the day of customer b.                *)
WaitingTickets(b) ==
  {x \in Bookings : /\ DateOf(appointment[x]) = DateOf(appointment[b])
                    /\ checkedInAt[x] # None
                    /\ ticketStatus[x] = "waiting"
                    /\ assignedCounter[x] = None}

(* Mutant: in the order of arrival.                                        *)
MutantSameLaneWaitingAhead(b) ==
  {x \in WaitingTickets(b) \ {b} :
     queueType[x] = queueType[b] /\ checkedInAt[x] <= checkedInAt[b]}

(* _same_lane_waiting_ahead.                                               *)
SameLaneWaitingAhead(b) ==
  {x \in WaitingTickets(b) \ {b} : queueType[x] = queueType[b] /\ Before(x, b)}

(* workload_minutes_ahead: what is left of the services of the lane, and   *)
(* the expected services of the people ahead.                              *)
WorkloadAhead(b) ==
  MapThenSumSet(Remaining, ServingAhead(b))
    + AverageServiceTime * Cardinality(SameLaneWaitingAhead(b))

-----------------------------------------------------------------------------
Waiting(b) == ticketStatus[b] = "waiting"

(* What the estimate is, said without laying anybody on a counter: the     *)
(* first moment by which the counters can have begun one more service than *)
(* there are people ahead.                                                 *)
CanBegin(free, t) ==
  {p \in (DOMAIN free) \X (0..Cardinality(Bookings)) :
     free[p[1]] + p[2] * AverageServiceTime <= t}

EstimateIsEarliestStart ==
  \A b \in Bookings :
    Waiting(b) =>
      LET ahead == Cardinality(WaitingAhead(b))
          t == CounterDelay(b)
      IN /\ Cardinality(CanBegin(FreeIn(b), t)) > ahead
         /\ Cardinality(CanBegin(FreeIn(b), t - 1)) <= ahead

(* The work the learned estimate is told of is the work the other one lays *)
(* out: the usable counters are all occupied until the customer's turn,    *)
(* and all but one of them for up to one more service.                     *)
WorkloadLaidOut ==
  \A b \in Bookings :
    Waiting(b) =>
      LET counters == Cardinality(DOMAIN FreeIn(b))
          occupied == counters * CounterDelay(b)
      IN /\ occupied <= WorkloadAhead(b)
         /\ WorkloadAhead(b) <= occupied + (counters - 1) * AverageServiceTime

(* Whoever is served first is shown the shorter wait.                      *)
EstimatesOrdered ==
  \A x, y \in Bookings :
    Waiting(x) /\ Waiting(y) /\ ScopeOf(x) = ScopeOf(y) /\ Before(x, y)
      => Estimate(x) <= Estimate(y)

(* The wait shown to a customer whose turn has come only shrinks, whoever  *)
(* books, checks in, is called, finishes or leaves meanwhile, as long as   *)
(* the lane loses no counter: a called customer moves from the people      *)
(* ahead onto a counter, and the estimate must not count them twice.       *)
NotPostponed ==
  [][\A b \in Bookings :
       /\ Waiting(b) /\ Waiting(b)'
       /\ EligibleAt(b) < now
       /\ UsableCounters(b) \subseteq UsableCounters(b)'
       => Estimate(b)' <= Estimate(b)]_timedVars
=============================================================================
