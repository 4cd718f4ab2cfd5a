# SmartQ in TLA+

SmartQ is a queue-management system for branches that serve customers at counters:
appointments, walk-ins, check-in into a live queue, counters that call customers, and the
handling of disruptions. It is a Django REST application over one SQL database (SQLite in
`smartq/settings.py`), with a React client. This directory holds TLA+ models of its core,
the TLC configurations that check them, and proofs checked by TLAPS.

## 1. Inventory of the system

| Component (source) | State | Operations | Interacts with |
|---|---|---|---|
| Bookings (`bookings/`) | `Booking`: status, source, date and time, `checked_in_at`, user or guest | book online, customer walk-in, guest walk-in, check in, cancel, reschedule | tickets (one per booking, written in the same transaction), slots |
| Queue tickets (`queues/services.py`, `eligibility.py`) | `QueueTicket`: status, lane, number, assigned counter, service clock | create, Call Next, complete, no-show | bookings, counters, events |
| Number allocator (`queues/services.py`) | `QueueNumberSequence`: last number per branch, date and lane | `generate_queue_number` | tickets (seeds from them) |
| Counters (`counters/`) | `Counter`: status, lane, assigned staff | assign, unassign, open, pause, resume, close, configure | tickets (a counter is busy while one is SERVING there) |
| Slots and capacity (`services/availability.py`) | none | list and validate slots | configuration, bookings |
| Branches and services (`branches/`, `services/`) | `Branch` with its hours, `Service` with its duration, `BranchService` with its capacity, each with an active flag | create, patch | slots |
| Waiting time (`queues/waiting_time.py`, `ml_prediction.py`) | none | people ahead, estimate, inputs of a learned estimate | tickets, counters |
| Reminder and expiry job (`notifications/services.py`) | `Notification` | hourly reminders, cancellation of unchecked appointments | bookings, tickets |
| Disruptions (`queues/disruptions.py`) | `QueuePause`, `QueueDisruptionImpact` | pause, resume, compute impacts, notify | tickets, notifications, recommendations |
| Rescheduling (`rescheduling/`) | `RescheduleRecommendation`, `RescheduleOption` | recommend, select and apply an option | bookings, tickets, numbers, slots |
| Accounts (`accounts/`) | `Profile`: role, branch; active flag | register, log in, administer users | counters (staff), permissions |
| Queue events (`queues/events.py`) | `QueueEvent`, append-only | written inside every operation's transaction | all of the above |
| Forecast observations (`queues/forecasting.py`, `signals.py`) | `QueueForecastObservation` | created at check-in, completed by signals | tickets |
| Reporting (`queues/reporting.py`, `statistics.py`, `dashboard/`) | none | waits and service times from the events, counts, averages | everything, without writing |
| Busy-day simulation (`queues/busy_day.py`) | none of its own | drives the operations to produce training data; refused in production | all of the above |
| Client (`frontend/`) | session, CSRF token | one request per user action | the API |

How they interact: an HTTP view reads the row it is about, checks permissions, and calls a
service function. Service functions are `transaction.atomic()` and re-read what they decide
on inside the transaction. There is no `ATOMIC_REQUESTS`, so the view's own reads and checks
are in earlier transactions. Writers are serialised by the database: an upgrade from reading
to writing on a stale snapshot is refused, so a transaction that commits is one atomic step.
Beside the requests runs one scheduled command, the reminder and expiry job.

What is hard here, and what the properties are for (the full list is `hazards` in
`PROJECT.json`):

* **Stale rows.** Call Next, the configuration of a counter, the change of an account, the
  change of a branch and the second validation of a booking decide on, or save, an object that
  was read in an earlier transaction. A run of the scheduled job works with the time and the
  rows it started with.
* **Two rows, one story.** Booking and ticket have a status each, the ticket also holds the
  counter. Eight operations write them by separate saves with explicit field lists.
* **Moving identities.** Rescheduling and a change of lane move a ticket between number
  scopes, while the allocator seeds itself from the tickets that are in a scope now.
* **Two orders.** The order of service and the displayed position are separate code, each with a
  sort key of its own.
* **What is written down.** Events repeat statuses as literals next to the rows that hold them,
  and observations are found by ticket, while one ticket may see several visits.
* **Time.** The check-in window, eligibility at the appointment time, expiry after it, and a
  job that comes round some time later.
* **Chains of transactions.** Resuming a pause ends it, records impacts, notifies and recommends
  in a row of transactions. It may stop between any two, and be sent again, or overlap another.
* **Old offers.** A customer chooses among options computed when the pause was resumed; since
  then slots have filled up or passed, and the visit itself may have moved on.

What makes each part correct: counters in operation are staffed, one person runs one counter,
and staff stay with the customer they serve; booking and ticket agree; a counter serves one
customer; numbers are unique per branch, date and lane; slots are not overbooked; customers
are called in the order they are shown, never overtaken once eligible, never before their
appointment; finished visits stay finished; unchecked appointments go away; the wait shown
follows the order of service and is not put off; the events explain the rows, and outcomes
reach the observation of their visit; a branch closes after it opens, and what is shown as
available can be booked; an administrator remains. Under disruptions:
all of that, and nobody is marked notified without a notification, an accepted offer is not
rewritten, nobody is moved into the past.

## 2. Modules

| Module | What it models |
|---|---|
| `Counters` | The counters of a branch. Each service function of `counters/services.py` is an action. A *request* records what the view of Call Next, or the admin's `patch`, has read: `BeginCall`/`BeginConfigure` read, a later action writes. Tickets appear only as the set `busy`. |
| `StaffAccounts` | Extends `Counters` with the accounts of the staff: `CreateAccount`, `BeginUpdate` and `BeginActivation` (read and check), `FinishChange` (save). `AssignCounterStaff` asks of an account what `assign_counter_staff` does. |
| `QueueNumbers` | The abstract allocator: `Issue(t, s)` puts a ticket in a scope with any number above the scope's last one. |
| `QueueLifecycle` | One branch offering one service: bookings, tickets, sequences, counters, clock. It instantiates `Counters` with `busy` computed from the tickets, takes its steps as `OperateCounters`, and replaces `ServeCustomer`/`ServeNobody`/`EndService` by the real `CallNext`, `Complete`, `MarkNoShow`, `Cancel` and `Reschedule`. It instantiates `QueueNumbers` with the scope and number of each ticket. |
| `QueueHistory` | Extends `QueueLifecycle` with the events of each ticket and its forecast observations. Every operation is taken together with what it records in the same transaction; the waits of the operational report are operators on the events. |
| `WaitingTime` | Extends `QueueLifecycle` with the start of each service, and has the deterministic estimate as operators: the people ahead laid, one after the other, on the counter that is free first. Beside it, the people and the workload ahead that the learned estimate is given. |
| `Reminders` | Extends `QueueLifecycle` with runs of the scheduled command: `BeginRun` takes the time, `Fetch` evaluates the query, `Handle` works on one booking in a transaction of its own, `Die` ends a run anywhere. |
| `Disruptions` | Extends `QueueLifecycle` with pauses, impacts, notifications and recommendations. A manager's request is a task whose `phase` says which transaction comes next; the customer's selection is one transaction that moves the booking. |
| `SlotConfiguration` | The configuration behind the slots, which `QueueLifecycle` has as constants: administrators read, validate and save rows, customers validate a slot, validate it again and take it. |
| `MCStaffAccounts`, `MCQueueLifecycle`, `MCQueueHistory`, `MCWaitingTime`, `MCReminders`, `MCDisruptions`, `MCSlotConfiguration` | Constants, symmetry, and the narrower specifications of "Bounds" below. |
| `StaffAccountsProofs`, `QueueNumbersProofs`, `QueueLifecycleProofs`, `WaitingTimeProofs`, `QueueHistoryProofs`, `RemindersProofs`, `DisruptionsProofs`, `SlotConfigurationProofs` | Theorems; those about `Counters` are in the first section of `StaffAccountsProofs`. |

How state corresponds to the code. A booking and its ticket are created together and are one
to one, so one identifier indexes both: `bookingStatus`, `source`, `customer`, `appointment`,
`checkedInAt` are columns of `Booking`; `ticketStatus`, `queueType`, `queueNumber`,
`assignedCounter` of `QueueTicket`; `lastNumber` is `QueueNumberSequence`, 0 standing for a
row that does not exist. `"none"` is a row not inserted yet; identifiers are used in
increasing order because the last tie-break of the queue's order is the ticket's id.
`appointment` and `now` are ticks of one clock; `DateOf` gives the day.

How actions correspond: `BookOnline`, `CustomerWalkIn`, `GuestWalkIn` (through `Insert`, the
creation of the two rows), `CheckIn` (`Activate`, or the cancellation of a booking whose time
has passed), `Cancel`, `Reschedule`, `CallNext`, `Complete`, `MarkNoShow`, `ExpireUnchecked`
(one booking of the job's loop; each is its own transaction) and `Tick`.

Accounts. `role`, `branch` and `isActive` are columns of `Profile` and `User`; `change[q]` is
what request `q` is about to save. A partial update names only some fields (`Keep`), and these
are written over whatever the row holds by then. The constraint of the table, a role has a
branch if and only if it is one of a branch, makes a save fail.

History. `events[b]` and `observations[b]` are the rows of ticket `b` in the order of their ids.
`Recorded...` is an operation with its event; `Observe` is the signal on the creation of an
event. `LatestOpen` and `LatestInService` are the queries that find the observation to label.

Waiting time. `serviceStartedAt` is stamped by Call Next and cleared by nothing, so a ticket
that is rescheduled while it is served keeps an old stamp until it is called again.

Reminders. `jobNow[j]`, `read[j]` and `todo[j]` are the time, the fetched appointments and what
is left of run `j`; `reminders` are the notification rows. A run cancels a booking it reads again,
tested against the time of the run, and reminds of the appointment as it was fetched.

Slots. `config` holds the three rows, `edit[e]` the row editor `e` is about to save: the
serializer's `save()` writes every column that was read. `order[r]` is the slot a booking request
validated, with the hours and the duration it loaded then; the second validation reads activity
and capacity afresh but uses those. `place[b]` is the time booking `b` holds a place at.

Disruptions. `pauseDate`, `startedAt` and `endedAt` are `QueuePause`, whose `is_active` is set
together with `ended_at`; `impacts` and `notified` are `QueueDisruptionImpact`, unique per pause,
ticket and type; `notices` counts the `Notification` rows of an impact; `recommendation` is the
recommendation with its options. `task[m]` is request `m`: `BeginPause`/`CreatePause`, then for a
resume `BeginResume`, `ClosePause`, `CreateImpacts`, `FindUnnotified`, for each impact
`GetNotice`, `InsertNotice` and `MarkNotified`, then `FindRisks` and `Recommend` for each risk.
`Fail` ends a request anywhere. `SelectOption` is the customer's; its guard has no word on the
status of the booking, because the code has none.

The order of the queue is written down twice. `ServedBefore` has the sort key of
`call_next_ticket`, `Before` the one of `waiting_time.py`; lemma `SortsAgree` says that they order
the people who wait alike. `ml_prediction.py` builds its key from `get_service_eligible_at` as
`waiting_time.py` does, so `Before` stands for both.

Abstractions:

* `determine_queue_type` reads a profile the customer may edit at any time, so its result is a
  free choice of lane at each reading. A queue number is its numeric part, the letter being the
  lane. The seconds of `booking_time` and the microseconds of timestamps fall into one tick.
* A request that would be refused has no action: it changes nothing.
* `QueueHistory` leaves out the counters' events, the event of a move by an accepted offer and
  the features captured with an observation. `WaitingTime` has one service and so one expected
  duration, and leaves out the regressor that turns its inputs into minutes.
* `Reminders`: `get_or_create` of a reminder is one step, because the table has a unique index on
  booking and slot.
* `Disruptions`: impacts are worked through in any order (the code takes them in the table's
  order, which no property needs). The status `approved` of a recommendation exists only inside
  the selection's transaction; `rejected` and `cancelled` are written nowhere. The confirmation
  after a move is left out. `AverageServiceTime` divides the length of a pause as in the code,
  rounding halves to even.
* `SlotConfiguration`: the validators of a field test it only when the request has it, as
  REST framework does. A request reads the rows it validates against in one moment. All bookings
  are online, and one that was cancelled may stand for a new one. A mapping stays with its branch
  and service, though its PATCH could name others.

## 3. What is checked

| Run | Question | Result |
|---|---|---|
| `staffing` | Two counters, accounts that change under them: types, `ActiveIsStaffed`, `OneCounterPerStaff`, `StaffKeptWhileServing`, `AdminRemains` with one account request at a time | holds |
| `history` | The whole branch with two counters and two requests in flight: `StatusAgreement`, `OneServingPerCounter`, `ImplementsCounters`; and what is recorded: `HistoryExplainsState`, `ObservationFollowsVisit`, `LabelsKept` | holds |
| `numbers` | Types, `UniqueNumbers`, `CheckedInWithinWindow`, `SlotsWithinCapacity`, `ImplementsNumbers` over two days and two lanes | holds |
| `lane` | Three customers in one lane: `CalledFromTheFront`, `NoOvertaking`, `FinalStatesKept`; the estimate: `EstimateIsEarliestStart`, `EstimatesOrdered`, `NotPostponed`, `WorkloadLaidOut` | holds |
| `reminders` | Overlapping runs of the job, one of which may die: `JobsOnlyExpire`, `NothingDueBehind`, and `UncheckedExpires` under fairness | holds |
| `disruption` | A pause, its resumes and selections next to the branch's business: types, `StatusAgreement`, `UniqueNumbers`, `SlotsWithinCapacity`, `AppliedKept`, `MovedToTheFuture` | holds |
| `resume` | Overlapping resumes, one of which may fail: `NoticeBehindEveryMark`, `CustomersNotified` under fairness | holds |
| `slots` | Overlapping administrators and booking requests: types, `HoursInOrder`, `SlotsFillTheDay`, `ShownIsBookable`, `NobodySqueezedIn` | holds |
| `walk_in_rescheduled` | `NeverCalledEarly` | violated |
| `finished_moved` | `FinishedNotMoved` | violated |
| `last_admin` | `AdminRemains` with two account requests | violated |
| `report_times` | `ReportedTimesHappened` | violated |

`EstimateIsEarliestStart` compares the loop of the code with a definition that lays nobody
anywhere: the first moment by which the usable counters can have begun one more service than
there are people ahead. `WorkloadLaidOut` relates it to the workload that `ml_prediction.py`
adds up by itself. `SlotsFillTheDay` is the corresponding definition of the loop that generates
slots, and `ShownIsBookable` says that listing and validation, two pieces of code, agree.

The four violated properties are sentences of the repository that the code does not keep:

1. *"it does not mean the system may call them before the booked appointment time"* (README).
   A walk-in that is rescheduled keeps `source = walk_in`, and eligibility goes by source.
2. *"Cancelled bookings cannot be rescheduled."* (`bookings/api_views.py`, and the same for
   completed and no-show ones). The customer's own rescheduling tests this; selecting an option
   does not, and makes the booking pending again.
3. *"Smart Q must retain at least one active System Admin"* (docs/DAY50). Two requests that
   demote or deactivate each other's administrator have each counted two.
4. *"Actual Wait = CALLED.occurred_at - CHECKED_IN.occurred_at"* (docs/DAY39). The report takes the
   first event of each type of a ticket; when a visit is rescheduled after check-in, the first
   check-in is paired with the call of another visit.

Other disagreements, which TLC shows on the modules named but which have no run of their own:

* *"CLOSE is blocked while a customer is currently SERVING"* (docs/DAY33). `BeginCall` reads an open
  counter, `CloseCounter` closes it, and the call serves a customer there (`ClosedServesNobody` in
  `Counters`). `StaffKeptWhileServing` and `OneServingPerCounter` survive this.
* *"Assigned Counter Staff must belong to the same branch as the counter"* and have the role
  (docs/DAY33). The account of an assigned member of staff can be moved (`StaffFitsCounter` in
  `StaffAccounts`).
* *"Booking creation validates again that ... the requested time is exactly one of the generated
  slots"* (docs/DAY32). It does so with the hours and duration loaded before (`PlacesAreSlots` in
  `SlotConfiguration`). Capacity and activity are read afresh, and `NobodySqueezedIn` holds.
* Two administrators who change different columns of one branch at the same time: the save of the
  second writes back the old values of the first one's columns, a deactivation included
  (`FinishEdit`). That is also why `HoursInOrder` holds.
* *"gives the displaced customer Priority on the replacement appointment"* (docs/DAY35). The move
  gives the priority, and check-in computes the lane afresh (`PriorityOnReplacement`).
* *"those customers are furthest from service"* (docs/DAY35). Risk goes by creation, service by
  eligibility: a walk-in created last may be served first (`RiskFurthestFromService`).
* Two requests each find no active pause, and both create one; `pause_queue` promises to
  "create or reuse one" (`BeginPause`, `CreatePause`).
* Two overlapping resumes both read the pause as active: the later one overwrites `ended_at`,
  and the two use different lengths (`BeginResume`, `ClosePause`). The docstring of
  `resume_queue` calls repeated calls harmless.
* A pause that has ended can be resumed again when the queue has moved on, which records further
  impacts, where docs/DAY35 says that resume freezes the snapshot (`CreateImpacts`).
* Two resumes may each find no notification of an impact and insert one. From then on
  `get_or_create` of that impact raises, which ends every later resume that comes to it
  (`GetNotice`); hence the exception in `CustomersNotified`.
* A counter opened between the check and the save of the admin's `patch` changes its lane while
  open (`BeginConfigure`, `FinishConfigure`).
* A rescheduled walk-in that is never checked in stays scheduled for ever, since the job filters
  on `source = online` (`Unreminded`); `UncheckedExpires` therefore speaks of online ones.
* A run may insert a reminder for a booking that was checked in or cancelled after the query
  (`Handle`), where docs/DAY31 has reminders stop at check-in.

Each property of a passing run has a mutant in `PROJECT.json`: an operator `Mutant...` in the
module, put in the place of a modelled operation, that breaks it.

### Bounds

`Horizon` bounds the clock and `MaxNumber` the numbers of a scope; operations beyond them are
disabled.

* `staffing`: two counters, three members of staff, one request to call or configure, one account
  request, a branch besides the counters' own. Two members of staff are needed for a double
  assignment, a third one to be the administrator who stays or changes role. With one
  account request no two removals overlap, and `AdminRemains` holds; `last_admin` has two.
* `history`: two bookings, two counters, two requests: two calls race for one counter, and a call
  races with a reconfiguration. One day of two ticks is enough for a visit to be checked in,
  rescheduled, checked in again and served, each time with its events; the tick of the next day
  for one that is not checked in to expire.
* `numbers`: two bookings, two lanes, two days of two ticks: a ticket can leave a scope, another be
  numbered there, and the first come back. `ArrivalsSpec` is the branch without counters, whose
  steps number nobody.
* `lane`: three bookings, since overtaking takes one customer who waits, one who is called and one
  who arrives, on two counters, one of which is paused and resumed; a day of three ticks, so
  that there is an early check-in, an appointment and a time after it. Services are expected to
  take two ticks, so that one may be on time, due and overdue. `LaneSpec` starts with the counters
  staffed and open, a state their own operations lead to.
* `reminders`: one booking, two runs, four ticks in two days, and a window of three ticks with a
  reminder every two, so that the last interval is cut short by the appointment. What runs do
  to different bookings is independent; the theorems hold for any number.
* `disruption` and `resume` start from `WaitingInit`, a state the branch's operations lead to:
  everybody has come, the counters are open. `disruption` (`BusySpec`) has two bookings, one
  pause, one manager's request and slots today, tomorrow and the day after, with a capacity of
  one, so that an offered slot can be taken by the other customer, pass, or belong to a visit that
  was called, completed, cancelled, rescheduled or checked in again; the pause can be resumed any
  number of times. `resume` (`ResumingSpec`) has two overlapping requests and no other business,
  one of them in `Failing`, which may stop after any of its transactions and start again; guests
  and registered customers both. This is enough for two notifications of one impact to be
  inserted, and for a request to come upon them. `DisruptionSpec` itself has all steps together;
  it is what the theorems are about.
* `slots`: two bookings, two editors, one booking request with capacities one and two: capacity is
  lowered under a request and under a full slot. Days of five ticks with the hours 0, 2 and 4 and
  durations of two and three (a form may also hold a zero, which is refused), so that slots end at the closing time, before it, or do not fit at
  all; the clock goes from the last tick of one day to the first of the next, so that slots lie
  in the past, begin now, and lie ahead.
* `walk_in_rescheduled` uses `OpenSpec`, the branch with its counters open.

Deadlock is checked in `staffing`, `history`, `lane`, `reminders` and `slots`. `numbers`,
`disruption` and `resume` stop by design, when clock, numbers and bookings are used up.

### Fairness

`RecurringSpec` assumes that the clock advances and weak fairness of `JobStep(j)` for the runs
outside `Failing`: the command is scheduled (docs/DAY31 describes an hourly one), a process that
is not killed comes to the end of its loop, and the next one starts. A run in `Failing` may die
anywhere, for ever. Nothing is assumed of customers or staff; nobody is obliged to check in,
cancel or call.

`ResumingSpec` assumes weak fairness of `ResumeStep(m)` for the requests outside `Failing`: once
a request has read the pause, the server runs its handler to the end, an exception included.
Nobody is obliged to resume a pause.

## 4. What is proved

All theorems hold for any number of counters, staff, requests, bookings, customers, lanes and
slots; those that count (`SlotsWithinCapacity`, `NobodySqueezedIn`, and what is said of waiting
times) for finite sets of them. Assumptions on constants are named in the modules
(`NoneAssumption`, `AccountsAssumption`, `LifecycleAssumption`, `DisruptionsAssumption`,
`RemindersAssumption`, `SlotAssumption`, `WaitingTimeAssumption`) and evaluated by TLC;
`NumbersAssumption` is a hypothesis of the theorems about `QueueNumbers`. They say that NULL differs
from every other value, bounds are naturals, slots are times.

* `StaffAccountsProofs`. Of the counters alone, `DeskInv` (types, staffed, one counter per staff)
  is inductive. Theorems `CountersTypeCorrect`, `CountersStayStaffed`, `StaffRunOneCounter`,
  `StaffKept`. `StaffingImplementsCounters`: staffing by accounts that change is a behaviour of
  `Counters`, so its theorems carry over. `AdminAlwaysRemains` says that an administrator
  remains unless, at some moment, two requests in flight are about to take two different
  administrators away (`RemovalsOverlap`), however many requests of other kinds overlap: what
  `last_admin` shows is the only way to lose the last one. As long as there is no such moment,
  it is inductive that an administrator about to be removed has another one beside them
  (`OthersRemain`).
* `QueueNumbersProofs`. Uniqueness is not inductive alone: a new number might equal one
  already in the scope. `NumbersCovered`, that a scope's last number is at least each number
  in it, makes it so: `NumbersInv`. Theorems `NumbersTypeCorrect`, `IssuedNumbersUnique`,
  `SequenceCovers`.
* `QueueLifecycleProofs`. `LifeInv` is types, status agreement, and one customer per counter.
  The last needs the second: a counter that holds no SERVING ticket is held by no ticket. The
  central lemma on data, `GenerateIssues`, says that however the allocator's scan seeds it,
  the number is above the scope's last one. `StepIsOneChange` says that a step changes one visit's
  row in one of the ways of `OneChange`; from it follow `WindowsRespected`, `FinalKept`,
  `FrontIsCalled`, `NobodyOvertakes` and `CapacityRespected`. Its last sections prove that the
  branch implements `QueueNumbers` and `Counters` (`NumbersImplemented`, `CountersImplemented`). The
  first needs the agreement (a ticket that is completed has a booking); the second needs one
  customer per counter (a customer who leaves frees the counter). `TicketNumbersUnique` then
  carries uniqueness from `QueueNumbers` over to tickets.
* `WaitingTimeProofs`. `TimedIsLifecycle`: the start of a service only observes. `TimedInv` adds
  to `LifeInv` that whoever is being served started no later than now; without it, what is left of
  a service might exceed a whole one. Laying people on counters and adding up what is left are
  recursions; they are unfolded by the least number principle (a function satisfying the recursive
  equation is given, and the set of arguments at which a claim fails has no least one, and so is
  empty), which `LeastNumber` and `NatSetInduction` take from the well-foundedness of `<`.
  `FairlyLaid` says what is true once k people are laid: each counter is free when it was plus
  whole services, k services have begun, and none of them later than any counter is free now. From
  it, `EarliestStart` and `DelayBound` say that the delay is the least time that allows for enough
  services, whence `EstimatesExact` and `EstimatesInOrder`; counted in units of work, it gives
  `WorkloadsAgree`. For `WaitNotPostponed` a step is compared by what the counters can begin
  before and after it: `NobodyCalled` says they can begin no fewer, `OneCalled` that a call costs
  one service and takes one person from those ahead.
* `QueueHistoryProofs`. `HistoryImplementsBranch`: recording takes no step the branch does not.
  `HistoryInv` adds to `LifeInv` that the last event leaves the statuses on record, and that a
  ticket's last observation is the one of its visit; the invariant is needed because the queries
  look for the latest open observation among those earlier visits left behind. Theorems
  `EventsExplainState`, `OutcomeReachesVisit`, `LabelsOnce`.
* `RemindersProofs`. `RemInv` is `LifeInv` with the types of the runs (`JobsInv`, the time of a run is
  never ahead of the clock) and, for each booking a run has finished with, what it left behind.
  Theorems `RemindersImplementBranch`, `JobsExpireOnly`, `DueIsDealtWith`.
* `DisruptionsProofs`. Every step of `DisruptionSpec` is a step of the branch, a selection, or
  leaves the branch alone (`StepsOfTheBranch`), so `LifeInv` and both refinements survive if a
  selection respects them, from whatever state of the visit it is taken. `DisruptInv` adds what a
  request in flight may rely on: `InHand`, that the impact it is about to mark exists and, once it
  is past `InsertNotice`, has a notification behind it. Theorems `StatusesAgreeDisrupted`,
  `NumbersImplementedDisrupted`, `NumbersUniqueDisrupted`, `CountersImplementedDisrupted`,
  `DisruptionTypes`, `MarksAreBacked`, `AcceptedOffersKept`, `OnlyMovedAhead`,
  `CapacityRespectedDisrupted`, for any number of pauses, requests and options.
* `SlotConfigurationProofs`. `HoursInOrder` is not inductive alone: the branch rows that editors are
  about to save must be in order too (`EditsInOrder`). `NobodyIsSqueezedIn` counts the holders of a
  slot without the place that is given up in a move. The loop that generates slots is unfolded
  by the least number principle as well: its slots are the multiples of the duration above the
  opening hour that end by closing time, for every configuration (`SlotsAlwaysFillTheDay`), and
  the list of available ones is what validation accepts of them (`ShownCanBeBooked`). Theorems
  `SlotTypesCorrect`, `HoursStayInOrder`, `NobodyIsSqueezedIn` and these two.

Only model-checked. Liveness under fairness (`UncheckedExpires`, `CustomersNotified`) is out of the
prover's reach. Every invariant and every other action property of a passing run is stated by a
theorem, `AdminRemains` with the exception of overlapping removals.

## 5. What is not modelled, and the plan

* Two thirds of the lines of code and notebooks are data and notebooks of the machine-learning study
  (`machine_learning/repository_snapshot`), and most of the rest is the React client, styles,
  migrations, documentation and tests. The program's own Python is about ten thousand lines; the
  modules cover the parts of it that change the queue's state or compute what customers are shown.
* Registration, login, password change and throttling; counts and averages of reporting, statistics
  and the dashboard (read-only); the regressor itself, its training and its evaluation
  (numerical, and without effect on the queue). Of the features it is given, only people and
  workload ahead are modelled.
* The busy-day simulation drives the modelled operations with a random arrival pattern to produce
  training data, and is refused in production. `queues/operations.py` is imported by nothing.
* The client sends one request per action and displays what the API returns; templates and assets.
* Creation and deletion of counters, branches and services; Django's own admin site.

What would come next:

1. The statements inside `generate_queue_number` (seed, insert or ignore, lock, repair, increment)
   interleaved, as they would be on a database with several writers, refining `QueueNumbers`. On
   SQLite they are one transaction, as modelled.
2. The end of the day: who is still waiting when the branch closes waits for ever, since Call Next
   looks at today's tickets only.
3. `SlotConfiguration` under `QueueLifecycle`, with the slots of the latter read from the former.

A run answers for a whole component: new properties join the run whose instance exercises them.
