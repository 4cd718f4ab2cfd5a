-------------------------- MODULE DisruptionsProofs --------------------------
(***************************************************************************)
(* Proofs about module Disruptions, for any number of bookings, pauses and *)
(* requests: what is proved of the branch survives disruptions, and no     *)
(* impact is marked without a notification.                                *)
(***************************************************************************)
EXTENDS Disruptions, QueueLifecycleProofs

-----------------------------------------------------------------------------
(* The life of the branch under disruptions: the steps of a manager's      *)
(* request leave it alone, and a selection moves one booking.              *)

LEMMA SelectionMoves ==
  ASSUME Select
  PROVE  \E b \in Bookings, at \in Slots :
           /\ GenerateQueueNumber(b, at, "priority")
           /\ appointment' = [appointment EXCEPT ![b] = at]
           /\ checkedInAt' = [checkedInAt EXCEPT ![b] = None]
           /\ bookingStatus' = [bookingStatus EXCEPT ![b] = "pending"]
           /\ ticketStatus' = [ticketStatus EXCEPT ![b] = "scheduled"]
           /\ assignedCounter' = [assignedCounter EXCEPT ![b] = None]
           /\ UNCHANGED <<now, source, customer, counterVars, request>>
<1>1. PICK i \in Impacts, at \in Slots : SelectOption(i, at)
  BY DEF Select
<1>2. i[2] \in Bookings
  BY DEF Impacts
<1> QED
  BY <1>1, <1>2 DEF SelectOption, MoveWithPriority

LEMMA SelectType ==
  ASSUME TypeOK, Select
  PROVE  TypeOK'
<1>1. PICK b \in Bookings, at \in Slots :
        /\ GenerateQueueNumber(b, at, "priority")
        /\ appointment' = [appointment EXCEPT ![b] = at]
        /\ checkedInAt' = [checkedInAt EXCEPT ![b] = None]
        /\ bookingStatus' = [bookingStatus EXCEPT ![b] = "pending"]
        /\ ticketStatus' = [ticketStatus EXCEPT ![b] = "scheduled"]
        /\ assignedCounter' = [assignedCounter EXCEPT ![b] = None]
        /\ UNCHANGED <<now, source, customer, counterVars, request>>
  BY SelectionMoves
<1>2. at \in Times /\ "priority" \in QueueTypes
  BY LifecycleAssumption, DisruptionsAssumption
<1>3. Desk!CountersTypeOK'
  BY <1>1, DeskTypeKept
<1> QED
  BY <1>1, <1>2, <1>3, GenerateType DEF TypeOK, BookingStatuses, TicketStatuses

(* Whatever state the visit has reached, being served included.            *)
LEMMA SelectAgrees ==
  ASSUME LifeInv, Select
  PROVE  StatusAgreement' /\ OneServingPerCounter'
<1>1. PICK b \in Bookings :
        /\ checkedInAt' = [checkedInAt EXCEPT ![b] = None]
        /\ bookingStatus' = [bookingStatus EXCEPT ![b] = "pending"]
        /\ ticketStatus' = [ticketStatus EXCEPT ![b] = "scheduled"]
        /\ assignedCounter' = [assignedCounter EXCEPT ![b] = None]
  BY SelectionMoves
<1>2. /\ bookingStatus'[b] = "pending" /\ ticketStatus'[b] = "scheduled"
      /\ assignedCounter'[b] = None /\ checkedInAt'[b] = None
      /\ \A x \in Bookings \ {b} :
           UNCHANGED <<bookingStatus[x], ticketStatus[x], checkedInAt[x], assignedCounter[x]>>
  BY <1>1 DEF LifeInv, TypeOK
<1> QED
  BY <1>2, RowAgrees, RowLeaves DEF LifeInv, TicketAgrees

LEMMA SelectIssues ==
  ASSUME TypeOK, Select
  PROVE  Numbers!NumbersNext
<1>1. PICK b \in Bookings, at \in Slots :
        /\ GenerateQueueNumber(b, at, "priority")
        /\ appointment' = [appointment EXCEPT ![b] = at]
        /\ bookingStatus' = [bookingStatus EXCEPT ![b] = "pending"]
  BY SelectionMoves
<1>2. /\ at \in Times /\ "priority" \in QueueTypes
      /\ bookingStatus'[b] # "none" /\ appointment'[b] = at
      /\ \A x \in Bookings \ {b} : UNCHANGED <<bookingStatus[x], appointment[x]>>
  BY <1>1, LifecycleAssumption, DisruptionsAssumption DEF TypeOK
<1> QED
  BY <1>1, <1>2, GenerateIsIssue DEF Numbers!NumbersNext

LEMMA SelectKeepsDesk ==
  ASSUME LifeInv, Select
  PROVE  [Desk!CountersNext]_Desk!deskVars
<1>1. PICK b \in Bookings :
        /\ ticketStatus' = [ticketStatus EXCEPT ![b] = "scheduled"]
        /\ assignedCounter' = [assignedCounter EXCEPT ![b] = None]
        /\ UNCHANGED <<counterVars, request>>
  BY SelectionMoves
<1>2. /\ ticketStatus'[b] # "serving"
      /\ \A x \in Bookings \ {b} : UNCHANGED <<ticketStatus[x], assignedCounter[x]>>
  BY <1>1 DEF LifeInv, TypeOK
<1> QED
  BY <1>1, <1>2, LeavingEndsService

(* Every step is a step of the branch, a selection, or neither.            *)
LEMMA StepsOfTheBranch == [DisruptionNext]_allVars => [Next]_vars \/ Select
BY DEF DisruptionNext, allVars, DisruptionStep, PauseStep, ResumeStep, Proceed,
       BeginPause, CreatePause, BeginResume, ClosePause, CreateImpacts, FindUnnotified,
       GetNotice, InsertNotice, MarkNotified, FindRisks, Recommend, Fail

LEMMA LifeStep == LifeInv /\ [DisruptionNext]_allVars => LifeInv'
BY StepsOfTheBranch, TypeStep, AgreementStep, SelectType, SelectAgrees DEF LifeInv

LEMMA LifeSurvives == DisruptionSpec => []LifeInv
<1>1. DisruptionInit => LifeInv
  BY LifeInit DEF DisruptionInit
<1> QED
  BY <1>1, LifeStep, PTL DEF DisruptionSpec

(* A booking, its ticket and its counter never contradict each other, even *)
(* when an offer is accepted after the visit has moved on.                 *)
THEOREM StatusesAgreeDisrupted == DisruptionSpec => []StatusAgreement
<1>1. LifeInv => StatusAgreement
  BY DEF LifeInv
<1> QED
  BY <1>1, LifeSurvives, PTL

(* The branch implements the allocator's promise under disruptions too.    *)
THEOREM NumbersImplementedDisrupted == DisruptionSpec => ImplementsNumbers
<1>1. DisruptionInit => Numbers!NumbersInit
  BY DEF DisruptionInit, Init, BookingsInit, Numbers!NumbersInit, TicketScope, Exists
<1>2. LifeInv /\ [DisruptionNext]_allVars => [Numbers!NumbersNext]_Numbers!numberVars
  BY StepsOfTheBranch, NumbersStep, SelectIssues DEF LifeInv
<1> QED
  BY <1>1, <1>2, LifeSurvives, PTL DEF DisruptionSpec, ImplementsNumbers, Numbers!NumbersSpec

(* So a move by an accepted offer never repeats a number.                  *)
THEOREM NumbersUniqueDisrupted == DisruptionSpec => []UniqueNumbers
<1>1. DisruptionSpec => NumbersProofs!NumbersSpec
  BY NumbersImplementedDisrupted, NumbersSame, PTL
     DEF ImplementsNumbers, Numbers!NumbersSpec, NumbersProofs!NumbersSpec
<1>2. NumbersProofs!NumbersSpec => []NumbersProofs!NumbersUnique
  BY NumbersSame, NumbersProofs!IssuedNumbersUnique
<1>3. LifeInv /\ NumbersProofs!NumbersUnique => UniqueNumbers
  BY DEF LifeInv, TypeOK, NumbersProofs!NumbersUnique, UniqueNumbers, TicketScope, ScopeOf,
         Scopes, Dates
<1> QED
  BY <1>1, <1>2, <1>3, LifeSurvives, PTL

(* The counters still behave as module Counters says: an accepted offer    *)
(* frees the counter of a customer who is being served.                    *)
THEOREM CountersImplementedDisrupted == DisruptionSpec => ImplementsCounters
<1>1. DisruptionInit => Desk!CountersInit
  BY DEF DisruptionInit, Init
<1>2. LifeInv /\ [DisruptionNext]_allVars => [Desk!CountersNext]_Desk!deskVars
  BY StepsOfTheBranch, DeskStep, SelectKeepsDesk
<1> QED
  BY <1>1, <1>2, LifeSurvives, PTL DEF DisruptionSpec, ImplementsCounters, Desk!CountersSpec

-----------------------------------------------------------------------------
(* Every step writes the row of one booking at most; a selection moves it. *)

LEMMA SelectWritesOne ==
  ASSUME TypeOK, Select
  PROVE  \E b \in Bookings :
           /\ appointment'[b] \in Slots /\ SlotAvailable(appointment'[b], b)
           /\ bookingStatus'[b] = "pending"
           /\ UNCHANGED <<source, customer>>
           /\ \A x \in Bookings \ {b} : UNCHANGED <<bookingStatus[x], appointment[x]>>
<1>1. PICK i \in Impacts, at \in Slots : SelectOption(i, at)
  BY DEF Select
<1>2. i[2] \in Bookings
  BY DEF Impacts
<1> QED
  BY <1>1, <1>2 DEF SelectOption, MoveWithPriority, TypeOK

(* A customer chosen from yesterday's options is not moved into the past.  *)
THEOREM OnlyMovedAhead == DisruptionSpec => MovedToTheFuture
<1>1. LifeInv /\ [DisruptionNext]_allVars
        => [\A b \in Bookings :
              Exists(b) /\ appointment'[b] # appointment[b]
                => appointment'[b] \in Slots /\ appointment'[b] > now]_allVars
  <2> SUFFICES ASSUME LifeInv, [DisruptionNext]_allVars,
                      NEW b \in Bookings, Exists(b), appointment'[b] # appointment[b]
               PROVE  SlotAvailable(appointment'[b], b)
    BY DEF SlotAvailable
  <2>1. CASE Select
    BY <2>1, SelectWritesOne DEF LifeInv
  <2>2. CASE [Next]_vars
    BY <2>2, StepIsOneChange
       DEF OneChange, Same, Change, Entry, Activation, Move, Cancellation, Turn, Departure
  <2> QED
    BY <2>1, <2>2, StepsOfTheBranch
<1> QED
  BY <1>1, LifeSurvives, PTL DEF DisruptionSpec, MovedToTheFuture

(* Offers computed when the slot was free do not overbook it.              *)
THEOREM CapacityRespectedDisrupted ==
  ASSUME IsFiniteSet(Bookings)
  PROVE  DisruptionSpec => []SlotsWithinCapacity
<1>1. DisruptionInit => SlotsWithinCapacity
  <2> SUFFICES ASSUME DisruptionInit, NEW at \in Slots
               PROVE  Cardinality(Reserved(at)) <= SlotCapacity
    BY DEF SlotsWithinCapacity
  <2>1. Reserved(at) = {}
    BY DEF DisruptionInit, Init, BookingsInit, Reserved
  <2> QED
    BY <2>1, FS_EmptySet, LifecycleAssumption
<1>2. ASSUME LifeInv, SlotsWithinCapacity, Select
      PROVE  SlotsWithinCapacity'
  <2> SUFFICES ASSUME NEW at \in Slots
               PROVE  Cardinality(Reserved(at)') <= SlotCapacity
    BY DEF SlotsWithinCapacity
  <2>1. PICK b \in Bookings :
          /\ SlotAvailable(appointment'[b], b)
          /\ UNCHANGED source
          /\ \A x \in Bookings \ {b} : UNCHANGED <<bookingStatus[x], appointment[x]>>
    BY <1>2, SelectWritesOne DEF LifeInv
  <2>2. \A x \in Reserved(at)' \ Reserved(at) : x = b /\ appointment'[b] = at
    BY <2>1 DEF Reserved
  <2>3. CASE Reserved(at)' \subseteq Reserved(at)
    BY <1>2, <2>3, PlaceTaken
  <2>4. CASE appointment'[b] = at
    <3>1. SlotAvailable(at, b) /\ Reserved(at)' \subseteq Reserved(at) \cup {b}
      BY <2>1, <2>2, <2>4
    <3> QED
      BY <1>2, <3>1, PlaceTaken
  <2> QED
    BY <2>2, <2>3, <2>4
<1>3. LifeInv /\ SlotsWithinCapacity /\ [DisruptionNext]_allVars => SlotsWithinCapacity'
  BY <1>2, StepsOfTheBranch, CapacityStep
<1> QED
  BY <1>1, <1>3, LifeSurvives, PTL DEF DisruptionSpec

-----------------------------------------------------------------------------
(* What the requests in flight rely on.  An impact stays unnotified until  *)
(* its customer has a notification: whoever is about to mark it has seen   *)
(* one, or inserted one, and notifications are not deleted.                *)

InHand(t) ==
  /\ t \in Tasks \cup {None}
  /\ t # None =>
       /\ t.phase \in {"notify", "insert", "mark"} => t.work \subseteq impacts
       /\ t.phase \in {"insert", "mark"} => t.impact \in impacts /\ Registered(t.impact)
       /\ t.phase = "mark" => notices[t.impact] > 0

DisruptInv ==
  /\ LifeInv
  /\ DisruptionsTypeOK
  /\ \A i \in impacts : Exists(i[2])
  /\ \A m \in Managers : InHand(task[m])
  /\ NoticeBehindEveryMark

LEMMA TaskFields ==
  ASSUME NEW t \in Tasks
  PROVE  /\ t.phase = "create" => t.date \in Dates
         /\ t.phase # "create" => t.pause \in Pauses
         /\ t.phase = "impacts" => t.end \in Times
         /\ t.phase \in {"notify", "insert", "mark"} => t.work \in SUBSET Impacts
         /\ t.phase \in {"insert", "mark"} => t.impact \in Impacts
         /\ t.phase = "recommend" => t.work \in SUBSET (Impacts \X Dates)
BY DEF Tasks

(* A booking, once made, keeps its customer through every step.            *)
LEMMA CustomersStay ==
  ASSUME LifeInv, [DisruptionNext]_allVars, NEW b \in Bookings, Exists(b)
  PROVE  Exists(b)' /\ customer'[b] = customer[b]
<1>1. CASE Select
  BY <1>1, SelectWritesOne DEF LifeInv, Exists
<1>2. CASE [Next]_vars
  BY <1>2, StepIsOneChange
     DEF OneChange, Same, Change, Entry, Activation, Move, Cancellation, Turn, Departure, Exists
<1> QED
  BY <1>1, <1>2, StepsOfTheBranch

(* What a step has to show that gives one request another task.            *)
LEMMA Proceeds ==
  ASSUME DisruptInv, [DisruptionNext]_allVars,
         NEW m \in Managers, NEW t, task' = [task EXCEPT ![m] = t], InHand(t)',
         impacts \subseteq impacts', impacts' \subseteq Impacts,
         \A i \in impacts' \ impacts : Exists(i[2])',
         notices' \in [Impacts -> Nat],
         \A i \in Impacts : notices'[i] >= notices[i],
         notified' \subseteq impacts',
         \A i \in notified' \ notified : i \in impacts /\ Registered(i) /\ notices'[i] > 0,
         pauseDate' \in [Pauses -> Dates \cup {None}],
         startedAt' \in [Pauses -> Times],
         endedAt' \in [Pauses -> Times \cup {None}],
         recommendation' \in [Impacts -> Recommendations \cup {None}]
  PROVE  DisruptInv'
<1>1. LifeInv'
  BY LifeStep DEF DisruptInv
<1>2. \A i \in impacts : Exists(i[2])' /\ (Registered(i) => Registered(i)')
  <2> SUFFICES ASSUME NEW i \in impacts
               PROVE  Exists(i[2])' /\ (Registered(i) => Registered(i)')
    OBVIOUS
  <2>1. i[2] \in Bookings /\ Exists(i[2])
    BY DEF DisruptInv, DisruptionsTypeOK, Impacts
  <2> QED
    BY <2>1, CustomersStay DEF DisruptInv, Registered
<1>3. \A i \in Impacts : notices[i] > 0 => notices'[i] > 0
  BY DEF DisruptInv, DisruptionsTypeOK
<1>4. ASSUME NEW x \in Managers
      PROVE  InHand(task[x])'
  <2>1. CASE x = m
    BY <2>1 DEF DisruptInv, DisruptionsTypeOK, InHand
  <2>2. CASE x # m
    <3>1. task'[x] = task[x] /\ InHand(task[x])
      BY <2>2 DEF DisruptInv, DisruptionsTypeOK
    <3>2. task[x] # None /\ task[x].phase = "mark" => task[x].impact \in Impacts
      BY <3>1 DEF InHand, DisruptInv, DisruptionsTypeOK
    <3> QED
      BY <1>2, <1>3, <3>1, <3>2 DEF InHand
  <2> QED
    BY <2>1, <2>2
<1>5. task' \in [Managers -> Tasks \cup {None}]
  BY <1>4 DEF InHand, DisruptInv, DisruptionsTypeOK
<1>6. NoticeBehindEveryMark'
  <2> SUFFICES ASSUME NEW i \in notified'
               PROVE  Registered(i)' /\ notices'[i] > 0
    BY DEF NoticeBehindEveryMark
  <2>1. i \in impacts /\ Registered(i) /\ (notices'[i] > 0 \/ notices[i] > 0)
    BY DEF DisruptInv, DisruptionsTypeOK, NoticeBehindEveryMark
  <2> QED
    BY <1>2, <1>3, <2>1 DEF DisruptInv, DisruptionsTypeOK
<1> QED
  BY <1>1, <1>2, <1>4, <1>5, <1>6 DEF DisruptInv, DisruptionsTypeOK, LifeInv

LEMMA RequestStep ==
  ASSUME DisruptInv, [DisruptionNext]_allVars, NEW m \in Managers,
         PauseStep(m) \/ (\E p \in Pauses : BeginResume(m, p)) \/ ResumeStep(m) \/ Fail(m)
  PROVE  DisruptInv'
<1> USE DEF DisruptInv, DisruptionsTypeOK
<1>1. /\ InHand(task[m])
      /\ task[m] # None => task[m] \in Tasks
      /\ \A i \in Impacts : notices[i] >= notices[i]
      /\ now \in Times
      /\ \A t \in Times : DateOf(t) \in Dates
      /\ None \notin Tasks
  BY DisruptionsAssumption DEF InHand, LifeInv, TypeOK, Dates
<1>2. ASSUME NEW d \in Dates, BeginPause(m, d)
      PROVE  DisruptInv'
  <2>0. PICK t : t = [phase |-> "create", date |-> d]
    OBVIOUS
  <2>1. t \in Tasks /\ t.phase = "create"
    BY <2>0 DEF Tasks
  <2>2. InHand(t)'
    BY <2>1 DEF InHand
  <2> QED
    BY <1>1, <1>2, <2>0, <2>2, Proceeds DEF BeginPause, Proceed
<1>3. ASSUME NEW p \in Pauses, CreatePause(m, p)
      PROVE  DisruptInv'
  <2>1. InHand(None)'
    BY DEF InHand
  <2>2. task[m].date \in Dates
    BY <1>1, <1>3, TaskFields DEF CreatePause
  <2> QED
    BY <1>1, <1>3, <2>1, <2>2, Proceeds DEF CreatePause, Proceed
<1>4. ASSUME NEW p \in Pauses, BeginResume(m, p)
      PROVE  DisruptInv'
  <2>0. PICK t : t = IF Active(p) THEN [phase |-> "close", pause |-> p]
                     ELSE [phase |-> "impacts", pause |-> p, end |-> endedAt[p]]
    OBVIOUS
  <2>1. ~Active(p) => endedAt[p] \in Times
    BY <1>4 DEF BeginResume, Active
  <2>2. t \in Tasks /\ t.phase \in {"close", "impacts"}
    BY <2>0, <2>1 DEF Tasks
  <2>3. InHand(t)'
    BY <2>2 DEF InHand
  <2> QED
    BY <1>1, <1>4, <2>0, <2>3, Proceeds DEF BeginResume, Proceed
<1>5. ASSUME ClosePause(m)
      PROVE  DisruptInv'
  <2>0. PICK t : t = [phase |-> "impacts", pause |-> task[m].pause, end |-> now]
    OBVIOUS
  <2>1. task[m].pause \in Pauses
    BY <1>1, <1>5, TaskFields DEF ClosePause
  <2>2. t \in Tasks /\ t.phase = "impacts"
    BY <1>1, <2>0, <2>1 DEF Tasks
  <2>3. InHand(t)'
    BY <2>2 DEF InHand
  <2> QED
    BY <1>1, <1>5, <2>0, <2>1, <2>3, Proceeds DEF ClosePause, Proceed
<1>6. ASSUME CreateImpacts(m)
      PROVE  DisruptInv'
  <2> DEFINE p == task[m].pause
             new == ({p} \X Affected(p) \X {"affected"})
                      \cup ({p} \X AtRisk(p, LostCapacity(p, task[m].end)) \X {"reschedule_risk"})
  <2>0. PICK t : t = [phase |-> "find", pause |-> p]
    OBVIOUS
  <2>1. p \in Pauses
    BY <1>1, <1>6, TaskFields DEF CreateImpacts
  <2>2. InHand(t)'
    BY <2>0, <2>1 DEF InHand, Tasks
  <2>3. /\ impacts' = impacts \cup new
        /\ task' = [task EXCEPT ![m] = t]
        /\ UNCHANGED vars
        /\ UNCHANGED <<pauseDate, startedAt, endedAt, notified, notices, recommendation>>
    BY <1>6, <2>0 DEF CreateImpacts, Proceed
  <2>4. new \subseteq Impacts
    BY <2>1 DEF Impacts, Affected, AtRisk
  <2>5. \A b \in Affected(p) : Exists(b)
    BY DEF Affected, Exists, LifeInv, StatusAgreement, TicketAgrees
  <2>6. \A i \in new : Exists(i[2])'
    BY <2>3, <2>5 DEF AtRisk, Exists, vars, bookingVars
  <2> HIDE DEF new
  <2> QED
    BY <1>1, <2>2, <2>3, <2>4, <2>6, Proceeds
<1>7. ASSUME FindUnnotified(m)
      PROVE  DisruptInv'
  <2> DEFINE p == task[m].pause
  <2>0. PICK t : t = [phase |-> "notify", pause |-> p,
                      work |-> {i \in impacts \ notified : i[1] = p}]
    OBVIOUS
  <2>1. p \in Pauses
    BY <1>1, <1>7, TaskFields DEF FindUnnotified
  <2>2. InHand(t)'
    BY <1>7, <2>0, <2>1 DEF InHand, Tasks, FindUnnotified
  <2> QED
    BY <1>1, <1>7, <2>0, <2>2, Proceeds DEF FindUnnotified, Proceed
<1>8. ASSUME NEW i \in Impacts, GetNotice(m, i)
      PROVE  DisruptInv'
  <2> DEFINE rest == task[m].work \ {i}
             Then(phase) ==
               [phase |-> phase, pause |-> task[m].pause, work |-> rest, impact |-> i]
  <2>1. /\ task[m].pause \in Pauses /\ task[m].work \subseteq impacts /\ i \in impacts
        /\ task[m].phase = "notify" /\ rest \subseteq impacts /\ rest \subseteq Impacts
        /\ UNCHANGED vars /\ UNCHANGED <<impacts, notices>>
    BY <1>1, <1>8, TaskFields DEF GetNotice, InHand, Proceed
  <2>2. ASSUME NEW t, t = [task[m] EXCEPT !.work = rest]
        PROVE  InHand(t)'
    <3>1. task[m] \in [phase : {"notify"}, pause : Pauses, work : SUBSET Impacts]
      BY <1>1, <1>8, <2>1 DEF GetNotice, Tasks
    <3>2. t = [phase |-> "notify", pause |-> task[m].pause, work |-> rest]
      BY <2>1, <2>2, <3>1
    <3> QED
      BY <2>1, <3>2 DEF InHand, Tasks
  <2>3. ASSUME NEW t, Registered(i), t = Then("insert")
        PROVE  InHand(t)'
    BY <2>1, <2>3 DEF InHand, Tasks, Registered, vars, bookingVars
  <2>4. ASSUME NEW t, Registered(i), notices[i] = 1, t = Then("mark")
        PROVE  InHand(t)'
    BY <2>1, <2>4 DEF InHand, Tasks, Registered, vars, bookingVars
  <2>5. InHand(None)'
    BY DEF InHand
  <2>6. \E t : task' = [task EXCEPT ![m] = t] /\ InHand(t)'
    BY <1>8, <2>2, <2>3, <2>4, <2>5 DEF GetNotice, Proceed
  <2> QED
    BY <1>1, <1>8, <2>6, Proceeds DEF GetNotice
<1>9. ASSUME InsertNotice(m)
      PROVE  DisruptInv'
  <2> DEFINE i == task[m].impact
  <2>0. PICK t : t = [task[m] EXCEPT !.phase = "mark"]
    OBVIOUS
  <2>1. /\ task[m].pause \in Pauses /\ task[m].work \subseteq impacts /\ i \in impacts
        /\ Registered(i) /\ i \in Impacts /\ task[m].work \subseteq Impacts
        /\ UNCHANGED vars /\ UNCHANGED impacts
    BY <1>1, <1>9, TaskFields DEF InsertNotice, InHand, Proceed
  <2>2. task[m] \in [phase : {"insert", "mark"}, pause : Pauses, work : SUBSET Impacts,
                     impact : Impacts]
    BY <1>1, <1>9 DEF InsertNotice, Tasks
  <2>3. t = [phase |-> "mark", pause |-> task[m].pause, work |-> task[m].work, impact |-> i]
    BY <2>0, <2>2
  <2>4. /\ notices' = [notices EXCEPT ![i] = @ + 1] /\ notices' \in [Impacts -> Nat]
        /\ notices'[i] > 0 /\ \A x \in Impacts : notices'[x] >= notices[x]
    BY <1>9, <2>1 DEF InsertNotice
  <2>5. InHand(t)'
    BY <2>1, <2>3, <2>4 DEF InHand, Tasks, Registered, vars, bookingVars
  <2> QED
    BY <1>9, <2>0, <2>4, <2>5, Proceeds DEF InsertNotice, Proceed
<1>10. ASSUME MarkNotified(m)
       PROVE  DisruptInv'
  <2> DEFINE i == task[m].impact
  <2>0. PICK t : t = [phase |-> "notify", pause |-> task[m].pause, work |-> task[m].work]
    OBVIOUS
  <2>1. /\ task[m].pause \in Pauses /\ task[m].work \subseteq impacts /\ i \in impacts
        /\ Registered(i) /\ notices[i] > 0 /\ task[m].work \subseteq Impacts
        /\ UNCHANGED impacts
    BY <1>1, <1>10, TaskFields DEF MarkNotified, InHand
  <2>2. InHand(t)'
    BY <2>0, <2>1 DEF InHand, Tasks
  <2> QED
    BY <1>1, <1>10, <2>0, <2>1, <2>2, Proceeds DEF MarkNotified, Proceed
<1>11. ASSUME NEW p \in Pauses, NEW work \in SUBSET (Impacts \X Dates),
              NEW t, t = Recommending(p, work)
       PROVE  InHand(t)'
  BY <1>11 DEF Recommending, InHand, Tasks
<1>12. ASSUME FindRisks(m)
       PROVE  DisruptInv'
  <2> DEFINE p == task[m].pause
             risks == {i \in impacts : i[1] = p /\ i[3] = "reschedule_risk"}
             work == {<<i, DateOf(appointment[i[2]])>> : i \in risks}
  <2>1. p \in Pauses
    BY <1>1, <1>12, TaskFields DEF FindRisks
  <2>2. \A i \in risks : i \in Impacts /\ appointment[i[2]] \in Times
    BY DEF Impacts, LifeInv, TypeOK
  <2>3. work \in SUBSET (Impacts \X Dates)
    BY <1>1, <2>2
  <2>4. PICK t : t = Recommending(p, work)
    OBVIOUS
  <2>5. InHand(t)'
    BY <1>11, <2>1, <2>3, <2>4
  <2> QED
    BY <1>1, <1>12, <2>4, <2>5, Proceeds DEF FindRisks, Proceed
<1>13. ASSUME NEW i \in Impacts, NEW d \in Dates, Recommend(m, i, d)
       PROVE  DisruptInv'
  <2> DEFINE work == task[m].work \ {<<i, d>>}
  <2>0. PICK t : t = Recommending(task[m].pause, work)
    OBVIOUS
  <2>1. task[m].pause \in Pauses /\ work \in SUBSET (Impacts \X Dates)
    BY <1>1, <1>13, TaskFields DEF Recommend
  <2>2. InHand(t)'
    BY <1>11, <2>0, <2>1
  <2>3. RescheduleSlots(i[2], d) \subseteq Slots
    BY DEF RescheduleSlots
  <2>4. recommendation' \in [Impacts -> Recommendations \cup {None}]
    BY <1>13, <2>3 DEF Recommend, Recommendations
  <2> QED
    BY <1>1, <1>13, <2>0, <2>2, <2>4, Proceeds DEF Recommend, Proceed
<1>14. ASSUME Fail(m)
       PROVE  DisruptInv'
  <2>1. InHand(None)'
    BY DEF InHand
  <2> QED
    BY <1>1, <1>14, <2>1, Proceeds DEF Fail, Proceed
<1> QED
  BY <1>2, <1>3, <1>4, <1>5, <1>6, <1>7, <1>8, <1>9, <1>10, <1>12, <1>13, <1>14
     DEF PauseStep, ResumeStep

(* Steps of the branch, and selections, leave the requests alone.          *)
LEMMA RequestsLeft ==
  ASSUME DisruptInv, [DisruptionNext]_allVars,
         ([Next]_vars /\ UNCHANGED disruptionVars) \/ Select
  PROVE  DisruptInv'
<1>1. LifeInv'
  BY LifeStep DEF DisruptInv
<1>2. \A i \in impacts : Exists(i[2])' /\ (Registered(i) => Registered(i)')
  <2> SUFFICES ASSUME NEW i \in impacts
               PROVE  Exists(i[2])' /\ (Registered(i) => Registered(i)')
    OBVIOUS
  <2>1. i[2] \in Bookings /\ Exists(i[2])
    BY DEF DisruptInv, DisruptionsTypeOK, Impacts
  <2> QED
    BY <2>1, CustomersStay DEF DisruptInv, Registered
<1>3. UNCHANGED <<pauseDate, startedAt, endedAt, impacts, notified, notices, task>>
  BY DEF Select, SelectOption, disruptionVars
<1>4. recommendation' \in [Impacts -> Recommendations \cup {None}]
  <2>1. ASSUME NEW i \in Impacts, NEW at \in Slots, SelectOption(i, at)
        PROVE  recommendation' \in [Impacts -> Recommendations \cup {None}]
    <3>1. recommendation[i] \in Recommendations
      BY <2>1 DEF SelectOption, DisruptInv, DisruptionsTypeOK
    <3>2. [recommendation[i] EXCEPT !.status = "applied", !.selected = at] \in Recommendations
      BY <3>1 DEF Recommendations
    <3> QED
      BY <2>1, <3>2 DEF SelectOption, DisruptInv, DisruptionsTypeOK
  <2> QED
    BY <2>1 DEF Select, disruptionVars, DisruptInv, DisruptionsTypeOK
<1>5. \A m \in Managers : InHand(task[m])'
  BY <1>2, <1>3 DEF DisruptInv, InHand
<1> QED
  BY <1>1, <1>2, <1>3, <1>4, <1>5
     DEF DisruptInv, DisruptionsTypeOK, LifeInv, NoticeBehindEveryMark

LEMMA DisruptStep == DisruptInv /\ [DisruptionNext]_allVars => DisruptInv'
BY RequestStep, RequestsLeft DEF DisruptionNext, DisruptionStep, allVars

LEMMA DisruptInvariant == DisruptionSpec => []DisruptInv
<1>1. DisruptionInit => DisruptInv
  BY LifeInit, LifecycleAssumption
     DEF DisruptionInit, NoDisruptions, DisruptInv, DisruptionsTypeOK, LifeInv, InHand,
         NoticeBehindEveryMark, Times
<1> QED
  BY <1>1, DisruptStep, PTL DEF DisruptionSpec

(* The rows of a disruption, and the requests in flight, keep their types. *)
THEOREM DisruptionTypes == DisruptionSpec => []DisruptionsTypeOK
<1>1. DisruptInv => DisruptionsTypeOK
  BY DEF DisruptInv
<1> QED
  BY <1>1, DisruptInvariant, PTL

(* No customer counts as notified without a notification, however many     *)
(* resumes overlap, and wherever each of them dies.                        *)
THEOREM MarksAreBacked == DisruptionSpec => []NoticeBehindEveryMark
<1>1. DisruptInv => NoticeBehindEveryMark
  BY DEF DisruptInv
<1> QED
  BY <1>1, DisruptInvariant, PTL

(* No resume rewrites an offer that was accepted.                          *)
THEOREM AcceptedOffersKept == DisruptionSpec => AppliedKept
<1>1. DisruptInv /\ [DisruptionNext]_allVars
        => [\A i \in Impacts :
              recommendation[i] # None /\ recommendation[i].status = "applied"
                => recommendation'[i] = recommendation[i]]_allVars
  <2> SUFFICES ASSUME DisruptInv, [DisruptionNext]_allVars, NEW i \in Impacts,
                      recommendation[i] # None, recommendation[i].status = "applied"
               PROVE  recommendation'[i] = recommendation[i]
    OBVIOUS
  <2>1. ASSUME NEW m \in Managers, NEW x \in Impacts, NEW d \in Dates, Recommend(m, x, d)
        PROVE  recommendation'[i] = recommendation[i]
    BY <2>1 DEF Recommend, DisruptInv, DisruptionsTypeOK
  <2>2. ASSUME NEW x \in Impacts, NEW at \in Slots, SelectOption(x, at)
        PROVE  recommendation'[i] = recommendation[i]
    <3>1. x # i
      BY <2>2 DEF SelectOption
    <3> QED
      BY <2>2, <3>1 DEF SelectOption, DisruptInv, DisruptionsTypeOK
  <2>3. CASE UNCHANGED recommendation
    BY <2>3
  <2> QED
    BY <2>1, <2>2, <2>3
       DEF DisruptionNext, DisruptionStep, Select, PauseStep, ResumeStep, BeginPause, CreatePause,
           BeginResume, ClosePause, CreateImpacts, FindUnnotified, GetNotice, InsertNotice,
           MarkNotified, FindRisks, Fail, allVars, disruptionVars
<1> QED
  BY <1>1, DisruptInvariant, PTL DEF DisruptionSpec, AppliedKept
=============================================================================
