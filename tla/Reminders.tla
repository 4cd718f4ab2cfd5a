----------------------------- MODULE Reminders -----------------------------
(***************************************************************************)
(* The scheduled command that reminds customers to check in and cancels    *)
(* the appointments nobody checked in for (create_due_check_in_reminders). *)
(* A run of it takes the time once, evaluates its query once, and works    *)
(* through the bookings it read, each in a transaction of its own, while   *)
(* customers book, check in, cancel and reschedule.  Runs may overlap, and *)
(* a run may die between two bookings.                                     *)
(*                                                                         *)
(* QueueLifecycle has the cancellation of one booking as one step of the   *)
(* present moment, ExpireUnchecked; here it is what the runs implement.    *)
(* That step, still one of Next, adds nothing: a late attempt to check in  *)
(* cancels the booking in the same way.                                    *)
(***************************************************************************)
EXTENDS QueueLifecycle

CONSTANTS
  Jobs,          \* runs of the command, each repeated for ever
  Failing,       \* those that may die
  ReminderEvery  \* ticks between two reminders: one hour in the code

ASSUME RemindersAssumption ==
  /\ ReminderEvery \in Nat \ {0}
  /\ Failing \subseteq Jobs
  /\ \A some \in SUBSET Bookings : None \notin [some -> Times]

VARIABLES
  jobNow,    \* the time a run works with, None before the first
  read,      \* the appointments of the bookings its query returned
  todo,      \* of those, the ones still to be worked through
  reminders  \* the check-in reminders: Notification rows

jobVars == <<jobNow, read, todo, reminders>>
remindedVars == <<vars, jobVars>>

RemindersInit ==
  /\ Init
  /\ jobNow = [j \in Jobs |-> None]
  /\ read = [j \in Jobs |-> None]
  /\ todo = [j \in Jobs |-> {}]
  /\ reminders = {}

-----------------------------------------------------------------------------
(* Mutant: only the bookings of the run's own day are looked at.           *)
MutantUnremindedToday ==
  {b \in Bookings : /\ source[b] = "online" /\ customer[b] # Guest /\ Unchecked(b)
                    /\ DateOf(appointment[b]) = DateOf(now)}

(* The bookings the query selects.                                         *)
Unreminded == {b \in Bookings : source[b] = "online" /\ customer[b] # Guest /\ Unchecked(b)}

(* A run begins as the one before it has come to its end.                  *)
BeginRun(j) ==
  /\ jobNow[j] # None => read[j] # None /\ todo[j] = {}
  /\ jobNow' = [jobNow EXCEPT ![j] = now]
  /\ read' = [read EXCEPT ![j] = None]
  /\ UNCHANGED <<vars, todo, reminders>>

Fetch(j) ==
  /\ jobNow[j] # None /\ read[j] = None
  /\ read' = [read EXCEPT ![j] = [b \in Unreminded |-> appointment[b]]]
  /\ todo' = [todo EXCEPT ![j] = Unreminded]
  /\ UNCHANGED <<vars, jobNow, reminders>>

(* Mutant: the booking is cancelled as it was read.                        *)
MutantCancelAsRead(b, t) ==
  IF bookingStatus[b] \in {"pending", "confirmed"} THEN CancelBoth(b) ELSE UNCHANGED vars

(* cancel_expired_unchecked_booking reads the booking again, and tests it  *)
(* against the time of the run.                                            *)
CancelIfExpired(b, t) ==
  IF Unchecked(b) /\ t > appointment[b] THEN CancelBoth(b) ELSE UNCHANGED vars

(* get_check_in_reminder_slots: the slot of appointment "at" that holds t. *)
SlotOf(at, t) ==
  {opens \in {at - CheckInWindow + i * ReminderEvery : i \in 0..CheckInWindow} :
     opens < at /\ opens <= t /\ t < opens + ReminderEvery}

(* Mutant: a booking that is due exactly now is left for the next run.     *)
MutantRemind(b, at, t) ==
  reminders' = reminders \cup {[booking |-> b, slot |-> s] : s \in SlotOf(at, t) \ {t}}

(* get_or_create: one reminder of a booking and slot.                      *)
Remind(b, at, t) ==
  reminders' = reminders \cup {[booking |-> b, slot |-> s] : s \in SlotOf(at, t)}

Handle(j, b) ==
  /\ b \in todo[j]
  /\ todo' = [todo EXCEPT ![j] = @ \ {b}]
  /\ UNCHANGED <<jobNow, read>>
  /\ IF jobNow[j] > read[j][b]
       THEN CancelIfExpired(b, jobNow[j]) /\ UNCHANGED reminders
       ELSE UNCHANGED vars /\ Remind(b, read[j][b], jobNow[j])

Die(j) ==
  /\ j \in Failing /\ jobNow[j] # None
  /\ jobNow' = [jobNow EXCEPT ![j] = None]
  /\ read' = [read EXCEPT ![j] = None]
  /\ todo' = [todo EXCEPT ![j] = {}]
  /\ UNCHANGED <<vars, reminders>>

JobStep(j) == BeginRun(j) \/ Fetch(j) \/ \E b \in Bookings : Handle(j, b)

RemindersNext ==
  \/ Next /\ UNCHANGED jobVars
  \/ \E j \in Jobs : JobStep(j) \/ Die(j)

RemindersSpec == RemindersInit /\ [][RemindersNext]_remindedVars

(* The clock runs, and a run that does not die is carried on and repeated. *)
RecurringSpec ==
  /\ RemindersSpec
  /\ WF_remindedVars(Tick /\ UNCHANGED jobVars)
  /\ \A j \in Jobs \ Failing : WF_remindedVars(JobStep(j))

-----------------------------------------------------------------------------
(* However old the time and the rows of a run are, it does to the branch   *)
(* only what QueueLifecycle has the job do: it cancels a booking that is   *)
(* unchecked and past its appointment at the moment it is cancelled.       *)
JobsOnlyExpire ==
  [][todo' # todo => UNCHANGED vars \/ \E b \in Bookings : ExpireUnchecked(b)]_remindedVars

(* A run leaves nothing due behind it: a booking it has worked through,    *)
(* unless it was moved since, is checked in or over, or has the reminder   *)
(* of the hour; it did not merely find the booking moved, and moved back.  *)
NothingDueBehind ==
  \A j \in Jobs : read[j] # None =>
    \A b \in (DOMAIN read[j]) \ todo[j] :
      Unchecked(b) /\ appointment[b] = read[j][b] =>
        /\ jobNow[j] <= appointment[b]
        /\ \A s \in SlotOf(appointment[b], jobNow[j]) :
             [booking |-> b, slot |-> s] \in reminders
=============================================================================
