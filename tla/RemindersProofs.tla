--------------------------- MODULE RemindersProofs ---------------------------
(***************************************************************************)
(* Proofs about module Reminders, for any number of bookings and of runs   *)
(* that overlap and die: the runs implement QueueLifecycle, cancel only    *)
(* what is due at the moment they do, and leave nothing due behind.        *)
(***************************************************************************)
EXTENDS Reminders, QueueLifecycleProofs

-----------------------------------------------------------------------------
(* The branch, as a run may rely on it between reading and writing.        *)

(* Customer and source of a booking are for life.                          *)
LEMMA OwnersKept ==
  ASSUME LifeInv, [Next]_vars, NEW x \in Bookings, Exists(x)
  PROVE  Exists(x)' /\ UNCHANGED <<source[x], customer[x]>>
BY StepIsOneChange DEF OneChange, Same, Change, Entry, Activation, Move, Cancellation, Turn,
                       Departure, Exists

(* A booking that comes to wait for a check-in it did not wait for before  *)
(* waits for one that is still to come.                                    *)
LEMMA MovedAhead ==
  ASSUME LifeInv, [Next]_vars, NEW x \in Bookings, Exists(x), Unchecked(x)'
  PROVE  \/ Unchecked(x) /\ appointment'[x] = appointment[x]
         \/ appointment'[x] > now
<1>1. now # None
  BY TimesAreNaturals DEF LifeInv, TypeOK
<1>2. CASE Same(x)
  BY <1>2 DEF Same, Unchecked
<1>3. CASE Move(x)
  BY <1>3 DEF Move, SlotAvailable
<1>4. CASE Activation(x) \/ Cancellation(x) \/ Departure(x)
  BY <1>1, <1>4 DEF Activation, Cancellation, Departure, Unchecked
<1>5. CASE Turn(x)
  BY <1>5 DEF Turn, Unchecked
<1> QED
  BY <1>2, <1>3, <1>4, <1>5, StepIsOneChange DEF OneChange, Change, Entry

-----------------------------------------------------------------------------
(* What a run has in hand: a time that has come, and bookings of customers *)
(* who can be reminded.                                                    *)
JobsInv ==
  /\ jobNow \in [Jobs -> Times \cup {None}]
  /\ DOMAIN read = Jobs /\ DOMAIN todo = Jobs
  /\ \A j \in Jobs :
       /\ jobNow[j] # None => jobNow[j] <= now
       /\ read[j] = None => todo[j] = {}
       /\ read[j] # None =>
            /\ jobNow[j] # None
            /\ todo[j] \subseteq DOMAIN read[j]
            /\ \A b \in DOMAIN read[j] :
                 /\ b \in Bookings /\ Exists(b)
                 /\ source[b] = "online" /\ customer[b] # Guest
                 /\ read[j][b] \in Times

(* A cancellation by a run is the job's of QueueLifecycle, here and now.   *)
LEMMA HandleExpires ==
  ASSUME LifeInv, JobsInv, NEW j \in Jobs, NEW b \in Bookings, Handle(j, b)
  PROVE  \/ UNCHANGED vars
         \/ ExpireUnchecked(b)
<1>1. b \in todo[j]
  BY DEF Handle
<1>2. read[j] # None
  BY <1>1 DEF JobsInv
<1>3. /\ jobNow[j] \in Times /\ jobNow[j] <= now
      /\ source[b] = "online" /\ customer[b] # Guest
  BY <1>1, <1>2 DEF JobsInv
<1>4. SUFFICES ASSUME Unchecked(b), jobNow[j] > appointment[b], CancelBoth(b)
               PROVE  ExpireUnchecked(b)
  BY DEF Handle, CancelIfExpired
<1>5. now > appointment[b]
  <2>1. now \in Nat /\ appointment[b] \in Nat /\ jobNow[j] \in Nat
    BY <1>3, TimesAreNaturals DEF LifeInv, TypeOK
  <2> QED
    BY <1>3, <1>4, <2>1
<1> QED
  BY <1>3, <1>4, <1>5 DEF ExpireUnchecked, CancelExpired

(* So every step is one of the branch, or leaves it alone.                 *)
LEMMA BranchStep ==
  ASSUME LifeInv, JobsInv, [RemindersNext]_remindedVars
  PROVE  [Next]_vars
<1>1. ASSUME NEW j \in Jobs, JobStep(j) \/ Die(j)
      PROVE  [Next]_vars
  <2>1. ASSUME NEW b \in Bookings, Handle(j, b)
        PROVE  [Next]_vars
    BY <2>1, HandleExpires DEF Next, VisitStep
  <2> QED
    BY <1>1, <2>1 DEF JobStep, BeginRun, Fetch, Die
<1> QED
  BY <1>1 DEF RemindersNext, remindedVars

(* While no run takes a step, what each has in hand stays true.            *)
LEMMA JobsInvKept ==
  ASSUME LifeInv, JobsInv, [Next]_vars, UNCHANGED <<jobNow, read, todo>>
  PROVE  JobsInv'
<1>1. now' >= now /\ now \in Nat /\ now' \in Nat
  BY ClockGoesOn, TimesAreNaturals DEF LifeInv, TypeOK
<1>2. \A b \in Bookings : Exists(b) => Exists(b)' /\ UNCHANGED <<source[b], customer[b]>>
  BY OwnersKept
<1>3. ASSUME NEW j \in Jobs, jobNow[j] # None
      PROVE  jobNow[j] <= now'
  <2>1. jobNow[j] \in Nat /\ jobNow[j] <= now
    BY <1>3, TimesAreNaturals DEF JobsInv
  <2> QED
    BY <1>1, <2>1
<1> QED
  BY <1>2, <1>3 DEF JobsInv

LEMMA JobsStep ==
  ASSUME LifeInv, JobsInv, [RemindersNext]_remindedVars
  PROVE  JobsInv'
<1>1. [Next]_vars
  BY BranchStep
<1>2. CASE UNCHANGED jobVars
  BY <1>1, <1>2, JobsInvKept DEF jobVars
<1>3. ASSUME NEW j \in Jobs, BeginRun(j)
      PROVE  JobsInv'
  <2>1. now \in Times /\ now <= now
    BY TimesAreNaturals DEF LifeInv, TypeOK
  <2>2. todo[j] = {}
    BY <1>3 DEF BeginRun, JobsInv
  <2> QED
    BY <1>3, <2>1, <2>2 DEF BeginRun, JobsInv, vars, bookingVars, Exists
<1>4. ASSUME NEW j \in Jobs, Fetch(j)
      PROVE  JobsInv'
  <2>1. \A b \in Unreminded :
          /\ b \in Bookings /\ Exists(b) /\ appointment[b] \in Times
          /\ source[b] = "online" /\ customer[b] # Guest
    BY DEF Unreminded, Unchecked, Exists, LifeInv, TypeOK
  <2> DEFINE rows == [b \in Unreminded |-> appointment[b]]
  <2>2. /\ read'[j] = rows /\ todo'[j] = Unreminded /\ jobNow[j] # None
        /\ UNCHANGED <<jobNow, now, bookingStatus, source, customer>>
        /\ DOMAIN read' = Jobs /\ DOMAIN todo' = Jobs
        /\ \A k \in Jobs \ {j} : UNCHANGED <<read[k], todo[k]>>
    BY <1>4 DEF Fetch, JobsInv, vars, bookingVars
  <2>3. rows # None
    <3>1. Unreminded \in SUBSET Bookings /\ rows \in [Unreminded -> Times]
      BY <2>1
    <3> QED
      BY <3>1, RemindersAssumption
  <2> QED
    BY <2>1, <2>2, <2>3 DEF JobsInv, Exists
<1>5. ASSUME NEW j \in Jobs, NEW b \in Bookings, Handle(j, b)
      PROVE  JobsInv'
  <2>1. /\ UNCHANGED <<jobNow, read>>
        /\ DOMAIN todo' = Jobs /\ \A k \in Jobs : todo'[k] \subseteq todo[k]
    BY <1>5 DEF Handle, JobsInv
  <2>2. now' >= now /\ now \in Nat /\ now' \in Nat
    BY <1>1, ClockGoesOn, TimesAreNaturals DEF LifeInv, TypeOK
  <2>3. \A x \in Bookings : Exists(x) => Exists(x)' /\ UNCHANGED <<source[x], customer[x]>>
    BY <1>1, OwnersKept
  <2>4. ASSUME NEW k \in Jobs, jobNow[k] # None
        PROVE  jobNow[k] <= now'
    <3>1. jobNow[k] \in Nat /\ jobNow[k] <= now
      BY <2>4, TimesAreNaturals DEF JobsInv
    <3> QED
      BY <2>2, <3>1
  <2> QED
    BY <2>1, <2>3, <2>4 DEF JobsInv
<1>6. ASSUME NEW j \in Jobs, Die(j)
      PROVE  JobsInv'
  BY <1>6 DEF Die, JobsInv, vars, bookingVars, Exists
<1> QED
  BY <1>2, <1>3, <1>4, <1>5, <1>6 DEF RemindersNext, JobStep, remindedVars

-----------------------------------------------------------------------------
(* NothingDueBehind is not inductive: it speaks only of bookings that wait *)
(* for their check-in, and a booking may be checked in, and moved back to  *)
(* the very appointment that was read.  What is, is that the reminder of a *)
(* booking not yet due was made all the same, and that one overdue never   *)
(* comes to wait for that appointment again.                               *)
Worked(j) == IF read[j] = None THEN {} ELSE (DOMAIN read[j]) \ todo[j]

Reminded ==
  \A j \in Jobs : \A b \in Worked(j) : jobNow[j] <= read[j][b] =>
    \A s \in SlotOf(read[j][b], jobNow[j]) : [booking |-> b, slot |-> s] \in reminders

Expired ==
  \A j \in Jobs : \A b \in Worked(j) :
    jobNow[j] > read[j][b] => ~(Unchecked(b) /\ appointment[b] = read[j][b])

RemInv == LifeInv /\ JobsInv /\ Reminded /\ Expired

(* A step works through a booking with the rows and the time of its run,   *)
(* or adds nothing to what the run has worked through.                     *)
LEMMA WorkedBefore ==
  ASSUME LifeInv, JobsInv, [RemindersNext]_remindedVars, NEW j \in Jobs, NEW b \in Worked(j)'
  PROVE  /\ UNCHANGED <<jobNow[j], read[j]>>
         /\ b \in Worked(j) \/ (b \in Bookings /\ Handle(j, b))
<1>1. CASE UNCHANGED jobVars
  BY <1>1 DEF jobVars, Worked
<1>2. ASSUME NEW k \in Jobs, BeginRun(k)
      PROVE  k # j /\ UNCHANGED <<jobNow[j], read[j], todo[j]>>
  BY <1>2 DEF BeginRun, Worked, JobsInv
<1>3. ASSUME NEW k \in Jobs, Fetch(k)
      PROVE  k # j /\ UNCHANGED <<jobNow[j], read[j], todo[j]>>
  BY <1>3 DEF Fetch, Worked, JobsInv
<1>4. ASSUME NEW k \in Jobs, Die(k)
      PROVE  k # j /\ UNCHANGED <<jobNow[j], read[j], todo[j]>>
  BY <1>4 DEF Die, Worked, JobsInv
<1>5. ASSUME NEW k \in Jobs, NEW x \in Bookings, Handle(k, x)
      PROVE  /\ UNCHANGED <<jobNow[j], read[j]>>
             /\ b \in Worked(j) \/ (k = j /\ x = b)
  BY <1>5 DEF Handle, Worked, JobsInv
<1> QED
  BY <1>1, <1>2, <1>3, <1>4, <1>5 DEF RemindersNext, JobStep, remindedVars, Worked

(* Reminders are only ever added.                                          *)
LEMMA RemindersGrow ==
  ASSUME [RemindersNext]_remindedVars
  PROVE  reminders \subseteq reminders'
BY DEF RemindersNext, JobStep, BeginRun, Fetch, Handle, Remind, Die, remindedVars, jobVars

LEMMA RemindedStep ==
  ASSUME RemInv, [RemindersNext]_remindedVars
  PROVE  Reminded'
<1> SUFFICES ASSUME NEW j \in Jobs, NEW b \in Worked(j)', jobNow'[j] <= read'[j][b],
                    NEW s \in SlotOf(read'[j][b], jobNow'[j])
             PROVE  [booking |-> b, slot |-> s] \in reminders'
  BY DEF Reminded, SlotOf
<1>1. jobNow'[j] = jobNow[j] /\ read'[j] = read[j]
  BY WorkedBefore DEF RemInv
<1>2. CASE b \in Worked(j)
  BY <1>1, <1>2, RemindersGrow DEF RemInv, Reminded
<1>3. CASE b \in Bookings /\ Handle(j, b)
  <2>1. b \in DOMAIN read[j] /\ read[j] # None
    BY <1>1 DEF Worked
  <2>2. jobNow[j] \in Nat /\ read[j][b] \in Nat
    BY <2>1, TimesAreNaturals DEF RemInv, JobsInv
  <2>3. Remind(b, read[j][b], jobNow[j])
    BY <1>1, <1>3, <2>2 DEF Handle
  <2> QED
    BY <1>1, <2>3 DEF Remind
<1> QED
  BY <1>2, <1>3, WorkedBefore DEF RemInv

LEMMA ExpiredStep ==
  ASSUME RemInv, [RemindersNext]_remindedVars
  PROVE  Expired'
<1> SUFFICES ASSUME NEW j \in Jobs, NEW b \in Worked(j)', jobNow'[j] > read'[j][b],
                    Unchecked(b)', appointment'[b] = read'[j][b]
             PROVE  FALSE
  BY DEF Expired
<1>1. jobNow'[j] = jobNow[j] /\ read'[j] = read[j]
  BY WorkedBefore DEF RemInv
<1>2. b \in DOMAIN read[j] /\ read[j] # None
  BY <1>1 DEF Worked
<1>3. /\ b \in Bookings /\ Exists(b)
      /\ jobNow[j] \in Nat /\ now \in Nat /\ jobNow[j] <= now
      /\ read[j][b] \in Nat /\ appointment[b] \in Nat
  BY <1>2, TimesAreNaturals DEF RemInv, JobsInv, LifeInv, TypeOK
<1>4. Unchecked(b) /\ appointment'[b] = appointment[b]
  <2>1. [Next]_vars
    BY BranchStep DEF RemInv
  <2>2. ~(appointment'[b] > now)
    BY <1>1, <1>3
  <2> QED
    BY <1>3, <2>1, <2>2, MovedAhead DEF RemInv
<1>5. CASE b \in Worked(j)
  BY <1>1, <1>4, <1>5 DEF RemInv, Expired
<1>6. CASE Handle(j, b)
  <2>1. CancelBoth(b)
    BY <1>1, <1>4, <1>6 DEF Handle, CancelIfExpired
  <2> QED
    BY <1>3, <2>1 DEF CancelBoth, Unchecked, RemInv, LifeInv, TypeOK
<1> QED
  BY <1>5, <1>6, WorkedBefore DEF RemInv

LEMMA RemInvariant == RemindersSpec => []RemInv
<1>1. RemindersInit => RemInv
  BY LifeInit DEF RemindersInit, RemInv, JobsInv, Reminded, Expired, Worked
<1>2. RemInv /\ [RemindersNext]_remindedVars => RemInv'
  <2> SUFFICES ASSUME RemInv, [RemindersNext]_remindedVars
               PROVE  RemInv'
    OBVIOUS
  <2>1. LifeInv'
    BY BranchStep, TypeStep, AgreementStep DEF RemInv, LifeInv
  <2> QED
    BY <2>1, JobsStep, RemindedStep, ExpiredStep DEF RemInv
<1> QED
  BY <1>1, <1>2, PTL DEF RemindersSpec

-----------------------------------------------------------------------------
(* The branch under the scheduled command is the branch of QueueLifecycle: *)
(* whatever is proved of that holds here as well.                          *)
THEOREM RemindersImplementBranch == RemindersSpec => Spec
<1>1. RemindersInit => Init
  BY DEF RemindersInit
<1>2. RemInv /\ [RemindersNext]_remindedVars => [Next]_vars
  BY BranchStep DEF RemInv
<1> QED
  BY <1>1, <1>2, RemInvariant, PTL DEF RemindersSpec, Spec

(* However old what a run has read is, it cancels only a booking that is   *)
(* unchecked and past its appointment at that moment.                      *)
THEOREM JobsExpireOnly == RemindersSpec => JobsOnlyExpire
<1>1. RemInv /\ [RemindersNext]_remindedVars
        => [todo' # todo => UNCHANGED vars \/ \E b \in Bookings : ExpireUnchecked(b)]_remindedVars
  <2> SUFFICES ASSUME RemInv, RemindersNext, todo' # todo
               PROVE  UNCHANGED vars \/ \E b \in Bookings : ExpireUnchecked(b)
    OBVIOUS
  <2>1. ASSUME NEW j \in Jobs, NEW b \in Bookings, Handle(j, b)
        PROVE  UNCHANGED vars \/ \E x \in Bookings : ExpireUnchecked(x)
    BY <2>1, HandleExpires DEF RemInv
  <2> QED
    BY <2>1 DEF RemindersNext, JobStep, BeginRun, Fetch, Die, jobVars
<1> QED
  BY <1>1, RemInvariant, PTL DEF RemindersSpec, JobsOnlyExpire

(* A run leaves nothing due behind it, with any number of others at work.  *)
THEOREM DueIsDealtWith == RemindersSpec => []NothingDueBehind
<1>1. RemInv => NothingDueBehind
  <2> SUFFICES ASSUME RemInv, NEW j \in Jobs, read[j] # None, NEW b \in (DOMAIN read[j]) \ todo[j],
                      Unchecked(b), appointment[b] = read[j][b]
               PROVE  /\ jobNow[j] <= appointment[b]
                      /\ \A s \in SlotOf(appointment[b], jobNow[j]) :
                           [booking |-> b, slot |-> s] \in reminders
    BY DEF NothingDueBehind
  <2>1. b \in Worked(j)
    BY DEF Worked
  <2>2. jobNow[j] \in Nat /\ read[j][b] \in Nat
    BY TimesAreNaturals DEF RemInv, JobsInv
  <2>3. jobNow[j] <= read[j][b]
    BY <2>1, <2>2 DEF RemInv, Expired
  <2> QED
    BY <2>1, <2>3 DEF RemInv, Reminded
<1> QED
  BY <1>1, RemInvariant, PTL
=============================================================================
