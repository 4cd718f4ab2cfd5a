------------------------- MODULE StaffAccountsProofs -------------------------
(***************************************************************************)
(* Proofs about modules Counters and StaffAccounts, for any number of      *)
(* counters, requests in flight, accounts, roles and branches: what is     *)
(* true of the counters alone; that they behave as module Counters says    *)
(* whatever happens to the accounts; and that an active System Admin       *)
(* remains unless the removals of two administrators overlap.              *)
(***************************************************************************)
EXTENDS StaffAccounts, FiniteSetTheorems, TLAPS

-----------------------------------------------------------------------------
(* The counters alone.                                                     *)

(* What a step needs to know of the state it starts from: the types, that  *)
(* a counter in operation is staffed, and that a member of staff runs at   *)
(* most one counter.                                                       *)
DeskInv == CountersTypeOK /\ ActiveIsStaffed /\ OneCounterPerStaff

-----------------------------------------------------------------------------
(* A move along the lifecycle keeps the types, provided it ends in a       *)
(* status the counter can have.                                            *)
LEMMA MoveType ==
  ASSUME CountersTypeOK, NEW c \in Counters, NEW from, NEW to \in CounterStatuses,
         MoveCounter(c, from, to)
  PROVE  CountersTypeOK'
BY DEF CountersTypeOK, MoveCounter

(* Every value a request can have read is one it can hold.                 *)
LEMMA ReadType ==
  ASSUME NEW op \in {"call", "configure"}, NEW c \in Counters, NEW q \in QueueTypes
  PROVE  [op |-> op, counter |-> c, type |-> q] \in InFlight
BY DEF InFlight

(* Every operation on counters keeps the types of counters/models.py.      *)
LEMMA CountersTypeStep ==
  CountersTypeOK /\ [CountersNext]_deskVars => CountersTypeOK'
<1> SUFFICES ASSUME CountersTypeOK, [CountersNext]_deskVars
             PROVE  CountersTypeOK'
  OBVIOUS
<1>1. ASSUME NEW c \in Counters, NEW s \in Staff, AssignStaff(c, s)
      PROVE  CountersTypeOK'
  BY <1>1 DEF CountersTypeOK, AssignStaff
<1>2. ASSUME NEW c \in Counters, UnassignStaff(c)
      PROVE  CountersTypeOK'
  BY <1>2 DEF CountersTypeOK, UnassignStaff
<1>3. ASSUME NEW c \in Counters,
             OpenCounter(c) \/ PauseCounter(c) \/ ResumeCounter(c) \/ CloseCounter(c)
      PROVE  CountersTypeOK'
  <2>1. CASE OpenCounter(c)
    BY <2>1, MoveType, "open" \in CounterStatuses DEF OpenCounter, CounterStatuses
  <2>2. CASE PauseCounter(c)
    BY <2>2, MoveType, "paused" \in CounterStatuses DEF PauseCounter, CounterStatuses
  <2>3. CASE ResumeCounter(c)
    BY <2>3, MoveType, "open" \in CounterStatuses DEF ResumeCounter, CounterStatuses
  <2>4. CASE CloseCounter(c)
    BY <2>4, MoveType, "closed" \in CounterStatuses DEF CloseCounter, CounterStatuses
  <2> QED
    BY <1>3, <2>1, <2>2, <2>3, <2>4
<1>4. ASSUME NEW r \in Requests, NEW c \in Counters, BeginCall(r, c)
      PROVE  CountersTypeOK'
  <2>1. [op |-> "call", counter |-> c, type |-> counterType[c]] \in InFlight
    BY ReadType DEF CountersTypeOK
  <2> QED
    BY <1>4, <2>1 DEF CountersTypeOK, BeginCall
<1>5. ASSUME NEW r \in Requests, NEW c \in Counters, NEW q \in QueueTypes, BeginConfigure(r, c, q)
      PROVE  CountersTypeOK'
  <2>1. [op |-> "configure", counter |-> c, type |-> q] \in InFlight
    BY ReadType
  <2> QED
    BY <1>5, <2>1 DEF CountersTypeOK, BeginConfigure
<1>6. ASSUME NEW r \in Requests, FinishConfigure(r)
      PROVE  CountersTypeOK'
  <2>1. request[r] \in InFlight
    BY <1>6 DEF FinishConfigure, CountersTypeOK
  <2>2. request[r].type \in QueueTypes
    BY <2>1 DEF InFlight
  <2> QED
    BY <1>6, <2>2 DEF CountersTypeOK, FinishConfigure
<1>7. ASSUME NEW r \in Requests, ServeCustomer(r) \/ ServeNobody(r)
      PROVE  CountersTypeOK'
  <2>1. request[r] \in InFlight
    BY <1>7 DEF ServeCustomer, ServeNobody, FinishCall, Calling, CountersTypeOK
  <2>2. request[r].counter \in Counters
    BY <2>1 DEF InFlight
  <2> QED
    BY <1>7, <2>2 DEF CountersTypeOK, ServeCustomer, ServeNobody, FinishCall
<1>8. ASSUME NEW c \in Counters, EndService(c)
      PROVE  CountersTypeOK'
  BY <1>8 DEF CountersTypeOK, EndService
<1>9. CASE UNCHANGED deskVars
  BY <1>9 DEF CountersTypeOK, deskVars
<1> QED
  BY <1>1, <1>2, <1>3, <1>4, <1>5, <1>6, <1>7, <1>8, <1>9 DEF CountersNext, CounterStep

(* Every operation keeps counters in operation staffed.                    *)
LEMMA StaffedStep ==
  CountersTypeOK /\ ActiveIsStaffed /\ [CountersNext]_deskVars => ActiveIsStaffed'
<1> SUFFICES ASSUME CountersTypeOK, ActiveIsStaffed, [CountersNext]_deskVars
             PROVE  ActiveIsStaffed'
  OBVIOUS
<1>1. ASSUME NEW c \in Counters, NEW s \in Staff, AssignStaff(c, s)
      PROVE  ActiveIsStaffed'
  BY <1>1, NoneAssumption DEF CountersTypeOK, ActiveIsStaffed, AssignStaff
<1>2. ASSUME NEW c \in Counters, UnassignStaff(c)
      PROVE  ActiveIsStaffed'
  BY <1>2 DEF CountersTypeOK, ActiveIsStaffed, UnassignStaff, ClosedAndIdle
<1>3. ASSUME NEW c \in Counters,
             OpenCounter(c) \/ PauseCounter(c) \/ ResumeCounter(c) \/ CloseCounter(c)
      PROVE  ActiveIsStaffed'
  BY <1>3 DEF CountersTypeOK, ActiveIsStaffed, MoveCounter,
              OpenCounter, PauseCounter, ResumeCounter, CloseCounter
<1>4. CASE UNCHANGED <<counterStatus, assignedStaff>>
  BY <1>4 DEF ActiveIsStaffed
<1> QED
  BY <1>1, <1>2, <1>3, <1>4
     DEF CountersNext, CounterStep, BeginCall, BeginConfigure, FinishConfigure,
         ServeCustomer, ServeNobody, FinishCall, EndService, deskVars

(* No operation gives a member of staff a second counter.                  *)
LEMMA OneCounterStep ==
  CountersTypeOK /\ OneCounterPerStaff /\ [CountersNext]_deskVars => OneCounterPerStaff'
<1> SUFFICES ASSUME CountersTypeOK, OneCounterPerStaff, [CountersNext]_deskVars
             PROVE  OneCounterPerStaff'
  OBVIOUS
<1>1. ASSUME NEW c \in Counters, NEW s \in Staff, AssignStaff(c, s)
      PROVE  OneCounterPerStaff'
  BY <1>1 DEF CountersTypeOK, OneCounterPerStaff, AssignStaff
<1>2. ASSUME NEW c \in Counters, UnassignStaff(c)
      PROVE  OneCounterPerStaff'
  BY <1>2 DEF CountersTypeOK, OneCounterPerStaff, UnassignStaff
<1>3. CASE UNCHANGED assignedStaff
  BY <1>3 DEF OneCounterPerStaff
<1> QED
  BY <1>1, <1>2, <1>3
     DEF CountersNext, CounterStep, OpenCounter, PauseCounter, ResumeCounter, CloseCounter,
         MoveCounter, BeginCall, BeginConfigure, FinishConfigure,
         ServeCustomer, ServeNobody, FinishCall, EndService, deskVars

-----------------------------------------------------------------------------
(* The strengthening holds in every reachable state.                       *)
LEMMA DeskInvariant == CountersSpec => []DeskInv
<1>1. CountersInit => DeskInv
  BY DEF CountersInit, DeskInv, CountersTypeOK, CounterStatuses, ActiveIsStaffed, OneCounterPerStaff
<1>2. DeskInv /\ [CountersNext]_deskVars => DeskInv'
  BY CountersTypeStep, StaffedStep, OneCounterStep DEF DeskInv
<1> QED
  BY <1>1, <1>2, PTL DEF CountersSpec

(* Type correctness of the counters' state and of what requests have read. *)
THEOREM CountersTypeCorrect == CountersSpec => []CountersTypeOK
<1>1. DeskInv => CountersTypeOK
  BY DEF DeskInv
<1> QED
  BY <1>1, DeskInvariant, PTL

(* No order of staffing and lifecycle operations leaves an open or paused  *)
(* counter without staff (counters/services.py).                           *)
THEOREM CountersStayStaffed == CountersSpec => []ActiveIsStaffed
<1>1. DeskInv => ActiveIsStaffed
  BY DEF DeskInv
<1> QED
  BY <1>1, DeskInvariant, PTL

(* No order of assignments gives a member of staff two counters.           *)
THEOREM StaffRunOneCounter == CountersSpec => []OneCounterPerStaff
<1>1. DeskInv => OneCounterPerStaff
  BY DEF DeskInv
<1> QED
  BY <1>1, DeskInvariant, PTL

(* Staff are never changed at a counter with a customer, although a call   *)
(* that was in flight may have filled it since: only assign and unassign   *)
(* change staff, and both look at the customer in their own transaction.   *)
THEOREM StaffKept == CountersSpec => StaffKeptWhileServing
<1>1. CountersTypeOK /\ [CountersNext]_deskVars
        => [\A c \in busy : assignedStaff'[c] = assignedStaff[c]]_deskVars
  <2> SUFFICES ASSUME CountersTypeOK, CountersNext, NEW c \in busy
               PROVE  assignedStaff'[c] = assignedStaff[c]
    OBVIOUS
  <2>1. c \in Counters
    BY DEF CountersTypeOK
  <2>2. ASSUME NEW d \in Counters, NEW s \in Staff, AssignStaff(d, s)
        PROVE  assignedStaff'[c] = assignedStaff[c]
    BY <2>1, <2>2 DEF CountersTypeOK, AssignStaff, ClosedAndIdle
  <2>3. ASSUME NEW d \in Counters, UnassignStaff(d)
        PROVE  assignedStaff'[c] = assignedStaff[c]
    BY <2>1, <2>3 DEF CountersTypeOK, UnassignStaff, ClosedAndIdle
  <2>4. CASE UNCHANGED assignedStaff
    BY <2>4
  <2> QED
    BY <2>2, <2>3, <2>4
       DEF CountersNext, CounterStep, OpenCounter, PauseCounter, ResumeCounter, CloseCounter,
           MoveCounter, BeginCall, BeginConfigure, FinishConfigure,
           ServeCustomer, ServeNobody, FinishCall, EndService
<1> QED
  BY <1>1, CountersTypeCorrect, PTL DEF CountersSpec, StaffKeptWhileServing

-----------------------------------------------------------------------------
(* The counters next to the accounts.                                      *)

(* Staffing asks more of an account than module Counters does, and adds no *)
(* step to it.                                                             *)
THEOREM StaffingImplementsCounters == StaffSpec => StaffingIsCounters
<1>1. [StaffNext]_staffVars => [CountersNext]_deskVars
  <2>1. DeskStep => CountersNext
    BY DEF DeskStep, CountersNext, CounterStep, AssignCounterStaff
  <2> QED
    BY <2>1 DEF StaffNext, staffVars
<1> QED
  BY <1>1, PTL DEF StaffSpec, StaffInit, StaffingIsCounters, CountersSpec

(* So what is proved of the counters carries over.                         *)
THEOREM StaffedCountersStayStaffed == StaffSpec => []ActiveIsStaffed
BY StaffingImplementsCounters, CountersStayStaffed, PTL DEF StaffingIsCounters

THEOREM StaffedOneCounterEach == StaffSpec => []OneCounterPerStaff
BY StaffingImplementsCounters, StaffRunOneCounter, PTL DEF StaffingIsCounters

THEOREM StaffedKept == StaffSpec => StaffKeptWhileServing
BY StaffingImplementsCounters, StaffKept, PTL DEF StaffingIsCounters

-----------------------------------------------------------------------------
(* The types of the accounts.                                              *)

LEMMA AccountsTypeStep ==
  AccountsTypeOK /\ [StaffNext]_staffVars => AccountsTypeOK'
<1> SUFFICES ASSUME AccountsTypeOK, [StaffNext]_staffVars
             PROVE  AccountsTypeOK'
  OBVIOUS
<1>1. ASSUME NEW s \in Staff, NEW r \in StaffRoles, NEW b \in Branches \cup {None},
             CreateAccount(s, r, b)
      PROVE  AccountsTypeOK'
  BY <1>1 DEF CreateAccount, AccountsTypeOK
<1>2. ASSUME NEW q \in AccountRequests, NEW w \in Changes, Begin(q, w)
      PROVE  AccountsTypeOK'
  BY <1>2 DEF Begin, AccountsTypeOK
<1>3. ASSUME NEW q \in AccountRequests, NEW s \in Staff, NEW r \in StaffRoles \cup {Keep},
             NEW b \in Branches \cup {None, Keep}, BeginUpdate(q, s, r, b)
      PROVE  AccountsTypeOK'
  <2>1. [user |-> s, role |-> r, branch |-> b, active |-> Keep] \in Changes
    BY DEF Changes
  <2> QED
    BY <1>2, <1>3, <2>1 DEF BeginUpdate
<1>4. ASSUME NEW q \in AccountRequests, NEW a \in Staff, NEW s \in Staff, NEW on \in BOOLEAN,
             BeginActivation(q, a, s, on)
      PROVE  AccountsTypeOK'
  <2>1. [user |-> s, role |-> Keep, branch |-> Keep, active |-> on] \in Changes
    BY DEF Changes
  <2> QED
    BY <1>2, <1>4, <2>1 DEF BeginActivation
<1>5. ASSUME NEW q \in AccountRequests, FinishChange(q)
      PROVE  AccountsTypeOK'
  <2>1. change[q] \in Changes /\ change' = [change EXCEPT ![q] = None]
    BY <1>5 DEF FinishChange, AccountsTypeOK
  <2> DEFINE w == change[q]
  <2>2. w.user \in Staff /\ w.role \in StaffRoles \cup {Keep}
        /\ w.branch \in Branches \cup {None, Keep} /\ w.active \in BOOLEAN \cup {Keep}
    BY <2>1 DEF Changes
  <2>3. change' \in [AccountRequests -> Changes \cup {None}]
    BY <2>1 DEF AccountsTypeOK
  <2>4. CASE UNCHANGED <<role, branch, isActive>>
    BY <2>3, <2>4 DEF AccountsTypeOK
  <2>5. CASE /\ role' = [role EXCEPT ![w.user] = Given(w.role, role[w.user])]
             /\ branch' = [branch EXCEPT ![w.user] = Given(w.branch, branch[w.user])]
             /\ isActive' = [isActive EXCEPT ![w.user] = Given(w.active, isActive[w.user])]
    <3>1. /\ Given(w.role, role[w.user]) \in StaffRoles \cup {"none"}
          /\ Given(w.branch, branch[w.user]) \in Branches \cup {None}
          /\ Given(w.active, isActive[w.user]) \in BOOLEAN
      BY <2>2 DEF Given, AccountsTypeOK
    <3> QED
      BY <2>2, <2>3, <2>5, <3>1 DEF AccountsTypeOK
  <2> QED
    BY <1>5, <2>4, <2>5 DEF FinishChange
<1>6. CASE UNCHANGED accountVars
  BY <1>6 DEF accountVars, AccountsTypeOK
<1> QED
  BY <1>1, <1>3, <1>4, <1>5, <1>6 DEF StaffNext, AccountStep, staffVars

(* The accounts and the changes in flight have their types.                *)
THEOREM AccountsTypeCorrect == StaffSpec => []AccountsTypeOK
<1>1. AccountsInit => AccountsTypeOK
  BY DEF AccountsInit, AccountsTypeOK, StaffRoles
<1> QED
  BY <1>1, AccountsTypeStep, PTL DEF StaffSpec, StaffInit

-----------------------------------------------------------------------------
(* The last administrator.                                                 *)

(* AdminRemains is not inductive alone: the save looks at nothing.  What   *)
(* the check has established, that somebody else is an administrator, must *)
(* still hold when an administrator's removal is saved.                    *)
OthersRemain ==
  \A q \in AccountRequests :
    change[q] # None /\ Removes(change[q]) /\ change[q].user \in Admins
      => Admins \ {change[q].user} # {}

AdminInv == AccountsTypeOK /\ AdminRemains /\ OthersRemain

(* Whoever is not the last administrator leaves one behind.                *)
LEMMA NotLast ==
  ASSUME AdminRemains, NEW s, ~LastAdmin(s)
  PROVE  Admins \ {s} # {}
<1> SUFFICES ASSUME Admins \ {s} = {}
             PROVE  FALSE
  OBVIOUS
<1>1. Admins = {s}
  BY DEF AdminRemains
<1>2. Cardinality(Admins) = 1
  BY <1>1, FS_Singleton
<1> QED
  BY <1>1, <1>2 DEF LastAdmin

(* A change that begins has been checked.                                  *)
LEMMA BegunIsChecked ==
  ASSUME AdminInv, NEW q \in AccountRequests, NEW w \in Changes, Begin(q, w),
         Removes(w) => ~LastAdmin(w.user)
  PROVE  AdminRemains' /\ OthersRemain'
<1>1. Admins' = Admins
  BY DEF Begin, Admins
<1>2. change' = [change EXCEPT ![q] = w]
  BY DEF Begin
<1>3. Removes(w) => Admins \ {w.user} # {}
  BY NotLast DEF AdminInv
<1>4. ASSUME NEW p \in AccountRequests, change'[p] # None, Removes(change'[p]),
             change'[p].user \in Admins'
      PROVE  Admins' \ {change'[p].user} # {}
  <2>1. CASE p = q
    BY <1>1, <1>2, <1>3, <1>4, <2>1 DEF AdminInv, AccountsTypeOK
  <2>2. CASE p # q
    BY <1>1, <1>2, <1>4, <2>2 DEF AdminInv, AccountsTypeOK, OthersRemain
  <2> QED
    BY <2>1, <2>2
<1> QED
  BY <1>1, <1>4 DEF AdminRemains, OthersRemain, AdminInv, Removes

(* What saving a change leaves of the administrators.                      *)
LEMMA SavedChange ==
  ASSUME AdminInv, NEW q \in AccountRequests, FinishChange(q)
  PROVE  /\ Admins \ {change[q].user} \subseteq Admins'
         /\ Admins' \subseteq Admins \cup {change[q].user}
         /\ ~Removes(change[q]) => Admins \subseteq Admins'
<1> DEFINE w == change[q]
<1>1. w \in Changes
  BY DEF FinishChange, AdminInv, AccountsTypeOK
<1>2. CASE UNCHANGED <<role, branch, isActive>>
  BY <1>2 DEF Admins
<1>3. CASE /\ role' = [role EXCEPT ![w.user] = Given(w.role, role[w.user])]
           /\ isActive' = [isActive EXCEPT ![w.user] = Given(w.active, isActive[w.user])]
  <2>1. \A s \in Staff \ {w.user} : role'[s] = role[s] /\ isActive'[s] = isActive[s]
    BY <1>3 DEF AdminInv, AccountsTypeOK
  <2>2. Admins \ {w.user} \subseteq Admins' /\ Admins' \subseteq Admins \cup {w.user}
    BY <2>1 DEF Admins
  <2>3. ASSUME ~Removes(w), w.user \in Admins
        PROVE  w.user \in Admins'
    <3>1. w.user \in Staff /\ role[w.user] = "system_admin" /\ isActive[w.user] = TRUE
      BY <2>3 DEF Admins, AdminInv, AccountsTypeOK
    <3>2. Given(w.role, role[w.user]) = "system_admin"
      BY <2>3, <3>1 DEF Removes, Given
    <3>3. w.active \in BOOLEAN \cup {Keep} /\ w.active # FALSE
      BY <1>1, <2>3 DEF Removes, Changes
    <3>4. Given(w.active, isActive[w.user]) = TRUE
      BY <3>1, <3>3 DEF Given
    <3> QED
      BY <1>3, <3>1, <3>2, <3>4 DEF Admins, AdminInv, AccountsTypeOK
  <2> QED
    BY <2>2, <2>3
<1> QED
  BY <1>2, <1>3 DEF FinishChange

(* Saving a change leaves an administrator, and one besides whoever is     *)
(* still to be removed: of the removals in flight, all that matter are of  *)
(* the same administrator.                                                 *)
LEMMA SavedLeavesOthers ==
  ASSUME AdminInv, ~RemovalsOverlap, NEW q \in AccountRequests, FinishChange(q)
  PROVE  AdminRemains' /\ OthersRemain'
<1> DEFINE u == change[q].user
<1>1. /\ Admins \ {u} \subseteq Admins' /\ Admins' \subseteq Admins \cup {u}
      /\ ~Removes(change[q]) => Admins \subseteq Admins'
  BY SavedChange
<1>2. change[q] # None /\ change' = [change EXCEPT ![q] = None]
  BY DEF FinishChange
<1>3. Removes(change[q]) /\ u \in Admins => Admins \ {u} # {}
  BY <1>2 DEF AdminInv, OthersRemain
<1>4. AdminRemains'
  <2>1. CASE Removes(change[q]) /\ u \in Admins
    BY <1>1, <1>3, <2>1 DEF AdminRemains
  <2>2. CASE ~(Removes(change[q]) /\ u \in Admins)
    BY <1>1, <2>2 DEF AdminInv, AdminRemains
  <2> QED
    BY <2>1, <2>2
<1>5. ASSUME NEW p \in AccountRequests, change'[p] # None, Removes(change'[p]),
             change'[p].user \in Admins'
      PROVE  Admins' \ {change'[p].user} # {}
  <2>1. p # q /\ change'[p] = change[p]
    BY <1>2, <1>5 DEF AdminInv, AccountsTypeOK
  <2> DEFINE v == change[p].user
  <2>2. v \in Admins => Admins \ {v} # {}
    BY <1>5, <2>1 DEF AdminInv, OthersRemain
  <2>3. CASE v = u
    <3>1. Admins \ {u} # {}
      BY <2>2, <2>3 DEF AdminInv, AdminRemains
    <3> QED
      BY <1>1, <2>1, <2>3, <3>1
  <2>4. CASE v # u
    <3>1. v \in Admins
      BY <1>1, <1>5, <2>1, <2>4
    <3>2. ~(Removes(change[q]) /\ u \in Admins)
      BY <1>2, <1>5, <2>1, <2>4, <3>1 DEF RemovalsOverlap
    <3>3. Admins \subseteq Admins'
      BY <1>1, <3>2
    <3> QED
      BY <2>1, <2>2, <3>1, <3>3
  <2> QED
    BY <2>3, <2>4
<1> QED
  BY <1>4, <1>5 DEF OthersRemain

(* Every step keeps an administrator, and one besides each administrator   *)
(* who is about to be removed, as long as removals do not overlap.         *)
LEMMA AdminStep ==
  ASSUME AdminInv, ~RemovalsOverlap, [StaffNext]_staffVars
  PROVE  AdminInv'
<1>1. AccountsTypeOK'
  BY AccountsTypeStep DEF AdminInv
<1>2. ASSUME NEW s \in Staff, NEW r \in StaffRoles, NEW b \in Branches \cup {None},
             CreateAccount(s, r, b)
      PROVE  AdminRemains' /\ OthersRemain'
  <2>1. Admins \subseteq Admins' /\ change' = change
    BY <1>2 DEF CreateAccount, Admins, AdminInv, AccountsTypeOK
  <2>2. AdminRemains'
    BY <2>1 DEF AdminInv, AdminRemains
  <2>3. ASSUME NEW p \in AccountRequests, change[p] # None, Removes(change[p])
        PROVE  Admins' \ {change[p].user} # {}
    BY <2>1, <2>3 DEF AdminInv, AdminRemains, OthersRemain
  <2> QED
    BY <2>1, <2>2, <2>3 DEF OthersRemain, Removes
<1>3. ASSUME NEW q \in AccountRequests, NEW s \in Staff, NEW r \in StaffRoles \cup {Keep},
             NEW b \in Branches \cup {None, Keep}, BeginUpdate(q, s, r, b)
      PROVE  AdminRemains' /\ OthersRemain'
  <2> DEFINE w == [user |-> s, role |-> r, branch |-> b, active |-> Keep]
  <2>1. w \in Changes
    BY DEF Changes
  <2>2. Removes(w) => ~LastAdmin(w.user)
    BY <1>3, AccountsAssumption DEF Removes, BeginUpdate, Given
  <2> QED
    BY <1>3, <2>1, <2>2, BegunIsChecked DEF BeginUpdate
<1>4. ASSUME NEW q \in AccountRequests, NEW a \in Staff, NEW s \in Staff, NEW on \in BOOLEAN,
             BeginActivation(q, a, s, on)
      PROVE  AdminRemains' /\ OthersRemain'
  <2> DEFINE w == [user |-> s, role |-> Keep, branch |-> Keep, active |-> on]
  <2>1. w \in Changes
    BY DEF Changes
  <2>2. Removes(w) => ~LastAdmin(w.user)
    BY <1>4 DEF Removes, BeginActivation
  <2> QED
    BY <1>4, <2>1, <2>2, BegunIsChecked DEF BeginActivation
<1>5. ASSUME NEW q \in AccountRequests, FinishChange(q)
      PROVE  AdminRemains' /\ OthersRemain'
  BY <1>5, SavedLeavesOthers
<1>6. ASSUME UNCHANGED accountVars
      PROVE  AdminRemains' /\ OthersRemain'
  <2>1. Admins' = Admins /\ change' = change
    BY <1>6 DEF accountVars, Admins
  <2> QED
    BY <2>1 DEF AdminInv, AdminRemains, OthersRemain, Removes
<1>7. AccountStep \/ UNCHANGED accountVars
  BY DEF StaffNext, staffVars
<1>8. AccountStep => AdminRemains' /\ OthersRemain'
  BY <1>2, <1>3, <1>4, <1>5 DEF AccountStep
<1> QED
  BY <1>1, <1>6, <1>7, <1>8 DEF AdminInv

(* Somebody can always administer the system, whoever creates, demotes,    *)
(* switches off and restores whom, in however many requests at a time,     *)
(* unless the removals of two administrators overlap: that run last_admin  *)
(* leaves none is that one case, and no other is as bad.                   *)
THEOREM AdminAlwaysRemains == StaffSpec => []AdminRemains \/ <>RemovalsOverlap
<1>1. AccountsInit => AdminInv
  <2> SUFFICES ASSUME AccountsInit
               PROVE  AdminInv
    OBVIOUS
  <2>1. AccountsTypeOK
    BY DEF AccountsInit, AccountsTypeOK, StaffRoles
  <2>2. Admins # {}
    BY DEF AccountsInit, Admins
  <2>3. OthersRemain
    BY DEF AccountsInit, OthersRemain
  <2> QED
    BY <2>1, <2>2, <2>3 DEF AdminInv, AdminRemains
<1>2. AdminInv /\ ~RemovalsOverlap /\ [StaffNext]_staffVars => AdminInv'
  BY AdminStep
<1>3. AdminInv => AdminRemains
  BY DEF AdminInv
<1> QED
  BY <1>1, <1>2, <1>3, PTL DEF StaffSpec, StaffInit
=============================================================================
