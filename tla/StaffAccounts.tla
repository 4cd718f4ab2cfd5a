--------------------------- MODULE StaffAccounts ---------------------------
(***************************************************************************)
(* The accounts of the operational staff next to the counters they run:    *)
(* creating an account, changing its role or branch, switching it off and  *)
(* on again, and what staffing a counter asks of an account.               *)
(*                                                                         *)
(* The two views that change an account read it, and count the System      *)
(* Admins, in one statement each and save in a later one, with no common   *)
(* transaction (accounts/api_views.py): each is two actions, and what a    *)
(* request read is old when it writes.                                     *)
(***************************************************************************)
EXTENDS Counters

CONSTANTS
  Branches,
  Home,             \* the branch of the counters
  BranchRoles,      \* Profile.BRANCH_SCOPED_ROLES
  AccountRequests,  \* requests to change accounts, between their read and their write
  Keep              \* a field that a partial update does not mention

ASSUME AccountsAssumption ==
  /\ Home \in Branches
  /\ "counter_staff" \in BranchRoles
  /\ "none" \notin BranchRoles /\ "system_admin" \notin BranchRoles
  /\ None \notin Branches
  /\ Keep \notin BranchRoles \cup {"system_admin"}
  /\ Keep \notin Branches \cup {None}
  /\ Keep \notin BOOLEAN

VARIABLES
  role,      \* Profile.role, "none" before the account is created
  branch,    \* Profile.branch
  isActive,  \* User.is_active
  change     \* what each request in flight has decided to write

accountVars == <<role, branch, isActive, change>>
staffVars == <<deskVars, accountVars>>

StaffRoles == BranchRoles \cup {"system_admin"}
Changes == [user : Staff, role : StaffRoles \cup {Keep},
            branch : Branches \cup {None, Keep}, active : BOOLEAN \cup {Keep}]

AccountsTypeOK ==
  /\ role \in [Staff -> StaffRoles \cup {"none"}]
  /\ branch \in [Staff -> Branches \cup {None}]
  /\ isActive \in [Staff -> BOOLEAN]
  /\ change \in [AccountRequests -> Changes \cup {None}]

(* A new installation has one System Admin.                                *)
AccountsInit ==
  /\ \E s \in Staff : role = [x \in Staff |-> IF x = s THEN "system_admin" ELSE "none"]
  /\ branch = [s \in Staff |-> None]
  /\ isActive = [s \in Staff |-> role[s] # "none"]
  /\ change = [r \in AccountRequests |-> None]

-----------------------------------------------------------------------------
Admins == {s \in Staff : role[s] = "system_admin" /\ isActive[s]}

(* validate_staff_role_branch, and the CHECK constraint of the table.      *)
ScopeFits(r, b) == r \in BranchRoles <=> b # None

(* Mutant: accounts that were switched off are counted as well.            *)
MutantLastAdmin(s) ==
  /\ s \in Admins
  /\ Cardinality({x \in Staff : role[x] = "system_admin"}) <= 1

(* is_last_active_system_admin.                                            *)
LastAdmin(s) == s \in Admins /\ Cardinality(Admins) <= 1

CreateAccount(s, r, b) ==
  /\ Admins # {}
  /\ role[s] = "none"
  /\ ScopeFits(r, b)
  /\ role' = [role EXCEPT ![s] = r]
  /\ branch' = [branch EXCEPT ![s] = b]
  /\ isActive' = [isActive EXCEPT ![s] = TRUE]
  /\ UNCHANGED change

Begin(q, w) ==
  /\ change[q] = None
  /\ role[w.user] # "none"
  /\ change' = [change EXCEPT ![q] = w]
  /\ UNCHANGED <<role, branch, isActive>>

Given(field, old) == IF field = Keep THEN old ELSE field

(* StaffAccountDetailAPIView.patch, up to serializer.save().               *)
BeginUpdate(q, s, r, b) ==
  /\ Admins # {}
  /\ ScopeFits(Given(r, role[s]), Given(b, branch[s]))
  /\ Given(r, role[s]) # "system_admin" => ~LastAdmin(s)
  /\ Begin(q, [user |-> s, role |-> r, branch |-> b, active |-> Keep])

(* StaffAccountActivationAPIView.patch, up to user.save(), by admin a.     *)
BeginActivation(q, a, s, on) ==
  /\ a \in Admins
  /\ ~on => a # s /\ ~LastAdmin(s)
  /\ Begin(q, [user |-> s, role |-> Keep, branch |-> Keep, active |-> on])

(* The fields of the request are saved over whatever the row holds now; a  *)
(* row that breaks the table's constraint is an error, and nothing changes.*)
FinishChange(q) ==
  /\ change[q] # None
  /\ change' = [change EXCEPT ![q] = None]
  /\ LET w == change[q]
         newRole == Given(w.role, role[w.user])
         newBranch == Given(w.branch, branch[w.user])
     IN IF ScopeFits(newRole, newBranch)
          THEN /\ role' = [role EXCEPT ![w.user] = newRole]
               /\ branch' = [branch EXCEPT ![w.user] = newBranch]
               /\ isActive' = [isActive EXCEPT ![w.user] = Given(w.active, @)]
          ELSE UNCHANGED <<role, branch, isActive>>

AccountStep ==
  \/ \E s \in Staff, r \in StaffRoles, b \in Branches \cup {None} : CreateAccount(s, r, b)
  \/ \E q \in AccountRequests, s \in Staff :
       \/ \E r \in StaffRoles \cup {Keep}, b \in Branches \cup {None, Keep} :
            BeginUpdate(q, s, r, b)
       \/ \E a \in Staff, on \in BOOLEAN : BeginActivation(q, a, s, on)
  \/ \E q \in AccountRequests : FinishChange(q)

-----------------------------------------------------------------------------
(* assign_counter_staff tests the role and the branch of the account as    *)
(* they are in its own transaction; whether the account is active it does  *)
(* not.                                                                    *)
AssignCounterStaff(c, s) ==
  /\ role[s] = "counter_staff"
  /\ branch[s] = Home
  /\ AssignStaff(c, s)

DeskStep ==
  \/ \E c \in Counters :
       \/ \E s \in Staff : AssignCounterStaff(c, s)
       \/ UnassignStaff(c)
       \/ OpenCounter(c)
       \/ PauseCounter(c)
       \/ ResumeCounter(c)
       \/ CloseCounter(c)
       \/ EndService(c)
       \/ \E r \in Requests : BeginCall(r, c)
       \/ \E r \in Requests, q \in QueueTypes : BeginConfigure(r, c, q)
  \/ \E r \in Requests : FinishConfigure(r) \/ ServeCustomer(r) \/ ServeNobody(r)

StaffNext ==
  \/ DeskStep /\ UNCHANGED accountVars
  \/ AccountStep /\ UNCHANGED deskVars

StaffInit == CountersInit /\ AccountsInit

StaffSpec == StaffInit /\ [][StaffNext]_staffVars

-----------------------------------------------------------------------------
(* A change that is about to be saved takes its user out of the Admins.    *)
Removes(w) == w.role \notin {Keep, "system_admin"} \/ w.active = FALSE

(* Two requests in flight take two different administrators away.          *)
RemovalsOverlap ==
  \E p, q \in AccountRequests :
    /\ change[p] # None /\ Removes(change[p]) /\ change[p].user \in Admins
    /\ change[q] # None /\ Removes(change[q]) /\ change[q].user \in Admins
    /\ change[p].user # change[q].user

(* docs/DAY50, "Smart Q must retain at least one active System Admin       *)
(* regardless of how an account leaves that set": by losing the role or by *)
(* being switched off, and the first check looks at the role alone.  It    *)
(* holds until two removals overlap, each of which has seen the other's    *)
(* administrator; whatever else overlaps does no harm.                     *)
AdminRemains == Admins # {}

(* docs/DAY33, "Assigned Counter Staff must belong to the same branch as   *)
(* the counter" and "must have COUNTER_STAFF role": an account is changed  *)
(* without a look at the counter it runs.                                  *)
StaffFitsCounter ==
  \A c \in Counters :
    assignedStaff[c] # None =>
      role[assignedStaff[c]] = "counter_staff" /\ branch[assignedStaff[c]] = Home

(* A counter keeps its staff whatever happens to the account: staffing     *)
(* implements module Counters.                                             *)
StaffingIsCounters == CountersSpec
=============================================================================
