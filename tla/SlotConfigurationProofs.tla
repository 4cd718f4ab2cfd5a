---------------------- MODULE SlotConfigurationProofs ----------------------
(***************************************************************************)
(* Proofs about module SlotConfiguration, for any number of editors and    *)
(* requests, any finite set of bookings, and any hours, durations and      *)
(* capacities.                                                             *)
(***************************************************************************)
EXTENDS SlotConfiguration, FiniteSetTheorems, WellFoundedInduction, TLAPS

(* HoursInOrder is not inductive alone: a branch row that is about to be   *)
(* saved must be in order as well, whatever was saved since it was read.   *)
EditsInOrder ==
  \A e \in Editors :
    edit[e] # None /\ edit[e] \in BranchRows => edit[e].opening < edit[e].closing

SlotInv == SlotTypeOK /\ HoursInOrder /\ EditsInOrder

ConfigRows == [opening : Hours, closing : Hours, branchActive : BOOLEAN,
               duration : Durations, serviceActive : BOOLEAN,
               capacity : Capacities, mappingActive : BOOLEAN]

-----------------------------------------------------------------------------
(* The rows administrators save.                                           *)

(* What a PATCH leaves out stays as it was read.                           *)
LEMMA GivenIn ==
  ASSUME NEW S, NEW old \in S, NEW field \in S \cup {Keep}
  PROVE  Given(field, old) \in S
BY DEF Given

(* A row begun to be edited has its type, and a branch row is in order.    *)
LEMMA BeginEditInv ==
  ASSUME SlotInv, NEW e \in Editors,
         NEW row \in BranchRows \cup ServiceRows \cup MappingRows,
         row \in BranchRows => row.opening < row.closing,
         BeginEdit(e, row)
  PROVE  SlotInv'
<1>1. SlotTypeOK'
  BY DEF SlotInv, SlotTypeOK, BeginEdit
<1>2. HoursInOrder'
  BY DEF SlotInv, HoursInOrder, BeginEdit
<1>3. EditsInOrder'
  BY DEF SlotInv, EditsInOrder, SlotTypeOK, BeginEdit
<1> QED
  BY <1>1, <1>2, <1>3 DEF SlotInv

(* Saving a row replaces its columns and no other.                         *)
LEMMA SavedRow ==
  ASSUME SlotTypeOK, NEW e \in Editors, FinishEdit(e)
  PROVE  /\ config' \in ConfigRows
         /\ \/ config'.opening = config.opening /\ config'.closing = config.closing
            \/ /\ edit[e] \in BranchRows
               /\ config'.opening = edit[e].opening /\ config'.closing = edit[e].closing
<1>1. config \in ConfigRows /\ edit[e] \in BranchRows \cup ServiceRows \cup MappingRows
  BY DEF SlotTypeOK, FinishEdit, ConfigRows
<1>2. DOMAIN config = {"opening", "closing", "branchActive", "duration", "serviceActive",
                       "capacity", "mappingActive"}
  BY <1>1 DEF ConfigRows
<1>3. CASE edit[e] \in BranchRows
  <2>1. DOMAIN edit[e] = {"opening", "closing", "branchActive"}
    BY <1>3 DEF BranchRows
  <2>2. config' = [opening |-> edit[e].opening, closing |-> edit[e].closing,
                   branchActive |-> edit[e].branchActive,
                   duration |-> config.duration, serviceActive |-> config.serviceActive,
                   capacity |-> config.capacity, mappingActive |-> config.mappingActive]
    BY <1>2, <2>1 DEF FinishEdit
  <2> QED
    BY <1>1, <1>3, <2>2 DEF ConfigRows, BranchRows
<1>4. CASE edit[e] \in ServiceRows
  <2>1. DOMAIN edit[e] = {"duration", "serviceActive"}
    BY <1>4 DEF ServiceRows
  <2>2. config' = [opening |-> config.opening, closing |-> config.closing,
                   branchActive |-> config.branchActive,
                   duration |-> edit[e].duration, serviceActive |-> edit[e].serviceActive,
                   capacity |-> config.capacity, mappingActive |-> config.mappingActive]
    BY <1>2, <2>1 DEF FinishEdit
  <2> QED
    BY <1>1, <1>4, <2>2 DEF ConfigRows, ServiceRows
<1>5. CASE edit[e] \in MappingRows
  <2>1. DOMAIN edit[e] = {"capacity", "mappingActive"}
    BY <1>5 DEF MappingRows
  <2>2. config' = [opening |-> config.opening, closing |-> config.closing,
                   branchActive |-> config.branchActive,
                   duration |-> config.duration, serviceActive |-> config.serviceActive,
                   capacity |-> edit[e].capacity, mappingActive |-> edit[e].mappingActive]
    BY <1>2, <2>1 DEF FinishEdit
  <2> QED
    BY <1>1, <1>5, <2>2 DEF ConfigRows, MappingRows
<1> QED
  BY <1>1, <1>3, <1>4, <1>5

(* Every step of an administrator keeps the hours, saved and about to be   *)
(* saved, in order.                                                        *)
LEMMA AdministratorInv ==
  ASSUME SlotAssumption, SlotInv, NEW e \in Editors, AdministratorStep(e)
  PROVE  SlotInv'
<1> USE DEF ConfigRows
<1>0. config \in ConfigRows
  BY DEF SlotInv, SlotTypeOK
<1>1. ASSUME NEW o \in Hours \cup {Keep}, NEW c \in Hours \cup {Keep},
             NEW active \in BOOLEAN \cup {Keep}, EditBranch(e, o, c, active)
      PROVE  SlotInv'
  <2> DEFINE row == [opening |-> Given(o, config.opening), closing |-> Given(c, config.closing),
                     branchActive |-> Given(active, config.branchActive)]
  <2>1. row \in BranchRows
    <3>1. /\ Given(o, config.opening) \in Hours
          /\ Given(c, config.closing) \in Hours
          /\ Given(active, config.branchActive) \in BOOLEAN
      BY <1>0, GivenIn
    <3> QED
      BY <3>1 DEF BranchRows
  <2>2. BeginEdit(e, row) /\ row.opening < row.closing
    BY <1>1 DEF EditBranch, HoursOrdered
  <2> QED
    BY <2>1, <2>2, BeginEditInv
<1>2. ASSUME NEW d \in Durations \cup {0, Keep}, NEW active \in BOOLEAN \cup {Keep},
             EditService(e, d, active)
      PROVE  SlotInv'
  <2> DEFINE row == [duration |-> Given(d, config.duration),
                     serviceActive |-> Given(active, config.serviceActive)]
  <2>1. row \in ServiceRows
    <3>1. d \in Durations \cup {Keep}
      BY <1>2 DEF EditService
    <3>2. /\ Given(d, config.duration) \in Durations
          /\ Given(active, config.serviceActive) \in BOOLEAN
      BY <1>0, <3>1, GivenIn
    <3> QED
      BY <3>2 DEF ServiceRows
  <2>2. row \notin BranchRows
    <3>1. DOMAIN row = {"duration", "serviceActive"}
      OBVIOUS
    <3>2. "opening" \notin DOMAIN row
      BY <3>1
    <3> QED
      BY <3>2 DEF BranchRows
  <2> QED
    BY <1>2, <2>1, <2>2, BeginEditInv DEF EditService
<1>3. ASSUME NEW n \in Capacities \cup {0, Keep}, NEW active \in BOOLEAN \cup {Keep},
             EditMapping(e, n, active)
      PROVE  SlotInv'
  <2> DEFINE row == [capacity |-> Given(n, config.capacity),
                     mappingActive |-> Given(active, config.mappingActive)]
  <2>1. row \in MappingRows
    <3>1. n \in Capacities \cup {Keep}
      BY <1>3 DEF EditMapping
    <3>2. /\ Given(n, config.capacity) \in Capacities
          /\ Given(active, config.mappingActive) \in BOOLEAN
      BY <1>0, <3>1, GivenIn
    <3> QED
      BY <3>2 DEF MappingRows
  <2>2. row \notin BranchRows
    <3>1. DOMAIN row = {"capacity", "mappingActive"}
      OBVIOUS
    <3>2. "opening" \notin DOMAIN row
      BY <3>1
    <3> QED
      BY <3>2 DEF BranchRows
  <2> QED
    BY <1>3, <2>1, <2>2, BeginEditInv DEF EditMapping
<1>4. CASE FinishEdit(e)
  <2>1. /\ config' \in ConfigRows
        /\ \/ config'.opening = config.opening /\ config'.closing = config.closing
           \/ /\ edit[e] \in BranchRows
              /\ config'.opening = edit[e].opening /\ config'.closing = edit[e].closing
    BY <1>4, SavedRow DEF SlotInv
  <2>2. SlotTypeOK'
    BY <1>4, <2>1 DEF SlotInv, SlotTypeOK, FinishEdit
  <2>3. HoursInOrder'
    BY <1>4, <2>1 DEF SlotInv, HoursInOrder, EditsInOrder, FinishEdit
  <2>4. EditsInOrder'
    BY <1>4 DEF SlotInv, SlotTypeOK, EditsInOrder, FinishEdit
  <2> QED
    BY <2>2, <2>3, <2>4 DEF SlotInv
<1> QED
  BY <1>1, <1>2, <1>3, <1>4 DEF AdministratorStep

-----------------------------------------------------------------------------
(* Customers and the clock.                                                *)

(* Booking, moving and giving up a place leave the rows alone.             *)
LEMMA CustomerInv ==
  ASSUME SlotAssumption, SlotInv,
         \/ \E r \in Requests : FinishBook(r) \/ \E at \in Times : BeginBook(r, at)
         \/ \E b \in Bookings : GiveUpPlace(b) \/ \E at \in Times : MovePlace(b, at)
         \/ Tick \/ UNCHANGED slotVars
  PROVE  SlotInv'
<1>1. UNCHANGED <<config, edit>>
  BY DEF FinishBook, BeginBook, GiveUpPlace, MovePlace, Tick, slotVars
<1>2. HoursInOrder' /\ EditsInOrder'
  BY <1>1 DEF SlotInv, HoursInOrder, EditsInOrder
<1>3. SlotTypeOK'
  <2> USE <1>1 DEF SlotInv, SlotTypeOK
  <2>1. ASSUME NEW r \in Requests, FinishBook(r)
        PROVE  SlotTypeOK'
    <3>1. order[r] \in [at : Times, hours : Loaded]
      BY <2>1 DEF FinishBook
    <3>2. place' \in [Bookings -> Times \cup {None}]
      BY <2>1, <3>1 DEF FinishBook
    <3> QED
      BY <2>1, <3>2 DEF FinishBook
  <2>2. ASSUME NEW r \in Requests, NEW at \in Times, BeginBook(r, at)
        PROVE  SlotTypeOK'
    <3>1. HoursInForce \in Loaded
      BY DEF HoursInForce, Loaded
    <3> QED
      BY <2>2, <3>1 DEF BeginBook
  <2>3. ASSUME NEW b \in Bookings, GiveUpPlace(b)
        PROVE  SlotTypeOK'
    BY <2>3 DEF GiveUpPlace
  <2>4. ASSUME NEW b \in Bookings, NEW at \in Times, MovePlace(b, at)
        PROVE  SlotTypeOK'
    BY <2>4 DEF MovePlace
  <2>5. CASE Tick
    BY <2>5 DEF Tick, SlotAssumption
  <2>6. CASE UNCHANGED slotVars
    BY <2>6 DEF slotVars
  <2> QED
    BY <2>1, <2>2, <2>3, <2>4, <2>5, <2>6
<1> QED
  BY <1>2, <1>3 DEF SlotInv

(* The strengthening holds in every reachable state.                       *)
LEMMA SlotInvariant == SlotSpec => []SlotInv
<1>1. SlotInit => SlotInv
  <2> SUFFICES ASSUME SlotInit PROVE SlotInv
    OBVIOUS
  <2>1. PICK branch \in BranchRows, service \in ServiceRows, mapping \in MappingRows :
          /\ branch.opening < branch.closing
          /\ config = [opening |-> branch.opening, closing |-> branch.closing,
                       branchActive |-> branch.branchActive,
                       duration |-> service.duration, serviceActive |-> service.serviceActive,
                       capacity |-> mapping.capacity, mappingActive |-> mapping.mappingActive]
    BY DEF SlotInit
  <2>2. SlotTypeOK
    BY <2>1, SlotAssumption
    DEF SlotInit, SlotTypeOK, SlotAssumption, BranchRows, ServiceRows, MappingRows
  <2>3. HoursInOrder
    BY <2>1 DEF HoursInOrder
  <2>4. EditsInOrder
    BY DEF SlotInit, EditsInOrder
  <2> QED
    BY <2>2, <2>3, <2>4 DEF SlotInv
<1>2. SlotInv /\ [SlotNext]_slotVars => SlotInv'
  BY SlotAssumption, AdministratorInv, CustomerInv DEF SlotNext
<1> QED
  BY <1>1, <1>2, PTL DEF SlotSpec

(* Type correctness of the rows, of what editors are about to save, and of *)
(* what requests have loaded.                                              *)
THEOREM SlotTypesCorrect == SlotSpec => []SlotTypeOK
<1>1. SlotInv => SlotTypeOK
  BY DEF SlotInv
<1> QED
  BY <1>1, SlotInvariant, PTL

(* A branch closes after it opens, for any number of administrators who    *)
(* validate and save in any order.                                         *)
THEOREM HoursStayInOrder == SlotSpec => []HoursInOrder
<1>1. SlotInv => HoursInOrder
  BY DEF SlotInv
<1> QED
  BY <1>1, SlotInvariant, PTL

-----------------------------------------------------------------------------
(* Capacity, which may be lowered under a request that was validated.      *)

Holders(at) == {x \in Bookings \ {None} : place[x] = at}

(* Adding one booking at most to a set of holders adds one at most to the  *)
(* count.                                                                  *)
LEMMA OneMore ==
  ASSUME NEW S, IsFiniteSet(S), NEW T, NEW b, T \subseteq S \cup {b}
  PROVE  Cardinality(T) <= Cardinality(S) + 1
<1>1. /\ IsFiniteSet(S \cup {b})
      /\ Cardinality(S \cup {b}) <= Cardinality(S) + 1
  <2>1. Cardinality(S) \in Nat
    BY FS_CardinalityType
  <2>2. /\ IsFiniteSet(S \cup {b})
        /\ Cardinality(S \cup {b}) \in {Cardinality(S), Cardinality(S) + 1}
    BY FS_AddElement
  <2> QED
    BY <2>1, <2>2
<1>2. Cardinality(T) <= Cardinality(S \cup {b}) /\ IsFiniteSet(T)
  BY <1>1, FS_Subset
<1>3. Cardinality(T) \in Nat /\ Cardinality(S \cup {b}) \in Nat /\ Cardinality(S) \in Nat
  BY <1>1, <1>2, FS_CardinalityType
<1> QED
  BY <1>1, <1>2, <1>3

(* Whoever takes a place was one of at most capacity - 1 others, counted   *)
(* without the place that is given up in a move.                           *)
LEMMA TakenWithinCapacity ==
  ASSUME IsFiniteSet(Bookings), SlotTypeOK, SlotAssumption,
         NEW b \in Bookings, NEW at, NEW without \in {b, None},
         Booked(at, without) < config.capacity,
         place' = [place EXCEPT ![b] = at]
  PROVE  /\ Booked(at, None)' <= config.capacity
         /\ \A other : other # at => Booked(other, None)' <= Booked(other, None)
<1> DEFINE S == {x \in Bookings \ {without} : place[x] = at}
<1>1. IsFiniteSet(S) /\ Cardinality(S) \in Nat
  BY FS_Subset, FS_CardinalityType
<1>2. config.capacity \in Nat
  BY DEF SlotTypeOK, SlotAssumption
<1>3. Booked(at, None)' <= config.capacity
  <2>1. Holders(at)' \subseteq S \cup {b}
    BY DEF Holders, SlotTypeOK
  <2>2. Cardinality(Holders(at)') <= Cardinality(S) + 1 /\ Cardinality(Holders(at)') \in Nat
    <3>1. IsFiniteSet(Holders(at)')
      BY FS_Subset DEF Holders
    <3> QED
      BY <1>1, <2>1, <3>1, OneMore, FS_CardinalityType
  <2>3. Cardinality(S) < config.capacity
    BY DEF Booked
  <2>4. Booked(at, None)' = Cardinality(Holders(at)')
    BY DEF Booked, Holders
  <2> QED
    BY <1>1, <1>2, <2>2, <2>3, <2>4
<1>4. ASSUME NEW other, other # at
      PROVE  Booked(other, None)' <= Booked(other, None)
  <2>1. Holders(other)' \subseteq Holders(other) /\ IsFiniteSet(Holders(other))
    BY <1>4, FS_Subset DEF Holders, SlotTypeOK
  <2> QED
    BY <2>1, FS_Subset DEF Booked, Holders
<1> QED
  BY <1>3, <1>4

(* A place is taken only while the service is offered and the slot has one *)
(* left, however capacity changed since the request was validated.         *)
THEOREM NobodyIsSqueezedIn ==
  ASSUME IsFiniteSet(Bookings)
  PROVE  SlotSpec => NobodySqueezedIn
<1> DEFINE NotSqueezed(at) == Booked(at, None)' > Booked(at, None) =>
                         Offered /\ Booked(at, None)' <= config.capacity
<1>1. ASSUME SlotTypeOK, SlotNext
      PROVE  \A at \in Times : NotSqueezed(at)
  <2>0. \A at : Booked(at, None) \in Nat /\ Booked(at, None)' \in Nat
    BY FS_Subset, FS_CardinalityType DEF Booked
  <2>1. CASE UNCHANGED place
    <3>1. \A at : Booked(at, None)' = Booked(at, None)
      BY <2>1 DEF Booked
    <3> QED
      BY <2>0, <3>1
  <2>2. ASSUME NEW b \in Bookings, NEW at, NEW without \in {b, None}, Offered,
               Booked(at, without) < config.capacity, place' = [place EXCEPT ![b] = at]
        PROVE  \A other \in Times : NotSqueezed(other)
    <3>1. /\ Booked(at, None)' <= config.capacity
          /\ \A other : other # at => Booked(other, None)' <= Booked(other, None)
      BY <1>1, <2>2, SlotAssumption, TakenWithinCapacity
    <3> QED
      BY <2>0, <2>2, <3>1
  <2>3. ASSUME NEW r \in Requests, FinishBook(r)
        PROVE  \A at \in Times : NotSqueezed(at)
    <3>1. CASE UNCHANGED place
      BY <2>1, <3>1
    <3>2. ASSUME NEW b \in Bookings, SlotValid(order[r].at, None, order[r].hours),
                 place' = [place EXCEPT ![b] = order[r].at]
          PROVE  \A at \in Times : NotSqueezed(at)
      BY <2>2, <3>2 DEF SlotValid
    <3> QED
      BY <2>3, <3>1, <3>2 DEF FinishBook
  <2>4. ASSUME NEW b \in Bookings, NEW at \in Times, MovePlace(b, at)
        PROVE  \A other \in Times : NotSqueezed(other)
    BY <2>2, <2>4 DEF MovePlace, SlotValid
  <2>5. ASSUME NEW b \in Bookings, GiveUpPlace(b)
        PROVE  \A at \in Times : NotSqueezed(at)
    <3>1. \A at \in Times : Holders(at)' \subseteq Holders(at) /\ IsFiniteSet(Holders(at))
      <4>1. None \notin Times
        BY SlotAssumption DEF SlotAssumption, Times
      <4> QED
        BY <1>1, <2>5, <4>1, FS_Subset DEF Holders, SlotTypeOK, GiveUpPlace
    <3>2. \A at \in Times : Booked(at, None)' <= Booked(at, None)
      BY <3>1, FS_Subset DEF Booked, Holders
    <3> QED
      BY <2>0, <3>2
  <2>6. ASSUME NEW e \in Editors, AdministratorStep(e)
        PROVE  UNCHANGED place
    BY <2>6 DEF AdministratorStep, EditBranch, EditService, EditMapping, BeginEdit, FinishEdit
  <2>7. ASSUME NEW r \in Requests, NEW at \in Times, BeginBook(r, at)
        PROVE  UNCHANGED place
    BY <2>7 DEF BeginBook
  <2>8. CASE Tick
    BY <2>1, <2>8 DEF Tick
  <2> QED
    BY <1>1, <2>1, <2>3, <2>4, <2>5, <2>6, <2>7, <2>8 DEF SlotNext
<1>2. SlotTypeOK /\ [SlotNext]_slotVars => [\A at \in Times : NotSqueezed(at)]_slotVars
  BY <1>1
<1> QED
  BY <1>2, SlotTypesCorrect, PTL DEF SlotSpec, NobodySqueezedIn

-----------------------------------------------------------------------------
(* The slots of a day, in closed form.                                     *)

(* Induction over the numbers is by their well-foundedness: a set of       *)
(* numbers that is not empty has a least one.                              *)
LEMMA LeastNumber ==
  ASSUME NEW T \in SUBSET Nat, T # {}
  PROVE  \E x \in T : \A y \in T : x <= y
<1> DEFINE R == OpToRel(<, Nat)
<1>1. IsWellFoundedOn(R, Nat)
  BY NatLessThanWellFounded, Zenon
<1>2. \A x, y \in Nat : y < x => <<y, x>> \in R
  BY DEF OpToRel
<1> HIDE DEF R
<1>3. PICK x \in T : \A y \in T : ~ (<<y, x>> \in R)
  BY <1>1, WFMin
<1>4. \A y \in T : ~(y < x)
  BY <1>2, <1>3
<1> QED
  BY <1>4

(* Hours are moments of one day, and visits take time.                     *)
LEMMA HoursOfDay ==
  /\ DayLength \in Nat /\ DayLength > 0
  /\ \A h \in Hours : h \in Nat /\ h < DayLength /\ h \in 0..DayLength
  /\ \A d \in Durations : d \in Nat /\ d > 0
BY SlotAssumption

(* The times from t on at which visits of d ticks follow one another, the  *)
(* last of them over by closing time.                                      *)
Following(t, d, close) ==
  {x \in 0..DayLength : x + d <= close /\ \E k \in Nat : x = t + k * d}

(* The equation that generate_slot_times computes from: the loop, as a     *)
(* function of the time it has come to.                                    *)
LoopsTo(from, d, close) ==
  from = [t \in 0..DayLength |-> IF t + d <= close THEN {t} \cup from[t + d] ELSE {}]

(* Visits of d ticks do not overlap when they begin at multiples of d.     *)
LEMMA Multiples ==
  ASSUME NEW d \in Nat
  PROVE  /\ \A k \in Nat : k * d \in Nat
         /\ \A k \in Nat : (k + 1) * d = k * d + d
         /\ 0 * d = 0
         /\ \A j, k \in Nat : j < k => j * d + d <= k * d
<1>1. \A k \in Nat : k * d \in Nat /\ (k + 1) * d = k * d + d
  OBVIOUS
<1>2. ASSUME NEW j \in Nat, NEW k \in Nat, j < k
      PROVE  j * d + d <= k * d
  <2>1. k - (j + 1) \in Nat
    BY <1>2
  <2>2. (k - (j + 1)) * d \in Nat
    BY <2>1, <1>1
  <2>3. k * d = (j * d + d) + (k - (j + 1)) * d
    BY <1>2
  <2>4. j * d \in Nat /\ k * d \in Nat
    BY <1>1
  <2> QED
    BY <2>2, <2>3, <2>4
<1> QED
  BY <1>1, <1>2

(* The times at which visits follow one another satisfy the equation.      *)
LEMMA FollowingLoops ==
  ASSUME NEW d \in Durations, NEW close \in Hours
  PROVE  LoopsTo([t \in 0..DayLength |-> Following(t, d, close)], d, close)
<1> DEFINE F == [t \in 0..DayLength |-> Following(t, d, close)]
<1>1. d \in Nat /\ d > 0 /\ close \in Nat /\ close < DayLength /\ DayLength \in Nat
  BY HoursOfDay
<1>2. ASSUME NEW t \in 0..DayLength, t + d <= close
      PROVE  Following(t, d, close) = {t} \cup F[t + d]
  <2>1. t + d \in 0..DayLength /\ t \in Nat
    BY <1>1, <1>2
  <2>2. F[t + d] = Following(t + d, d, close)
    BY <2>1
  <2>3. ASSUME NEW x \in Following(t, d, close)
        PROVE  x \in {t} \cup Following(t + d, d, close)
    <3>1. PICK k \in Nat : x = t + k * d
      BY DEF Following
    <3>2. CASE k = 0
      BY <3>1, <3>2, <2>1, <1>1, Multiples
    <3>3. CASE k # 0
      <4>1. k - 1 \in Nat /\ k = (k - 1) + 1
        BY <3>3
      <4>2. (k - 1) * d \in Nat /\ k * d = (k - 1) * d + d
        BY <4>1, <1>1, Multiples
      <4>3. x = (t + d) + (k - 1) * d
        BY <4>2, <3>1, <2>1, <1>1
      <4> QED
        BY <4>1, <4>3 DEF Following
    <3> QED
      BY <3>2, <3>3
  <2>4. t \in Following(t, d, close)
    <3>1. t = t + 0 * d
      BY <1>1, <2>1, Multiples
    <3> QED
      BY <3>1, <1>2 DEF Following
  <2>5. ASSUME NEW x \in Following(t + d, d, close)
        PROVE  x \in Following(t, d, close)
    <3>1. PICK k \in Nat : x = (t + d) + k * d
      BY DEF Following
    <3>2. k + 1 \in Nat /\ (k + 1) * d = k * d + d /\ k * d \in Nat
      BY <1>1, Multiples
    <3>3. x = t + (k + 1) * d
      BY <3>1, <3>2, <2>1, <1>1
    <3> QED
      BY <3>2, <3>3 DEF Following
  <2> QED
    BY <2>2, <2>3, <2>4, <2>5
<1>3. ASSUME NEW t \in 0..DayLength, ~(t + d <= close)
      PROVE  Following(t, d, close) = {}
  <2>1. \A k \in Nat : t + k * d >= t
    BY <1>1, Multiples
  <2> QED
    BY <2>1, <1>1, <1>3 DEF Following
<1> QED
  BY <1>2, <1>3 DEF LoopsTo

(* Nothing else does: where two solutions differ last in the day, neither  *)
(* stops, and the later times on which they depend are the same.           *)
LEMMA LoopUnique ==
  ASSUME NEW d \in Durations, NEW close \in Hours,
         NEW f, NEW g, LoopsTo(f, d, close), LoopsTo(g, d, close)
  PROVE  \A t \in 0..DayLength : f[t] = g[t]
<1> DEFINE T == {n \in 0..DayLength : f[DayLength - n] # g[DayLength - n]}
<1>1. d \in Nat /\ d > 0 /\ close \in Nat /\ close < DayLength /\ DayLength \in Nat
  BY SlotAssumption
<1>2. /\ \A t \in 0..DayLength : f[t] = IF t + d <= close THEN {t} \cup f[t + d] ELSE {}
      /\ \A t \in 0..DayLength : g[t] = IF t + d <= close THEN {t} \cup g[t + d] ELSE {}
  BY DEF LoopsTo
<1>3. T = {}
  <2> SUFFICES ASSUME T # {} PROVE FALSE
    OBVIOUS
  <2>1. PICK n \in T : \A m \in T : n <= m
    <3>1. T \in SUBSET Nat
      BY <1>1
    <3> HIDE DEF T
    <3> QED
      BY <3>1, LeastNumber
  <2> DEFINE t == DayLength - n
  <2>2. t \in 0..DayLength /\ f[t] # g[t]
    BY <1>1
  <2>3. t + d <= close
    BY <1>2, <2>2
  <2>4. n - d \in 0..DayLength /\ DayLength - (n - d) = t + d
    BY <1>1, <2>3
  <2>5. n - d \notin T
    BY <1>1, <2>1, <2>4
  <2>6. f[t + d] = g[t + d]
    BY <2>4, <2>5
  <2> QED
    BY <1>2, <2>2, <2>3, <2>6
<1> SUFFICES ASSUME NEW t \in 0..DayLength PROVE f[t] = g[t]
  OBVIOUS
<1>4. DayLength - t \in 0..DayLength /\ DayLength - (DayLength - t) = t
  BY <1>1
<1> QED
  BY <1>3, <1>4

(* So the loop yields the visits that follow one another.                 *)
LEMMA SlotTimesClosed ==
  ASSUME NEW hours \in Loaded
  PROVE  GenerateSlotTimes(hours) = Following(hours.opening, hours.duration, hours.closing)
<1> DEFINE d == hours.duration
           close == hours.closing
           F == [t \in 0..DayLength |-> Following(t, d, close)]
           from == CHOOSE f : LoopsTo(f, d, close)
<1>1. d \in Durations /\ close \in Hours /\ hours.opening \in Hours
  BY DEF Loaded
<1>2. hours.opening \in 0..DayLength
  BY <1>1, HoursOfDay
<1>3. GenerateSlotTimes(hours) = from[hours.opening]
  BY DEF GenerateSlotTimes, LoopsTo
<1>4. LoopsTo(F, d, close)
  BY <1>1, FollowingLoops
<1>5. F[hours.opening] = Following(hours.opening, d, close)
  BY <1>2
<1> HIDE DEF F
<1>6. LoopsTo(from, d, close)
  BY <1>4
<1> HIDE DEF from, d, close
<1>7. \A t \in 0..DayLength : from[t] = F[t]
  BY <1>1, <1>4, <1>6, LoopUnique
<1> QED
  BY <1>2, <1>3, <1>5, <1>7 DEF d, close

(* Division rounds down.                                                   *)
LEMMA Quotient ==
  ASSUME NEW n \in Nat, NEW d \in Nat, d > 0
  PROVE  /\ n \div d \in Nat
         /\ (n \div d) * d <= n
         /\ n < (n \div d) * d + d
OBVIOUS

(* There are as many of them as fit: the k-th one begins k visits after    *)
(* opening time.                                                           *)
LEMMA FollowingCount ==
  ASSUME NEW open \in Hours, NEW close \in Hours, open < close, NEW d \in Durations
  PROVE  Cardinality(Following(open, d, close)) = (close - open) \div d
<1> DEFINE q == (close - open) \div d
           visits == 0..(q - 1)
           slots == Following(open, d, close)
           begin == [k \in visits |-> open + k * d]
<1>1. /\ d \in Nat /\ d > 0 /\ DayLength \in Nat /\ open \in Nat
      /\ close \in Nat /\ close < DayLength
  BY HoursOfDay
<1>2. q \in Nat /\ q * d <= close - open /\ close - open < q * d + d
  BY <1>1, Quotient
<1> HIDE DEF q
<1>3. ASSUME NEW k \in visits
      PROVE  open + k * d \in slots
  <2>1. k \in Nat /\ k < q
    BY <1>2
  <2>2. k * d \in Nat /\ k * d + d <= q * d
    BY <2>1, <1>1, <1>2, Multiples
  <2>3. open + k * d + d <= close /\ open + k * d \in 0..DayLength
    BY <2>2, <1>1, <1>2, Multiples
  <2> QED
    BY <2>1, <2>3 DEF Following
<1>4. ASSUME NEW t \in slots
      PROVE  \E k \in visits : t = open + k * d
  <2>1. PICK k \in Nat : t = open + k * d
    BY DEF Following
  <2>2. k < q
    <3> SUFFICES ASSUME q <= k PROVE FALSE
      BY <1>2
    <3>1. q * d <= k * d
      BY <1>1, <1>2, Multiples
    <3>2. t + d <= close
      BY DEF Following
    <3> QED
      BY <2>1, <3>1, <3>2, <1>1, <1>2, Multiples
  <2> QED
    BY <2>1, <2>2, <1>2
<1>5. ASSUME NEW j \in visits, NEW k \in visits, j # k
      PROVE  open + j * d # open + k * d
  <2>1. j * d \in Nat /\ k * d \in Nat /\ (j * d + d <= k * d \/ k * d + d <= j * d)
    BY <1>1, <1>2, <1>5, Multiples
  <2> QED
    BY <1>1, <2>1
<1>6. begin \in Bijection(visits, slots)
  <2>1. begin \in [visits -> slots]
    BY <1>3
  <2>2. begin \in Injection(visits, slots)
    BY <2>1, <1>5 DEF Injection, IsInjective
  <2>3. begin \in Surjection(visits, slots)
    BY <2>1, <1>4 DEF Surjection
  <2> QED
    BY <2>2, <2>3 DEF Bijection
<1>7. IsFiniteSet(visits) /\ Cardinality(visits) = q
  <2>1. q - 1 \in Int
    BY <1>2
  <2> QED
    BY <2>1, <1>2, FS_Interval
<1> HIDE DEF begin, visits, slots
<1>8. Cardinality(slots) = q
  BY <1>6, <1>7, FS_Bijection DEF ExistsBijection
<1> QED
  BY <1>8 DEF q, slots

(* The slots of hours in order fill the day.                               *)
LEMMA SlotsLaid ==
  ASSUME SlotTypeOK, HoursInOrder
  PROVE  SlotsFillTheDay
<1> DEFINE o == config.opening
           c == config.closing
           d == config.duration
<1>1. o \in Hours /\ c \in Hours /\ d \in Durations /\ o < c
  BY DEF SlotTypeOK, HoursInOrder
<1>2. /\ HoursInForce \in Loaded
      /\ HoursInForce.opening = o /\ HoursInForce.closing = c /\ HoursInForce.duration = d
  BY <1>1 DEF HoursInForce, Loaded
<1>3. GenerateSlotTimes(HoursInForce) = Following(o, d, c)
  BY <1>2, SlotTimesClosed
<1>4. d \in Nat /\ o \in Nat /\ c \in Nat
  BY <1>1, HoursOfDay
<1>5. ASSUME NEW t \in Following(o, d, c)
      PROVE  o <= t /\ t + d <= c
  BY <1>4, Multiples DEF Following
<1>6. ASSUME NEW s \in Following(o, d, c), NEW t \in Following(o, d, c), s < t
      PROVE  s + d <= t
  <2>1. PICK j \in Nat, k \in Nat : s = o + j * d /\ t = o + k * d
    BY DEF Following
  <2>2. j * d \in Nat /\ k * d \in Nat
    BY <1>4, Multiples
  <2>3. j < k
    <3>1. j * d < k * d
      BY <1>4, <1>6, <2>1, <2>2
    <3>2. k < j => k * d + d <= j * d
      BY <1>4, Multiples
    <3> QED
      BY <1>4, <2>2, <3>1, <3>2
  <2> QED
    BY <1>4, <2>1, <2>2, <2>3, Multiples
<1>7. Cardinality(Following(o, d, c)) = (c - o) \div d
  BY <1>1, FollowingCount
<1> HIDE DEF o, c, d
<1> QED
  BY <1>3, <1>5, <1>6, <1>7 DEF SlotsFillTheDay, o, c, d

(* A slot of a day belongs to that day.                                    *)
LEMMA DayOfSlot ==
  ASSUME NEW day \in Nat, NEW t \in Nat, t < DayLength
  PROVE  DayOf(day * DayLength + t) = day
<1>1. DayLength \in Nat /\ DayLength > 0
  BY HoursOfDay
<1> QED
  BY <1>1 DEF DayOf

(* What is shown of a day is what validation accepts of its slots: a slot  *)
(* yet to come belongs to today or to a later day, so that the test of the *)
(* day, which only the list makes, refuses nothing.                        *)
LEMMA ShownBooked ==
  ASSUME SlotTypeOK
  PROVE  ShownIsBookable
<1> SUFFICES ASSUME NEW b \in Bookings \cup {None}, NEW day \in 0..DayOf(Horizon + DayLength)
             PROVE  Availability(day, b) =
                      {at \in SlotsOf(HoursInForce, day) : SlotValid(at, b, HoursInForce)}
  BY DEF ShownIsBookable
<1>1. DayLength \in Nat /\ DayLength > 0 /\ Horizon \in Nat /\ now \in Nat /\ day \in Nat
  <2>1. DayLength \in Nat /\ DayLength > 0 /\ Horizon \in Nat /\ now \in Nat
    BY SlotAssumption DEF SlotTypeOK
  <2>2. day \in Nat
    BY <2>1, Quotient DEF DayOf
  <2> QED
    BY <2>1, <2>2
<1>2. HoursInForce \in Loaded
  BY DEF HoursInForce, Loaded, SlotTypeOK
<1>3. ASSUME NEW t \in GenerateSlotTimes(HoursInForce)
      PROVE  t \in Nat /\ t < DayLength
  <2>1. t \in Following(HoursInForce.opening, HoursInForce.duration, HoursInForce.closing)
    BY <1>2, SlotTimesClosed
  <2>2. HoursInForce.closing \in Hours /\ HoursInForce.duration \in Durations
    BY <1>2 DEF Loaded
  <2>3. /\ HoursInForce.closing \in Nat /\ HoursInForce.closing < DayLength
        /\ HoursInForce.duration \in Nat
    BY <2>2, HoursOfDay
  <2> QED
    BY <1>1, <2>1, <2>3 DEF Following
<1>4. ASSUME NEW at \in SlotsOf(HoursInForce, day)
      PROVE  DayOf(at) = day /\ at \in Nat
  <2>1. PICK t \in GenerateSlotTimes(HoursInForce) : at = day * DayLength + t
    BY DEF SlotsOf
  <2>2. t \in Nat /\ t < DayLength
    BY <1>3
  <2>3. day * DayLength \in Nat
    BY <1>1, Multiples
  <2> QED
    BY <1>1, <2>1, <2>2, <2>3, DayOfSlot
<1>5. ASSUME NEW at \in SlotsOf(HoursInForce, day), at > now
      PROVE  day >= DayOf(now)
  <2>1. at \in Nat /\ DayOf(at) = day
    BY <1>4
  <2>2. (at \div DayLength) * DayLength + DayLength > at /\ (now \div DayLength) * DayLength <= now
        /\ at \div DayLength \in Nat /\ now \div DayLength \in Nat
    BY <1>1, <2>1, Quotient
  <2>3. ~(at \div DayLength < now \div DayLength)
    BY <1>1, <1>5, <2>1, <2>2, Multiples
  <2> QED
    BY <2>1, <2>2, <2>3 DEF DayOf
<1> QED
  BY <1>4, <1>5 DEF Availability, SlotValid

(* A day is filled by visits one after the other, whatever administrators  *)
(* have made of its hours and of the duration of a visit.                  *)
THEOREM SlotsAlwaysFillTheDay == SlotSpec => []SlotsFillTheDay
<1>1. SlotInv => SlotsFillTheDay
  BY SlotsLaid DEF SlotInv
<1> QED
  BY <1>1, SlotInvariant, PTL

(* What is shown to be available can be booked, and nothing else can, in   *)
(* every state and on every day.                                           *)
THEOREM ShownCanBeBooked == SlotSpec => []ShownIsBookable
<1>1. SlotTypeOK => ShownIsBookable
  BY ShownBooked
<1> QED
  BY <1>1, SlotTypesCorrect, PTL
=============================================================================
