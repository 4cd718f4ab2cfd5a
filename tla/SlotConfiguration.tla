------------------------- MODULE SlotConfiguration -------------------------
(***************************************************************************)
(* Where the appointment slots come from (services/availability.py): the   *)
(* hours of a branch, the duration of a service, and the capacity of the   *)
(* service at the branch, which administrators change while customers      *)
(* book.  QueueLifecycle has the slots and their capacity as constants.    *)
(*                                                                         *)
(* An administrator's PATCH reads a row, validates, and saves the whole    *)
(* row in a later statement; booking validates a slot, and validates it    *)
(* again in the transaction that takes the place, there with the branch    *)
(* and the service as the first validation loaded them.                    *)
(***************************************************************************)
EXTENDS Naturals, FiniteSets

CONSTANTS
  Bookings,    \* bookings that may hold a place at a time, online all of them
  Editors,     \* PATCH requests between their read and their save
  Requests,    \* booking requests between their two validations
  None, Keep,  \* NULL; a field that a PATCH does not mention
  DayLength,   \* ticks in a day
  Hours,       \* the times of day a branch may open and close at
  Durations,   \* Service.average_service_time, in ticks
  Capacities,  \* BranchService.max_bookings_per_slot
  Start,       \* when the instance begins
  Horizon      \* bound on the clock

ASSUME SlotAssumption ==
  /\ DayLength \in Nat \ {0} /\ Hours \subseteq 0..(DayLength - 1)
  /\ Durations \subseteq Nat \ {0} /\ Capacities \subseteq Nat \ {0}
  /\ Horizon \in Nat /\ Start \in 0..Horizon
  /\ None \notin Nat

VARIABLES
  now,
  config,  \* the three rows: Branch, Service and BranchService
  edit,    \* the row each editor is about to save
  place,   \* the appointment of each booking that holds a place
  order    \* what each booking request has validated, and loaded

slotVars == <<now, config, edit, place, order>>

Times == 0..(Horizon + DayLength)

BranchRows == [opening : Hours, closing : Hours, branchActive : BOOLEAN]
ServiceRows == [duration : Durations, serviceActive : BOOLEAN]
MappingRows == [capacity : Capacities, mappingActive : BOOLEAN]
Loaded == [opening : Hours, closing : Hours, duration : Durations]

SlotTypeOK ==
  /\ now \in Start..Horizon
  /\ config \in [opening : Hours, closing : Hours, branchActive : BOOLEAN,
                 duration : Durations, serviceActive : BOOLEAN,
                 capacity : Capacities, mappingActive : BOOLEAN]
  /\ edit \in [Editors -> BranchRows \cup ServiceRows \cup MappingRows \cup {None}]
  /\ place \in [Bookings -> Times \cup {None}]
  /\ order \in [Requests -> [at : Times, hours : Loaded] \cup {None}]

SlotInit ==
  /\ now = Start
  /\ \E branch \in BranchRows, service \in ServiceRows, mapping \in MappingRows :
       /\ branch.opening < branch.closing
       /\ mapping.mappingActive => branch.branchActive /\ service.serviceActive
       /\ config = [opening |-> branch.opening, closing |-> branch.closing,
                    branchActive |-> branch.branchActive,
                    duration |-> service.duration, serviceActive |-> service.serviceActive,
                    capacity |-> mapping.capacity, mappingActive |-> mapping.mappingActive]
  /\ edit = [e \in Editors |-> None]
  /\ place = [b \in Bookings |-> None]
  /\ order = [r \in Requests |-> None]

-----------------------------------------------------------------------------
(* Slots and places.                                                       *)

DayOf(at) == at \div DayLength

(* Mutant: a slot may be the last one to begin before closing time.        *)
MutantGenerateSlotTimes(hours) ==
  LET from[t \in 0..(2 * DayLength)] ==
        IF t < hours.closing THEN {t} \cup from[t + hours.duration] ELSE {}
  IN from[hours.opening]

GenerateSlotTimes(hours) ==
  LET from[t \in 0..DayLength] ==
        IF t + hours.duration <= hours.closing THEN {t} \cup from[t + hours.duration] ELSE {}
  IN from[hours.opening]

SlotsOf(hours, day) == {day * DayLength + t : t \in GenerateSlotTimes(hours)}

HoursInForce ==
  [opening |-> config.opening, closing |-> config.closing, duration |-> config.duration]

(* get_branch_service finds a mapping.                                     *)
Offered == config.branchActive /\ config.serviceActive /\ config.mappingActive

(* get_reserved_booking_count, without booking b.                          *)
Booked(at, b) == Cardinality({x \in Bookings \ {b} : place[x] = at})

(* Mutant: a slot that begins now is shown.                                *)
MutantAvailability(day, b) ==
  IF Offered
    THEN {at \in SlotsOf(HoursInForce, day) : at >= now /\ Booked(at, b) < config.capacity}
    ELSE {}

(* get_slot_availability: the slots shown as available to booking b.       *)
Availability(day, b) ==
  IF Offered /\ day >= DayOf(now)
    THEN {at \in SlotsOf(HoursInForce, day) : at > now /\ Booked(at, b) < config.capacity}
    ELSE {}

(* validate_booking_slot, with the branch and service it was given.        *)
SlotValid(at, b, hours) ==
  /\ Offered
  /\ at \in SlotsOf(hours, DayOf(at))
  /\ at > now
  /\ Booked(at, b) < config.capacity

-----------------------------------------------------------------------------
(* Administrators.                                                         *)

Given(field, old) == IF field = Keep THEN old ELSE field

(* Mutant: hours are compared only when both are given.                    *)
MutantHoursOrdered(o, c) == o # Keep /\ c # Keep => o < c

(* BranchAdminSerializer.validate.                                         *)
HoursOrdered(o, c) == Given(o, config.opening) < Given(c, config.closing)

BeginEdit(e, row) ==
  /\ edit[e] = None
  /\ edit' = [edit EXCEPT ![e] = row]
  /\ UNCHANGED <<now, config, place, order>>

EditBranch(e, o, c, active) ==
  /\ HoursOrdered(o, c)
  /\ BeginEdit(e, [opening |-> Given(o, config.opening), closing |-> Given(c, config.closing),
                   branchActive |-> Given(active, config.branchActive)])

(* Mutant: the duration is saved as it was given.                          *)
MutantEditService(e, d, active) ==
  BeginEdit(e, [duration |-> Given(d, config.duration),
                serviceActive |-> Given(active, config.serviceActive)])

(* ServiceAdminSerializer.validate_average_service_time.                   *)
EditService(e, d, active) ==
  /\ d # Keep => d > 0
  /\ BeginEdit(e, [duration |-> Given(d, config.duration),
                   serviceActive |-> Given(active, config.serviceActive)])

(* BranchServiceAdminSerializer.validate, and the validator of the field.  *)
EditMapping(e, n, active) ==
  /\ n # Keep => n >= 1
  /\ Given(active, config.mappingActive) => config.branchActive /\ config.serviceActive
  /\ BeginEdit(e, [capacity |-> Given(n, config.capacity),
                   mappingActive |-> Given(active, config.mappingActive)])

(* serializer.save() writes every column of the row it read.               *)
FinishEdit(e) ==
  /\ edit[e] # None
  /\ config' = [f \in DOMAIN config |->
                  IF f \in DOMAIN edit[e] THEN edit[e][f] ELSE config[f]]
  /\ edit' = [edit EXCEPT ![e] = None]
  /\ UNCHANGED <<now, place, order>>

-----------------------------------------------------------------------------
(* Customers.                                                              *)

(* BookingCreateSerializer.validate.                                       *)
BeginBook(r, at) ==
  /\ order[r] = None
  /\ SlotValid(at, None, HoursInForce)
  /\ order' = [order EXCEPT ![r] = [at |-> at, hours |-> HoursInForce]]
  /\ UNCHANGED <<now, config, edit, place>>

(* Mutant: the place is taken on the word of the first validation.         *)
MutantFinishBook(r) ==
  /\ order[r] # None
  /\ order' = [order EXCEPT ![r] = None]
  /\ \E b \in Bookings : place[b] = None /\ place' = [place EXCEPT ![b] = order[r].at]
  /\ UNCHANGED <<now, config, edit>>

(* BookingCreateSerializer.create: validated again, then inserted.         *)
FinishBook(r) ==
  /\ order[r] # None
  /\ order' = [order EXCEPT ![r] = None]
  /\ UNCHANGED <<now, config, edit>>
  /\ IF SlotValid(order[r].at, None, order[r].hours)
       THEN \E b \in Bookings : place[b] = None /\ place' = [place EXCEPT ![b] = order[r].at]
       ELSE UNCHANGED place

(* BookingRescheduleAPIView: one transaction, with rows it loads itself.   *)
MovePlace(b, at) ==
  /\ place[b] # None
  /\ SlotValid(at, b, HoursInForce)
  /\ place' = [place EXCEPT ![b] = at]
  /\ UNCHANGED <<now, config, edit, order>>

(* A cancelled booking reserves nothing.                                   *)
GiveUpPlace(b) ==
  /\ place[b] # None
  /\ place' = [place EXCEPT ![b] = None]
  /\ UNCHANGED <<now, config, edit, order>>

Tick == now < Horizon /\ now' = now + 1 /\ UNCHANGED <<config, edit, place, order>>

(* A form may leave a field out, or hold a zero that its validator refuses. *)
AdministratorStep(e) ==
  \/ \E o, c \in Hours \cup {Keep}, active \in BOOLEAN \cup {Keep} : EditBranch(e, o, c, active)
  \/ \E d \in Durations \cup {0, Keep}, active \in BOOLEAN \cup {Keep} :
       EditService(e, d, active)
  \/ \E n \in Capacities \cup {0, Keep}, active \in BOOLEAN \cup {Keep} :
       EditMapping(e, n, active)
  \/ FinishEdit(e)

SlotNext ==
  \/ \E e \in Editors : AdministratorStep(e)
  \/ \E r \in Requests : FinishBook(r) \/ \E at \in Times : BeginBook(r, at)
  \/ \E b \in Bookings : GiveUpPlace(b) \/ \E at \in Times : MovePlace(b, at)
  \/ Tick

SlotSpec == SlotInit /\ [][SlotNext]_slotVars

-----------------------------------------------------------------------------
(* However administrators overlap, a branch closes after it opens          *)
(* (docs/DAY37, "opening_time >= closing_time" is rejected).  Two requests *)
(* that each give one of the hours were both validated against the hours   *)
(* before either: what keeps them in order is that each saves both.        *)
HoursInOrder == config.opening < config.closing

(* What generate_slot_times loops to, said of the day as a whole: visits   *)
(* one after the other from opening time, none that would overlap another  *)
(* or the closing of the branch, and none missing.                         *)
SlotsFillTheDay ==
  LET slots == GenerateSlotTimes(HoursInForce)
  IN /\ \A t \in slots : config.opening <= t /\ t + config.duration <= config.closing
     /\ \A s, t \in slots : s < t => s + config.duration <= t
     /\ Cardinality(slots) = (config.closing - config.opening) \div config.duration

(* What is shown is what can be booked (docs/DAY32, the availability is    *)
(* advisory and the backend validates again): two pieces of code decide.   *)
ShownIsBookable ==
  \A b \in Bookings \cup {None}, day \in 0..DayOf(Horizon + DayLength) :
    Availability(day, b) =
      {at \in SlotsOf(HoursInForce, day) : SlotValid(at, b, HoursInForce)}

(* Nobody is squeezed in: although capacity and what is offered change     *)
(* under requests that were validated before, and may leave a slot with    *)
(* more bookings than it has places, a place is taken only while the slot  *)
(* has one left and the service is offered.                                *)
NobodySqueezedIn ==
  [][\A at \in Times :
       Booked(at, None)' > Booked(at, None) =>
         Offered /\ Booked(at, None)' <= config.capacity]_slotVars

(* docs/DAY32, "Booking creation validates again that the requested time   *)
(* is exactly one of the generated slots": of the hours loaded before.     *)
PlacesAreSlots ==
  [][\A b \in Bookings :
       place[b]' # place[b] /\ place[b]' # None =>
         place[b]' \in SlotsOf(HoursInForce, DayOf(place[b]'))]_slotVars
=============================================================================
