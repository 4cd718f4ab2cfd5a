SPECIFICATION SlotSpec
CONSTANTS
  Bookings = {b1, b2}
  Editors = {e1, e2}
  Requests = {r1}
  None = None
  Keep = Keep
  DayLength = 5
  Hours = {0, 2, 4}
  Durations = {2, 3}
  Capacities = {1, 2}
  Start = 4
  Horizon = 5
SYMMETRY Symmetry
INVARIANT SlotTypeOK
INVARIANT HoursInOrder
INVARIANT SlotsFillTheDay
INVARIANT ShownIsBookable
PROPERTY NobodySqueezedIn
