SPECIFICATION HistorySpec
CONSTANTS
  Bookings = {1, 2}
  Customers = {u1}
  Guest = guest
  Counters = {c1, c2}
  Staff = {s1}
  Requests = {r1, r2}
  QueueTypes <- OneLane
  None = None
  DayLength = 2
  Horizon = 2
  CheckInWindow = 1
  Slots = {1}
  SlotCapacity = 1
  MaxNumber = 3
SYMMETRY Symmetry
INVARIANT HistoryExplainsState
INVARIANT ObservationFollowsVisit
PROPERTY LabelsKept
INVARIANT StatusAgreement
INVARIANT OneServingPerCounter
PROPERTY ImplementsCounters
