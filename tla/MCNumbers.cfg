SPECIFICATION ArrivalsSpec
CONSTANTS
  Bookings = {1, 2}
  Customers = {u1}
  Guest = guest
  Counters = {}
  Staff = {}
  Requests = {}
  QueueTypes <- BothLanes
  None = None
  DayLength = 2
  Horizon = 3
  CheckInWindow = 1
  Slots = {1, 2}
  SlotCapacity = 1
  MaxNumber = 3
INVARIANT TypeOK
INVARIANT UniqueNumbers
INVARIANT CheckedInWithinWindow
INVARIANT SlotsWithinCapacity
PROPERTY ImplementsNumbers
CHECK_DEADLOCK FALSE
