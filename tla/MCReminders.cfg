SPECIFICATION RecurringSpec
CONSTANTS
  Bookings = {1}
  Customers = {u1}
  Guest = guest
  Counters = {}
  Staff = {}
  Requests = {}
  QueueTypes <- OneLane
  None = None
  DayLength = 2
  Horizon = 4
  CheckInWindow = 3
  Slots = {1, 2, 3}
  SlotCapacity = 1
  MaxNumber = 3
  Jobs = {j1, j2}
  Failing = {j2}
  ReminderEvery = 2
INVARIANT NothingDueBehind
PROPERTY JobsOnlyExpire
PROPERTY UncheckedExpires
