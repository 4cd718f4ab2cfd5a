SPECIFICATION ResumingSpec
CONSTANTS
  Bookings = {1, 2}
  Customers = {u1, u2}
  Guest = guest
  Counters = {}
  Staff = {}
  Requests = {}
  QueueTypes <- BothLanes
  None = None
  DayLength = 3
  Horizon = 2
  CheckInWindow = 1
  Slots = {}
  SlotCapacity = 1
  MaxNumber = 2
  Pauses = {1}
  Managers = {m1, m2}
  AverageServiceTime = 1
  DaysAhead = 1
  MaxOptions = 1
  Failing = {m2}
INVARIANT NoticeBehindEveryMark
PROPERTY CustomersNotified
CHECK_DEADLOCK FALSE
