SPECIFICATION HistorySpec
CONSTANTS
  Bookings = {1}
  Customers = {u1}
  Guest = guest
  Counters = {c1}
  Staff = {s1}
  Requests = {r1}
  QueueTypes <- OneLane
  None = None
  DayLength = 3
  Horizon = 2
  CheckInWindow = 2
  Slots = {2}
  SlotCapacity = 1
  MaxNumber = 3
INVARIANT ReportedTimesHappened
