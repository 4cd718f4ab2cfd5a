SPECIFICATION BusySpec
CONSTANTS
  Bookings = {1, 2}
  Customers = {u1}
  Guest = guest
  Counters = {c1}
  Staff = {s1}
  Requests = {r1}
  QueueTypes <- BothLanes
  None = None
  DayLength = 3
  Horizon = 3
  CheckInWindow = 2
  Slots = {1, 2, 3}
  SlotCapacity = 1
  MaxNumber = 2
  Pauses = {1}
  Managers = {m1}
  AverageServiceTime = 1
  DaysAhead = 2
  MaxOptions = 2
  Failing = {}
PROPERTY FinishedNotMoved
