SPECIFICATION OpenSpec
CONSTANTS
  Bookings = {1, 2}
  Customers = {u1}
  Guest = guest
  Counters = {c1}
  Staff = {s1}
  Requests = {r1}
  QueueTypes <- OneLane
  None = None
  DayLength = 3
  Horizon = 3
  CheckInWindow = 2
  Slots = {1, 2}
  SlotCapacity = 2
  MaxNumber = 4
PROPERTY NeverCalledEarly
