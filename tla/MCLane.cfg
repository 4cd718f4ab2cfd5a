SPECIFICATION LaneSpec
CONSTANTS
  Bookings = {1, 2, 3}
  Customers = {u1}
  Guest = guest
  Counters = {c1, c2}
  Staff = {s1, s2}
  Requests = {r1}
  QueueTypes <- OneLane
  None = None
  DayLength = 3
  Horizon = 3
  CheckInWindow = 2
  Slots = {2}
  SlotCapacity = 1
  MaxNumber = 3
  AverageServiceTime = 2
  Resting = {s1}
INVARIANT EstimateIsEarliestStart
INVARIANT EstimatesOrdered
INVARIANT WorkloadLaidOut
PROPERTY NotPostponed
SYMMETRY Symmetry
PROPERTY CalledFromTheFront
PROPERTY NoOvertaking
PROPERTY FinalStatesKept
