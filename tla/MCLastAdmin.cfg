SPECIFICATION StaffSpec
CONSTANTS
  Counters = {c1}
  Staff = {s1, s2}
  Requests = {}
  QueueTypes <- BothLanes
  None = None
  Branches = {home, other}
  Home = home
  BranchRoles <- CounterRole
  AccountRequests = {a1, a2}
  Keep = Keep
INVARIANT AdminRemains
