SPECIFICATION StaffSpec
CONSTANTS
  Counters = {c1, c2}
  Staff = {s1, s2, s3}
  Requests = {r1}
  QueueTypes <- BothLanes
  None = None
  Branches = {home, other}
  Home = home
  BranchRoles <- CounterRole
  AccountRequests = {a1}
  Keep = Keep
SYMMETRY Symmetry
INVARIANT CountersTypeOK
INVARIANT ActiveIsStaffed
INVARIANT OneCounterPerStaff
INVARIANT AdminRemains
PROPERTY StaffKeptWhileServing
