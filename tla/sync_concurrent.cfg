SPECIFICATION FairSpec
CONSTANTS
  u1 = u1
  u2 = u2
  h1 = h1
  h2 = h2
  User = {u1}
  Hwid = {h1, h2}
  Node = {1}
  Request = {r1, r2}
  Explicit <- AllNodes
  Profile <- NoNodes
  DeviceLimit = 2
  MaxDevices = 2
  Enrolled <- Nobody
  Workload = {"register", "patch", "user", "enforce"}
  Faults <- NoFaults
INVARIANTS LockInv UniqueDevices
PROPERTIES RequestsEnd SweepEnds
