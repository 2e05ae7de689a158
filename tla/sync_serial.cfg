SPECIFICATION Spec
CONSTANTS
  u1 = u1
  u2 = u2
  h1 = h1
  h2 = h2
  User = {u1, u2}
  Hwid = {h1}
  Node = {1, 2}
  Request = {r1}
  Explicit <- MixedLinks
  Profile <- MixedProfiles
  DeviceLimit = 1
  MaxDevices = 2
  Enrolled <- OneDevice
  Workload = {"register", "remove", "user", "node", "apply", "verify"}
  Faults <- AllFaults
INVARIANTS TypeOK
PROPERTIES CommitServed RemovalServed
