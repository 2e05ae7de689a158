SPECIFICATION FairSpec
CONSTANTS
  Node = {n1, n2}
  MaxJobs = 3
  Faults <- AllFaults
INVARIANTS TypeOK OneInstall Registered
PROPERTIES JobsEnd
