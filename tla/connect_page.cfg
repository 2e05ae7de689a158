SPECIFICATION FairSpec
CONSTANTS
  None = None
  Device = {d1, d2}
  MaxChanges = 1
  MaxRemovals = 2
  MaxFaults = 1
  MaxFlight = 2
INVARIANTS TypeOK FlagsHaveOwners
PROPERTIES KeepsFresh 
