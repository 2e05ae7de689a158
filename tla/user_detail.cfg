SPECIFICATION FairSpec
CONSTANTS
  User = {u1, u2}
  Device = {d1}
  d1 = d1
  u1 = u1
  Owner <- OwnerOf
  None = None
  MaxCalls = 1
  MaxReads = 2
  MaxEvents = 1
INVARIANTS TypeOK OwnFields
PROPERTIES CardCatchesUp
