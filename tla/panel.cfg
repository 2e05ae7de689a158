SPECIFICATION FairSpec
CONSTANTS
  User = {u1}
  MaxEvents = 1
INVARIANTS TypeOK SpinnerHasWork
PROPERTIES ListCatchesUp
