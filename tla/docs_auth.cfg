SPECIFICATION Spec
CONSTANTS
  Tab = {t1, t2}
  MaxSecrets = 2
  MaxSessions = 3
  MaxFaults = 1
INVARIANTS TypeOK NeverLockedOut SecondFactor
