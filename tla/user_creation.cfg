SPECIFICATION FairSpec
CONSTANTS
  Login = {l1}
  Tab = {t1, t2}
  MaxRequests = 3
  MaxEvents = 2
CHECK_DEADLOCK FALSE
INVARIANTS TypeOK RepeatAnswered
PROPERTIES OutcomeTrue FormComesBack
