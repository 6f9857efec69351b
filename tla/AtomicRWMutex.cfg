SPECIFICATION FairSpec
CONSTANTS
  t1 = t1
  t2 = t2
  t3 = t3
  o1 = o1
  o2 = o2
  Thread = {t1, t2, t3}
  Object = {o1, o2}
  ObjectOf <- MCObjectOf
  MaxDead = 1
INVARIANT TypeOK
INVARIANT Exclusion
INVARIANT CountersExact
INVARIANT ObjectCountersExact
PROPERTY ImplementsRWLock
PROPERTY WritersProgress
PROPERTY ReadersProgress
CHECK_DEADLOCK FALSE
