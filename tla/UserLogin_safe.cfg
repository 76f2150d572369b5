\* Two requests that may overlap, two replicas, three failures.
SPECIFICATION FairSpec
CONSTANTS
  l1 = l1  l2 = l2  r1 = r1  r2 = r2
  Imported = Imported
  NoDoc = NoDoc
  Logins <- TwoLogins
  Replicas <- TwoReplicas
  MaxRetry = 1
  MaxFaults = 3
\* Every login may have ended.
CHECK_DEADLOCK FALSE
INVARIANTS
  TypeOK
  FirstLoginIsComplete
  KeyedUnlessFailure
PROPERTIES
  OnlyOwnRolledBack
  LoginsEnd
