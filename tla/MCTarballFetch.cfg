SPECIFICATION FetchSpec
CONSTANTS
  t1 = t1
  t2 = t2
  t3 = t3
  u1 = u1
  u2 = u2
  NoCell = NoCell
  Tasks <- MCTasks
  Urls <- MCUrls
  UrlOf <- MCUrlOf
  Permits = 1
  MaxAttempts = 4
\* Every call returns, after which nothing is left to do.
CHECK_DEADLOCK FALSE
INVARIANTS
  FetchTypeOK
  PermitsConserved
  AvailableMeansIndexed
  OfflineErrors
PROPERTIES
  ImplementsCache
