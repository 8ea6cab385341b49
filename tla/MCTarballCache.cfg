SPECIFICATION FairSpec
CONSTANTS
  t1 = t1
  t2 = t2
  t3 = t3
  t4 = t4
  t5 = t5
  u1 = u1
  u2 = u2
  NoCell = NoCell
  Tasks <- MCTasks
  Urls <- MCUrls
  UrlOf <- MCUrlOf
\* Every call returns, after which nothing is left to do.
CHECK_DEADLOCK FALSE
INVARIANTS
  TypeOK
  NoDeadEntry
  OkMeansDownloaded
  SleeperHasWaker
PROPERTIES
  CallsReturn
  ImplementsService
