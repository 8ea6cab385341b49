SPECIFICATION FairSpec
CONSTANTS
  a = a
  b = b
  c = c
  d = d
  e = e
  f = f
  NumImporters = 3
  LockfileOnly = FALSE
  Packages <- MCPackages
  Regular <- MCRegular
  Optional <- MCOptional
  Unsupported <- MCUnsupported
  OldEntries <- MCOldEntries
\* The command ends.
CHECK_DEADLOCK FALSE
INVARIANTS
  ExtendsIncrementally
  LockfileExact
PROPERTIES
  Terminates
