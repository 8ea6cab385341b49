SPECIFICATION Spec
CONSTANTS
  r = r
  a = a
  b = b
  p = p
  q1 = q1
  q2 = q2
  d = d
  o = o
  None = None
  Packages <- MCPackages
  Name <- MCName
  Unsupported = {o}
  ImporterOrder <- MCImporterOrder
  Root = r
  Lockfiles <- MCLockfiles
  Commands <- MCCommands
  MaxMishaps = 1
  MaxEdits = 1
INVARIANTS
  WholeUnlessDisturbed
  ReusableIsPresent
PROPERTIES
  UnselectedKept
