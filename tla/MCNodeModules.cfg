CONSTANTS
  None = None
  Packages <- MCPackages
  Rank <- MCRank
  Deps <- MCDeps
  Bins <- MCBins
  Manifests <- MCManifests
  Settings <- MCSettings
  MaxInstalls = 3
  MaxChanges = 2
  MaxMishaps = 1
SPECIFICATION Spec
INVARIANTS
  HoistedExactly
  DirectFirst
CHECK_DEADLOCK FALSE
