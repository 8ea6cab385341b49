SPECIFICATION FairSpec
CONSTANTS
  p = p
  q = q
  mp = mp
  mq = mq
  h = h
  w1 = w1
  w2 = w2
  w3 = w3
  MaxCrashes = 1
  Prunable = TRUE
  Packages <- MCPackages
  Files <- MCFiles
  Manifest <- MCManifest
  Installs <- MCInstalls
  PkgOf <- MCPkgOf
  ProcessOf <- MCProcessOf
INVARIANTS
  IndexBacked
  CleanInstallsWhole
PROPERTIES
  PruneExact
  InstallsEnd
