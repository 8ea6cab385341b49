SPECIFICATION Spec
CONSTANTS
  r = r
  a = a
  x = x
  y = y
  None = None
  Root = r
  Members = {a}
  Names = {x, y}
  MaxCommands = 3
  MaxEdits = 0
  MaxMishaps = 0
  Rank <- MCRank
  Newest <- MCNewest
  Legacy <- MCLegacy
  Manifests <- MCManifests
  Commands <- MCCommands
PROPERTIES
  SiblingsKept
