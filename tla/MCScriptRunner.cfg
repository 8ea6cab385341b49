SPECIFICATION Spec
CONSTANTS
  a = a
  b = b
  r = r
  NoProject = NoProject
  NoTarget = NoTarget
  Projects <- MCProjects
  Targets <- MCProjects
  PathOrder <- MCPathOrder
  NameOrder <- MCNameOrder
  Root = r
  Threads = 3
  Graphs <- MCGraphs
  ScriptSets <- MCScriptSets
  Commands <- MCCommands
\* The command ends.
CHECK_DEADLOCK FALSE
INVARIANTS
  FiltersExact
  DependenciesFirst
  NothingSkipped
  ReportFaithful
PROPERTIES
  RunEnds
