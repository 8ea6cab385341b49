CONSTANTS
  Failed = Failed
  None = None
  Questions <- MCQuestions
  Later <- MCLater
SPECIFICATION Spec
INVARIANTS
  ResolvesBest
  WrittenSpecsResolve
  AcceptedExactly
  
  
  LoadedAsSaved
  SettingsApply
  EntryWhole
  ScriptsAsWritten
CHECK_DEADLOCK FALSE
