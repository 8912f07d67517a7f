CONSTANTS
  Names <- MCNames
  Path <- MCPath
  NoDir = "nodir"
  FileIn <- MCFileIn
  NoFile = "none"
  Home <- MCHome
  Source <- MCSource
  Libraries = {"d"}
  Broken = {"e"}
  Forms <- MCForms
  Err = Err
  Data = Data
  MaxForms = 4
  MaxCtx = 12
SPECIFICATION Spec
INVARIANT OnlyFinishedModules
PROPERTIES WaitingUntouched ImportEnds
CHECK_DEADLOCK FALSE
