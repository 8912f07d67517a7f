CONSTANTS
  Names <- MCNames
  Path <- MCPath
  NoDir = "nodir"
  FileIn <- MCFileIn
  NoFile = "none"
  Home <- MCHome
  Source <- MCSource
  Libraries = {"d"}
  Broken = {"e"}
  Forms <- MCFormsTwice
  Err = Err
  Data = Data
  MaxForms = 2
  MaxCtx = 8
SPECIFICATION Spec
INVARIANT EachFileOnce
CHECK_DEADLOCK FALSE
