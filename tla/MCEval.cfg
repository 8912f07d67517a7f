SPECIFICATION Spec
CONSTANTS
  Form <- FormTable
  Sessions <- AllSessions
  Lit <- Cells
  Names <- AllNames
  Quoted <- QuotedTable
  NativeNames <- Natives_
  ErrNames <- ErrTable
  MaxStack = 30
  MaxCells = 60
INVARIANTS FramesApart CallsBindAsWritten ErrorsHandled
PROPERTIES EveryFormEnds FunctionsKeepOut
CHECK_DEADLOCK FALSE
