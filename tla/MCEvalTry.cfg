SPECIFICATION Spec
CONSTANTS
  Form <- FormTable
  Sessions <- TryForms
  Lit <- Cells
  Names <- AllNames
  Quoted <- QuotedTable
  NativeNames <- Natives_
  ErrNames <- ErrTable
  MaxStack = 30
  MaxCells = 60
INVARIANTS TryHandlesErrors
CHECK_DEADLOCK FALSE
