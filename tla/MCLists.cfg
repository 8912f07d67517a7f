SPECIFICATION Spec
CONSTANTS
  Names = {x, y}
  Items = {i1, i2}
  Nil = Nil
  MaxCells = 8
  MaxOps = 4
INVARIANT ListsAsBuilt
PROPERTIES OthersKeepPrefix LoopsEnd
CHECK_DEADLOCK FALSE
