CONSTANTS
  long1 = long1
  long2 = long2
  cut = cut
  short1 = short1
  short2 = short2
  short3 = short3
  Names <- MCNames
  Key <- MCKey
  Hash <- MCHash
  MaxSyms = 5
  InitBuckets = 1
  Threshold = 1
  Size = 3
  MaxPools = 2
SPECIFICATION Spec
INVARIANTS OnlyLastOutside InternedOnce BoundedChains
PROPERTIES ImplementsSymbols EachCellOnce
CHECK_DEADLOCK FALSE
