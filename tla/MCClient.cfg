CONSTANTS
  Names = {a, b}
  Literal = {b}
  MaxRetries = 1
  Timeout = 1
  MaxTimer = 1
  MaxSets = 1
  MaxWire = 1
SPECIFICATION Spec
INVARIANTS ResolverKnowsItsOwn EventsInOrder
PROPERTY ResolvingEnds
CHECK_DEADLOCK FALSE
