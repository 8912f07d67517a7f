CONSTANTS
  Block = 5
  LenField = 2
  DigestLen = 2
  LenBase = 8
  MaxLen = 5
  Jobs <- MCJobs
  CoapNumbers <- MCCoapNumbers
  Boundary <- MCBoundary
  PartNames = {"f", "g"}
  OtherHeader = "other"
SPECIFICATION Spec
INVARIANTS FormsReadBack CompiledInOrder TextsInOrder HashSeesMessage RoundTrips StaysInside PartsAsSent
CHECK_DEADLOCK FALSE
