CONSTANTS
  Bytes <- MCBytes
  Greetings <- MCGreetings
  Requests <- MCRequests
  DomainLen = 1
  AppText <- MCAppText
  TargetText <- MCTargetText
SPECIFICATION Spec
INVARIANT TunnelHolds
PROPERTY TunnelSettles
CHECK_DEADLOCK FALSE
