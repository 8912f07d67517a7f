CONSTANTS
  a = a
  MaxCtx = 3
  Syms <- MCSyms
  Atoms = {a}
  Wild = {}
  Quoted = {3}
  Unquoted <- MCUnquoted
  Split <- MCSplit
  Assigns <- MCAssigns
  Initial = 1
  Slack = 1
SPECIFICATION Spec
INVARIANT UsingCopies
PROPERTIES ImplementsScopes AssignmentSeen CallsReturn
