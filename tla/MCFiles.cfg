SPECIFICATION Spec
CONSTANTS
  Paths <- MCPaths
  Inodes <- MCInodes
  Entry <- MCEntry
  Passwords <- MCPasswords
  Opts <- MCOpts
  Endpoints <- MCEndpoints
  MaxInclude = 2
  Request <- MCRequest
  Scripts <- MCScripts
  InitFs <- MCFs
  MaxSend = 2
  MaxPartners = 2
  MaxCuts = 1
  Cuttable = {"i1"}
INVARIANTS FilesAsSent NothingDangles OnlyAuthorized
PROPERTY TransferEnds
CHECK_DEADLOCK FALSE
