CONSTANTS
  Names <- MCNames
  Pads <- MCPads
  MaxPairs = 2
  TrailingBlank = {FALSE}
  LoadErrors = {"BadFilename"}
  None = None

SPECIFICATION Spec
CHECK_DEADLOCK FALSE

INVARIANT TypeOK
INVARIANT NoInvalidToken
INVARIANT LoadsWrittenPairs
