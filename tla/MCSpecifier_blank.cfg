CONSTANTS
  Names <- MCNames
  Pads <- MCPads
  MaxPairs = 2
  TrailingBlank = {FALSE, TRUE}
  LoadErrors = {"BadFilename"}
  None = None

SPECIFICATION Spec
CHECK_DEADLOCK FALSE

INVARIANT NoInvalidToken
