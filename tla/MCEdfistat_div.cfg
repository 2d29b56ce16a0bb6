CONSTANTS
  x = x  y = y  r1 = r1  r2 = r2  bad = bad  BadSection = BadSection
  None = None
  LogLevel = "info"
  ArgCounts = {4}
  Refs = {r1, r2}
  MalformedTokens = {}
  MaxFiles = 3
  Sections <- MainSections
  LoadErrors = {BadSection}
  ActionNames = {"div"}
  OutSections = {"out"}
  ReservedSections = {}
  Builds = {FALSE}

SPECIFICATION Spec
CHECK_DEADLOCK FALSE

INVARIANT NoSpuriousFailure
