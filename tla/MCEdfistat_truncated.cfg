CONSTANTS
  x = x  y = y  r1 = r1  r2 = r2  bad = bad  BadSection = BadSection
  None = None
  LogLevel = "info"
  ArgCounts = {4}
  Refs = {r1, r2}
  MalformedTokens = {}
  MaxFiles = 2
  Sections <- MainSections
  LoadErrors = {BadSection}
  ActionNames = {"csv", "matlab", "root"}
  OutSections = {"out"}
  ReservedSections = {}
  Builds = {TRUE}

SPECIFICATION Spec
CHECK_DEADLOCK FALSE

INVARIANT NoTruncatedOutput
