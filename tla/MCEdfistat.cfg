CONSTANTS
  x = x  y = y  r1 = r1  r2 = r2  bad = bad  BadSection = BadSection
  None = None
  LogLevel = "info"
  ArgCounts = {3, 4}
  Refs = {r1, r2}
  MalformedTokens = {bad}
  MaxFiles = 4
  Sections <- MainSections
  LoadErrors = {BadSection}
  ActionNames <- AllActions
  OutSections = {"out", "default"}
  ReservedSections = {"default"}
  Builds = {FALSE}

SPECIFICATION Spec
CHECK_DEADLOCK FALSE

INVARIANT TypeOK
INVARIANT FailuresAccountedFor
INVARIANT ResultMatchesReference
INVARIANT NoTruncatedOutput
