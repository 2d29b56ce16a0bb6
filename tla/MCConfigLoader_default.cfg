CONSTANTS
  RawKeys <- MCRawKeys
  Lower <- MCLower
  NameKey = "__name__"
  SectNames <- MCSectNames
  DefaultSect = "DEFAULT"
  Nums = {1, 2}
  Text = Text
  MaxLines = 4
  None = None

SPECIFICATION Spec
CHECK_DEADLOCK FALSE

INVARIANT DatasetIsSection
