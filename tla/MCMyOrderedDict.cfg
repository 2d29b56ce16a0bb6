CONSTANTS
  k1 = k1  k2 = k2  k3 = k3
  v1 = v1  v2 = v2
  n1 = n1  n2 = n2  n3 = n3
  Keys <- MCKeys
  Values <- MCValues
  Nodes <- MCNodes
  None = None
  KeyError = KeyError
  Root = Root
  UpdateLen = 2

SPECIFICATION Spec

INVARIANT TypeOK
INVARIANT RingConsistent

PROPERTY ODSpec
INVARIANT CopiesPreserveOrder
