CONSTANTS
  k1 = k1
  k2 = k2
  o1 = o1
  ringA = ringA
  ringB = ringB
  Creators = {k1, k2}
  Openers = {o1}
  Layout <- MCLayout
  Bytes <- MCBytes
  None = None
  NamesLeft = TRUE
  Contention = FALSE
  HeaderBytes = 1
SPECIFICATION Spec
PROPERTY AdoptsBuiltRing
