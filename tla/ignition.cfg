SPECIFICATION Spec
CONSTANTS
  MaxColonForm = 7
  MaxBracketed = 4
INVARIANTS LiteralEndpointKept ReadableEndpointKept OnlyLiteralsBecomeReadable StoredForGood
CHECK_DEADLOCK FALSE
