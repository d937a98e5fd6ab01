CONSTANTS
  Values <- MCValues
SPECIFICATION Spec
INVARIANTS ParsesField
PROPERTIES Parses
CHECK_DEADLOCK FALSE
