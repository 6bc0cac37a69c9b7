SPECIFICATION Spec
CONSTANTS
  Keys <- MCKeys
  Values <- MCValues
  MaxLen = 24
INVARIANT EntriesHoldTheMap
CHECK_DEADLOCK FALSE
