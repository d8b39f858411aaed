\* Pages of two guests; a millisecond has two ticks.
CONSTANTS
  w1 = w1
  None = None  Gone = Gone
  Rows = {1, 2, 3}
  Lists = {w1}
  Wedding = w1
  Of <- MCOf
  PageSize = 2
  Milli = 2
  MaxTime = 2
  MaxChanges = 2
SPECIFICATION Spec
INVARIANT ExportListsEveryGuest
CHECK_DEADLOCK FALSE
