\* Four clicks on a page, while there is one change.
CONSTANTS
  None = None  Gone = Gone  NoAnswer = NoAnswer
  Weddings = {8, 9}  First = 9
  Lists <- MCLists
  Rows = {1, 2, 3, 4, 5, 6, 7, 8, 9, 10, 11, 12, 13}
  Of <- MCOf
  FirstRows <- MCRows
  PageSize = 1
  Milli = 2
  MaxTime = 1
  MaxChanges = 1
  MaxActs = 4
SPECIFICATION Spec
INVARIANT ArchivedStaysHidden
CHECK_DEADLOCK FALSE
