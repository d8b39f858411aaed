\* Three commits, a visitor; lost, late and killed commands.
CONSTANTS
  q1 = q1  None = None
  MaxCommit = 3
  Touches <- MCTouches
  Migration <- MCMigration
  Requests = {q1}
  MaxClock = 5
  MaxUploads = 3
SPECIFICATION Spec
INVARIANTS TypeOK OpenSiteFits BaselineWasChecked
PROPERTIES SiteSpec PointHasTheData FailureStaysClosed
