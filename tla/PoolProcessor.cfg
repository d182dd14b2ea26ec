SPECIFICATION MCSpec
CONSTANTS
  Networks = {"n1", "n2"}
  Configurations <- MCConfigurations
  JobCounts = {1, 2}
  MaxDispatch = 3
INVARIANTS TypeOK PlainJobsAreCounted StateFound DoneHasResults SettledOutput
PROPERTIES DoneIsNewest PlainResultsReachDone LatestResultArrives
CHECK_DEADLOCK FALSE
