SPECIFICATION FairEachSpec
CONSTANTS
  NumThreads = 3
  Repeats = {1, 2}
  MaxWork = 4
  MaxStarts = 2
  MaxTasks = 4
  MaxFailures = 1
CHECK_DEADLOCK FALSE
INVARIANTS TypesOK NobodySleepsOnWork WorkRunsOnce
PROPERTIES JoinAllFinishes AllWorkIsDone
