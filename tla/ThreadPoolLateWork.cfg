SPECIFICATION EachSpec
CONSTANTS
  NumThreads = 2
  Repeats = {1, 2}
  MaxWork = 4
  MaxStarts = 2
  MaxTasks = 1
  MaxFailures = 1
CHECK_DEADLOCK FALSE
PROPERTY JoinAllEmptiesQueue
