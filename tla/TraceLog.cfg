SPECIFICATION FairSpec
CONSTANTS
  Loops = {o, t}
  Bare = {b}
  Owner = o
  NULL = NULL
  OptionsUsed = {"until-full", "continuously"}
  Capacity = 2
  LocalSize = 2
  MaxEvents = 2
  MaxFlushes = 2
  MaxEnables = 2
INVARIANTS TypeOK NothingTwice
PROPERTIES FlushIsComplete FlushEnds
CHECK_DEADLOCK FALSE
