SPECIFICATION Spec
CONSTANTS
  Loops = {o, t}
  Bare = {b}
  Owner = o
  NULL = NULL
  OptionsUsed = {"until-full", "continuously"}
  Capacity = 2
  LocalSize = 2
  MaxEvents = 2
  MaxFlushes = 2
  MaxEnables = 2
PROPERTY CollectedIsFlushed
CHECK_DEADLOCK FALSE
