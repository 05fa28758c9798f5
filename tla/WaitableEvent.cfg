SPECIFICATION EachSpec
CONSTANTS
  Threads = {t1, t2, t3}
  Events = {1, 2}
  Manual = {2}
  NoThread = NoThread
  NoEvent = NoEvent
  MaxCalls = 4
  MaxSpurious = 1
  Watchers = {w1, w2}
  Addresses = {a1, a2}
  NULL = NULL
  MaxWatches = 3
SYMMETRY Symmetry
CHECK_DEADLOCK FALSE
INVARIANTS TypesOK SetEventHasNoWaiter FireReachesLiveWaiter WatchersArePaired
PROPERTIES AbstractSpec StoppedIsSilent
