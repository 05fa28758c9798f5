SPECIFICATION FairSpec
CONSTANTS
  Threads = {t1, t2}
  Events = {1, 2}
  Manual = {}
  NoThread = NoThread
  NoEvent = NoEvent
  MaxCalls = 4
  MaxSpurious = 1
CHECK_DEADLOCK FALSE
PROPERTY CallsReturn
