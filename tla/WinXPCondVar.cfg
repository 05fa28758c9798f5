SPECIFICATION FairSpec
CONSTANTS
  Threads = {t1, t2, t3}
  NoThread = NoThread
  TimedThreads = {t1, t2}
  MaxWaits = 4
  MaxSignals = 2
CHECK_DEADLOCK FALSE
INVARIANTS TypeOK EventsAccounted WaiterIsReachable SpuriousOnlyAfterRace
PROPERTY PickedThreadReturns
