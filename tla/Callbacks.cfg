SPECIFICATION EachSpec
CONSTANTS
  Threads = {home, t2, t3}
  Home = home
  Owner = Owner
  Handles = {h1, h2, h3, h4}
  Flags = {f1, f2, f3}
  NULL = NULL
  Observers = {f1, f2, f3}
  MaxSize = 5
  MaxDepth = 3
  Nodes = {h1, h2, h3, h4}
  None = None
  End = End
SYMMETRY Symmetry
INVARIANTS CountsAreReferences ValidMeansFresh TypesOK ListsOutliveLoops
PROPERTIES CallsWhomItOwes RunsWhomItOwes
CHECK_DEADLOCK FALSE
