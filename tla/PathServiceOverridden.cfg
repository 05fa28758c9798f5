SPECIFICATION EachSpec
CONSTANTS
  FileExe = FileExe
  DirExe = DirExe
  AppDir = AppDir
  Threads = {t1, t2}
  Keys = {FileExe, DirExe, AppDir}
  Parent <- ParentDef
  Lenient <- LenientDef
  BaseKeys <- BaseKeysDef
  Paths = {p1, p2}
  Native = Native
  Dot = Dot
  MaxCalls = 3
  MaxChanges = 2
  FileKeys = {k1, k2}
  Data = {v}
  Marked = {k1}
  MaxTasks = 2
  PrefKeys = {k}
  PrefValues = {v1, v2}
  Members = {m1, m2}
  Profile = {m1}
  KeyOf <- KeyOfDef
  MaxPrefChanges = 3
  MaxDepth = 2
  MaxPosted = 1
INVARIANT OverrideIsServed
CHECK_DEADLOCK FALSE
