SPECIFICATION FairEachSpec
CONSTANTS
  Readers = {t1, t2}
  Modulus = 4
  MaxWrites = 3
  A = A
  B = B
  C = C
  S = S
  Threads = {t1, t2, t3}
  Stray = {t1}
  Main = Main
  Instances = {A, B, C, S}
  Uses <- UsesDef
  Leaky = {C}
  Static = {S}
  Free = Free
INVARIANTS TypesOK AcceptedCopyIsWhole UsedIsBuilt ConstructedOnceIfRegistered
PROPERTIES ReadsComplete CallsReturn
CHECK_DEADLOCK FALSE
