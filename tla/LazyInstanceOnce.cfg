SPECIFICATION EachSpec
CONSTANTS
  Readers = {t1, t2}
  Modulus = 4
  MaxWrites = 3
  A = A
  B = B
  C = C
  S = S
  Threads = {t1, t2}
  Stray = {t1}
  Main = Main
  Instances = {A, B, C, S}
  Uses <- UsesDef
  Leaky = {C}
  Static = {S}
  Free = Free
INVARIANT ConstructedOnce
CHECK_DEADLOCK FALSE
