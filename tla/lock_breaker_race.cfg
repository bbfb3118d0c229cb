CONSTANTS
  w1 = w1
  w2 = w2
  Writers = {w1, w2}
  Breakers <- BothBreak
  StaleAfter = 1
  MaxTime = 4
  AtomicPut = TRUE
  CrashUntil = 4
  MayOverrun = FALSE
SPECIFICATION Spec
PROPERTY OnlyStaleLocksBroken
