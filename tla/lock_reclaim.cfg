CONSTANTS
  w1 = w1
  w2 = w2
  Writers = {w1, w2}
  Breakers <- BothBreak
  StaleAfter = 1
  MaxTime = 4
  AtomicPut = FALSE
  CrashUntil = 3
  MayOverrun = TRUE
SPECIFICATION RetrySpec
PROPERTY NeverLockedForGood
