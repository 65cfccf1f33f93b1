CONSTANTS
  w1 = w1
  w2 = w2
  w3 = w3
  w4 = w4
  t1 = t1
  t2 = t2
  NoWork = NoWork
  Works <- MCWorks
  Threads <- MCThreads
SPECIFICATION FairSpec
INVARIANTS IdleIsToken
PROPERTIES ImplementsSequenceExecutor EveryWorkServed
