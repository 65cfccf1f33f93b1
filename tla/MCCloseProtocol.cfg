CONSTANTS
  work = work
  nested = nested
  post = post
  add2 = add2
  add3 = add3
  t1 = t1
  t2 = t2
  t3 = t3
  Nobody = Nobody
  Threads <- MCThreads
  Calls <- MCCalls
  Items <- MCItems
  On <- MCOn
  BlockLimit = 16777216
SPECIFICATION FairSpec
INVARIANTS BlocksAreCounted
PROPERTIES ImplementsCloseGate CloseTerminates
