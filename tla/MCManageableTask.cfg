SPECIFICATION FairSpec
CONSTANTS
  f1 = f1
  f2 = f2
  f3 = f3
  f4 = f4
  Futures <- MCFutures
INVARIANTS PromisesMatchState PausedFunctionIsHeld
PROPERTIES RequestsAreServed
