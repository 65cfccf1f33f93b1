CONSTANTS
  WeakMemory = FALSE
  MaxWaits = 3
  Owners = {"keeps", "drops", "none"}
SPECIFICATION FuturesSpec
INVARIANTS CallbackFiresOnce GetReturnsTheResult
PROPERTIES WaitEnds CallbackServesOnce ChainResolvesUnlessDropped
