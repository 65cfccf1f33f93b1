CONSTANTS
  p1 = p1
  p2 = p2
  r1 = r1
  r2 = r2
  c1 = c1
  c2 = c2
  c3 = c3
  i1 = i1
  i2 = i2
  k1 = k1
  n1 = n1
  Producers = {p1, p2}
  Readers = {r1, r2}
  Clients = {c1, c2, c3}
  Threads = {p1, p2, r1, r2, c1, c2, c3}
  Inputs = {i1, i2}
  Takers = {k1}
  Notifiers = {n1}
  Scenarios <- MCScenarios
  MaxValues = 2
  Values = {1, 2}
  Capacity = 2
  StreamScenarios <- MCStreamScenarios
  Operations <- MCOperations
  Marker <- MCMarker
  PortionSize = 2
  Unreads <- MCUnreads
  MaxCalls = 2
  RingSize = 3
  RingValues = {1, 2}
  MaxSpan = 5
SPECIFICATION FlowSpec
INVARIANTS EndIsFinal NoSleeperForgotten SeesEveryValue TakenOnce AnswersAreExact
PROPERTIES ReadersEnd OperationEnds RingIsAQueue
CHECK_DEADLOCK FALSE
