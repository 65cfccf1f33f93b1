CONSTANTS
  t1 = t1
  t2 = t2
  a1 = a1
  a2 = a2
  a3 = a3
  p1 = p1
  p2 = p2
  w1 = w1
  c1 = c1
  c2 = c2
  c3 = c3
  s1 = s1
  s2 = s2
  AllTimers = {t1, t2}
  TimerPlans <- MCTimerPlans
  Outcomes = {"continue", "stop", "throw", "close"}
  ItemCount = 3
  States = {"a", "b"}
  MaxSets = 2
  NoAssignment = NoAssignment
  Assignments = {a1, a2, a3}
  PropertyValues = {1, 2, 3}
  InitialValue = 1
  Appliers = {p1, p2}
  Waiters = {w1}
  CallContexts = {"A", "B"}
  MaxPushes = 3
  TcpConnects = {c1, c2}
  LocalConnects = {c3}
  Accepts = {s1, s2}
SPECIFICATION FairSpec
INVARIANTS NoOperationUsedAfterDelete LateAnswerIgnored AssignmentsAreKept CallsDoNotOverlap AllIsAnsweredOnce
PROPERTIES OperationsEnd KeepsPolling CallsAreAnswered
CHECK_DEADLOCK FALSE
