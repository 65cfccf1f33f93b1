CONSTANTS
  p = p
  c1 = c1
  c2 = c2
  h1 = h1
  h2 = h2
  w1 = w1
  w2 = w2
  t1 = t1
  t2 = t2
  t3 = t3
  worker = worker
  None = None
  alone = alone
  inline = inline
  tree = tree
  parentWork = parentWork
  childWork = childWork
  Contexts = {p, c1, c2}
  Parent <- MCParent
  Handlers = {h1, h2}
  Works = {w1, w2}
  Threads = {t1, t2, t3}
  Worker = worker
  Programs = {parentWork}
  Calls <- MCCalls
  Initial <- MCInitial
  OwnsExecutor <- MCOwnsExecutor
SPECIFICATION Spec
INVARIANT ClosingExcludesOthers
