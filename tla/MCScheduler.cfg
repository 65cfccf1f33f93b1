CONSTANTS
  t1 = t1
  t2 = t2
  t3 = t3
  None = None
  MaxTasks = 3
  priorities = priorities
  delays = delays
  clearing = clearing
  destruction = destruction
  reactivation = reactivation
  Plans = {priorities, delays, clearing, destruction}
  Calls <- MCCalls
  Endless <- MCEndless
SPECIFICATION FairSpec
INVARIANTS ListsMatchTasks
PROPERTIES AnswersAreTrue CallsReturn
