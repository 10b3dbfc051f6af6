CONSTANTS
  t1 = t1
  t2 = t2
  t3 = t3
  Threads <- MCThreads
  MaxWorkers = 1
  MaxDepth = 2
  Budgets <- MCBudgets
SPECIFICATION Spec
INVARIANTS WorkersAreCounted AnswersAreOwn NoWakeUpIsLost
PROPERTY CallsEnd
