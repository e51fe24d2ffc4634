CONSTANTS
  t1 = t1
  t2 = t2
  t3 = t3
  None = None
  Tasks = {t1, t2, t3}
  NUM = 6
  WRAP = 12
  Start = 10
  MaxCalls = 3
SPECIFICATION Spec
CHECK_DEADLOCK FALSE
INVARIANTS FinishedIsServed ChainsPartition NothingForgotten
