SPECIFICATION Spec
CONSTANTS
  t1 = t1
  t2 = t2
  fx = fx
  fy = fy
  Tasks = {t1, t2}
  Files = {fx, fy}
  Mark <- Marks
  NDIRECT = 1
  BSIZE = 2
  SIZE = 6
  BPB = 4
  WRITE_CHUNK = 2
  Calls <- CallsEach
  MaxCalls <- MaxCallsEach
INVARIANTS OneOwner NoLeak
 
CHECK_DEADLOCK FALSE
