CONSTANTS
  t1 = t1
  t2 = t2
  Tasks = {t1, t2}
  Home <- HomeUP
  CAP = 1
  MaxLen = 1
  Calls = {"read", "write", "poll"}
  Modes = {TRUE, FALSE}
SPECIFICATION FairSpec
CHECK_DEADLOCK FALSE
 
PROPERTIES ReaderNotStuck WriterNotStuck KilledExits
