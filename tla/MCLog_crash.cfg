CONSTANTS
  t1 = t1
  t2 = t2
  t3 = t3
  b1 = b1
  b2 = b2
  Tasks = {t1, t2}
  Blocks = {b1, b2}
  Vals = {0, 1}
  Home <- HomeSMP
  LOGSIZE = 4
  MAXOPBLOCKS = 2
  OpBlocks = 1
SPECIFICATION Spec
INVARIANTS  LogInv
PROPERTY ImplementsTxDisk
