CONSTANTS
  t1 = t1
  t2 = t2
  t3 = t3
  b1 = b1
  b2 = b2
  Tasks = {t1, t2, t3}
  Blocks = {b1}
  Vals = {0}
  Home <- HomeMixed
  LOGSIZE = 2
  MAXOPBLOCKS = 2
  OpBlocks = 1
SPECIFICATION FairSpec
PROPERTY OnlyOvertaken
