CONSTANTS
  t1 = t1
  t2 = t2
  b1 = b1
  b2 = b2
  b3 = b3
  NoBlock = NoBlock
  Tasks = {t1, t2}
  Blocks = {b1, b2, b3}
  Home <- HomeUP
  NBUF = 2
  MaxHold <- HoldTwo
SPECIFICATION FairSpec
INVARIANTS OneBufferPerBlock HeldIsStable
PROPERTY OnlyOvertaken
