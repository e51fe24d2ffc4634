SPECIFICATION Spec
CONSTANTS
  p1 = p1
  p2 = p2
  reaper = reaper
  x = x
  y = y
  None = None
  Procs = {p1, p2}
  Reaper = reaper
  Home <- HomeUP
  Names = {x, y}
  Dir <- DirEach
  NINODES = 2
  NSLOTS = 2
  Calls <- OneRemover
  MaxQueue = 2
INVARIANTS SlotIsCurrent  
