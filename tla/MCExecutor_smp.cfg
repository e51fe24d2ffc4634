CONSTANTS
  p1 = p1
  p2 = p2
  None = None
  Harts = {0, 1}
  Procs = {p1, p2}
  Leavers = {p2}
  Boot <- BootOne
  MaxSlot = 2
  MaxQueue = 2
SPECIFICATION FairSpec
INVARIANTS TrapIsQueued UserModeInTurn NoDanglingProc
PROPERTY TrapsHandled
