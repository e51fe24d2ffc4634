SPECIFICATION Spec
CONSTANTS
  p1 = p1
  p2 = p2
  Procs = {p1, p2}
  Frames = {1, 2, 3, 4, 5, 6, 7, 8, 9, 10, 11, 12, 13, 14, 15}
  PGSIZE = 2
  FAN = 2
  LEVELS = 2
  IMAGE <- Program
  HEAP_MAX = 5
  MMAP_LOW = 3
  MMAP_TOP = 4
  STACK_PAGES = 1
  FILEVAL = 7
  Mark <- Marks
  Calls <- CallsEach
  Sizes = {1, 2}
  Stores = {1, 3}
INVARIANTS OneOwner NoFrameLeak TrapPages
 
CHECK_DEADLOCK FALSE
VIEW UpToFrames
