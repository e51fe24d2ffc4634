SPECIFICATION Spec
CONSTANTS
  p1 = p1
  p2 = p2
  h1 = h1
  Procs = {p1, p2}
  Harts = {h1}
  Inherited <- InheritedEach
  Plans <- PlansEach
  CAP = 2
  COOKED_CAP = 1
INVARIANTS ParkedForReason ConsoleNotStuck AlarmScheduled Resumes
CHECK_DEADLOCK FALSE
