SPECIFICATION Spec
CONSTANTS
  p1 = p1
  p2 = p2
  p3 = p3
  n1 = n1
  Procs = {p1, p2, p3}
  NOFILE = 3
  SOCK_BACKLOG_CAP = 1
  PIPE_CAP = 1
  Names = {n1}
  Inums = {1, 2}
  Files = {1, 2, 3, 4, 5, 6, 7, 8, 9}
  Listeners = {1, 2, 3}
  Conns = {1, 2, 3, 4}
  Plans <- PlansEach
INVARIANTS AccepterNotStuck PollerNotStuck
PROPERTIES StateSettled FailsCleanly
CHECK_DEADLOCK FALSE
