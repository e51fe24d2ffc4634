SPECIFICATION Spec
CONSTANTS
  init = init
  sh = sh
  bg = bg
  fg = fg
  Procs = {init, sh, bg}
  InitProc = init
  NPROC = 3
  Calls <- AllCalls
  Oom = {sh}
  None = None
INVARIANTS   NoForgottenZombie NoForgottenKill
CHECK_DEADLOCK FALSE
