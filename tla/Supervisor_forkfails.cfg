\* One task whose restart meets a fork() that fails.
SPECIFICATION LiveSpec
CONSTANTS
  N = 2
  Complete = {1, 2}
  Pids = {p1, p2}
  Signals = {"SIGCHLD"}
  OrigMask = {}
  ForkMayFail = TRUE
  Adopts = FALSE
  p1 = p1
  p2 = p2
PROPERTIES
  RestartedAutomatically
