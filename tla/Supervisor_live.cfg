\* Two complete tasks and two pids: fork() never fails, so no task may be given
\* up.  Signals may come in while the master masks them and at any later step.
SPECIFICATION LiveSpec
CONSTANTS
  N = 2
  Complete = {1, 2}
  Pids = {p1, p2}
  Signals = {"SIGCHLD", "SIGTERM", "SIGQUIT"}
  OrigMask = {}
  ForkMayFail = FALSE
  Adopts = FALSE
  p1 = p1
  p2 = p2
PROPERTIES
  DeadAreReaped
  RequestHonoured
  KeepsPromise
