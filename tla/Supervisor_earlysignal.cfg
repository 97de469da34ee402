\* Two tasks; SIGTERM may come before the signals are masked.
SPECIFICATION Spec
CONSTANTS
  N = 2
  Complete = {1, 2}
  Pids = {p1, p2}
  Signals = {"SIGCHLD", "SIGTERM"}
  OrigMask = {}
  ForkMayFail = FALSE
  Adopts = FALSE
  p1 = p1
  p2 = p2
INVARIANTS
  NeverSleepsOnRequest
