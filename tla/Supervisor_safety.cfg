\* Three tasks, one of which has no path, on three pids that foreign processes
\* use too: fork() can run out of them, and every pid is handed out again.
SPECIFICATION Spec
CONSTANTS
  N = 3
  Complete = {1, 2}
  Pids = {p1, p2, p3}
  Signals = {"SIGCHLD", "SIGTERM", "SIGQUIT", "SIGTTIN"}
  OrigMask = {}
  ForkMayFail = TRUE
  Adopts = TRUE
  p1 = p1
  p2 = p2
  p3 = p3
INVARIANTS
  TypeOK
  RegistryExact
  FindTaskCorrect
  OneProcessPerTask
  StatusTruthful
  NoLostChild
PROPERTIES
  KeepsPromiseSafely
  UsesIndexWell
