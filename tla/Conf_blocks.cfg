\* Every text of at most two blocks with three arguments and two variables, on
\* vectors that grow by two: they grow within a block, at its end, and not at all.
SPECIFICATION Spec
CONSTANTS
  Names = {n1}
  Paths = {p1}
  Dirs = {d1}
  Args = {a1, a2}
  Envs = {e1}
  NULL = NULL
  Junk = Junk
  DefaultLen = 2
  AllocMayFail = TRUE
  MaxTasks = 2
  MaxArgs = 3
  MaxEnvs = 2
  n1 = n1
  p1 = p1
  d1 = d1
  a1 = a1
  a2 = a2
  e1 = e1
INVARIANTS
  TypeOK
  InBounds
  BuildsBlock
  ListFaithful
  ClosesWhatWasBuilt
