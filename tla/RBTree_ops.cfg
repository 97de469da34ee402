\* Every order of insertions, deletions and look-ups of four pids.
SPECIFICATION LiveSpec
CONSTANTS
  Size = 4
  Nodes <- MCNodes
  KeysOf <- MCKeysOf
  Nil = Nil
  NULL = NULL
INVARIANTS
  TypeOK
  SearchTree
  OneViolation
  PointersValid
  FindMissesNothing
PROPERTIES
  KeepsIndex
  CallsReturn
