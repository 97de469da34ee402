\* Ten pids: the least number for which a fixup of a deletion climbs.
SPECIFICATION GrowSpec
CONSTANTS
  Size = 10
  Nodes <- MCNodes
  KeysOf <- MCKeysOf
  Nil = Nil
  NULL = NULL
INVARIANTS
  RedBlackTree
PROPERTIES
  KeepsIndex
