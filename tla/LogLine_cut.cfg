\* A buffer of 4 bytes: texts that fail, are empty, and end before, at and after
\* the place where the line is cut; a handler that interrupts it anywhere.
SPECIFICATION Spec
CONSTANTS
  Size = 4
  Lengths = {0, 1, 2, 3, 4, 5}
INVARIANTS
  TypeOK
  LineWhole
  ErrnoKept
