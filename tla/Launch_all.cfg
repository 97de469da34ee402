\* Every subset of six descriptors open at the start, in the foreground or as a
\* daemon, with and without a dir; every system call may fail.
SPECIFICATION Spec
CONSTANTS
  NFds = 6
INVARIANTS
  TypeOK
  LogIsLog
  Detached
  ProgramStdio
  NoStray
  ProgramEnvironment
