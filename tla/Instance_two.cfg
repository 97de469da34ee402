\* Two invocations, one after the other or at the same time: a daemon, and one
\* in the foreground.
SPECIFICATION LiveSpec
CONSTANTS
  Invocations = {i1, i2}
  Foreground = {i2}
  TestConf = {}
  NoPid = NoPid
  NoFile = NoFile
  Garbled = Garbled
  i1 = i1
  i2 = i2
INVARIANTS
  TypeOK
  PidFileNamesMaster
  NoLitter
  NeverSilent
PROPERTIES
  HandlerFindsContext
  RequestEnds
