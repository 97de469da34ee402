\* bitzer -t -D.
SPECIFICATION Spec
CONSTANTS
  Invocations = {i1}
  Foreground = {i1}
  TestConf = {i1}
  NoPid = NoPid
  NoFile = NoFile
  Garbled = Garbled
  i1 = i1
INVARIANTS
  TestConfExits
