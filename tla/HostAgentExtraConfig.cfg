CONSTANTS
  f1 = f1
  f2 = f2
  m1 = m1
  CoreConfig = core
  OtherConfig = {}
  UserFile = {f1}
  Flavor <- MCFlavor
  Mode = {m1}
  Params <- MCExtraParams
  Existing = {core}
  MaxUpdates = 3
  MaxFailures = 0
  NoAgent = NoAgent
  Original = Original
  Stopped = Stopped
  NoFile = NoFile
  None = None
SPECIFICATION Spec
INVARIANT CoreConfigLoaded
CHECK_DEADLOCK FALSE
