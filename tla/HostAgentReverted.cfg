CONSTANTS
  f1 = f1
  f2 = f2
  m1 = m1
  CoreConfig = core
  OtherConfig = {}
  UserFile = {f1, f2}
  Flavor <- MCFlavor
  Mode = {m1}
  Params <- MCParams
  Existing = {core}
  MaxUpdates = 3
  MaxFailures = 1
  NoAgent = NoAgent
  Original = Original
  Stopped = Stopped
  NoFile = NoFile
  None = None
SPECIFICATION Spec
INVARIANT AgentRuns
CHECK_DEADLOCK FALSE
