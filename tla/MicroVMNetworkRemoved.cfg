CONSTANTS
  s1 = s1
  s2 = s2
  Group = {g1}
  Local = {}
  SetID = {s1, s2}
  Configs <- MCConfigs
  LastSubnet = 4
SPECIFICATION Spec
INVARIANT NoConflict
