CONSTANTS
  s1 = s1
  s2 = s2
  Group = {g1, g2}
  Local = {g1, g2}
  SetID = {s1, s2}
  Configs <- MCConfigs
  LastSubnet = 4
SPECIFICATION FairSpec
INVARIANTS TypeOK SubnetsDistinct SerialNeverRefused
PROPERTY UpdateEnds
