CONSTANTS
  VM <- MCVM
  VCpus <- MCVCpus
  Configs <- MCConfigs
  LastCpu = 2
  FirstPort = 1
  EndPort = 6
  Busy <- MCBusy
  Width = 4
  None = None
SPECIFICATION FairSpec
INVARIANTS TypeOK PinsSpread SingleSetStarts AddressesDistinct
PROPERTIES SameHost UpdateEnds
