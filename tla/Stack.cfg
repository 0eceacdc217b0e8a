CONSTANTS
  Configs <- MCConfigs
  Nothing <- MCNothing
  Program <- MCProgram
  Scenario <- MCScenario
  Known <- MCKnown
  MaxUpdates = 2
  MaxStops = 1
  Small = 16
  Tiny = 6
SPECIFICATION MCSpec
INVARIANTS TypeOK InPlace Served BuiltOnce PackagesSerial NothingLeft Destroyed
PROPERTIES OthersKept EveryUpdateEnds
CHECK_DEADLOCK FALSE
