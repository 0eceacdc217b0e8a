CONSTANTS
  Configs <- MCConfigs
  Nothing <- MCNothing
  Program <- MCProgram
  Scenario <- MCScenario
  Known <- MCKnown
  MaxUpdates = 2
  MaxStops = 1
  Small = 30
  Tiny = 6
SPECIFICATION MCSpec
INVARIANTS MetricsDefined
CHECK_DEADLOCK FALSE
