SPECIFICATION Spec
CONSTANTS
  NBARRIER_THREADS = 2
  MaxFaults = 2
  MaxErrors = 2
  INT_MAX = 127
  HZ = 10
  NUMBER_OF_RUNS = 2
  Too_Small_Time = 1
  MaxTrials = 4
  StartCycles = {0, 100, 255}
  TrialCycles = {3, 20, 127, 128, 200, 255, 256, 300}
INVARIANTS
  PrintsExclusive
  NoneLeavesEarly
  QuietWhenDestroyed
  ReportRight
  ResultsRight
PROPERTIES
  SmpEnds
