SPECIFICATION ExperimentSpec
CONSTANTS
  Benchmarks <- MCBenchmarks
  Ratios = 4
  CPUs = 6
  Second = 1000000
  NumExp = 3
  Repetitions = 2
  MaxFailures = 2
CHECK_DEADLOCK FALSE
INVARIANTS PredictionsHold
PROPERTIES RunsEnd
