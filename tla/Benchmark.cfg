CONSTANTS
  Benchmarks <- MCBenchmarks
  None = None
  Radix = 2
  MaxLaunches = 2
  MaxRequests = 3
  MaxGatewayStarts = 2
  MaxFailures = 3
SPECIFICATION FairSpec
INVARIANTS
  TypeOK
  OnlyAnEndStopsTheMonitor
  PluginRowsCountTheirRun
  SummaryRowsAreOfTheirRun
PROPERTY
  JobEnds
CHECK_DEADLOCK FALSE
