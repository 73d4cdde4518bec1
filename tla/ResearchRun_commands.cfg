SPECIFICATION FairSpec
CONSTANTS
  lead = lead
  wide = wide
  synth = synth
  Track <- MCTrack
  Wide <- MCWide
  NonDet <- MCNonDet
  Plans <- MCPlans
  MaxCommands = 3
  MaxFaults = 2
INVARIANTS
  DependenciesAreOnDisk
  AlarmsAreRight
  ReportWaitsForMappers
PROPERTIES
  ReplayKeepsTheOld
  EveryCommandEnds
CHECK_DEADLOCK FALSE
