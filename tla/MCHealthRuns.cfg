SPECIFICATION RunsSpec
CONSTANTS
  Runs = {r1, r2}
  NModels = 3
  Workers = 2
  StoredSweeps = {0, 1}
  MaxCrashes = 1
PROPERTIES RunsReportEveryModel StoredSweepIsKept
