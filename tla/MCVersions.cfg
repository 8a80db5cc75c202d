SPECIFICATION FairSpec
CONSTANTS
  Keys = {1, 2, 3}
  MaxLevel = 2
  ExternalKeys = {{2}, {2, 3}}
  MaxWrites = 3
  MaxSnapshots = 1
  MaxIngestions = 1
  MaxFiles = 3
  MaxJobs = 2
ACTION_CONSTRAINTS Bounded
INVARIANTS SortedRuns CurrentReads SnapshotStable GetIsCurrent
PROPERTIES IngestionEnds
