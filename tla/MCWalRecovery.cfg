\* Two column families, two flush threads, two crashes.
SPECIFICATION FairSpec
CONSTANTS
  dspo = dspo
  gspo = gspo
  j1 = j1
  j2 = j2
  NoJob = NoJob
  CFs <- MCCFs
  Writes <- MCWrites
  Loads <- MCLoads
  First <- MCFirst
  Jobs <- MCJobs
  MaxBatches = 4
  MaxCrashes = 2
  MaxFailures = 1
  MaxEvents = 6
INVARIANTS AllOrNothing RefusedOnlyUntrimmed
PROPERTIES RecoversPrefix NothingDurableLost FlushCompletes
ACTION_CONSTRAINT Canonical
