\* Three threads and three calls: deferred writers, late arrivals and a second group.
SPECIFICATION FairSpec
CONSTANTS
  Writers <- MCWriters
  write_stall_dummy = write_stall_dummy
  NULL = NULL
  Sizes <- MCSizes
  max_size = 3
  MinParallelSize = 3
  Stride <- MCStride
  MaxCalls = 3
  MaxStalls = 1
  MaxFailures = 1
ACTION_CONSTRAINT Canonical
INVARIANTS NoDanglingWriter PublishedIsWhole
PROPERTIES WritesAreAtomic WritesReturn
