SPECIFICATION FairSpec
CONSTANTS
  Subs = {s1, s2}
  Conns = {c1, c2}
  buffer_size = 2
  MaxBatch = 2
  MaxEvents = 4
CHECK_DEADLOCK FALSE
INVARIANTS LostOnlyByLag
PROPERTY CatchesUp
