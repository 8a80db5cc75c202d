SPECIFICATION FairSpec
CONSTANTS
  d1 = d1
  a1 = a1
  s1 = s1
  ga = ga
  gb = gb
  t1 = t1
  t2 = t2
  Quads = {d1, a1}
  StarQuads = {s1}
  rewritten <- MCRewritten
  NamedGraphs = {ga, gb}
  DefaultGraph = DefaultGraph
  graph_name <- MCGraphName
  Txns = {t1, t2}
  Readers = {r1}
  Batches <- MCBatches
  max_num_threads = 1
  BATCH_SIZE = 2
  MaxOps = 2
  MaxOpen = 2
  MaxCrashes = 1
ACTION_CONSTRAINTS Canonical Bounded
INVARIANTS StoreConsistent SnapshotsDecode ValidateSound LoadIsAtomic MigrationLosesNothing
PROPERTIES CallsEnd
