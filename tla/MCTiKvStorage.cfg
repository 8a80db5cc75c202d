SPECIFICATION Spec
CONSTANTS
  d1 = d1
  a1 = a1
  a2 = a2
  ga = ga
  t1 = t1
  t2 = t2
  Quads = {d1, a1, a2}
  NamedGraphs = {ga}
  DefaultGraph = DefaultGraph
  graph_name <- MCGraphName
  Txns = {t1, t2}
  BATCH_SIZE = 2
  MaxLostScans = 1
  MaxOps = 3
SYMMETRY Symmetry
INVARIANTS
  IndexesAgree
  QuadsHaveGraph
