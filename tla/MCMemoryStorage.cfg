CONSTANTS
  d1 = d1
  a1 = a1
  a = a
  dflt = dflt
  Quads <- MCQuads
  NamedGraphs <- MCNamedGraphs
  DefaultGraph <- dflt
  graph_name <- MCGraphName
  Readers = {r1}
  TransactionBase = 10
  MaxTransactions = 3
SPECIFICATION Spec
INVARIANTS QuadsHaveGraph NoResidue
PROPERTY ImplementsContract
