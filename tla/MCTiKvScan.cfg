SPECIFICATION FairSpec
CONSTANTS
  MaxByte = 2
  Keys <- MCKeys
  prefixes <- MCPrefixes
  batch_size = 2
  MaxCommits = 3
INVARIANTS
  NothingMissed
  OneState
PROPERTY
  ScanEnds
