SPECIFICATION Spec
CONSTANTS
  MaxByte = 3
  Keys <- MCKeys
  Prefixes <- MCPrefixes
  MaxCommits = 1
CHECK_DEADLOCK FALSE
INVARIANT OnlyMatches
