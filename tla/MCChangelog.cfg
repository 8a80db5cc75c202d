SPECIFICATION FairSpec
CONSTANTS
  q1 = q1
  q2 = q2
  r1 = r1
  r2 = r2
  Quads <- MCQuads
  Requests = {r1, r2}
  Uploads <- MCUploads
  Transactions <- MCTransactions
  Updates <- MCUpdates
  retain = 1
  MAX_DIFF_STORE_SIZE = 2
  MAX_UNDOABLE_QUADS = 2
  MaxEntries = 3
  MaxCrashes = 1
ACTION_CONSTRAINTS Canonical RestartedAlone ClearsSome
CHECK_DEADLOCK FALSE
INVARIANTS OneEntryPerId EventsInOrder Retention
PROPERTIES OnlyPruningForgets UndoRevertsUpdates RequestsEnd
