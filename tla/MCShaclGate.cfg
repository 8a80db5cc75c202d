SPECIFICATION Spec
CONSTANTS
  a = a
  b = b
  entry = entry
  needs = needs
  excludes = excludes
  Quads <- MCQuads
  EntryQuads <- MCEntryQuads
  Shapes <- MCShapes
  Conforms <- MCConforms
  Requests = {r1, r2, r3}
  startMode = "enforce"
SYMMETRY RequestSymmetry
INVARIANTS AcceptedWritesConform
