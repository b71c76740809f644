CONSTANTS
  c1 = c1
  c2 = c2
  old = old
  new = new
  k1 = k1
  latest = latest
  Cells <- TwoCells
  Values <- TwoValues
  Groups <- AllGroups
  Commands <- OneCommand
  Versions = {}
  MaxRecords = 3
  MayAbandon = FALSE
SYMMETRY Symmetry
SPECIFICATION DurableSpec
INVARIANT SystemIsCurrent
