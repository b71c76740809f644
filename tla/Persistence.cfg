CONSTANTS
  c1 = c1
  c2 = c2
  old = old
  new = new
  k1 = k1
  latest = latest
  Cells <- TwoCells
  Values <- TwoValues
  Groups <- AllGroups
  Commands <- OneCommand
  Versions <- OneVersion
  MaxRecords = 4
  MayAbandon = TRUE
SYMMETRY Symmetry
SPECIFICATION DurableSpec
INVARIANTS
  DurableTypeOK
  OneHistory
PROPERTIES
  RestartIsAtomic
  RestartKeepsHistory
  LogStaysWithin
