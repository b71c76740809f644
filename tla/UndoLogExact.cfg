CONSTANTS
  c1 = c1
  c2 = c2
  old = old
  new = new
  k1 = k1
  k2 = k2
  Cells <- TwoCells
  Values <- TwoValues
  Groups <- AllGroups
  Commands <- TwoCommands
  MaxRecords = 5
  MayAbandon = FALSE
SPECIFICATION FairSpec
INVARIANTS
  TypeOK
  LogMatchesTags
PROPERTIES
  ImplementsCheckpoints
  RevokeReturns
