CONSTANTS
  tag = tag
  r1 = r1
  r2 = r2
  Records <- SomeRecords
  Tag <- tag
  MaxTop = 3
SPECIFICATION Spec
INVARIANT PointersOK
PROPERTY ImplementsUndoRedo
