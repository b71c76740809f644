\* Once undefined bytes are used the model stops.
CHECK_DEADLOCK FALSE
CONSTANTS
  name1 = name1
  name2 = name2
  value1 = value1
  value2 = value2
  INODE_NUMBER = 3
  BLOCK_NUMBER = 5
  ENTRY_NUMBER = 1
  INDEX_SIZE = 2
  Names <- TwoNames
  Texts <- AllTexts
  MaxRecords = 6
SYMMETRY Symmetry
SPECIFICATION Spec
CONSTRAINT NotMisled
INVARIANTS
  TreeOK
  NoSharing
