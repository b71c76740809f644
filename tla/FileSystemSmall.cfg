CONSTANTS
  name1 = name1
  name2 = name2
  value1 = value1
  value2 = value2
  INODE_NUMBER = 3
  BLOCK_NUMBER = 3
  ENTRY_NUMBER = 2
  INDEX_SIZE = 2
  Names <- TwoNames
  Texts <- OneText
  MaxRecords = 6
SYMMETRY Symmetry
SPECIFICATION Spec
INVARIANTS
  TypeOK
  TreeOK
  NoLeak
  Aligned
PROPERTY RevokeIsExact
