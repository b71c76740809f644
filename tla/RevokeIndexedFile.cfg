CONSTANTS
  name1 = name1
  name2 = name2
  value1 = value1
  value2 = value2
  INODE_NUMBER = 3
  BLOCK_NUMBER = 5
  ENTRY_NUMBER = 2
  INDEX_SIZE = 2
  Names <- OneName
  Texts <- AllTexts
  MaxRecords = 8
SPECIFICATION Spec
INVARIANT FileTypesTrue
