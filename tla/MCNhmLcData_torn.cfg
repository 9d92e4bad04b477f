SPECIFICATION FairSpec
CONSTANTS
  a = a
  b = b
  Names = {a, b}
  Strlen <- MCStrlen
  MaxWord = 2
  Histories <- MCHistories
  MaxLcCounts = {0, 1, 2}
INVARIANTS
  TypeOK
  StoredIsRead
  InventedAreAlike
PROPERTIES
  ReadingEnds
