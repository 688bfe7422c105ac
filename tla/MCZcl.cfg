CONSTANTS
  i1 = i1
  i2 = i2
  i3 = i3
  o1 = o1
  o2 = o2
  null = null
  None = None
  Bad = Bad
  MaxText = 3
  MaxLength = 5
  FileLists <- MCFileLists
  LowerCase <- MCLowerCase
  Items = {i1, i2, i3}
  PoolSize = 1
  Objects = {o1, o2}
  ObjectsUsed <- MCObjectsUsed
  DataTypesUsed <- MCTypesUsed
  ValuesOf <- MCValuesOf
  MaxFrames = 1
  Junk <- MCJunk
SYMMETRY ItemsAlike
SPECIFICATION Spec
INVARIANTS TypeOK SectionIsPlace EntriesComplete AttributesReadBack
PROPERTIES AttributesAreValues
