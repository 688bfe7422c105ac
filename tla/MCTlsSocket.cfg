CONSTANTS
  None = None
  Capacity = 4
  HandshakeBuf = 2
  WriteBuf = 4
  Chunk = 2
  ReadLens = {1, 2}
  MaxSent <- MCMaxSent
  MaxConnects = 1
  MaxInits = 2
  Answers <- MCAnswers
SPECIFICATION FairSpec
INVARIANTS NothingLeft KeysMatch
PROPERTIES ImplementsStream ConnectionsEnd
CHECK_DEADLOCK FALSE
