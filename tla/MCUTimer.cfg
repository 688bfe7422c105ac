CONSTANTS
  k1 = k1
  k2 = k2
  b1 = b1
  b2 = b2
  b3 = b3
  Keys = {k1, k2}
  Blocks = {b1, b2, b3}
  Requests <- MCRequests
  RepeatInfinite <- MCRepeatInfinite
  Diffs <- MCDiffs
  MaxTime = 2
  MaxMailbox = 1
  MaxInits = 2
  ExpiryCap = 2
SPECIFICATION FairSpec
INVARIANTS TypeOK BlocksLinkedOnce AllOnSchedule
PROPERTIES ImplementsService OverdueIsServed
