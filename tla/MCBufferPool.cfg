CONSTANTS
  zero = zero
  x = x
  PageSize = 2
  Octets = {zero, x}
  Zero = zero
  Written <- MCWritten
  NFrames = 2
  MaxPages = 3
SPECIFICATION FairSpec
INVARIANTS TypeOK OneFramePerPage
PROPERTIES ImplementsPageStore FlushSavesAll LoadReturns RetryMakesRoom
