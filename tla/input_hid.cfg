SPECIFICATION FairSpec
CONSTANT MaxStarts = 3
CHECK_DEADLOCK FALSE
INVARIANTS TypeOK ReaderIsFed NoInputAfterStop OrphanIsCancelled OneRunIsSafe
PROPERTIES StopReturns UnplugEndsReader
