SPECIFICATION FairSpec
CONSTANTS
  Batches <- MixedBatches
  MaxBatches = 3
CHECK_DEADLOCK FALSE
INVARIANTS
  MessagesAreKept
  CleanupIsAlone
  LoginIsAgreed
PROPERTIES
  LoginEnds
  LeavingEnds
  TerminationIsNoticed
