CONSTANTS
  MaxBatchEvents = 2
  MaxBatchBytes = 10
  MaxEventBytes = 10
  EventOverhead = 2
  ChannelCapacity = 2
  Sizes <- MixedSizes
  MaxLines = 2
  MaxEvents = 3
  RuntimeMayStop = TRUE
SPECIFICATION FairSpec
INVARIANTS ExactlyOneFate SilentLossOnlyAfterShutdown ShutdownDrains BatchesAreBounded
PROPERTIES ShutdownReturns EnqueuedIsPut
CHECK_DEADLOCK FALSE
