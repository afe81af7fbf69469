CONSTANTS
  LastEvent = 2
  Workers = {w1, w2}
  Dispatchers = {w1}
  ClaimSize = 1
  MaxAttempts = 2
  JobAttempts = 2
  MaxStalls = 1
  NoWorker = NoWorker
  Clients = {1, 2}
  Versions = {1, 2}
  Valid = {1, 2}
  LastRow = 2
  SliceSize = 1
  Known = {}
  Debits = {1}
  Closing = {2}
  LastItem = 5
  MaxPages = 2
  PageSize = 3
  Target <- MCTarget
  Outgoing = {3}
  Unheld = {4}
  Foreign = {5}
  Late = {1, 5}
  Twice = {3}
  Refused = {}
  Flaky = {}
  MaxSyncs = 2
  MaxTroubles = 2
SPECIFICATION MCSpec
INVARIANTS DispatchedWasPublished PaidOnce CheckpointIsDurable
           CompletedLosesNothing CreatedIsExact OnlyConfirmedBytes
           CursorBehindWork ReportedSyncDelivered FeedPaysOnce
PROPERTIES CancelledIsFinal ImplementsContract EveryEventEnds QueuedImportsSettle
CHECK_DEADLOCK FALSE
