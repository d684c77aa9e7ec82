CONSTANTS
  Consumers = {"logger"}
  Order <- MCOrder
  ModeOf <- MCModeOf
  Events = {"e1", "e2", "e3", "e4", "e5"}
  Subscribed <- MCSubscribed
  ContentOf <- MCContentOf
  QueueCap = 1
  PipeCap = 1
SPECIFICATION FairSpec
INVARIANTS
  DeliveredInOrder
  ProjectionRespected
  OfferedOrDiagnosed
  QuietShutdown
PROPERTIES
  ExitReported
  OffersComplete
