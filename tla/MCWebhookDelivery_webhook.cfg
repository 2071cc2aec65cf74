SPECIFICATION FairSpec
CONSTANTS
  Notifications = {"signed", "other", "ipn", "order", "invalid", "empty"}
  Form <- MCForm
  Production = TRUE
  ResignsRetries = TRUE
  MaxOutages = 2
INVARIANTS
  AcknowledgedIsDone
PROPERTIES
  DeferredIsProcessed
  UnverifiableStops
