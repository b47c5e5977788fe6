SPECIFICATION FairSpec
CONSTANTS
  Sizes = {1, 2, 3}
  FirstSize = 3
  MaxRetries = 1
  MaxUpdates = 2
  MaxSessions = 2
  EncoderFails = TRUE
  DecoderFails = TRUE
INVARIANT ReconfigureSafe
INVARIANT InSync
PROPERTY SwapFits
PROPERTY PendingResolved
CHECK_DEADLOCK FALSE
