SPECIFICATION TransportFairSpec
CONSTANTS
  Frames = 3
  KeySlice = 2
  PSlice = 2
  FecGroupSize = 2
  QueueCap = 2
  CacheSize = 3
  MaxRenderPoses = 2
  StartKeys = 1
  Transports = {TRUE, FALSE}
  StaleCache = FALSE
  NetCap = 1
  ControlCap = 1
  MaxLosses = 2
  MaxRefusals = 1
  MaxEncoderDrops = 1
INVARIANT TransportSafe
 
PROPERTY FreshFrameSent
PROPERTY RefusalAnswered
CHECK_DEADLOCK FALSE
