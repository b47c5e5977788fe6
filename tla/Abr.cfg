SPECIFICATION FairSpec
CONSTANTS
  Modes = {"off", "bitrate", "full"}
  ConfigBitrate = 12
  Ceilings = {0, 8}
  ConfigScale = 100
  MinScale = 50
  EncodedSize <- MCEncodedSize
  Reports <- MCReports
  Wrap = 4
  Windows = {}
  MaxSessions = 2
  MaxEvents = 2
  MaxFailures = 1
 
INVARIANT EncoderFollows
PROPERTY RisesSlowly
PROPERTY Recovers
CHECK_DEADLOCK FALSE
