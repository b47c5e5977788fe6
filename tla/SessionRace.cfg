SPECIFICATION FairSpec
CONSTANTS
  a1 = a1
  Addr = {a1}
  NoAddr = noAddr
  Loopback = loopback
  Transports = {"wifi"}
  MaxConnects = 2
  MaxFrames = 1
  MaxSilences = 1
  MaxSendFails = 0
  MaxStops = 1
INVARIANT EncoderOwned
INVARIANT SessionEnds
PROPERTY DrainedBeforeReleased
PROPERTY CallsReturn
CHECK_DEADLOCK FALSE
