SPECIFICATION FairSpec
CONSTANTS
  a1 = a1
  Addr = {a1}
  NoAddr = noAddr
  Loopback = loopback
  Transports = {"wifi"}
  MaxConnects = 1
  MaxFrames = 1
  MaxSilences = 1
  MaxSendFails = 0
  MaxStops = 0
PROPERTY FrameReturns
CHECK_DEADLOCK FALSE
