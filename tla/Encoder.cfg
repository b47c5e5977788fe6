SPECIFICATION FairSpec
CONSTANTS
  f1 = f1
  f2 = f2
  Frame = {f1, f2}
  NoFrame = noFrame
  SlotCount = 2
  HelperModes = {TRUE, FALSE}
  MaxShutdowns = 2
INVARIANT EncoderSafe
PROPERTY DrainKept
PROPERTY HelperDeathReclaims
PROPERTY ShutdownReturns
CHECK_DEADLOCK FALSE
