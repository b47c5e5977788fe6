SPECIFICATION FairSpec
CONSTANTS
  c1 = c1
  N = 2
  SlotCount = 2
  Contexts = {c1}
  None = none
  Vulkan = TRUE
  CallsFail = FALSE
  MaxDraws = 1
  MaxToggles = 1
INVARIANT SwapchainSafe
PROPERTY CopyNotReused
PROPERTY LatestImageShown
PROPERTY DestroySucceeds
CHECK_DEADLOCK FALSE
