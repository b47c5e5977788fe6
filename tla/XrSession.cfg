SPECIFICATION FairSpec
CONSTANTS
  c1 = c1
  Chains = {c1}
  MaxWaited = 2
INVARIANT SessionSafe
PROPERTY LegalTransitions
PROPERTY ExitReached
CHECK_DEADLOCK FALSE
