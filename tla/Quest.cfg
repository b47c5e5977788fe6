SPECIFICATION FairSpec
CONSTANTS
  LinkSets = {{"wifi"}, {"usb"}, {"wifi", "usb"}}
  Windows = {}
  MaxFaults = 1
  MaxResets = 1
  MaxSessions = 2
INVARIANT QuestSafe
PROPERTY ListensFirst
PROPERTY Recovers
PROPERTY ShutdownReturns
CHECK_DEADLOCK FALSE
