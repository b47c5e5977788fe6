SPECIFICATION FairSpec
CONSTANTS
  LinkSets = {{"wifi", "usb"}}
  Windows = {"probe"}
  MaxFaults = 2
  MaxResets = 0
  MaxSessions = 1
PROPERTY StallResets
CHECK_DEADLOCK FALSE
