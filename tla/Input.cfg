SPECIFICATION FairSpec
CONSTANTS
  FrameXbox = TRUE
  Sets = {"game", "menu"}
  Actions = {"jump", "grab"}
  SetOf <- MCSetOf
  TypeOf <- MCTypeOf
  PathsOf <- MCPathsOf
  Lasting = {"grab", "game", "menu"}
  Groups <- MCGroups
  Suggestions <- MCSuggestions
  Required = {"touch", "hand"}
  Extensions = {"hand", "frame"}
  Api11 = FALSE
  Packets <- MCPackets
  Clients = {"quest2"}
  Devices <- MCDevices
  States <- MCStates
  Windows = {}
  MaxSessions = 1
  MaxCreated = 1
  MaxEvents = 1
INVARIANT InputSafe
INVARIANT SyncedValue
 
PROPERTY ChangeReported
 
CHECK_DEADLOCK FALSE
