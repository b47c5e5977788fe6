SPECIFICATION Spec
CONSTANTS
  a1 = a1
  a2 = a2
  Addr = {a1, a2}
  NoAddr = noAddr
  Loopback = loopback
  Transports = {"wifi", "usb_adb"}
  MaxConnects = 2
  MaxFrames = 1
  MaxSilences = 0
  MaxSendFails = 1
  MaxStops = 1
INVARIANT ServerSafe
INVARIANT SessionServed
INVARIANT SessionRouted
PROPERTY NoTakeover
SYMMETRY Symmetry
CHECK_DEADLOCK FALSE
