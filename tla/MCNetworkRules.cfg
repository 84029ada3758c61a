CONSTANTS
  in4 = in4
  dns = dns
  tproxy = tproxy
  usb = usb
  Guards = {in4}
  Captures = {dns, tproxy}
  Interfaces = {usb}
  MaxAddr = 1
SPECIFICATION Spec
SYMMETRY Sym
INVARIANT LiveSlotsComplete
INVARIANT CaptureIsSafe
INVARIANT LeftoversAreMarked
INVARIANT ActiveIsTrue
INVARIANT SettledCover
PROPERTY SyncSettles
PROPERTY KeepsPromise
