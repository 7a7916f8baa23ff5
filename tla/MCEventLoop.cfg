CONSTANTS
  MaxFd = 7
  Limit = 12
  Handle = {h1}
  Call = {c1}
  UsbHandle = usb
  NoHandle = NoHandle
  MaxUsb = 2
  MaxLeaks = 3
  MaxDepth = 2
SPECIFICATION MCSpec
INVARIANTS TypeOK TableConsistent OpenIsWatched
PROPERTY ReadyServed
