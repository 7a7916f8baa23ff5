CONSTANTS
  Base = 12
  SOF_MARKER = 9
  Channels = {1, 2}
  FrameSize = 6
  Payloads <- SmallPayloads
  Fcs <- SmallFcs
  Noise = {3}
  MaxWrites = 3
SPECIFICATION Spec
INVARIANTS TypeOK GroundState
PROPERTIES ImplementsStreams
