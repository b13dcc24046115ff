SPECIFICATION Spec
CONSTANTS
  Cycle = 125
  MaxInterval = 100000000
  RateInterval <- MCRateInterval
  DefaultFrameTime = 33333
  Std <- MCStd
  NumF7 = 2
  RingMax = 4
  MaxModes = 3
  Speeds = {1}
  Channels = {1, 16}
  Kernels <- MCKernels
  Limits = {0, 4096, 45056}
  PageSize = 4096
  FallbackChunk = 1048576
  MaxChunks = 8
  Sizes <- MCSizes
  Intervals = {16667, 300000}
INVARIANTS
  StreamAgrees
  PacketNeverRefused
  PacketsFit
  SelectionUsable
  RateAsSet
  ReadBackAgrees
  NegotiatedHeld
CHECK_DEADLOCK FALSE
