SPECIFICATION Spec
CONSTANTS
  Cycle = 125
  MaxInterval = 100000000
  RateInterval <- MCRateInterval
  DefaultFrameTime = 33333
  Std <- MCStd
  NumF7 = 4
  RingMax = 4
  MaxModes = 48
  Speeds = {2}
  Channels = {1}
  Kernels <- MCKernels
  Limits = {0, 4096, 45056}
  PageSize = 4096
  FallbackChunk = 1048576
  MaxChunks = 8
  Sizes <- MCOddSizes
  Intervals = {16667}
INVARIANT NegotiatedAligned
CHECK_DEADLOCK FALSE
