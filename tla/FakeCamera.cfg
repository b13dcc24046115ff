SPECIFICATION Spec
CONSTANTS
  Modes = {0, 2}
  RingOf <- MCRingOf
  Fds = {1}
  Stride = 1
  QueueMax = 2
  HeaderMax = 1
  FrameWrap = 3
  MaxPulses = 2
  Faults = {"open", "map", "start", "dead", "stall"}
INVARIANTS FramesWhole AtMostOneStray
PROPERTIES LoopServesBoth
CHECK_DEADLOCK FALSE
