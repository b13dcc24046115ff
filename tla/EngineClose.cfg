SPECIFICATION Spec
CONSTANTS
  Desc = {d1}
  Buf = {b1, b2}
  ShortBuf = {}
  NoMdlBuf = {b2}
  Cpu = {c1}
  Reader = {r1}
  Ctl = ctl
  NoBuf = NoBuf
  NoDesc = NoDesc
  RetryMax = 0
  MaxWorkers = 1
  Ops = {"start", "stop", "close", "open", "remove", "flush"}
  Faults = {"detach", "free", "alloc", "listen", "enable"}
INVARIANTS NoMappedBufferReturned FreedIsUnreached HandleOutlivesIrps NoReadParkedWhenStopped SingleCompleter
PROPERTIES EnableOnlyListening
SYMMETRY Symmetry
CHECK_DEADLOCK FALSE
