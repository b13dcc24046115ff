SPECIFICATION Spec
CONSTANTS
  Desc = {d1}
  Buf = {b1}
  ShortBuf = {}
  NoMdlBuf = {}
  Cpu = {c1}
  Reader = {r1}
  Ctl = ctl
  NoBuf = NoBuf
  NoDesc = NoDesc
  RetryMax = 0
  MaxWorkers = 1
  Ops = {"start", "cancel"}
  Faults = {"detach"}
PROPERTIES CancelResolved
