SPECIFICATION Spec
CONSTANTS
  Desc = {d1, d2}
  Buf = {b1, b2}
  ShortBuf = {}
  NoMdlBuf = {}
  Cpu = {c1, c2}
  Reader = {r1}
  Ctl = ctl
  NoBuf = NoBuf
  NoDesc = NoDesc
  RetryMax = 0
  MaxWorkers = 1
  Ops = {"start", "stop", "pause"}
  Faults = {}
INVARIANTS TypeOK OnePumper ListsPartition ReadyIsPumped
SYMMETRY Symmetry
