SPECIFICATION Spec
CONSTANTS
  Desc = {d1}
  Buf = {b1, b2}
  ShortBuf = {}
  NoMdlBuf = {}
  Cpu = {c1}
  Reader = {r1}
  Ctl = ctl
  NoBuf = NoBuf
  NoDesc = NoDesc
  RetryMax = 2
  MaxWorkers = 2
  Ops = {"start", "stop", "close", "open", "remove"}
  Faults = {"listen", "enable"}
INVARIANTS BudgetPerStall
SYMMETRY Symmetry
CHECK_DEADLOCK FALSE
