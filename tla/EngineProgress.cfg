SPECIFICATION Spec
CONSTANTS
  Desc = {d1}
  Buf = {b1, b2}
  ShortBuf = {b2}
  NoMdlBuf = {}
  Cpu = {c1}
  Reader = {r1}
  Ctl = ctl
  NoBuf = NoBuf
  NoDesc = NoDesc
  RetryMax = 2
  MaxWorkers = 1
  Ops = {"start", "stop", "close"}
  Faults = {"detach"}
INVARIANTS BudgetPerStall
PROPERTIES MutexReleased StartFinished
CHECK_DEADLOCK FALSE
