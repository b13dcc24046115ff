SPECIFICATION Spec
CONSTANTS
  Handle = {h1}
  Event = {}
  Ring = 1
  Descs = 1
  Cpu = {c1}
  Ctl = Ctl
  NoHandle = NoHandle
  NoThread = NoThread
  Faults = {}
INVARIANTS ReleaseDisarms
CHECK_DEADLOCK FALSE
