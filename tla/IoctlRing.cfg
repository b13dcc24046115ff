SPECIFICATION Spec
CONSTANTS
  Handle = {h1, h2}
  Event = {e1}
  Ring = 2
  Descs = 2
  Cpu = {c1}
  Ctl = Ctl
  NoHandle = NoHandle
  NoThread = NoThread
  Faults = {"create", "lock", "start", "enable", "attach", "detach", "free", "register"}
SYMMETRY Symmetric
INVARIANTS LockedWhileInUse SlotAccounted FrameAccounted DeliveryMatchesCamera RingIsFed
CHECK_DEADLOCK FALSE
