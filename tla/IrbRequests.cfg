SPECIFICATION Spec
CONSTANTS
  Req = {r1, r2}
  Run = {w1, w2}
  Srb = srb
  NoReq = NoReq
  Attempts = 2
INVARIANTS NoUseAfterFree NothingLeaks UnloadedIsQuiet
PROPERTIES SubmitReturns UninitializeReturns
CHECK_DEADLOCK FALSE
