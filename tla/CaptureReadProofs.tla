------------------------- MODULE CaptureReadProofs -------------------------
(***************************************************************************)
(* Where the holder of the mutex can be, and what follows from it: the     *)
(* retry budget's use by the stall it belongs to; and the reads: that none *)
(* stays parked on a stopped pin, that each is in one place from its       *)
(* submission to its one completion, whatever fails; and that none waits   *)
(* beside a free descriptor, if no attach fails and no read is too short.  *)
(***************************************************************************)
EXTENDS CaptureEngineProofs

-----------------------------------------------------------------------------
(* Where the holder of the mutex can be.                                    *)

Stopping == {"isochStop", "claim", "drainWait"}
Shut == Stopping \cup {"settled", "drainCheck", "pumpIdle", "resume", "release", "unquarantine",
                       "allocate", "open", "drain", "destroy"}
Ending == {"stop", "close", "remove"}

(* The engine is closed for submits at every step of a teardown and of a     *)
(* start before its last, open where a listen is issued, and closed for good *)
(* once it is freed.                                                        *)
FlowInv ==
  /\ ctl \in Shut => draining
  /\ ctl \in {"quiesce", "listenWait", "listenIrb"} => ~draining
  /\ alive # "open" => draining /\ (ctl = "idle" \/ (ctl = "drain" /\ op = "closed"))
  /\ ctl \in {"rundown", "stop", "settled"} => op \in Ending
  /\ ctl = "shutdown" => op \in Ending \/ (op = "work" /\ draining)

(* The handle is there as long as anything can be asked on it.              *)
HandleInv ==
  ~draining \/ ctl \in Stopping \cup {"drainCheck", "pumpIdle", "resume", "open"} => "handle" \in held

ctrl == <<draining, held, ctl, op, alive>>
context == <<listening, busListening>>

(* What does not hold the mutex changes none of it.                         *)
Unheld ==
  \/ Client \/ FrontEnd \/ WorkDispatch \/ Bus
  \/ \E c \in Cpu : Completion(c)
  \/ \E t \in Thread : Pump(t)

LEMMA UnheldKeeps == Unheld => UNCHANGED <<ctrl, context>>
<1>1. Client \/ FrontEnd \/ WorkDispatch => UNCHANGED <<ctrl, context>>
  BY DEF Client, FrontEnd, BeginFlush, Cancel, Submit, NotifyCancel, Park, ReadPump, WorkDispatch,
         ctrl, context, busVars, runVars, resVars, ctlVars
<1>2. Bus => UNCHANGED <<ctrl, context>>
  BY DEF Bus, BusAttach, IsochCallback, AttachCompleteFrameDone, ctrl, context, busVars, runVars,
         resVars, ctlVars
<1>3. ASSUME NEW c \in Cpu, Completion(c) PROVE UNCHANGED <<ctrl, context>>
  BY <1>3 DEF Completion, AttachSignal, Deliver, DetachPump, IrpDone, IrpDoneTail, AttachFailed,
              AttachCompletePublish, DetachFailed, DetachComplete, ctrl, context, busVars, runVars,
              resVars, ctlVars
<1>4. ASSUME NEW t \in Thread, Pump(t) PROVE UNCHANGED <<ctrl, context>>
  BY <1>4 DEF Pump, LapBegin, LapClaim, LapAcquire, LapSkipNoMdl, LapPublish, LapDeliver, LapEnd,
              ctrl, context, busVars, runVars, resVars, ctlVars
<1> QED
  BY <1>1, <1>2, <1>3, <1>4 DEF Unheld

LEMMA FlowRequests ==
  ASSUME TypeOK, FlowInv, HandleInv, Requests \/ WorkBegin
  PROVE  FlowInv' /\ HandleInv'
<1> USE DEF FlowInv, HandleInv, Stopping, Shut, Ending, Enter
<1>1. CASE Run
  BY <1>1 DEF Run, Accepts, runVars, resVars, ctlVars
<1>2. CASE Stop
  BY <1>2 DEF Stop, Accepts, runVars, resVars
<1>3. CASE Pause
  BY <1>3 DEF Pause, Accepts, runVars, resVars, ctlVars
<1>4. CASE Close
  BY <1>4 DEF Close, Accepts, runVars, resVars
<1>5. CASE SurpriseRemoval
  BY <1>5 DEF SurpriseRemoval, runVars, resVars
<1>6. CASE Open
  BY <1>6 DEF Open, resVars
<1>7. CASE WorkBegin
  BY <1>7 DEF WorkBegin, runVars, resVars
<1> QED
  BY <1>1, <1>2, <1>3, <1>4, <1>5, <1>6, <1>7 DEF Requests

LEMMA FlowTeardown ==
  ASSUME TypeOK, FlowInv, HandleInv, Teardown
  PROVE  FlowInv' /\ HandleInv'
<1> USE DEF FlowInv, HandleInv, Stopping, Shut, Ending, Goto, Enter
<1>1. CASE Rundown
  BY <1>1 DEF Rundown, runVars, resVars
<1>2. CASE StopPublish
  BY <1>2 DEF StopPublish, runVars, resVars
<1>3. CASE StopSettled
  BY <1>3 DEF StopSettled, runVars, resVars
<1>4. CASE Shutdown
  BY <1>4 DEF Shutdown, runVars, resVars
<1>5. CASE QuiesceBegin
  BY <1>5 DEF QuiesceBegin, resVars
<1>6. CASE QuiesceStop
  BY <1>6 DEF QuiesceStop, resVars
<1>7. CASE QuiesceClaim
  BY <1>7 DEF QuiesceClaim, resVars, ctlVars
<1>8. CASE QuiesceClaimed
  BY <1>8 DEF QuiesceClaimed, runVars, resVars
<1>9. CASE QuiesceDrainWait
  BY <1>9 DEF QuiesceDrainWait, runVars, resVars
<1>10. CASE QuiesceDrained
  BY <1>10 DEF QuiesceDrained, runVars, resVars
<1>11. CASE QuiescePumpIdle
  BY <1>11 DEF QuiescePumpIdle, resVars
<1>12. CASE ReleaseIsoch
  BY <1>12 DEF ReleaseIsoch, AfterRelease
<1>13. CASE Unquarantine
  BY <1>13 DEF Unquarantine, AfterRelease, runVars, resVars
<1>14. CASE DrainReads
  BY <1>14 DEF DrainReads, runVars, resVars
<1>15. CASE Destroy
  BY <1>15 DEF Destroy, runVars
<1> QED
  BY <1>1, <1>2, <1>3, <1>4, <1>5, <1>6, <1>7, <1>8, <1>9, <1>10, <1>11, <1>12, <1>13, <1>14,
     <1>15 DEF Teardown

LEMMA FlowStartup ==
  ASSUME TypeOK, FlowInv, HandleInv, Startup \/ Worker
  PROVE  FlowInv' /\ HandleInv'
<1> USE DEF FlowInv, HandleInv, Stopping, Shut, Ending, Goto, Enter
<1>1. CASE Allocate
  BY <1>1 DEF Allocate, Resources, runVars
<1>2. CASE OpenEngine
  BY <1>2 DEF OpenEngine, resVars
<1>3. CASE ControlPump
  BY <1>3 DEF ControlPump, AfterPumpCall, runVars, resVars
<1>4. CASE ListenCheck
  BY <1>4 DEF ListenCheck, AfterListen, NoListenWanted, runVars, resVars
<1>5. CASE Listen
  BY <1>5 DEF Listen, AfterListen, resVars
<1>6. CASE SetIsochEnable
  BY <1>6 DEF SetIsochEnable, runVars, resVars
<1>7. CASE PublishRun
  BY <1>7 DEF PublishRun, runVars, resVars
<1>8. CASE WorkEnable \/ WorkRetry
  BY <1>8 DEF WorkEnable, WorkRetry, runVars, resVars
<1> QED
  BY <1>1, <1>2, <1>3, <1>4, <1>5, <1>6, <1>7, <1>8 DEF Startup, Worker

LEMMA FlowNext == TypeOK /\ FlowInv /\ HandleInv /\ [Next]_vars => FlowInv' /\ HandleInv'
<1> SUFFICES ASSUME TypeOK, FlowInv, HandleInv, [Next]_vars PROVE FlowInv' /\ HandleInv'
  OBVIOUS
<1>1. CASE UNCHANGED ctrl
  BY <1>1 DEF ctrl, FlowInv, HandleInv
<1>2. CASE UNCHANGED vars
  BY <1>1, <1>2 DEF vars, ctrl, runVars, resVars, ctlVars
<1> QED
  BY <1>1, <1>2, UnheldKeeps, FlowRequests, FlowTeardown, FlowStartup DEF Next, Unheld, Control

LEMMA FlowInit == Init => FlowInv /\ HandleInv
  BY DEF Init, FlowInv, HandleInv, Shut, Stopping

-----------------------------------------------------------------------------
(* The retry budget.                                                        *)

(* Where a start stands while it has the whole budget.                       *)
Fresh ==
  \/ ctl \in {"enable", "running"}
  \/ op = "start" /\ ctl \in {"pump", "pumping", "listen", "listenWait", "listenIrb"}

(* Where tries may be left from a stall that is over: in the run that ended  *)
(* it, and in a teardown on its way to close the context.                   *)
Resolving ==
  \/ ctl \in {"workEnable", "workRetry", "release"}
  \/ op \in Ending /\ ctl \in Stopping \cup {"quiesce", "drainCheck", "pumpIdle"}

BudgetInv ==
  /\ ctl = "idle" => op # "work"
  /\ ctl = "resume" => op = "work"
  /\ ctl = "allocate" => op = "start"
  /\ Fresh => retries = 0
  /\ retries # 0 /\ listening /\ ~enableWanted => Resolving
  /\ retries \notin {0, RetryMax} /\ alive = "open" =>
       workQueued \/ workers > 0 \/ op = "work"

(* What does not hold the mutex spends nothing, and may only ask for a run.  *)
LEMMA BudgetUnheld ==
  ASSUME TypeOK, Unheld
  PROVE  /\ UNCHANGED <<camVars, listening, ctl, op, alive>>
         /\ workQueued \/ workers > 0 => workQueued' \/ workers' > 0
<1>1. UNCHANGED <<listening, ctl, op, alive>>
  BY UnheldKeeps DEF context, ctrl
<1>2. CASE WorkDispatch
  <2>1. workers \in Nat
    BY Bounds DEF TypeOK, WorkTypeOK
  <2> QED
    BY <1>1, <1>2, <2>1 DEF WorkDispatch
<1>3. CASE Client \/ FrontEnd \/ Bus
  <2>1. CASE NotifyCancel
    BY <1>1, <2>1 DEF NotifyCancel
  <2>2. CASE Client \/ Bus \/ \E r \in Reader : Park(r) \/ ReadPump(r)
    <3>1. UNCHANGED <<camVars, workVars>>
      BY <2>2 DEF Client, BeginFlush, Cancel, Submit, Park, ReadPump, Bus, BusAttach, IsochCallback,
                  AttachCompleteFrameDone
    <3> QED
      BY <1>1, <3>1 DEF workVars
  <2> QED
    BY <1>3, <2>1, <2>2 DEF FrontEnd
<1>4. ASSUME NEW c \in Cpu, Completion(c)
      PROVE  UNCHANGED <<camVars, workers>> /\ (workQueued => workQueued')
  <2>1. CASE AttachSignal(c)
    BY <2>1 DEF AttachSignal
  <2>2. CASE Deliver(c) \/ DetachPump(c) \/ IrpDone(c) \/ IrpDoneTail(c)
    BY <2>2 DEF Deliver, DetachPump, IrpDone, IrpDoneTail, workVars
  <2>3. CASE \E d \in Desc : \/ AttachFailed(c, d) \/ AttachCompletePublish(c, d)
                             \/ DetachFailed(c, d) \/ DetachComplete(c, d)
    BY <2>3 DEF AttachFailed, AttachCompletePublish, DetachFailed, DetachComplete, workVars
  <2> QED
    BY <1>4, <2>1, <2>2, <2>3 DEF Completion
<1>5. ASSUME NEW t \in Thread, Pump(t) PROVE UNCHANGED <<camVars, workVars>>
  BY <1>5 DEF Pump, LapBegin, LapClaim, LapAcquire, LapSkipNoMdl, LapPublish, LapDeliver, LapEnd
<1>6. CASE \/ \E c \in Cpu : Completion(c)
           \/ \E t \in Thread : Pump(t)
  <2>1. UNCHANGED <<camVars, workers>> /\ (workQueued => workQueued')
    BY <1>4, <1>5, <1>6 DEF workVars
  <2> QED
    BY <1>1, <2>1
<1> QED
  BY <1>2, <1>3, <1>6 DEF Unheld

LEMMA BudgetRequests ==
  ASSUME BudgetInv, Requests \/ WorkBegin
  PROVE  BudgetInv'
<1> USE DEF BudgetInv, Fresh, Resolving, Stopping, Ending, Enter
<1>1. CASE Run
  BY <1>1 DEF Run, Accepts, runVars, camVars, workVars, ctlVars
<1>2. CASE Stop \/ Pause \/ Close
  BY <1>2 DEF Stop, Pause, Close, Accepts, runVars, camVars, workVars, ctlVars
<1>3. CASE SurpriseRemoval
  BY <1>3 DEF SurpriseRemoval, runVars, camVars, workVars
<1>4. CASE Open
  BY <1>4 DEF Open
<1>5. CASE WorkBegin
  BY <1>5 DEF WorkBegin, runVars, camVars
<1> QED
  BY <1>1, <1>2, <1>3, <1>4, <1>5 DEF Requests

LEMMA BudgetTeardown ==
  ASSUME FlowInv, BudgetInv, Teardown
  PROVE  BudgetInv'
<1> USE DEF BudgetInv, Fresh, Resolving, Stopping, Ending, Goto, Enter
<1>1. CASE Rundown \/ StopPublish \/ StopSettled
  BY <1>1 DEF Rundown, StopPublish, StopSettled, runVars, camVars, workVars
<1>2. CASE Shutdown
  BY <1>2 DEF Shutdown, FlowInv, runVars, workVars
<1>3. CASE QuiesceBegin \/ QuiesceStop
  BY <1>3 DEF QuiesceBegin, QuiesceStop, IsochStop, camVars, workVars
<1>4. CASE QuiesceClaim \/ QuiesceClaimed
  BY <1>4 DEF QuiesceClaim, QuiesceClaimed, runVars, camVars, workVars, ctlVars
<1>5. CASE QuiesceDrainWait \/ QuiesceDrained
  BY <1>5 DEF QuiesceDrainWait, QuiesceDrained, runVars, camVars, workVars
<1>6. CASE QuiescePumpIdle
  BY <1>6 DEF QuiescePumpIdle, camVars, workVars
<1>7. CASE ReleaseIsoch
  BY <1>7 DEF ReleaseIsoch, IsochStop, AfterRelease, camVars, workVars
<1>8. CASE Unquarantine
  BY <1>8 DEF Unquarantine, AfterRelease, runVars, camVars, workVars
<1>9. CASE DrainReads
  BY <1>9 DEF DrainReads, runVars, camVars, workVars
<1>10. CASE Destroy
  BY <1>10 DEF Destroy, runVars, camVars, workVars
<1> QED
  BY <1>1, <1>2, <1>3, <1>4, <1>5, <1>6, <1>7, <1>8, <1>9, <1>10 DEF Teardown

LEMMA BudgetStartup ==
  ASSUME TypeOK, BudgetInv, Startup \/ Worker
  PROVE  BudgetInv'
<1> USE DEF BudgetInv, Fresh, Resolving, Stopping, Ending, Goto, Enter
<1>1. CASE Allocate
  BY <1>1 DEF Allocate, runVars, camVars, workVars
<1>2. CASE OpenEngine
  BY <1>2 DEF OpenEngine
<1>3. CASE ControlPump
  BY <1>3 DEF ControlPump, AfterPumpCall, runVars, camVars, workVars
<1>4. CASE ListenCheck
  BY <1>4 DEF ListenCheck, AfterListen, runVars, camVars, workVars
<1>5. CASE Listen
  BY <1>5 DEF Listen, AfterListen, camVars, workVars
<1>6. CASE SetIsochEnable \/ PublishRun
  BY <1>6 DEF SetIsochEnable, PublishRun, runVars, camVars, workVars
<1>7. CASE WorkEnable
  BY <1>7 DEF WorkEnable, runVars, workVars
<1>8. CASE WorkRetry
  <2>1. retries \in Nat /\ RetryMax \in Nat /\ retries <= RetryMax
    BY Bounds DEF TypeOK, CamTypeOK
  <2>2. /\ ctl = "workRetry" /\ ctl' = "idle" /\ op' = "none"
        /\ UNCHANGED <<listening, enableWanted, workers>>
    BY <1>8 DEF WorkRetry, runVars
  <2>3. CASE retries' = 0
    BY <2>2, <2>3
  <2>4. CASE /\ (~NoListenWanted \/ EnableReady) /\ MayRetry
             /\ retries' = retries + 1 /\ workQueued'
    BY <2>2, <2>4 DEF NoListenWanted, EnableReady
  <2>5. CASE (~NoListenWanted \/ EnableReady) /\ ~MayRetry /\ retries' = retries
    BY <2>1, <2>2, <2>5 DEF NoListenWanted, EnableReady, MayRetry
  <2> QED
    BY <1>8, <2>3, <2>4, <2>5 DEF WorkRetry, BudgetReset
<1> QED
  BY <1>1, <1>2, <1>3, <1>4, <1>5, <1>6, <1>7, <1>8 DEF Startup, Worker

LEMMA BudgetNext == TypeOK /\ FlowInv /\ BudgetInv /\ [Next]_vars => BudgetInv'
<1> SUFFICES ASSUME TypeOK, FlowInv, BudgetInv, [Next]_vars PROVE BudgetInv'
  OBVIOUS
<1>1. CASE Unheld
  BY <1>1, BudgetUnheld DEF BudgetInv, Fresh, Resolving, camVars
<1>2. CASE UNCHANGED vars
  BY <1>2 DEF vars, BudgetInv, Fresh, Resolving, runVars, camVars, workVars, ctlVars
<1> QED
  BY <1>1, <1>2, BudgetRequests, BudgetTeardown, BudgetStartup DEF Next, Unheld, Control

(* The control work item's tries are counted for one stall (work.c, "per      *)
(* stall, not per session"; the start's reset in capture.c): none is spent  *)
(* once the camera is enabled and listened to, and a stall with tries left  *)
(* has a run coming, for any budget, any faults and any transitions.        *)
THEOREM BudgetPerStallAlways == Spec => []BudgetPerStall
<1> DEFINE Inv == TypeOK /\ FlowInv /\ HandleInv /\ BudgetInv
<1>1. Init => Inv
  BY FlowInit, TypeInit DEF Init, BudgetInv, Fresh
<1>2. Inv /\ [Next]_vars => Inv'
  BY FlowNext, BudgetNext, TypeNext
<1>3. Inv => BudgetPerStall
  BY DEF BudgetInv, Resolving, Stopping, BudgetPerStall
<1> HIDE DEF Inv
<1> QED
  BY <1>1, <1>2, <1>3, PTL DEF Spec

-----------------------------------------------------------------------------
(* Parked reads.                                                            *)

(* A read parked on a stopped pin has a drain ahead of it in the transition  *)
(* that holds the mutex.                                                    *)
Draining ==
  \/ /\ op \in Ending
     /\ ctl \in Stopping \cup {"rundown", "stop", "settled", "shutdown", "quiesce", "drainCheck",
                               "pumpIdle", "release", "unquarantine", "drain"}
  \/ op = "work" /\ ctl \in {"release", "unquarantine", "drain"}

ParkInv == ready # <<>> /\ (streamState = "STOP" \/ removed) /\ alive = "open" => Draining

(* Only a read that may park lengthens the queue.                           *)
LEMMA UnheldReads ==
  ASSUME Unheld
  PROVE  /\ UNCHANGED <<streamState, removed>>
         /\ ready = <<>> /\ (streamState = "STOP" \/ removed) => ready' = <<>>
<1>1. CASE WorkDispatch \/ Bus
  BY <1>1 DEF WorkDispatch, Bus, BusAttach, IsochCallback, AttachCompleteFrameDone, readVars,
              frontVars
<1>2. CASE Client \/ NotifyCancel
  <2>1. CASE BeginFlush \/ NotifyCancel
    BY <2>1 DEF BeginFlush, NotifyCancel, readVars, frontVars
  <2>2. ASSUME NEW r \in Reader, NEW b, Submit(r, b) PROVE UNCHANGED <<streamState, removed, ready>>
    BY <2>2 DEF Submit
  <2>3. ASSUME NEW b, Cancel(b)
        PROVE  UNCHANGED <<streamState, removed>> /\ (ready = <<>> => ready' = <<>>)
    <3>1. ready = <<>> => DOMAIN ready = {}
      OBVIOUS
    <3> QED
      BY <2>3, <3>1 DEF Cancel
  <2> QED
    BY <1>2, <2>1, <2>2, <2>3 DEF Client
<1>3. ASSUME NEW r \in Reader, Park(r) \/ ReadPump(r)
      PROVE  /\ UNCHANGED <<streamState, removed>>
             /\ ready = <<>> /\ (streamState = "STOP" \/ removed) => ready' = <<>>
  BY <1>3 DEF Park, Refused, ReadPump, readVars, frontVars
<1>4. ASSUME NEW c \in Cpu, Completion(c)
      PROVE  UNCHANGED <<streamState, removed, ready>>
  BY <1>4 DEF Completion, AttachSignal, Deliver, DetachPump, IrpDone, IrpDoneTail, AttachFailed,
              AttachCompletePublish, DetachFailed, DetachComplete, readVars, frontVars
<1>5. ASSUME NEW t \in Thread, Pump(t)
      PROVE  UNCHANGED <<streamState, removed>> /\ (ready = <<>> => ready' = <<>>)
  BY <1>5 DEF Pump, LapBegin, LapClaim, LapAcquire, LapSkipNoMdl, LapPublish, LapDeliver, LapEnd,
              readVars, frontVars
<1> QED
  BY <1>1, <1>2, <1>3, <1>4, <1>5 DEF Unheld, FrontEnd

LEMMA ParkHeld ==
  ASSUME FlowInv, ParkInv, Control \/ Requests \/ WorkBegin
  PROVE  ParkInv'
<1> USE DEF ParkInv, Draining, Stopping, Ending, Goto, Enter
<1>1. CASE Requests \/ WorkBegin
  BY <1>1 DEF Requests, Run, Stop, Pause, Close, SurpriseRemoval, Open, WorkBegin, Accepts,
              readVars, frontVars, ctlVars
<1>2. CASE Rundown \/ StopPublish \/ StopSettled \/ Shutdown \/ QuiesceBegin
  BY <1>2 DEF Rundown, StopPublish, StopSettled, Shutdown, QuiesceBegin, FlowInv, readVars,
              frontVars
<1>3. CASE QuiesceStop \/ QuiesceClaimed \/ QuiesceDrainWait \/ QuiesceDrained
  BY <1>3 DEF QuiesceStop, QuiesceClaimed, QuiesceDrainWait, QuiesceDrained, readVars, frontVars
<1>4. CASE QuiesceClaim \/ QuiescePumpIdle
  BY <1>4 DEF QuiesceClaim, QuiescePumpIdle, readVars, frontVars, ctlVars
<1>5. CASE ReleaseIsoch \/ Unquarantine
  BY <1>5 DEF ReleaseIsoch, Unquarantine, AfterRelease, readVars, frontVars
<1>6. CASE DrainReads \/ Destroy
  BY <1>6 DEF DrainReads, Destroy, readVars, frontVars
<1>7. CASE Startup
  BY <1>7 DEF Startup, Allocate, OpenEngine, ControlPump, ListenCheck, Listen, SetIsochEnable,
              PublishRun, AfterPumpCall, AfterListen, readVars, frontVars
<1>8. CASE Worker
  BY <1>8 DEF Worker, WorkEnable, WorkRetry, readVars, frontVars
<1> QED
  BY <1>1, <1>2, <1>3, <1>4, <1>5, <1>6, <1>7, <1>8 DEF Control, Teardown

LEMMA ParkNext == FlowInv /\ ParkInv /\ [Next]_vars => ParkInv'
<1> SUFFICES ASSUME FlowInv, ParkInv, [Next]_vars PROVE ParkInv'
  OBVIOUS
<1>1. CASE Unheld
  BY <1>1, UnheldReads, UnheldKeeps DEF ParkInv, Draining, ctrl
<1>2. CASE UNCHANGED vars
  BY <1>2 DEF vars, ParkInv, Draining, readVars, frontVars, ctlVars
<1> QED
  BY <1>1, <1>2, ParkHeld DEF Next, Unheld

(* No read stays parked on a stopped or removed pin once the transition that *)
(* stopped it is over (read.c, the park and the drain of every stop), for    *)
(* any number of reads, transitions and faults.                             *)
THEOREM NoReadParkedAlways == Spec => []NoReadParkedWhenStopped
<1> DEFINE Inv == TypeOK /\ FlowInv /\ HandleInv /\ ParkInv
<1>1. Init => Inv
  BY FlowInit, TypeInit DEF Init, ParkInv
<1>2. Inv /\ [Next]_vars => Inv'
  BY FlowNext, ParkNext, TypeNext
<1>3. Inv => NoReadParkedWhenStopped
  BY DEF ParkInv, Draining, Stopping, NoReadParkedWhenStopped
<1> HIDE DEF Inv
<1> QED
  BY <1>1, <1>2, <1>3, PTL DEF Spec

-----------------------------------------------------------------------------
(* The line of parked reads.                                                *)

LEMMA LineTail ==
  ASSUME NEW S, NEW s \in Seq(S), s # <<>>, IsInjective(s)
  PROVE  IsInjective(Tail(s)) /\ ToSet(Tail(s)) = ToSet(s) \ {Head(s)} /\ Head(s) \in ToSet(s)
<1>1. /\ Len(s) \in Nat \ {0} /\ DOMAIN s = 1 .. Len(s)
      /\ DOMAIN Tail(s) = 1 .. Len(s) - 1 /\ Head(s) = s[1]
      /\ \A i \in 1 .. Len(s) - 1 : Tail(s)[i] = s[i + 1]
  BY LenProperties, EmptySeq, HeadTailProperties
<1>2. \A i, j \in 1 .. Len(s) : s[i] = s[j] => i = j
  BY <1>1 DEF IsInjective
<1>3. IsInjective(Tail(s))
  <2> SUFFICES ASSUME NEW i \in 1 .. Len(s) - 1, NEW j \in 1 .. Len(s) - 1, s[i + 1] = s[j + 1]
               PROVE  i = j
    BY <1>1 DEF IsInjective
  <2>1. i + 1 \in 1 .. Len(s) /\ j + 1 \in 1 .. Len(s)
    BY <1>1
  <2> QED
    BY <2>1, <1>2
<1>4. ASSUME NEW x \in ToSet(Tail(s)) PROVE x \in ToSet(s) \ {Head(s)}
  <2>1. PICK i \in 1 .. Len(s) - 1 : x = s[i + 1]
    BY <1>1, <1>4 DEF ToSet
  <2>2. i + 1 \in 1 .. Len(s) /\ 1 \in 1 .. Len(s) /\ i + 1 # 1
    BY <1>1
  <2> QED
    BY <2>1, <2>2, <1>1, <1>2 DEF ToSet
<1>5. ASSUME NEW x \in ToSet(s) \ {Head(s)} PROVE x \in ToSet(Tail(s))
  <2>1. PICK i \in 1 .. Len(s) : x = s[i] /\ i # 1
    BY <1>1, <1>5 DEF ToSet
  <2>2. i - 1 \in 1 .. Len(s) - 1 /\ Tail(s)[i - 1] = s[i]
    BY <2>1, <1>1
  <2> QED
    BY <2>1, <2>2, <1>1 DEF ToSet
<1>6. Head(s) \in ToSet(s)
  <2>1. 1 \in DOMAIN s
    BY <1>1
  <2> QED
    BY <1>1, <2>1 DEF ToSet
<1> QED
  BY <1>3, <1>4, <1>5, <1>6

LEMMA LineAppend ==
  ASSUME NEW S, NEW s \in Seq(S), NEW x \in S, x \notin ToSet(s), IsInjective(s)
  PROVE  IsInjective(Append(s, x)) /\ ToSet(Append(s, x)) = ToSet(s) \cup {x}
<1>1. /\ Len(s) \in Nat /\ DOMAIN s = 1 .. Len(s) /\ DOMAIN Append(s, x) = 1 .. Len(s) + 1
      /\ \A i \in 1 .. Len(s) : Append(s, x)[i] = s[i]
      /\ Append(s, x)[Len(s) + 1] = x
  BY LenProperties, AppendProperties
<1>2. \A i \in 1 .. Len(s) : s[i] # x
  BY <1>1 DEF ToSet
<1>3. \A i \in 1 .. Len(s) + 1 : i \in 1 .. Len(s) \/ i = Len(s) + 1
  BY <1>1
<1>4. Len(s) + 1 \in 1 .. Len(s) + 1 /\ \A i \in 1 .. Len(s) : i \in 1 .. Len(s) + 1
  BY <1>1
<1>5. IsInjective(Append(s, x))
  BY <1>1, <1>2, <1>3 DEF IsInjective
<1>6. \A y : y \in ToSet(Append(s, x)) <=> y \in ToSet(s) \/ y = x
  BY <1>1, <1>3, <1>4 DEF ToSet
<1> QED
  BY <1>5, <1>6

LEMMA LineRemove ==
  ASSUME NEW S, NEW s \in Seq(S), NEW k \in DOMAIN s, IsInjective(s)
  PROVE  IsInjective(RemoveAt(s, k)) /\ ToSet(RemoveAt(s, k)) = ToSet(s) \ {s[k]}
<1> DEFINE before == SubSeq(s, 1, k - 1)
           after  == SubSeq(s, k + 1, Len(s))
           less   == RemoveAt(s, k)
<1>1. /\ Len(s) \in Nat /\ DOMAIN s = 1 .. Len(s) /\ k \in 1 .. Len(s)
      /\ \A i \in 1 .. Len(s) : s[i] \in S
  BY LenProperties, ElementOfSeq
<1>2. /\ before \in Seq(S) /\ Len(before) = k - 1 /\ \A i \in 1 .. k - 1 : before[i] = s[i]
  <2>1. k - 1 \in Int /\ \A i \in 1 .. k - 1 : s[i] \in S
    BY <1>1
  <2> QED
    BY <2>1, <1>1, SubSeqProperties
<1>3. /\ after \in Seq(S) /\ Len(after) = Len(s) - k
      /\ \A i \in 1 .. Len(s) - k : after[i] = s[k + i]
  <2>1. k + 1 \in Int /\ Len(s) \in Int /\ \A i \in k + 1 .. Len(s) : s[i] \in S
    BY <1>1
  <2>2. /\ after \in Seq(S) /\ Len(after) = IF k + 1 <= Len(s) THEN Len(s) - (k + 1) + 1 ELSE 0
        /\ \A i \in 1 .. Len(s) - (k + 1) + 1 : after[i] = s[(k + 1) + i - 1]
    BY <2>1, SubSeqProperties
  <2> QED
    BY <2>2, <1>1
<1>4. /\ less \in Seq(S) /\ Len(less) = Len(s) - 1 /\ DOMAIN less = 1 .. Len(s) - 1
      /\ \A i \in 1 .. Len(s) - 1 : less[i] = IF i < k THEN s[i] ELSE s[i + 1]
  <2>1. /\ less \in Seq(S) /\ Len(less) = (k - 1) + (Len(s) - k)
        /\ \A i \in 1 .. (k - 1) + (Len(s) - k) :
             less[i] = IF i <= k - 1 THEN before[i] ELSE after[i - (k - 1)]
    <3>1. less = before \o after
      BY DEF RemoveAt
    <3> HIDE DEF before, after, less
    <3>2. /\ before \o after \in Seq(S) /\ Len(before \o after) = Len(before) + Len(after)
          /\ \A i \in 1 .. Len(before) + Len(after) :
               (before \o after)[i] = IF i <= Len(before) THEN before[i] ELSE after[i - Len(before)]
      BY <1>2, <1>3, ConcatProperties
    <3> QED
      BY <3>1, <3>2, <1>2, <1>3
  <2>2. ASSUME NEW i \in 1 .. Len(s) - 1 PROVE less[i] = IF i < k THEN s[i] ELSE s[i + 1]
    <3>1. CASE i < k
      BY <3>1, <2>1, <1>1, <1>2
    <3>2. CASE ~(i < k)
      <4>1. i - (k - 1) \in 1 .. Len(s) - k /\ k + (i - (k - 1)) = i + 1
        BY <3>2, <1>1
      <4>2. after[i - (k - 1)] = s[i + 1]
        BY <4>1, <1>3
      <4> QED
        BY <4>2, <3>2, <2>1, <1>1
    <3> QED
      BY <3>1, <3>2
  <2>3. Len(less) = Len(s) - 1
    BY <2>1, <1>1
  <2> QED
    BY <2>1, <2>2, <2>3, LenProperties
<1> HIDE DEF less
<1>5. \A i, j \in 1 .. Len(s) : s[i] = s[j] => i = j
  BY <1>1 DEF IsInjective
<1>6. IsInjective(less)
  <2> SUFFICES ASSUME NEW i \in 1 .. Len(s) - 1, NEW j \in 1 .. Len(s) - 1, less[i] = less[j]
               PROVE  i = j
    BY <1>4 DEF IsInjective
  <2>1. /\ i \in 1 .. Len(s) /\ i + 1 \in 1 .. Len(s)
        /\ j \in 1 .. Len(s) /\ j + 1 \in 1 .. Len(s)
    BY <1>1
  <2> QED
    BY <2>1, <1>1, <1>4, <1>5
<1>7. ASSUME NEW x \in ToSet(less) PROVE x \in ToSet(s) \ {s[k]}
  <2>1. PICK i \in 1 .. Len(s) - 1 : x = less[i]
    BY <1>4, <1>7 DEF ToSet
  <2>2. i \in 1 .. Len(s) /\ i + 1 \in 1 .. Len(s)
    BY <1>1
  <2>3. \E j \in 1 .. Len(s) : x = s[j] /\ j # k
    BY <2>1, <2>2, <1>1, <1>4
  <2> QED
    BY <2>3, <1>1, <1>5 DEF ToSet
<1>8. ASSUME NEW x \in ToSet(s) \ {s[k]} PROVE x \in ToSet(less)
  <2>1. PICK i \in 1 .. Len(s) : x = s[i] /\ i # k
    BY <1>1, <1>8 DEF ToSet
  <2>2. \E j \in 1 .. Len(s) - 1 : less[j] = s[i]
    <3>1. CASE i < k
      <4>1. i \in 1 .. Len(s) - 1 /\ less[i] = s[i]
        BY <3>1, <1>1, <1>4
      <4> QED
        BY <4>1
    <3>2. CASE i > k
      <4>1. i - 1 \in 1 .. Len(s) - 1 /\ ~(i - 1 < k) /\ (i - 1) + 1 = i
        BY <3>2, <1>1
      <4>2. less[i - 1] = s[i]
        BY <4>1, <1>4
      <4> QED
        BY <4>1, <4>2
    <3> QED
      BY <2>1, <1>1, <3>1, <3>2
  <2> QED
    BY <2>1, <2>2, <1>4 DEF ToSet
<1> QED
  BY <1>6, <1>7, <1>8 DEF less

-----------------------------------------------------------------------------
(* Who has a read: the line, the data thread that brings it, a lap, a        *)
(* descriptor, a completion routine.  x says which of them.                 *)

Holds(k, x, b) ==
  \/ k = "line" /\ x = "line" /\ b \in Parked
  \/ k = "reader" /\ x \in Reader /\ rdBuf[x] = b
  \/ k = "lap" /\ x \in Thread /\ lapBuf[x] = b
  \/ k = "desc" /\ x \in Desc /\ cookie[x] = b
  \/ k = "cpu" /\ x \in Cpu /\ cpuBuf[x] = b

(* One of them has each read that is out, none any other.                   *)
OneHolder ==
  \A b \in Buf :
    /\ b \in out <=> \E k, x : Holds(k, x, b)
    /\ \A k, x, l, y : Holds(k, x, b) /\ Holds(l, y, b) => k = l /\ x = y

(* A thread or a descriptor has a read exactly where it uses one.           *)
HandsInv ==
  /\ \A t \in Thread : lapBuf[t] \in Buf <=> lap[t] \in {"publish", "reject", "handBack"}
  /\ \A c \in Cpu : cpuBuf[c] \in Buf <=> cpu[c] \in {"deliverFailed", "deliverFrame"}
  /\ \A d \in Desc : cookie[d] \in Buf <=> fstate[d] # "Free"

(* The gate of the data path is shut before the engine goes, and what the    *)
(* close finds in line is gone when it ends.                                *)
GateInv ==
  /\ rundown /\ ctl # "rundown" => \A r \in Reader : rd[r] = "idle"
  /\ op = "close" \/ alive # "open" => rundown
  /\ ctl = "destroy" => op = "close"
  /\ ctl = "idle" => op # "close"
  /\ alive # "open" /\ ctl = "idle" => ready = <<>>

ReadInv == PoolInv /\ FlowInv /\ HandsInv /\ GateInv /\ IsInjective(ready) /\ OneHolder

(* What happens to a read: nothing, it comes, it changes hands, it is given  *)
(* back.                                                                    *)
LEMMA HeldAlike ==
  ASSUME OneHolder, out' = out, \A a \in Buf : \A m, z : Holds(m, z, a)' <=> Holds(m, z, a)
  PROVE  OneHolder'
  BY DEF OneHolder

LEMMA Arrives ==
  ASSUME OneHolder, NEW b \in Buf, NEW l, NEW y, out' = out \cup {b},
         \A a \in Buf : \A m, z :
           Holds(m, z, a)' <=> IF a = b THEN m = l /\ z = y ELSE Holds(m, z, a)
  PROVE  OneHolder'
  BY DEF OneHolder

LEMMA Handed ==
  ASSUME OneHolder, NEW b \in Buf, b \in out, NEW l, NEW y, out' = out,
         \A a \in Buf : \A m, z :
           Holds(m, z, a)' <=> IF a = b THEN m = l /\ z = y ELSE Holds(m, z, a)
  PROVE  OneHolder'
  BY DEF OneHolder

LEMMA GivenBack ==
  ASSUME OneHolder, NEW b \in Buf, out' = out \ {b},
         \A a \in Buf : \A m, z : Holds(m, z, a)' <=> a # b /\ Holds(m, z, a)
  PROVE  OneHolder'
  BY DEF OneHolder

hands == <<ready, rdBuf, lapBuf, cookie, cpuBuf>>

LEMMA HeldFrame ==
  ASSUME OneHolder, UNCHANGED hands, out' = out
  PROVE  OneHolder'
<1>1. \A m, z, a : Holds(m, z, a)' <=> Holds(m, z, a)
  BY DEF Holds, hands, Parked
<1> QED
  BY <1>1, HeldAlike

(* A thread that has no read steps on without one.                          *)
LEMMA LapEmpty ==
  ASSUME ReadInv, NEW t \in Thread, lapBuf[t] \notin Buf, lapBuf' = [lapBuf EXCEPT ![t] = NoBuf],
         UNCHANGED <<ready, rdBuf, cookie, cpuBuf, out>>
  PROVE  OneHolder'
<1>1. \A a \in Buf : \A m, z : Holds(m, z, a)' <=> Holds(m, z, a)
  BY ConstantsAssumption DEF Holds, Parked, ReadInv, PoolInv, TypeOK, PumpTypeOK
<1> QED
  BY <1>1, HeldAlike DEF ReadInv

LEMMA CpuEmpty ==
  ASSUME ReadInv, NEW c \in Cpu, cpuBuf[c] \notin Buf, cpuBuf' = [cpuBuf EXCEPT ![c] = NoBuf],
         UNCHANGED <<ready, rdBuf, cookie, out>>,
         UNCHANGED lapBuf \/ (lapBuf[c] \notin Buf /\ lapBuf' = [lapBuf EXCEPT ![c] = NoBuf])
  PROVE  OneHolder'
<1>1. c \in Thread
  BY DEF Thread
<1>2. \A a \in Buf : \A m, z : Holds(m, z, a)' <=> Holds(m, z, a)
  BY <1>1, ConstantsAssumption DEF Holds, Parked, ReadInv, PoolInv, TypeOK, PumpTypeOK, CpuTypeOK
<1> QED
  BY <1>2, HeldAlike DEF ReadInv

(* The first in line, and any other that leaves it.                         *)
LEMMA HeadLeaves ==
  ASSUME ReadInv, ready # <<>>, ready' = Tail(ready)
  PROVE  /\ Head(ready) \in Buf /\ Holds("line", "line", Head(ready)) /\ Head(ready) \in out
         /\ IsInjective(ready') /\ Parked' = Parked \ {Head(ready)}
<1>1. ready \in Seq(Buf) /\ IsInjective(ready)
  BY DEF ReadInv, PoolInv, TypeOK, ReadTypeOK
<1>2. Head(ready) \in Buf
  BY <1>1, HeadTailProperties
<1>3. IsInjective(ready') /\ Parked' = Parked \ {Head(ready)} /\ Head(ready) \in Parked
  BY <1>1, LineTail DEF Parked
<1>4. Holds("line", "line", Head(ready))
  BY <1>3 DEF Holds
<1> QED
  BY <1>2, <1>3, <1>4 DEF ReadInv, OneHolder

LEMMA LeavesBack ==
  ASSUME ReadInv, NEW b \in Buf, b \in Parked, Parked' = Parked \ {b}, Complete({b}),
         UNCHANGED <<rdBuf, lapBuf, cookie, cpuBuf>>
  PROVE  OneHolder'
<1>1. Holds("line", "line", b)
  BY DEF Holds
<1>2. \A m, z : Holds(m, z, b) => m = "line" /\ z = "line"
  BY <1>1 DEF ReadInv, OneHolder
<1>3. \A a \in Buf : \A m, z : Holds(m, z, a)' <=> a # b /\ Holds(m, z, a)
  BY <1>2 DEF Holds
<1> QED
  BY <1>3, GivenBack DEF ReadInv, Complete

Carrying == {"publish", "reject", "handBack"}
Delivering == {"deliverFailed", "deliverFrame"}

LEMMA LapHands ==
  ASSUME ReadInv, NEW t \in Thread, NEW pc, NEW d, NEW b, LapAt(t, pc, d, b),
         b \in Buf <=> pc \in Carrying, UNCHANGED <<fstate, cookie, cpu, cpuBuf>>
  PROVE  HandsInv'
  BY DEF LapAt, Carrying, ReadInv, HandsInv, PoolInv, TypeOK, PumpTypeOK

LEMMA CpuHands ==
  ASSUME ReadInv, NEW c \in Cpu, NEW pc, NEW b, CpuAt(c, pc, b),
         b \in Buf <=> pc \in Delivering,
         \A t \in Thread : lapBuf'[t] \in Buf <=> lap'[t] \in Carrying,
         \A d \in Desc : cookie'[d] \in Buf <=> fstate'[d] # "Free"
  PROVE  HandsInv'
  BY DEF CpuAt, Carrying, Delivering, ReadInv, HandsInv, PoolInv, TypeOK, CpuTypeOK

(* A call of the pump carries nothing.                                      *)
LEMMA HoldPumpCall ==
  ASSUME ReadInv, NEW t \in Thread, PumpCall(t)
  PROVE  /\ \A u \in Thread : lapBuf'[u] \in Buf <=> lap'[u] \in Carrying
         /\ UNCHANGED lapBuf \/ (lapBuf[t] \notin Buf /\ lapBuf' = [lapBuf EXCEPT ![t] = NoBuf])
<1>1. CASE pumpActive
  BY <1>1 DEF PumpCall, lapVars, ReadInv, HandsInv, Carrying
<1>2. CASE ~pumpActive
  <2>1. lap[t] = "none" /\ lapBuf[t] \notin Buf
    BY <1>2 DEF ReadInv, PoolInv, OnePumper, HandsInv
  <2> QED
    BY <1>2, <2>1, ConstantsAssumption
       DEF PumpCall, LapAt, Carrying, ReadInv, HandsInv, PoolInv, TypeOK, PumpTypeOK
<1> QED
  BY <1>1, <1>2

LEMMA HoldPump ==
  ASSUME ReadInv, NEW t \in Thread, Pump(t)
  PROVE  HandsInv' /\ IsInjective(ready)' /\ OneHolder'
<1> USE DEF ReadInv
<1>1. CASE LapBegin(t) \/ LapClaim(t) \/ LapEnd(t)
  <2>1. lapBuf[t] \notin Buf
    BY <1>1 DEF LapBegin, LapClaim, LapEnd, HandsInv
  <2>2. PICK pc, d : pc \notin Carrying /\ LapAt(t, pc, d, NoBuf)
    BY <1>1 DEF LapBegin, LapClaim, LapEnd, Carrying
  <2>3. UNCHANGED <<ready, rdBuf, cookie, fstate, cpu, cpuBuf, out>>
    BY <1>1 DEF LapBegin, LapClaim, LapEnd, descVars, readVars, frontVars, rdVars, cpuVars
  <2>4. HandsInv'
    BY <2>2, <2>3, LapHands, ConstantsAssumption DEF Carrying
  <2> QED
    BY <2>1, <2>2, <2>3, <2>4, LapEmpty DEF LapAt
<1>2. CASE LapAcquire(t) /\ ready = <<>>
  <2>1. /\ LapAt(t, "end", NoDesc, NoBuf) /\ lapBuf[t] \notin Buf
        /\ UNCHANGED <<ready, rdBuf, cookie, fstate, cpu, cpuBuf, out>>
    BY <1>2 DEF LapAcquire, frontVars, rdVars, cpuVars, HandsInv
  <2>2. HandsInv'
    BY <2>1, LapHands, ConstantsAssumption DEF Carrying
  <2> QED
    BY <2>1, <2>2, LapEmpty DEF LapAt
<1>3. CASE LapAcquire(t) /\ ready # <<>>
  <2>1. PICK b : b = Head(ready)
    OBVIOUS
  <2>2. PICK pc, d : pc \in Carrying /\ LapAt(t, pc, d, b)
    BY <1>3, <2>1 DEF LapAcquire, Carrying
  <2>3. b \in Buf /\ Holds("line", "line", b) /\ b \in out /\ Parked' = Parked \ {b}
    BY <1>3, <2>1, HeadLeaves DEF LapAcquire
  <2>4. IsInjective(ready)'
    BY <1>3, HeadLeaves DEF LapAcquire
  <2>5. lapBuf[t] \notin Buf /\ UNCHANGED <<rdBuf, cookie, fstate, cpu, cpuBuf, out>>
    BY <1>3 DEF LapAcquire, frontVars, rdVars, cpuVars, HandsInv
  <2>6. HandsInv'
    BY <2>2, <2>3, <2>5, LapHands DEF Carrying
  <2>7. lapBuf' = [lapBuf EXCEPT ![t] = b] /\ lapBuf \in [Thread -> Buf \cup {NoBuf}]
    BY <2>2 DEF LapAt, PoolInv, TypeOK, PumpTypeOK
  <2>8. \A m, z : Holds(m, z, b) => m = "line" /\ z = "line"
    BY <2>3 DEF OneHolder
  <2>9. \A a \in Buf : \A m, z :
          Holds(m, z, a)' <=> IF a = b THEN m = "lap" /\ z = t ELSE Holds(m, z, a)
    BY <2>3, <2>5, <2>7, <2>8 DEF Holds
  <2>10. OneHolder'
    BY <2>3, <2>5, <2>9, Handed
  <2> QED
    BY <2>4, <2>6, <2>10
<1>4. CASE LapSkipNoMdl(t)
  <2>1. /\ ready # <<>> /\ ready' = Tail(ready) /\ Complete({Head(ready)})
        /\ UNCHANGED <<fstate, lap, cpu, rdBuf, lapBuf, cookie, cpuBuf>>
    BY <1>4 DEF LapSkipNoMdl, descVars, pumpVars, lapVars, frontVars, rdVars, cpuVars
  <2>2. /\ Head(ready) \in Buf /\ Head(ready) \in Parked
        /\ IsInjective(ready') /\ Parked' = Parked \ {Head(ready)}
    BY <2>1, HeadLeaves DEF Holds
  <2>3. OneHolder'
    BY <2>1, <2>2, LeavesBack
  <2> QED
    BY <2>1, <2>2, <2>3 DEF HandsInv
<1>5. CASE LapPublish(t) /\ draining
  <2>1. /\ LapAt(t, "handBack", NoDesc, lapBuf[t]) /\ lapBuf[t] \in Buf
        /\ UNCHANGED <<ready, rdBuf, cookie, fstate, cpu, cpuBuf, out>>
    BY <1>5 DEF LapPublish, readVars, frontVars, rdVars, cpuVars, HandsInv
  <2>2. UNCHANGED lapBuf
    BY <2>1 DEF LapAt, PoolInv, TypeOK, PumpTypeOK
  <2> QED
    BY <2>1, <2>2, LapHands, HeldFrame DEF Carrying, hands
<1>6. CASE LapPublish(t) /\ ~draining
  <2> DEFINE d == lapDesc[t]
             b == lapBuf[t]
  <2>1. /\ b \in Buf /\ Holds("lap", t, b) /\ d \in Desc /\ fstate[d] = "Free" /\ cookie[d] \notin Buf
    <3>1. b \in Buf /\ lap[t] = "publish"
      BY <1>6 DEF LapPublish, HandsInv
    <3>2. d \in Desc /\ fstate[d] = "Free"
      BY <3>1, ElectedAlone DEF PoolInv, TypeOK, PumpTypeOK, ListsPartition
    <3> QED
      BY <3>1, <3>2 DEF HandsInv, Holds
  <2>2. /\ fstate' = [fstate EXCEPT ![d] = "Attaching"] /\ cookie' = [cookie EXCEPT ![d] = b]
        /\ lap' = [lap EXCEPT ![t] = "claim"] /\ lapBuf' = [lapBuf EXCEPT ![t] = NoBuf]
        /\ UNCHANGED <<ready, rdBuf, cpu, cpuBuf, out>>
    BY <1>6 DEF LapPublish, LapAt, readVars, frontVars, rdVars, cpuVars
  <2> HIDE DEF b, d
  <2>3. HandsInv'
    BY <2>1, <2>2, ConstantsAssumption DEF HandsInv, PoolInv, TypeOK, PumpTypeOK, DescTypeOK
  <2>4. b \in out /\ \A m, z : Holds(m, z, b) => m = "lap" /\ z = t
    BY <2>1 DEF OneHolder
  <2>5. b # NoBuf /\ NoBuf \notin Buf
    BY <2>1, ConstantsAssumption
  <2>6. \A a \in Buf : \A m, z :
          Holds(m, z, a)' <=> IF a = b THEN m = "desc" /\ z = d ELSE Holds(m, z, a)
    BY <2>1, <2>2, <2>4, <2>5 DEF Holds, Parked, PoolInv, TypeOK, PumpTypeOK, DescTypeOK
  <2> QED
    BY <2>1, <2>2, <2>3, <2>4, <2>6, Handed
<1>7. CASE LapDeliver(t)
  <2> DEFINE b == lapBuf[t]
  <2>1. b \in Buf /\ Holds("lap", t, b)
    BY <1>7 DEF LapDeliver, HandsInv, Holds
  <2>2. PICK pc \in {"claim", "end"} : LapAt(t, pc, NoDesc, NoBuf)
    BY <1>7 DEF LapDeliver
  <2>3. Complete({b}) /\ UNCHANGED <<ready, rdBuf, cookie, fstate, cpu, cpuBuf>>
    BY <1>7 DEF LapDeliver, descVars, frontVars, rdVars, cpuVars
  <2> HIDE DEF b
  <2>4. HandsInv'
    BY <2>2, <2>3, LapHands, ConstantsAssumption DEF Carrying
  <2>5. \A m, z : Holds(m, z, b) => m = "lap" /\ z = t
    BY <2>1 DEF OneHolder
  <2>6. \A a \in Buf : \A m, z : Holds(m, z, a)' <=> a # b /\ Holds(m, z, a)
    <3>1. lapBuf' = [lapBuf EXCEPT ![t] = NoBuf] /\ lapBuf[t] = b
      BY <2>2 DEF LapAt, b
    <3> QED
      BY <3>1, <2>3, <2>5, ConstantsAssumption DEF Holds, Parked, PoolInv, TypeOK, PumpTypeOK
  <2> QED
    BY <2>1, <2>3, <2>4, <2>6, GivenBack DEF Complete
<1> QED
  BY <1>1, <1>2, <1>3, <1>4, <1>5, <1>6, <1>7 DEF Pump

LEMMA HoldBus ==
  ASSUME ReadInv, Bus
  PROVE  HandsInv' /\ IsInjective(ready)' /\ OneHolder'
<1>1. UNCHANGED <<lap, cpu, ready, out, rdBuf, lapBuf, cookie, cpuBuf>>
  BY DEF Bus, BusAttach, IsochCallback, AttachCompleteFrameDone, descVars, pumpVars, lapVars,
         readVars, frontVars, rdVars, cpuVars
<1>2. \A d \in Desc : fstate'[d] = "Free" <=> fstate[d] = "Free"
  <2>1. \/ UNCHANGED fstate
        \/ \E d \in Desc : /\ fstate[d] \in {"Pending", "Attaching", "CompletedWhileAttaching"}
                           /\ \E f \in {"Detaching", "CompletedWhileAttaching"} :
                                fstate' = [fstate EXCEPT ![d] = f]
    BY DEF Bus, BusAttach, IsochCallback, AttachCompleteFrameDone, BeginDetach, descVars
  <2> QED
    BY <2>1 DEF ReadInv, PoolInv, TypeOK, DescTypeOK
<1>3. HandsInv' /\ IsInjective(ready)'
  BY <1>1, <1>2 DEF ReadInv, HandsInv
<1>4. UNCHANGED hands /\ out' = out
  BY <1>1 DEF hands
<1> QED
  BY <1>3, <1>4, HeldFrame DEF ReadInv

(* A completion takes a read from its descriptor.                           *)
LEMMA HoldTaken ==
  ASSUME ReadInv, NEW c \in Cpu, cpu[c] = "idle", NEW d \in Desc, fstate[d] # "Free",
         NEW pc \in Delivering, CpuAt(c, pc, cookie[d]), Recycle(d),
         UNCHANGED <<lap, ready, rdBuf, lapBuf, out>>
  PROVE  HandsInv' /\ OneHolder'
<1> USE DEF ReadInv
<1>1. PICK b : b = cookie[d]
  OBVIOUS
<1>2. b \in Buf /\ Holds("desc", d, b) /\ cpuBuf[c] \notin Buf
  BY <1>1 DEF HandsInv, Holds
<1>3. /\ cookie' = [cookie EXCEPT ![d] = NoBuf] /\ cookie \in [Desc -> Buf \cup {NoBuf}]
      /\ cpuBuf' = [cpuBuf EXCEPT ![c] = b] /\ cpuBuf \in [Cpu -> Buf \cup {NoBuf}]
  BY <1>1 DEF Recycle, CpuAt, PoolInv, TypeOK, DescTypeOK, CpuTypeOK
<1>4. HandsInv'
  <2>1. \A e \in Desc : cookie'[e] \in Buf <=> fstate'[e] # "Free"
    BY <1>3, ConstantsAssumption DEF Recycle, HandsInv, PoolInv, TypeOK, DescTypeOK
  <2>2. \A t \in Thread : lapBuf'[t] \in Buf <=> lap'[t] \in Carrying
    BY DEF HandsInv, Carrying
  <2>3. cookie[d] \in Buf
    BY <1>1, <1>2
  <2> QED
    BY <2>1, <2>2, <2>3, CpuHands
<1>5. b \in out /\ \A m, z : Holds(m, z, b) => m = "desc" /\ z = d
  BY <1>2 DEF OneHolder
<1>6. \A a \in Buf : \A m, z :
        Holds(m, z, a)' <=> IF a = b THEN m = "cpu" /\ z = c ELSE Holds(m, z, a)
  BY <1>1, <1>2, <1>3, <1>5, ConstantsAssumption DEF Holds, Parked
<1>7. OneHolder'
  BY <1>2, <1>5, <1>6, Handed
<1> QED
  BY <1>4, <1>7

LEMMA HoldCompletion ==
  ASSUME ReadInv, NEW c \in Cpu, Completion(c)
  PROVE  HandsInv' /\ IsInjective(ready)' /\ OneHolder'
<1> USE DEF ReadInv
<1>1. CASE AttachSignal(c) \/ IrpDone(c) \/ IrpDoneTail(c)
  <2>1. /\ UNCHANGED <<fstate, lap, ready, rdBuf, lapBuf, cookie, out>> /\ cpuBuf[c] \notin Buf
        /\ \E pc : pc \notin Delivering /\ CpuAt(c, pc, NoBuf)
    BY <1>1 DEF AttachSignal, IrpDone, IrpDoneTail, Delivering, HandsInv, descVars, pumpVars,
                lapVars, readVars, frontVars, rdVars
  <2>2. HandsInv'
    BY <2>1, CpuHands, ConstantsAssumption DEF HandsInv, Carrying
  <2>3. OneHolder'
    BY <2>1, CpuEmpty DEF CpuAt
  <2> QED
    BY <2>1, <2>2, <2>3
<1>2. CASE Deliver(c)
  <2>1. PICK b : b = cpuBuf[c]
    OBVIOUS
  <2>2. b \in Buf /\ Holds("cpu", c, b)
    BY <1>2, <2>1 DEF Deliver, HandsInv, Holds
  <2>3. /\ UNCHANGED <<fstate, lap, ready, rdBuf, lapBuf, cookie>> /\ Complete({b})
        /\ \E pc : pc \notin Delivering /\ CpuAt(c, pc, NoBuf)
    BY <1>2, <2>1 DEF Deliver, Delivering, descVars, pumpVars, lapVars, frontVars, rdVars
  <2>4. HandsInv'
    BY <2>3, CpuHands, ConstantsAssumption DEF HandsInv, Carrying
  <2>5. cpuBuf' = [cpuBuf EXCEPT ![c] = NoBuf] /\ cpuBuf \in [Cpu -> Buf \cup {NoBuf}]
    BY <2>3 DEF CpuAt, PoolInv, TypeOK, CpuTypeOK
  <2>6. \A m, z : Holds(m, z, b) => m = "cpu" /\ z = c
    BY <2>2 DEF OneHolder
  <2>7. \A a \in Buf : \A m, z : Holds(m, z, a)' <=> a # b /\ Holds(m, z, a)
    BY <2>1, <2>3, <2>5, <2>6, ConstantsAssumption DEF Holds, Parked
  <2>8. OneHolder'
    BY <2>2, <2>3, <2>7, GivenBack DEF Complete
  <2> QED
    BY <2>3, <2>4, <2>8
<1>3. CASE DetachPump(c)
  <2>1. UNCHANGED <<fstate, ready, rdBuf, cookie, out>> /\ cpuBuf[c] \notin Buf /\ c \in Thread
    BY <1>3 DEF DetachPump, HandsInv, descVars, readVars, frontVars, rdVars, Thread
  <2>2. \E pc : pc \notin Delivering /\ CpuAt(c, pc, NoBuf)
    BY <1>3 DEF DetachPump, Delivering, AfterPumpCall
  <2>3. /\ \A u \in Thread : lapBuf'[u] \in Buf <=> lap'[u] \in Carrying
        /\ UNCHANGED lapBuf \/ (lapBuf[c] \notin Buf /\ lapBuf' = [lapBuf EXCEPT ![c] = NoBuf])
    <3>1. CASE PumpCall(c)
      BY <2>1, <3>1, HoldPumpCall
    <3>2. CASE UNCHANGED pumpVars
      BY <3>2 DEF pumpVars, lapVars, HandsInv, Carrying
    <3> QED
      BY <1>3, <3>1, <3>2 DEF DetachPump
  <2>4. HandsInv'
    BY <2>1, <2>2, <2>3, CpuHands, ConstantsAssumption DEF HandsInv
  <2>5. OneHolder'
    BY <2>1, <2>2, <2>3, CpuEmpty DEF CpuAt
  <2> QED
    BY <2>1, <2>4, <2>5
<1>4. ASSUME NEW d \in Desc, AttachFailed(c, d) \/ DetachComplete(c, d)
      PROVE  HandsInv' /\ IsInjective(ready)' /\ OneHolder'
  <2>1. /\ fstate[d] # "Free" /\ cpu[c] = "idle" /\ Recycle(d)
        /\ UNCHANGED <<lap, ready, rdBuf, lapBuf, out>>
    BY <1>4 DEF AttachFailed, DetachComplete, PoolInv, IrpFollowsState, pumpVars, lapVars,
                readVars, frontVars, rdVars
  <2>2. \E pc \in Delivering : CpuAt(c, pc, cookie[d])
    BY <1>4 DEF AttachFailed, DetachComplete, Delivering
  <2>3. HandsInv' /\ OneHolder'
    BY <2>1, <2>2, HoldTaken
  <2> QED
    BY <2>1, <2>3
<1>5. ASSUME NEW d \in Desc, AttachCompletePublish(c, d) \/ DetachFailed(c, d)
      PROVE  HandsInv' /\ IsInjective(ready)' /\ OneHolder'
  <2>1. /\ fstate[d] # "Free" /\ cpuBuf[c] \notin Buf
        /\ \E f : f # "Free" /\ fstate' = [fstate EXCEPT ![d] = f]
        /\ UNCHANGED <<lap, ready, rdBuf, lapBuf, cookie, out>>
        /\ \E pc : pc \notin Delivering /\ CpuAt(c, pc, NoBuf)
    BY <1>5 DEF AttachCompletePublish, DetachFailed, PoolInv, IrpFollowsState, Delivering, HandsInv,
                pumpVars, lapVars, readVars, frontVars, rdVars
  <2>2. \A e \in Desc : cookie'[e] \in Buf <=> fstate'[e] # "Free"
    BY <2>1 DEF HandsInv, PoolInv, TypeOK, DescTypeOK
  <2>3. HandsInv'
    BY <2>1, <2>2, CpuHands, ConstantsAssumption DEF HandsInv, Carrying
  <2>4. OneHolder'
    BY <2>1, CpuEmpty DEF CpuAt
  <2> QED
    BY <2>1, <2>3, <2>4
<1> QED
  BY <1>1, <1>2, <1>3, <1>4, <1>5 DEF Completion

LEMMA HandsFrame ==
  ASSUME ReadInv, UNCHANGED <<fstate, lap, cpu, lapBuf, cookie, cpuBuf>>
  PROVE  HandsInv'
  BY DEF ReadInv, HandsInv

(* The first in line is given back.                                         *)
LEMMA HeadGivenBack ==
  ASSUME ReadInv, ready # <<>>, ready' = Tail(ready), Complete({Head(ready)}),
         UNCHANGED <<rdBuf, lapBuf, cookie, cpuBuf>>
  PROVE  IsInjective(ready)' /\ OneHolder'
<1>1. Head(ready) \in Buf /\ Head(ready) \in Parked /\ Parked' = Parked \ {Head(ready)}
  BY HeadLeaves DEF Holds
<1>2. IsInjective(ready)'
  BY HeadLeaves
<1> QED
  BY <1>1, <1>2, LeavesBack

LEMMA HoldReads ==
  ASSUME ReadInv, FrontEnd \/ Client
  PROVE  HandsInv' /\ IsInjective(ready)' /\ OneHolder'
<1> USE DEF ReadInv
<1>1. CASE NotifyCancel
  <2>1. UNCHANGED <<fstate, lap, cpu, ready, rdBuf, lapBuf, cookie, cpuBuf, out>>
    BY <1>1 DEF NotifyCancel, descVars, pumpVars, lapVars, readVars, rdVars, cpuVars
  <2> QED
    BY <2>1, HandsFrame, HeldFrame DEF hands
<1>2. CASE BeginFlush
  <2>1. /\ ready # <<>> /\ ready' = Tail(ready) /\ Complete({Head(ready)})
        /\ UNCHANGED <<fstate, lap, cpu, rdBuf, lapBuf, cookie, cpuBuf>>
    BY <1>2 DEF BeginFlush, descVars, pumpVars, lapVars, frontVars, rdVars, cpuVars
  <2> QED
    BY <2>1, HandsFrame, HeadGivenBack
<1>3. ASSUME NEW b \in Buf, Cancel(b) PROVE HandsInv' /\ IsInjective(ready)' /\ OneHolder'
  <2>1. UNCHANGED <<fstate, lap, cpu, rdBuf, lapBuf, cookie, cpuBuf>>
    BY <1>3 DEF Cancel, descVars, pumpVars, lapVars, frontVars, rdVars, cpuVars
  <2>2. CASE UNCHANGED <<ready, out>>
    BY <2>1, <2>2, HandsFrame, HeldFrame DEF hands
  <2>3. ASSUME NEW i \in DOMAIN ready, ready[i] = b, ready' = RemoveAt(ready, i), Complete({b})
        PROVE  HandsInv' /\ IsInjective(ready)' /\ OneHolder'
    <3>1. ready \in Seq(Buf)
      BY DEF PoolInv, TypeOK, ReadTypeOK
    <3>2. IsInjective(ready)' /\ Parked' = Parked \ {b}
      BY <3>1, <2>3, LineRemove DEF Parked
    <3>3. b \in Parked
      BY <2>3 DEF Parked, ToSet
    <3> QED
      BY <2>1, <2>3, <3>2, <3>3, HandsFrame, LeavesBack
  <2> QED
    BY <1>3, <2>2, <2>3 DEF Cancel
<1>4. ASSUME NEW r \in Reader, NEW b \in Buf, Submit(r, b)
      PROVE  HandsInv' /\ IsInjective(ready)' /\ OneHolder'
  <2>1. /\ rdBuf' = [rdBuf EXCEPT ![r] = b] /\ rdBuf \in [Reader -> Buf \cup {NoBuf}]
        /\ rdBuf[r] \notin Buf /\ b \notin out /\ out' = out \cup {b}
        /\ UNCHANGED <<fstate, lap, cpu, ready, lapBuf, cookie, cpuBuf>>
    BY <1>4 DEF Submit, ReaderAt, descVars, pumpVars, lapVars, cpuVars, PoolInv, TypeOK, FrontTypeOK
  <2>2. \A m, z : ~Holds(m, z, b)
    BY <2>1 DEF OneHolder
  <2>3. \A a \in Buf : \A m, z :
          Holds(m, z, a)' <=> IF a = b THEN m = "reader" /\ z = r ELSE Holds(m, z, a)
    BY <2>1, <2>2 DEF Holds, Parked
  <2>4. OneHolder'
    BY <2>1, <2>3 DEF OneHolder
  <2> QED
    BY <2>1, <2>4, HandsFrame
<1>5. ASSUME NEW r \in Reader, Park(r)
      PROVE  HandsInv' /\ IsInjective(ready)' /\ OneHolder'
  <2>1. PICK b : b = rdBuf[r]
    OBVIOUS
  <2>2. b \in Buf /\ Holds("reader", r, b)
    BY <1>5, <2>1 DEF Park, Holds, PoolInv, TypeOK, FrontTypeOK
  <2>3. b \in out /\ \A m, z : Holds(m, z, b) => m = "reader" /\ z = r
    BY <2>2 DEF OneHolder
  <2>4. /\ rdBuf' = [rdBuf EXCEPT ![r] = NoBuf] /\ rdBuf \in [Reader -> Buf \cup {NoBuf}]
        /\ UNCHANGED <<fstate, lap, cpu, lapBuf, cookie, cpuBuf>>
    BY <1>5 DEF Park, ReaderAt, descVars, pumpVars, lapVars, cpuVars, PoolInv, TypeOK, FrontTypeOK
  <2>5. CASE Complete({b}) /\ UNCHANGED ready
    <3>1. \A a \in Buf : \A m, z : Holds(m, z, a)' <=> a # b /\ Holds(m, z, a)
      BY <2>1, <2>2, <2>3, <2>4, <2>5, ConstantsAssumption DEF Holds, Parked
    <3>2. OneHolder'
      BY <2>2, <2>5, <3>1, GivenBack DEF Complete
    <3> QED
      BY <2>4, <2>5, <3>2, HandsFrame
  <2>6. CASE ready' = Append(ready, b) /\ out' = out
    <3>1. b \notin Parked
      BY <2>3 DEF Holds
    <3>2. ready \in Seq(Buf)
      BY DEF PoolInv, TypeOK, ReadTypeOK
    <3>3. IsInjective(ready)' /\ Parked' = Parked \cup {b}
      BY <2>2, <2>6, <3>1, <3>2, LineAppend DEF Parked
    <3>4. Parked' = Parked \cup {b} /\ b # NoBuf
      BY <2>2, <3>3, ConstantsAssumption
    <3>5. \A a \in Buf : \A m, z :
            Holds(m, z, a)' <=> IF a = b THEN m = "line" /\ z = "line" ELSE Holds(m, z, a)
      BY <2>1, <2>2, <2>3, <2>4, <3>4, ConstantsAssumption DEF Holds
    <3>6. out' = out
      BY <2>6
    <3>7. OneHolder'
      BY <2>2, <2>3, <3>5, <3>6 DEF OneHolder
    <3> QED
      BY <2>4, <3>3, <3>7, HandsFrame
  <2> QED
    BY <1>5, <2>1, <2>5, <2>6 DEF Park
<1>6. ASSUME NEW r \in Reader, ReadPump(r)
      PROVE  HandsInv' /\ IsInjective(ready)' /\ OneHolder'
  <2>1. /\ r \in Thread /\ rdBuf[r] \notin Buf /\ rdBuf' = [rdBuf EXCEPT ![r] = NoBuf]
        /\ rdBuf \in [Reader -> Buf \cup {NoBuf}] /\ lapBuf \in [Thread -> Buf \cup {NoBuf}]
        /\ UNCHANGED <<fstate, cpu, ready, cookie, cpuBuf, out>>
    BY <1>6 DEF ReadPump, ReaderAt, Thread, descVars, readVars, cpuVars, PoolInv, TypeOK,
                FrontTypeOK, PumpTypeOK
  <2>2. /\ \A u \in Thread : lapBuf'[u] \in Buf <=> lap'[u] \in Carrying
        /\ UNCHANGED lapBuf \/ (lapBuf[r] \notin Buf /\ lapBuf' = [lapBuf EXCEPT ![r] = NoBuf])
    <3>1. CASE PumpCall(r)
      BY <2>1, <3>1, HoldPumpCall
    <3>2. CASE UNCHANGED pumpVars
      BY <3>2 DEF pumpVars, lapVars, HandsInv, Carrying
    <3> QED
      BY <1>6, <3>1, <3>2 DEF ReadPump
  <2>3. HandsInv'
    BY <2>1, <2>2 DEF HandsInv, Carrying
  <2>4. \A a \in Buf : \A m, z : Holds(m, z, a)' <=> Holds(m, z, a)
    BY <2>1, <2>2, ConstantsAssumption DEF Holds, Parked
  <2> QED
    BY <2>1, <2>3, <2>4, HeldAlike
<1> QED
  BY <1>1, <1>2, <1>3, <1>4, <1>5, <1>6 DEF FrontEnd, Client

LEMMA HoldControl ==
  ASSUME ReadInv, Control \/ Requests \/ WorkBegin \/ WorkDispatch
  PROVE  HandsInv' /\ IsInjective(ready)' /\ OneHolder'
<1> USE DEF ReadInv
<1> DEFINE Alike == UNCHANGED <<fstate, lap, cpu, ready, rdBuf, lapBuf, cookie, cpuBuf, out>>
<1>1. ASSUME Alike PROVE HandsInv' /\ IsInjective(ready)' /\ OneHolder'
  BY <1>1, HandsFrame, HeldFrame DEF hands
<1>2. CASE Requests /\ ~Open
  BY <1>1, <1>2 DEF Requests, Run, Stop, Pause, Close, SurpriseRemoval, descVars, pumpVars, lapVars,
                    readVars, frontVars, rdVars, cpuVars
<1>3. CASE Open
  <2>1. ready = <<>>
    BY <1>3 DEF Open, GateInv
  <2> QED
    BY <1>1, <1>3, <2>1 DEF Open, descVars, pumpVars, lapVars, rdVars, cpuVars
<1>4. CASE WorkBegin \/ WorkDispatch \/ Worker
  BY <1>1, <1>4 DEF WorkBegin, WorkDispatch, Worker, WorkEnable, WorkRetry, descVars, pumpVars,
                    lapVars, readVars, frontVars, rdVars, cpuVars
<1>5. CASE Startup /\ ~ControlPump
  BY <1>1, <1>5 DEF Startup, Allocate, OpenEngine, ListenCheck, Listen, SetIsochEnable, PublishRun,
                    descVars, pumpVars, lapVars, readVars, frontVars, rdVars, cpuVars
<1>6. CASE ControlPump
  <2>1. UNCHANGED <<fstate, cpu, ready, rdBuf, cookie, cpuBuf, out>> /\ Ctl \in Thread
    BY <1>6 DEF ControlPump, descVars, readVars, frontVars, rdVars, cpuVars, Thread
  <2>2. CASE PumpCall(Ctl)
    <3>1. /\ \A u \in Thread : lapBuf'[u] \in Buf <=> lap'[u] \in Carrying
          /\ \/ UNCHANGED lapBuf
             \/ lapBuf[Ctl] \notin Buf /\ lapBuf' = [lapBuf EXCEPT ![Ctl] = NoBuf]
      BY <2>1, <2>2, HoldPumpCall
    <3>2. HandsInv'
      BY <2>1, <3>1 DEF HandsInv, Carrying
    <3> QED
      BY <2>1, <3>1, <3>2, LapEmpty, HeldFrame DEF hands
  <2> QED
    BY <1>1, <1>6, <2>1, <2>2 DEF ControlPump, pumpVars, lapVars
<1>7. CASE Teardown /\ ~(QuiesceClaim \/ Unquarantine \/ DrainReads)
  BY <1>1, <1>7 DEF Teardown, Rundown, StopPublish, StopSettled, Shutdown, QuiesceBegin, QuiesceStop,
                    QuiesceClaimed, QuiesceDrainWait, QuiesceDrained, QuiescePumpIdle, ReleaseIsoch,
                    Destroy, descVars, pumpVars, lapVars, readVars, frontVars, rdVars, cpuVars
<1>8. CASE QuiesceClaim
  <2>1. UNCHANGED <<lap, cpu, ready, rdBuf, lapBuf, cookie, cpuBuf, out>>
    BY <1>8 DEF QuiesceClaim, pumpVars, lapVars, readVars, frontVars, rdVars, cpuVars
  <2>2. \A d \in Desc : fstate'[d] = "Free" <=> fstate[d] = "Free"
    BY <1>8 DEF QuiesceClaim, BeginDetach, PoolInv, TypeOK, DescTypeOK
  <2> QED
    BY <2>1, <2>2, HeldFrame DEF hands, HandsInv
<1>9. CASE DrainReads
  <2>1. UNCHANGED <<fstate, lap, cpu, rdBuf, lapBuf, cookie, cpuBuf>>
    BY <1>9 DEF DrainReads, descVars, pumpVars, lapVars, frontVars, rdVars, cpuVars
  <2>2. \/ ready # <<>> /\ ready' = Tail(ready) /\ Complete({Head(ready)})
        \/ UNCHANGED <<ready, out>>
    BY <1>9 DEF DrainReads, readVars
  <2> QED
    BY <1>1, <2>1, <2>2, HandsFrame, HeadGivenBack
<1>10. CASE Unquarantine
  <2>1. UNCHANGED <<lap, cpu, ready, rdBuf, lapBuf, cpuBuf>>
    BY <1>10 DEF Unquarantine, pumpVars, lapVars, frontVars, rdVars, cpuVars
  <2>2. ASSUME NEW d \in Quarantined, Recycle(d), Complete({cookie[d]})
        PROVE  HandsInv' /\ OneHolder'
    <3>1. PICK b : b = cookie[d]
      OBVIOUS
    <3>2. d \in Desc /\ fstate[d] = "DetachFailed"
      BY <2>2 DEF Quarantined
    <3>3. b \in Buf /\ Holds("desc", d, b)
      BY <3>1, <3>2 DEF HandsInv, Holds
    <3>4. cookie' = [cookie EXCEPT ![d] = NoBuf] /\ cookie \in [Desc -> Buf \cup {NoBuf}]
      BY <2>2 DEF Recycle, PoolInv, TypeOK, DescTypeOK
    <3>5. HandsInv'
      BY <2>1, <2>2, <3>4, ConstantsAssumption DEF Recycle, HandsInv, PoolInv, TypeOK, DescTypeOK
    <3>6. \A m, z : Holds(m, z, b) => m = "desc" /\ z = d
      BY <3>3 DEF OneHolder
    <3>7. \A a \in Buf : \A m, z : Holds(m, z, a)' <=> a # b /\ Holds(m, z, a)
      BY <2>1, <3>1, <3>2, <3>4, <3>6, ConstantsAssumption DEF Holds, Parked
    <3>8. out' = out \ {b}
      BY <2>2, <3>1 DEF Complete
    <3>9. OneHolder'
      BY <3>3, <3>7, <3>8, GivenBack
    <3> QED
      BY <3>5, <3>9
  <2> QED
    BY <1>1, <1>10, <2>1, <2>2 DEF Unquarantine
<1> QED
  BY <1>2, <1>3, <1>4, <1>5, <1>6, <1>7, <1>8, <1>9, <1>10 DEF Control

LEMMA GateNext == TypeOK /\ FlowInv /\ GateInv /\ [Next]_vars => GateInv'
<1> SUFFICES ASSUME TypeOK, FlowInv, GateInv, [Next]_vars PROVE GateInv'
  OBVIOUS
<1> DEFINE Gate == <<rundown, alive, ctl, op, rd, ready>>
<1>1. CASE UNCHANGED Gate
  BY <1>1 DEF GateInv
<1>2. CASE Requests
  BY <1>2 DEF Requests, Run, Stop, Pause, Close, SurpriseRemoval, Open, Accepts, Enter, GateInv,
              readVars, frontVars, rdVars, ctlVars
<1>3. CASE WorkBegin \/ Worker
  BY <1>3 DEF WorkBegin, Worker, WorkEnable, WorkRetry, Goto, Enter, FlowInv, GateInv, readVars,
              frontVars, rdVars, ctlVars
<1>4. CASE Startup
  <2>1. UNCHANGED <<rundown, alive, rd, ready>> /\ alive = "open" /\ ctl \notin {"idle", "rundown"}
    BY <1>4 DEF Startup, Allocate, OpenEngine, ControlPump, ListenCheck, Listen, SetIsochEnable,
                PublishRun, FlowInv, readVars, frontVars, rdVars
  <2>2. ctl' \notin {"destroy", "rundown"} /\ op' \in {op, "none", "stop", "failed"}
        /\ (ctl' = "idle" => op' # "close")
    BY <1>4 DEF Startup, Allocate, OpenEngine, ControlPump, ListenCheck, Listen, SetIsochEnable,
                PublishRun, AfterPumpCall, AfterListen, Goto, Enter
  <2> QED
    BY <2>1, <2>2 DEF GateInv
<1>5. CASE Teardown
  <2>1. CASE Rundown
    BY <2>1 DEF Rundown, Goto, Enter, GateInv, readVars, frontVars, rdVars
  <2>2. CASE Destroy
    BY <2>2 DEF Destroy, Enter, GateInv, readVars, frontVars, rdVars
  <2>3. CASE DrainReads
    BY <2>3 DEF DrainReads, Goto, Enter, GateInv, readVars, frontVars, rdVars
  <2>4. CASE ReleaseIsoch \/ Unquarantine
    <3>1. UNCHANGED <<rundown, alive, rd, ready>> /\ ctl \notin {"idle", "rundown", "drain"}
      BY <2>4 DEF ReleaseIsoch, Unquarantine, readVars, frontVars, rdVars
    <3>2. /\ ctl' \in {"unquarantine", "allocate", "idle", "drain"}
          /\ op' = IF ctl' = "idle" THEN "none" ELSE op
      <4>1. CASE ReleaseIsoch
        <5>1. \E f \in BOOLEAN : Goto(IF MayDeliver(f) THEN "unquarantine" ELSE AfterRelease)
          BY <4>1 DEF ReleaseIsoch
        <5> QED
          BY <5>1 DEF AfterRelease, Goto, Enter
      <4>2. CASE Unquarantine
        BY <4>2 DEF Unquarantine, AfterRelease, Goto, Enter
      <4> QED
        BY <2>4, <4>1, <4>2
    <3> QED
      BY <3>1, <3>2 DEF GateInv, FlowInv
  <2>5. CASE Teardown /\ ~(Rundown \/ Destroy \/ DrainReads \/ ReleaseIsoch \/ Unquarantine)
    <3>1. /\ UNCHANGED <<rundown, alive, rd, ready, op>> /\ ctl \notin {"idle", "rundown"}
          /\ ctl' \notin {"idle", "rundown", "destroy"}
      BY <2>5 DEF Teardown, StopPublish, StopSettled, Shutdown, QuiesceBegin, QuiesceStop,
                  QuiesceClaim, QuiesceClaimed, QuiesceDrainWait, QuiesceDrained, QuiescePumpIdle,
                  Goto, Enter, readVars, frontVars, rdVars, ctlVars
    <3> QED
      BY <3>1 DEF GateInv
  <2> QED
    BY <1>5, <2>1, <2>2, <2>3, <2>4, <2>5
<1>6. CASE Bus \/ WorkDispatch
  <2>1. UNCHANGED Gate
    BY <1>6 DEF Bus, BusAttach, IsochCallback, AttachCompleteFrameDone, WorkDispatch, readVars,
                frontVars, rdVars, ctlVars
  <2> QED
    BY <1>1, <2>1
<1>7. ASSUME NEW c \in Cpu, Completion(c) PROVE GateInv'
  <2>1. UNCHANGED Gate
    BY <1>7 DEF Completion, AttachSignal, Deliver, DetachPump, IrpDone, IrpDoneTail, AttachFailed,
                AttachCompletePublish, DetachFailed, DetachComplete, readVars, frontVars, rdVars,
                ctlVars
  <2> QED
    BY <1>1, <2>1
<1>8. ASSUME NEW t \in Thread, Pump(t) PROVE GateInv'
  <2>1. UNCHANGED <<rundown, alive, ctl, op, rd>> /\ (ready = <<>> => ready' = <<>>)
    BY <1>8 DEF Pump, LapBegin, LapClaim, LapAcquire, LapSkipNoMdl, LapPublish, LapDeliver, LapEnd,
                readVars, frontVars, rdVars, ctlVars
  <2> QED
    BY <2>1 DEF GateInv
<1>9. CASE NotifyCancel \/ BeginFlush
  <2>1. UNCHANGED <<rundown, alive, ctl, op, rd>> /\ (ready = <<>> => ready' = <<>>)
    BY <1>9 DEF NotifyCancel, BeginFlush, readVars, frontVars, rdVars, ctlVars
  <2> QED
    BY <2>1 DEF GateInv
<1>10. ASSUME NEW b \in Buf, Cancel(b) PROVE GateInv'
  BY <1>10 DEF Cancel, GateInv, rdVars, ctlVars
<1>11. ASSUME NEW r \in Reader, Park(r) \/ ReadPump(r) \/ \E b \in Buf : Submit(r, b)
       PROVE  GateInv'
  <2>1. CASE ReadPump(r)
    <3>1. /\ UNCHANGED <<rundown, alive, ctl, op, ready>> /\ rd[r] # "idle"
          /\ \E pc : rd' = [rd EXCEPT ![r] = pc]
      BY <2>1 DEF ReadPump, ReaderAt, readVars, ctlVars
    <3> QED
      BY <3>1 DEF GateInv, TypeOK, FrontTypeOK
  <2>2. CASE Park(r)
    <3>1. /\ UNCHANGED <<rundown, alive, ctl, op>> /\ rd[r] # "idle"
          /\ \E pc : rd' = [rd EXCEPT ![r] = pc]
      BY <2>2 DEF Park, ReaderAt, ctlVars
    <3>2. alive = "open"
      BY <3>1 DEF GateInv, FlowInv
    <3> QED
      BY <3>1, <3>2 DEF GateInv
  <2>3. CASE \E b \in Buf : Submit(r, b)
    BY <2>3 DEF Submit, GateInv, ctlVars
  <2> QED
    BY <1>11, <2>1, <2>2, <2>3
<1>12. CASE UNCHANGED vars
  BY <1>1, <1>12 DEF vars, readVars, frontVars, rdVars, ctlVars
<1> QED
  BY <1>2, <1>3, <1>4, <1>5, <1>6, <1>7, <1>8, <1>9, <1>10, <1>11, <1>12
     DEF Next, Control, FrontEnd, Client

LEMMA ReadInit == Init => ReadInv
<1> SUFFICES ASSUME Init PROVE ReadInv
  OBVIOUS
<1>1. HandsInv /\ GateInv
  BY ConstantsAssumption DEF Init, HandsInv, GateInv
<1>2. IsInjective(ready)
  BY DEF Init, IsInjective
<1>3. OneHolder
  <2>1. Parked = {}
    BY DEF Init, Parked, ToSet
  <2>2. \A b \in Buf : \A k, x : ~Holds(k, x, b)
    BY <2>1, ConstantsAssumption DEF Init, Holds
  <2> QED
    BY <2>2 DEF Init, OneHolder
<1> QED
  BY <1>1, <1>2, <1>3, PoolInit, FlowInit DEF ReadInv

LEMMA ReadNext == ReadInv /\ HandleInv /\ [Next]_vars => ReadInv'
<1> SUFFICES ASSUME ReadInv, HandleInv, [Next]_vars PROVE ReadInv'
  OBVIOUS
<1>1. PoolInv' /\ FlowInv' /\ GateInv'
  BY PoolNext, FlowNext, GateNext DEF ReadInv, PoolInv
<1>2. CASE UNCHANGED vars
  <2>1. UNCHANGED <<fstate, lap, cpu, ready, rdBuf, lapBuf, cookie, cpuBuf, out>>
    BY <1>2 DEF vars, descVars, pumpVars, lapVars, readVars, frontVars, rdVars, cpuVars
  <2> QED
    BY <1>1, <2>1, HandsFrame, HeldFrame DEF ReadInv, hands
<1>3. CASE Next
  <2>1. HandsInv' /\ IsInjective(ready)' /\ OneHolder'
    BY <1>3, HoldPump, HoldBus, HoldCompletion, HoldReads, HoldControl DEF Next
  <2> QED
    BY <1>1, <2>1 DEF ReadInv
<1> QED
  BY <1>2, <1>3

LEMMA ReadAlways == Spec => [](ReadInv /\ HandleInv)
<1>1. Init => ReadInv /\ HandleInv
  BY ReadInit, FlowInit
<1>2. ReadInv /\ HandleInv /\ [Next]_vars => (ReadInv /\ HandleInv)'
  BY ReadNext, FlowNext DEF ReadInv, PoolInv
<1> QED
  BY <1>1, <1>2, PTL DEF Spec

(* How often a set's one element is counted.                                *)
LEMMA CountOne ==
  ASSUME NEW S, NEW x, S \subseteq {x}
  PROVE  Cardinality(S) = IF S = {} THEN 0 ELSE 1
<1>1. S = {} \/ S = {x}
  OBVIOUS
<1> QED
  BY <1>1, FS_EmptySet, FS_Singleton

(* Every read is in exactly one place from its submission to its one        *)
(* completion (the park of read.c, the single-completer handoff of pump.c), *)
(* for any number of reads, descriptors, threads and faults.                *)
THEOREM SingleCompleterAlways == Spec => []SingleCompleter
<1>1. ReadInv => SingleCompleter
  <2> SUFFICES ASSUME ReadInv, NEW b \in Buf PROVE Holdings(b) = IF b \in out THEN 1 ELSE 0
    BY DEF SingleCompleter
  <2> DEFINE L == {i \in DOMAIN ready : ready[i] = b}
             R == {r \in Reader : rdBuf[r] = b}
             T == {t \in Thread : lapBuf[t] = b}
             D == {d \in Desc : cookie[d] = b}
             C == {c \in Cpu : cpuBuf[c] = b}
  <2>1. /\ L # {} <=> Holds("line", "line", b)
        /\ \A x : x \in R <=> Holds("reader", x, b)
        /\ \A x : x \in T <=> Holds("lap", x, b)
        /\ \A x : x \in D <=> Holds("desc", x, b)
        /\ \A x : x \in C <=> Holds("cpu", x, b)
    BY DEF Holds, Parked, ToSet
  <2>2. \A i, j \in L : i = j
    BY DEF ReadInv, IsInjective
  <2>3. /\ \A x, y \in R : x = y
        /\ \A x, y \in T : x = y
        /\ \A x, y \in D : x = y
        /\ \A x, y \in C : x = y
    BY <2>1 DEF ReadInv, OneHolder
  <2>4. b \in out <=> \E k, x : Holds(k, x, b)
    BY DEF ReadInv, OneHolder
  <2>5. b \in out <=> L # {} \/ R # {} \/ T # {} \/ D # {} \/ C # {}
    <3>1. ASSUME NEW k, NEW x, Holds(k, x, b)
          PROVE  L # {} \/ R # {} \/ T # {} \/ D # {} \/ C # {}
      BY <3>1 DEF Holds, Parked, ToSet
    <3> QED
      BY <2>1, <2>4, <3>1
  <2>6. /\ L # {} => R = {} /\ T = {} /\ D = {} /\ C = {}
        /\ R # {} => T = {} /\ D = {} /\ C = {}
        /\ T # {} => D = {} /\ C = {}
        /\ D # {} => C = {}
    <3>1. \A k, x, l, y : Holds(k, x, b) /\ Holds(l, y, b) => k = l
      BY DEF ReadInv, OneHolder
    <3> HIDE DEF L, R, T, D, C
    <3> QED
      BY <2>1, <3>1
  <2> HIDE DEF L, R, T, D, C
  <2>7. \A S \in {L, R, T, D, C} : Cardinality(S) = IF S = {} THEN 0 ELSE 1
    <3> SUFFICES ASSUME NEW S \in {L, R, T, D, C}, S # {} PROVE Cardinality(S) = 1
      BY FS_EmptySet
    <3>1. PICK x \in S : S \subseteq {x}
      BY <2>2, <2>3
    <3> QED
      BY <3>1, CountOne
  <2>8. Holdings(b) = Cardinality(L) + Cardinality(R) + Cardinality(T) + Cardinality(D) + Cardinality(C)
    BY DEF Holdings, L, R, T, D, C
  <2>9. /\ Cardinality(L) = IF L = {} THEN 0 ELSE 1
        /\ Cardinality(R) = IF R = {} THEN 0 ELSE 1
        /\ Cardinality(T) = IF T = {} THEN 0 ELSE 1
        /\ Cardinality(D) = IF D = {} THEN 0 ELSE 1
        /\ Cardinality(C) = IF C = {} THEN 0 ELSE 1
    BY <2>7
  <2> QED
    BY <2>5, <2>6, <2>8, <2>9
<1> QED
  BY <1>1, ReadAlways, PTL
-----------------------------------------------------------------------------
(* Readiness.                                                               *)

(* Somebody other than the runner is on the way to the pump.                *)
Asked ==
  \/ \E r \in Reader : rd[r] = "pump"
  \/ \E c \in Cpu : cpu[c] \in {"deliverFrame", "pump"}
  \/ ctl = "pump"

(* A run nobody has asked to repeat still reaches every free descriptor:    *)
(* each it has tried is gone from FreeList, so that its bound is not spent  *)
(* before the list is; and it gives up over an empty list or an empty line. *)
Serves(t) ==
  /\ lap[t] \notin {"reject", "handBack"}
  /\ lap[t] \in {"claim", "acquire", "publish"} =>
       lapCount[t] + Cardinality(freeList) <= Cardinality(Desc)
  /\ lap[t] = "end" => freeList = {} \/ ready = <<>>

PumpedInv ==
  /\ \A t \in Thread : lap[t] \in {"none", "begin"} => lapCount[t] = 0
  /\ ~draining /\ ~pumpAgain /\ ~Asked => \A t \in Thread : Serves(t)
  /\ ReadyIsPumped

(* What neither touches the pump nor adds to what it serves.                *)
LEMMA PumpedKept ==
  ASSUME PumpedInv, UNCHANGED <<pumpActive, pumpAgain, lap, lapCount, freeList>>,
         draining' \in {TRUE, draining}, ready = <<>> => ready' = <<>>, Asked => Asked'
  PROVE  PumpedInv'
  BY DEF PumpedInv, Serves, ReadyIsPumped, PumpComing, Asked

LEMMA PumpedAsked ==
  ASSUME PumpedInv, UNCHANGED <<lap, lapCount>>, Asked'
  PROVE  PumpedInv'
  BY DEF PumpedInv, ReadyIsPumped, PumpComing, Asked

LEMMA PumpedDrained ==
  ASSUME PumpedInv, UNCHANGED <<lap, lapCount>>, draining'
  PROVE  PumpedInv'
  BY DEF PumpedInv, ReadyIsPumped

(* A call that loses the election leaves a re-run behind, one that wins it   *)
(* begins a lap.                                                            *)
LEMMA PumpedCall ==
  ASSUME PoolInv, PumpedInv, NEW t \in Thread, PumpCall(t)
  PROVE  PumpedInv'
<1>1. CASE pumpActive
  BY <1>1 DEF PumpCall, lapVars, PumpedInv, ReadyIsPumped, PumpComing
<1>2. CASE ~pumpActive
  <2>1. /\ lap' = [lap EXCEPT ![t] = "begin"] /\ UNCHANGED lapCount /\ pumpActive' = TRUE
        /\ \A u \in Thread : lap[u] = "none"
    BY <1>2 DEF PumpCall, LapAt, PoolInv, OnePumper
  <2>2. \A u \in Thread : lap'[u] \in {"none", "begin"}
    BY <2>1 DEF PoolInv, TypeOK, PumpTypeOK
  <2> QED
    BY <2>1, <2>2 DEF PumpedInv, Serves, ReadyIsPumped, PumpComing
<1> QED
  BY <1>1, <1>2

LEMMA PumpedLap ==
  ASSUME ShortBuf = {}, PoolInv, PumpedInv, NEW t \in Thread, Pump(t)
  PROVE  PumpedInv'
<1> USE DEF PumpedInv
<1>1. /\ pumpActive /\ \A u \in Thread : u # t => lap[u] = "none"
      /\ UNCHANGED <<draining, rd, cpu, ctl>> /\ Asked' = Asked
  BY ElectedAlone DEF Pump, LapBegin, LapClaim, LapAcquire, LapSkipNoMdl, LapPublish, LapDeliver,
                      LapEnd, runVars, frontVars, rdVars, cpuVars, ctlVars, Asked
<1>2. lap \in [Thread -> LapPcs] /\ lapCount \in [Thread -> 0 .. Cardinality(Desc)]
  BY DEF PoolInv, TypeOK, PumpTypeOK
<1>3. /\ IsFiniteSet(freeList) /\ Cardinality(freeList) \in Nat
      /\ Cardinality(freeList) <= Cardinality(Desc) /\ Cardinality(Desc) \in Nat
      /\ Cardinality(freeList) = 0 <=> freeList = {}
  BY ConstantsAssumption, FS_Subset, FS_CardinalityType, FS_EmptySet
     DEF PoolInv, TypeOK, DescTypeOK
(* It is enough to follow the runner.                                        *)
<1>4. ASSUME NEW pc \in LapPcs, lap' = [lap EXCEPT ![t] = pc],
             pumpActive' \/ (ReadyIsPumped)',
             \A u \in Thread : u # t => lapCount'[u] = lapCount[u],
             pc \in {"none", "begin"} => lapCount'[t] = 0,
             ~draining /\ ~pumpAgain' /\ ~Asked => (Serves(t))'
      PROVE  PumpedInv'
  <2>1. \A u \in Thread : lap'[u] = IF u = t THEN pc ELSE lap[u]
    BY <1>2, <1>4
  <2>2. \A u \in Thread : lap'[u] \in {"none", "begin"} => lapCount'[u] = 0
    BY <1>4, <2>1
  <2>3. \A u \in Thread : u # t => (Serves(u))'
    BY <1>1, <2>1 DEF Serves
  <2> QED
    BY <1>1, <1>4, <2>2, <2>3 DEF ReadyIsPumped, PumpComing
<1>5. CASE LapBegin(t)
  BY <1>1, <1>2, <1>3, <1>4, <1>5 DEF LapBegin, LapAt, descVars, Serves, LapPcs
<1>6. CASE LapClaim(t)
  <2>1. CASE UNCHANGED <<freeList, lapCount>> /\ LapAt(t, "end", NoDesc, NoBuf)
             /\ (lapCount[t] = Cardinality(Desc) \/ draining \/ freeList = {})
    BY <1>1, <1>2, <1>3, <1>4, <1>6, <2>1 DEF LapClaim, LapAt, Serves, LapPcs
  <2>2. ASSUME NEW d \in freeList, ~draining, freeList' = freeList \ {d},
               LapAt(t, "acquire", d, NoBuf), lapCount' = [lapCount EXCEPT ![t] = @ + 1]
        PROVE  PumpedInv'
    <3>1. Cardinality(freeList') = Cardinality(freeList) - 1
      BY <1>3, <2>2, FS_RemoveElement
    <3>2. UNCHANGED <<pumpActive, pumpAgain>>
      BY <1>6 DEF LapClaim
    <3>3. lapCount'[t] = lapCount[t] + 1 /\ \A u \in Thread : u # t => lapCount'[u] = lapCount[u]
      BY <1>2, <2>2
    <3> QED
      BY <1>1, <1>2, <1>3, <1>4, <1>6, <2>2, <3>1, <3>2, <3>3 DEF LapClaim, LapAt, Serves, LapPcs
  <2> QED
    BY <1>6, <2>1, <2>2 DEF LapClaim
<1>7. CASE LapAcquire(t)
  <2>1. CASE ready = <<>> /\ LapAt(t, "end", NoDesc, NoBuf) /\ UNCHANGED ready
    BY <1>1, <1>2, <1>4, <1>7, <2>1 DEF LapAcquire, LapAt, Serves, LapPcs
  <2>2. CASE LapAt(t, "publish", lapDesc[t], Head(ready)) /\ UNCHANGED freeList
    BY <1>1, <1>2, <1>4, <1>7, <2>2 DEF LapAcquire, LapAt, Serves, LapPcs
  <2> QED
    BY <1>7, <2>1, <2>2 DEF LapAcquire
<1>8. CASE LapSkipNoMdl(t)
  <2>1. UNCHANGED <<pumpActive, pumpAgain, lap, lapCount, freeList>> /\ ready # <<>>
    BY <1>8 DEF LapSkipNoMdl, pumpVars, lapVars, descVars
  <2> QED
    BY <1>1, <2>1, PumpedKept
<1>9. CASE LapPublish(t)
  <2>1. CASE draining
    BY <1>1, <1>2, <1>4, <1>9, <2>1 DEF LapPublish, LapAt, LapPcs
  <2>2. CASE ~draining
    BY <1>1, <1>2, <1>4, <1>9, <2>2 DEF LapPublish, LapAt, Serves, LapPcs
  <2> QED
    BY <2>1, <2>2
<1>10. CASE LapDeliver(t)
  <2>1. PICK pc \in {"claim", "end"} : lap' = [lap EXCEPT ![t] = pc]
    BY <1>10 DEF LapDeliver, LapAt
  <2>2. ~(~draining /\ ~pumpAgain' /\ ~Asked)
    BY <1>10 DEF LapDeliver, Serves
  <2>3. UNCHANGED <<pumpActive, lapCount>>
    BY <1>10 DEF LapDeliver
  <2> QED
    BY <1>1, <1>4, <2>1, <2>2, <2>3 DEF LapPcs
<1>11. CASE LapEnd(t)
  <2>1. /\ lapCount' = [lapCount EXCEPT ![t] = 0]
        /\ \A u \in Thread : lapCount'[u] = IF u = t THEN 0 ELSE lapCount[u]
    BY <1>2, <1>11 DEF LapEnd
  <2>2. CASE pumpAgain
    BY <1>1, <1>2, <1>4, <1>11, <2>1, <2>2 DEF LapEnd, LapAt, Serves, LapPcs
  <2>3. CASE ~pumpAgain
    <3>1. UNCHANGED <<freeList, ready>> /\ lap' = [lap EXCEPT ![t] = "none"] /\ lap[t] = "end"
      BY <1>11, <2>3 DEF LapEnd, LapAt, descVars, readVars
    <3>2. ~draining /\ ~Asked => freeList = {} \/ ready = <<>>
      BY <2>3, <3>1 DEF Serves
    <3>3. (ReadyIsPumped)'
      BY <1>1, <3>1, <3>2 DEF ReadyIsPumped, PumpComing, Asked
    <3> QED
      BY <1>1, <1>2, <1>4, <2>1, <3>1, <3>3 DEF Serves, LapPcs
  <2> QED
    BY <2>2, <2>3
<1> QED
  BY <1>5, <1>6, <1>7, <1>8, <1>9, <1>10, <1>11 DEF Pump

LEMMA PumpedCompletion ==
  ASSUME "attach" \notin Faults, PoolInv, PumpedInv, NEW c \in Cpu, Completion(c)
  PROVE  PumpedInv'
<1> DEFINE Pumper == <<pumpActive, pumpAgain, lap, lapCount>>
<1>0. cpu \in [Cpu -> CpuPcs]
  BY DEF PoolInv, TypeOK, CpuTypeOK
<1>1. ASSUME NEW pc, cpu[c] \notin {"deliverFrame", "pump"}, cpu' = [cpu EXCEPT ![c] = pc],
             UNCHANGED <<Pumper, freeList, draining, ready, rd, ctl>>
      PROVE  PumpedInv'
  <2>1. Asked => Asked'
    BY <1>0, <1>1 DEF Asked
  <2> QED
    BY <1>1, <2>1, PumpedKept
<1>2. CASE AttachSignal(c) \/ IrpDone(c) \/ IrpDoneTail(c)
  BY <1>1, <1>2 DEF AttachSignal, IrpDone, IrpDoneTail, CpuAt, descVars, pumpVars, lapVars, runVars,
                    readVars, frontVars, rdVars, ctlVars
<1>3. CASE Deliver(c)
  <2>1. CASE cpu[c] = "deliverFrame"
    <3>1. cpu' = [cpu EXCEPT ![c] = "pump"] /\ UNCHANGED <<lap, lapCount>>
      BY <1>3, <2>1 DEF Deliver, CpuAt, pumpVars, lapVars
    <3>2. Asked'
      BY <1>0, <3>1 DEF Asked
    <3> QED
      BY <3>1, <3>2, PumpedAsked
  <2>2. CASE cpu[c] # "deliverFrame"
    BY <1>1, <1>3, <2>2 DEF Deliver, CpuAt, descVars, pumpVars, lapVars, runVars, frontVars, rdVars,
                            ctlVars
  <2> QED
    BY <2>1, <2>2
<1>4. CASE DetachPump(c)
  <2>1. CASE cpu[c] = "pump"
    BY <1>4, <2>1, PumpedCall DEF DetachPump, Thread
  <2>2. CASE cpu[c] # "pump"
    BY <1>1, <1>4, <2>2 DEF DetachPump, CpuAt, descVars, pumpVars, lapVars, runVars, readVars,
                            frontVars, rdVars, ctlVars
  <2> QED
    BY <2>1, <2>2
<1>5. ASSUME NEW d \in Desc, DetachComplete(c, d) PROVE PumpedInv'
  <2>1. cpu' = [cpu EXCEPT ![c] = "deliverFrame"] /\ UNCHANGED <<lap, lapCount>>
    BY <1>5 DEF DetachComplete, CpuAt, pumpVars, lapVars
  <2>2. Asked'
    BY <1>0, <2>1 DEF Asked
  <2> QED
    BY <2>1, <2>2, PumpedAsked
<1>6. ASSUME NEW d \in Desc, AttachCompletePublish(c, d) \/ DetachFailed(c, d) PROVE PumpedInv'
  BY <1>1, <1>6 DEF AttachCompletePublish, DetachFailed, CpuAt, pumpVars, lapVars, runVars,
                    readVars, frontVars, rdVars, ctlVars
<1> QED
  BY <1>2, <1>3, <1>4, <1>5, <1>6 DEF Completion, AttachFailed

LEMMA PumpedReads ==
  ASSUME PoolInv, PumpedInv, Client \/ FrontEnd
  PROVE  PumpedInv'
<1> DEFINE Pumper == <<pumpActive, pumpAgain, lap, lapCount, freeList, draining>>
<1>0. rd \in [Reader -> RdPcs]
  BY DEF PoolInv, TypeOK, FrontTypeOK
<1>1. ASSUME NEW r \in Reader, NEW pc, rd[r] # "pump", rd' = [rd EXCEPT ![r] = pc],
             UNCHANGED <<Pumper, ready, cpu, ctl>>
      PROVE  PumpedInv'
  <2>1. Asked => Asked'
    BY <1>0, <1>1 DEF Asked
  <2> QED
    BY <1>1, <2>1, PumpedKept
<1>2. CASE NotifyCancel \/ BeginFlush \/ \E b \in Buf : Cancel(b)
  <2>1. UNCHANGED <<Pumper, rd, cpu, ctl>>
    BY <1>2 DEF NotifyCancel, BeginFlush, Cancel, descVars, pumpVars, lapVars, runVars, frontVars,
                rdVars, cpuVars, ctlVars
  <2>2. ASSUME NEW b \in Buf, Cancel(b), ready = <<>> PROVE ready' = <<>>
    <3>1. DOMAIN ready = {}
      BY <2>2
    <3> QED
      BY <2>2, <3>1 DEF Cancel
  <2>3. ready = <<>> => ready' = <<>>
    BY <1>2, <2>2 DEF NotifyCancel, BeginFlush, readVars
  <2> QED
    BY <2>1, <2>3, PumpedKept DEF Asked
<1>3. ASSUME NEW r \in Reader, NEW b \in Buf, Submit(r, b) PROVE PumpedInv'
  BY <1>1, <1>3 DEF Submit, ReaderAt, descVars, pumpVars, lapVars, runVars, cpuVars, ctlVars
<1>4. ASSUME NEW r \in Reader, Park(r) PROVE PumpedInv'
  <2>1. UNCHANGED <<Pumper, cpu, ctl>> /\ rd[r] = "park"
    BY <1>4 DEF Park, descVars, pumpVars, lapVars, runVars, cpuVars, ctlVars
  <2>2. CASE rd' = [rd EXCEPT ![r] = "idle"] /\ UNCHANGED ready
    BY <1>1, <2>1, <2>2
  <2>3. CASE rd' = [rd EXCEPT ![r] = "pump"]
    <3>1. Asked'
      BY <1>0, <2>3 DEF Asked
    <3> QED
      BY <2>1, <3>1, PumpedAsked
  <2> QED
    BY <1>4, <2>2, <2>3 DEF Park, ReaderAt
<1>5. ASSUME NEW r \in Reader, ReadPump(r) PROVE PumpedInv'
  <2>1. CASE rd[r] = "pump"
    BY <1>5, <2>1, PumpedCall DEF ReadPump, Thread
  <2>2. CASE rd[r] # "pump"
    BY <1>1, <1>5, <2>2 DEF ReadPump, ReaderAt, descVars, pumpVars, lapVars, runVars, readVars,
                            cpuVars, ctlVars
  <2> QED
    BY <2>1, <2>2
<1> QED
  BY <1>2, <1>3, <1>4, <1>5 DEF Client, FrontEnd

LEMMA PumpedControl ==
  ASSUME PoolInv, FlowInv, PumpedInv, Control \/ Requests \/ WorkBegin \/ WorkDispatch \/ Bus
  PROVE  PumpedInv'
<1> DEFINE Kept == /\ UNCHANGED <<pumpActive, pumpAgain, lap, lapCount, freeList, rd, cpu>>
                   /\ draining' \in {TRUE, draining} /\ (ready = <<>> => ready' = <<>>)
                   /\ ctl = "pump" => ctl' = "pump"
<1>1. CASE Kept
  BY <1>1, PumpedKept DEF Asked
<1>2. CASE OpenEngine
  BY <1>2, PumpedAsked DEF OpenEngine, Goto, Enter, Asked, pumpVars, lapVars
<1>3. CASE ControlPump
  <2>1. CASE ctl = "pump"
    BY <1>3, <2>1, PumpedCall DEF ControlPump, Thread
  <2>2. CASE ctl # "pump"
    BY <1>1, <1>3, <2>2 DEF ControlPump, descVars, pumpVars, lapVars, runVars, readVars, frontVars,
                            rdVars, cpuVars
  <2> QED
    BY <2>1, <2>2
<1>4. CASE Unquarantine
  BY <1>4, PumpedDrained DEF Unquarantine, FlowInv, Shut, pumpVars, lapVars, runVars
<1>5. CASE Requests \/ WorkBegin \/ WorkDispatch
  BY <1>1, <1>5 DEF Requests, Run, Stop, Pause, Close, SurpriseRemoval, Open, Accepts, WorkBegin,
                    WorkDispatch, descVars, pumpVars, lapVars, runVars, readVars, frontVars, rdVars,
                    cpuVars, ctlVars
<1>6. CASE Bus
  BY <1>1, <1>6 DEF Bus, BusAttach, IsochCallback, AttachCompleteFrameDone, BeginDetach, descVars,
                    pumpVars, lapVars, runVars, readVars, frontVars, rdVars, cpuVars, ctlVars
<1>7. CASE Teardown /\ ~Unquarantine
  <2>1. UNCHANGED <<pumpActive, pumpAgain, lap, lapCount, freeList, rd, cpu>> /\ ctl # "pump"
    BY <1>7 DEF Teardown, Rundown, StopPublish, StopSettled, Shutdown, QuiesceBegin, QuiesceStop,
                QuiesceClaim, QuiesceClaimed, QuiesceDrainWait, QuiesceDrained, QuiescePumpIdle,
                ReleaseIsoch, DrainReads, Destroy, descVars, pumpVars, lapVars, frontVars, rdVars,
                cpuVars
  <2>2. draining' \in {TRUE, draining} /\ (ready = <<>> => ready' = <<>>)
    BY <1>7 DEF Teardown, Rundown, StopPublish, StopSettled, Shutdown, QuiesceBegin, QuiesceStop,
                QuiesceClaim, QuiesceClaimed, QuiesceDrainWait, QuiesceDrained, QuiescePumpIdle,
                ReleaseIsoch, DrainReads, Destroy, runVars, readVars
  <2> QED
    BY <1>1, <2>1, <2>2
<1>8. CASE (Startup \/ Worker) /\ ~OpenEngine /\ ~ControlPump
  BY <1>1, <1>8 DEF Startup, Worker, Allocate, ListenCheck, Listen, SetIsochEnable, PublishRun,
                    WorkEnable, WorkRetry, descVars, pumpVars, lapVars, runVars, readVars,
                    frontVars, rdVars, cpuVars
<1> QED
  BY <1>2, <1>3, <1>4, <1>5, <1>6, <1>7, <1>8 DEF Control

LEMMA PumpedNext ==
  ASSUME "attach" \notin Faults, ShortBuf = {}, PoolInv, FlowInv, PumpedInv, [Next]_vars
  PROVE  PumpedInv'
<1>1. CASE UNCHANGED vars
  <2>1. UNCHANGED <<pumpActive, pumpAgain, lap, lapCount, freeList, draining, ready, rd, cpu, ctl>>
    BY <1>1 DEF vars, descVars, pumpVars, lapVars, runVars, readVars, frontVars, rdVars, cpuVars,
                ctlVars
  <2> QED
    BY <2>1, PumpedKept DEF Asked
<1>2. ASSUME NEW t \in Thread, Pump(t) PROVE PumpedInv'
  BY <1>2, PumpedLap
<1>3. ASSUME NEW c \in Cpu, Completion(c) PROVE PumpedInv'
  BY <1>3, PumpedCompletion
<1> QED
  BY <1>1, <1>2, <1>3, PumpedReads, PumpedControl DEF Next

(* A parked read beside a free descriptor has a pump on its way to both, for *)
(* any number of descriptors, reads and threads, if no attach fails - whose *)
(* completion does not pump (pump.c PhotonicCapturePumpAttachComplete) -    *)
(* and no read is rejected for its length, which spends the bound of a lap. *)
THEOREM ReadyIsPumpedAlways ==
  ASSUME "attach" \notin Faults, ShortBuf = {}
  PROVE  Spec => []ReadyIsPumped
<1> DEFINE Inv == PoolInv /\ FlowInv /\ HandleInv /\ PumpedInv
<1>1. Init => Inv
  <2>1. Init => PumpedInv
    BY DEF Init, PumpedInv, ReadyIsPumped
  <2> QED
    BY <2>1, PoolInit, FlowInit
<1>2. Inv /\ [Next]_vars => Inv'
  BY PoolNext, FlowNext, PumpedNext DEF PoolInv
<1>3. Inv => ReadyIsPumped
  BY DEF PumpedInv
<1> QED
  BY <1>1, <1>2, <1>3, PTL DEF Spec
=============================================================================
