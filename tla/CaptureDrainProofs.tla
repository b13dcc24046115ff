------------------------- MODULE CaptureDrainProofs -------------------------
(***************************************************************************)
(* The drain of the engine: that the in-flight count is exact, that a      *)
(* draining engine is idle once its teardown has waited, and what follows  *)
(* for the bus driver's requests, the frames, the pages of the reads, the  *)
(* camera and the close; and that the engine and its pin implement the     *)
(* hand-off of BufferHandoff.                                              *)
(*                                                                         *)
(* What the drain promises rests on the stop of the isochronous context    *)
(* reaching the bus driver; the theorems that need it assume that          *)
(* "isochStop" is not among the Faults.                                    *)
(***************************************************************************)
EXTENDS CaptureReadProofs

Sent == {d \in Desc : irp[d] # "none"}
Inside == {c \in Cpu : Counted(c)}

-----------------------------------------------------------------------------
(* The count.                                                               *)

LEMMA SentInside ==
  /\ InFlightExact <=> inFlight = Cardinality(Sent) + Cardinality(Inside)
  /\ IsFiniteSet(Sent) /\ IsFiniteSet(Inside)
  /\ Cardinality(Sent) \in Nat /\ Cardinality(Inside) \in Nat
<1>1. Sent \in SUBSET Desc /\ Inside \in SUBSET Cpu
  BY DEF Sent, Inside
<1>2. IsFiniteSet(Sent) /\ IsFiniteSet(Inside)
  BY <1>1, ConstantsAssumption, FS_Subset
<1> QED
  BY <1>2, FS_CardinalityType DEF InFlightExact, Sent, Inside

(* What sending, answering, entering and leaving do to the two sets.        *)
LEMMA Sending ==
  ASSUME TypeOK, NEW d \in Desc, irp[d] = "none", NEW x, x # "none",
         irp' = [irp EXCEPT ![d] = x]
  PROVE  Cardinality(Sent') = Cardinality(Sent) + 1
<1>1. Sent' = Sent \cup {d} /\ d \notin Sent
  BY DEF Sent, TypeOK, BusTypeOK
<1> QED
  BY <1>1, SentInside, FS_AddElement

LEMMA Answering ==
  ASSUME TypeOK, NEW d \in Desc, irp[d] # "none", irp' = [irp EXCEPT ![d] = "none"]
  PROVE  Cardinality(Sent') = Cardinality(Sent) - 1
<1>1. Sent' = Sent \ {d} /\ d \in Sent
  BY DEF Sent, TypeOK, BusTypeOK
<1> QED
  BY <1>1, SentInside, FS_RemoveElement

LEMMA Resending ==
  ASSUME TypeOK, NEW d \in Desc, irp[d] # "none", NEW x, x # "none",
         irp' = [irp EXCEPT ![d] = x]
  PROVE  Sent' = Sent
  BY DEF Sent, TypeOK, BusTypeOK

LEMMA Entering ==
  ASSUME TypeOK, NEW c \in Cpu, cpu[c] = "idle", NEW pc, pc \notin {"idle", "tail"},
         NEW b, CpuAt(c, pc, b)
  PROVE  Cardinality(Inside') = Cardinality(Inside) + 1
<1>1. Inside' = Inside \cup {c} /\ c \notin Inside
  BY DEF Inside, Counted, CpuAt, TypeOK, CpuTypeOK
<1> QED
  BY <1>1, SentInside, FS_AddElement

LEMMA Leaving ==
  ASSUME TypeOK, NEW c \in Cpu, Counted(c), NEW pc \in {"idle", "tail"},
         NEW b, CpuAt(c, pc, b)
  PROVE  Cardinality(Inside') = Cardinality(Inside) - 1
<1>1. Inside' = Inside \ {c} /\ c \in Inside
  BY DEF Inside, Counted, CpuAt, TypeOK, CpuTypeOK
<1> QED
  BY <1>1, SentInside, FS_RemoveElement

LEMMA Staying ==
  ASSUME TypeOK, NEW c \in Cpu, NEW pc, NEW b, CpuAt(c, pc, b),
         Counted(c) <=> pc \notin {"idle", "tail"}
  PROVE  Inside' = Inside
  BY DEF Inside, Counted, CpuAt, TypeOK, CpuTypeOK

LEMMA CountFrame ==
  ASSUME InFlightExact, UNCHANGED <<irp, cpu, inFlight>>
  PROVE  InFlightExact'
  BY DEF InFlightExact, Counted

(* A count of zero says what it should.                                     *)
LEMMA CountedOut ==
  ASSUME InFlightExact
  PROVE  inFlight = 0 <=> (\A d \in Desc : irp[d] = "none") /\ \A c \in Cpu : ~Counted(c)
<1>1. inFlight = 0 <=> Cardinality(Sent) = 0 /\ Cardinality(Inside) = 0
  BY SentInside
<1>2. inFlight = 0 <=> Sent = {} /\ Inside = {}
  BY <1>1, SentInside, FS_EmptySet
<1> QED
  BY <1>2 DEF Sent, Inside

LEMMA CountPump ==
  ASSUME PoolInv, InFlightExact, NEW t \in Thread, Pump(t)
  PROVE  InFlightExact'
<1>1. CASE LapPublish(t) /\ ~draining
  <2> DEFINE d == lapDesc[t]
  <2>1. d \in Desc /\ fstate[d] = "Free" /\ irp[d] = "none"
    BY <1>1, ElectedAlone DEF LapPublish, PoolInv, TypeOK, PumpTypeOK, BusTypeOK, ListsPartition,
                              IrpFollowsState
  <2>2. irp' = [irp EXCEPT ![d] = "attach"] /\ inFlight' = inFlight + 1 /\ cpu' = cpu
    BY <1>1 DEF LapPublish, cpuVars
  <2>3. Cardinality(Sent') = Cardinality(Sent) + 1
    BY <2>1, <2>2, Sending DEF PoolInv
  <2>4. Inside' = Inside
    BY <2>2 DEF Inside, Counted
  <2>5. /\ inFlight' = Cardinality(Sent') + Cardinality(Inside')
    BY <2>2, <2>3, <2>4, SentInside
  <2> QED
    BY <2>5 DEF InFlightExact, Sent, Inside
<1>2. CASE ~(LapPublish(t) /\ ~draining)
  <2>1. UNCHANGED <<irp, cpu, inFlight>>
    BY <1>2 DEF Pump, LapBegin, LapClaim, LapAcquire, LapSkipNoMdl, LapPublish, LapDeliver, LapEnd,
                descVars, busVars, runVars, cpuVars
  <2> QED
    BY <2>1, CountFrame
<1> QED
  BY <1>1, <1>2

LEMMA CountBus ==
  ASSUME PoolInv, InFlightExact, Bus
  PROVE  InFlightExact'
<1>1. ASSUME NEW d \in Desc, BusAttach(d) PROVE InFlightExact'
  BY <1>1, CountFrame DEF BusAttach, runVars, cpuVars
<1>2. ASSUME NEW d \in Desc, NEW result, fstate[d] = "Pending", BeginDetach(d, result),
             inFlight' = inFlight + 1, cpu' = cpu
      PROVE  InFlightExact'
  <2>1. irp[d] = "none"
    BY <1>2 DEF PoolInv, TypeOK, BusTypeOK, IrpFollowsState
  <2>2. Cardinality(Sent') = Cardinality(Sent) + 1
    BY <1>2, <2>1, Sending DEF PoolInv, BeginDetach
  <2>3. Inside' = Inside
    BY <1>2 DEF Inside, Counted
  <2>4. inFlight' = Cardinality(Sent') + Cardinality(Inside')
    BY <1>2, <2>2, <2>3, SentInside
  <2> QED
    BY <2>4 DEF InFlightExact, Sent, Inside
<1>3. ASSUME NEW d \in Desc, IsochCallback(d) PROVE InFlightExact'
  <2>1. cpu' = cpu
    BY <1>3 DEF IsochCallback, cpuVars
  <2>2. CASE UNCHANGED <<irp, inFlight>>
    BY <2>1, <2>2, CountFrame
  <2> QED
    BY <1>2, <1>3, <2>1, <2>2 DEF IsochCallback
<1>4. ASSUME NEW d \in Desc, AttachCompleteFrameDone(d) PROVE InFlightExact'
  <2>1. irp[d] # "none" /\ irp' = [irp EXCEPT ![d] = "detach"] /\ UNCHANGED <<inFlight, cpu>>
    BY <1>4 DEF AttachCompleteFrameDone, BeginDetach, runVars, cpuVars
  <2>2. Sent' = Sent /\ Inside' = Inside
    BY <2>1, Resending DEF PoolInv, Inside, Counted
  <2> QED
    BY <2>1, <2>2 DEF InFlightExact, Sent, Inside
<1> QED
  BY <1>1, <1>3, <1>4 DEF Bus

LEMMA CountCompletion ==
  ASSUME PoolInv, InFlightExact, NEW c \in Cpu, Completion(c)
  PROVE  InFlightExact'
<1> USE DEF PoolInv
<1>1. ASSUME NEW d \in Desc, cpu[c] = "idle", irp[d] # "none", irp' = [irp EXCEPT ![d] = "none"],
             NEW pc, pc \notin {"idle", "tail"}, NEW b, CpuAt(c, pc, b), inFlight' = inFlight
      PROVE  InFlightExact'
  <2>1. Cardinality(Sent') = Cardinality(Sent) - 1
    BY <1>1, Answering
  <2>2. Cardinality(Inside') = Cardinality(Inside) + 1
    BY <1>1, Entering
  <2>3. inFlight' = Cardinality(Sent') + Cardinality(Inside')
    BY <1>1, <2>1, <2>2, SentInside
  <2> QED
    BY <2>3 DEF InFlightExact, Sent, Inside
<1>2. ASSUME NEW d \in Desc,
             \/ AttachFailed(c, d) \/ AttachCompletePublish(c, d)
             \/ DetachFailed(c, d) \/ DetachComplete(c, d)
      PROVE  InFlightExact'
  <2>1. CASE AttachFailed(c, d)
    BY <1>1, <2>1 DEF AttachFailed, runVars
  <2>2. CASE AttachCompletePublish(c, d)
    BY <1>1, <2>2 DEF AttachCompletePublish, runVars
  <2>3. CASE DetachFailed(c, d)
    BY <1>1, <2>3 DEF DetachFailed, runVars
  <2>4. CASE DetachComplete(c, d)
    BY <1>1, <2>4 DEF DetachComplete, runVars
  <2> QED
    BY <1>2, <2>1, <2>2, <2>3, <2>4
<1>3. ASSUME NEW pc, NEW b, CpuAt(c, pc, b), Counted(c) <=> pc \notin {"idle", "tail"},
             UNCHANGED <<irp, inFlight>>
      PROVE  InFlightExact'
  <2>1. Inside' = Inside /\ Sent' = Sent
    BY <1>3, Staying DEF Sent
  <2> QED
    BY <1>3, <2>1 DEF InFlightExact, Sent, Inside
<1>4. CASE AttachSignal(c)
  BY <1>3, <1>4 DEF AttachSignal, Counted, busVars
<1>5. CASE Deliver(c)
  BY <1>3, <1>5 DEF Deliver, Counted, busVars, runVars
<1>6. CASE DetachPump(c)
  BY <1>3, <1>6 DEF DetachPump, AfterPumpCall, Counted, busVars, runVars
<1>7. CASE IrpDone(c)
  <2>1. Counted(c) /\ inFlight' = inFlight - 1 /\ irp' = irp
    BY <1>7 DEF IrpDone, Counted, busVars
  <2>2. Cardinality(Inside') = Cardinality(Inside) - 1
    BY <1>7, <2>1, Leaving DEF IrpDone
  <2>3. Sent' = Sent
    BY <2>1 DEF Sent
  <2>4. inFlight' = Cardinality(Sent') + Cardinality(Inside')
    BY <2>1, <2>2, <2>3, SentInside
  <2> QED
    BY <2>4 DEF InFlightExact, Sent, Inside
<1>8. CASE IrpDoneTail(c)
  BY <1>3, <1>8 DEF IrpDoneTail, Counted, busVars, runVars
<1> QED
  BY <1>2, <1>4, <1>5, <1>6, <1>7, <1>8 DEF Completion

LEMMA CountNext == PoolInv /\ InFlightExact /\ [Next]_vars => InFlightExact'
<1> SUFFICES ASSUME PoolInv, InFlightExact, [Next]_vars PROVE InFlightExact'
  OBVIOUS
<1>1. CASE QuiesceClaim
  <2>1. PICK d \in pendingList : fstate[d] = "Pending" /\ BeginDetach(d, "cancelled")
    BY <1>1 DEF QuiesceClaim
  <2>2. d \in Desc /\ irp[d] = "none"
    BY <2>1 DEF PoolInv, TypeOK, DescTypeOK, BusTypeOK, IrpFollowsState
  <2>3. Cardinality(Sent') = Cardinality(Sent) + 1
    BY <2>1, <2>2, Sending DEF PoolInv, BeginDetach
  <2>4. Inside' = Inside /\ inFlight' = inFlight + 1
    BY <1>1 DEF QuiesceClaim, Inside, Counted, cpuVars
  <2>5. inFlight' = Cardinality(Sent') + Cardinality(Inside')
    BY <2>3, <2>4, SentInside
  <2> QED
    BY <2>5 DEF InFlightExact, Sent, Inside
<1>2. CASE Requests \/ Client \/ FrontEnd \/ WorkDispatch \/ WorkBegin
  <2>1. UNCHANGED <<irp, cpu, inFlight>>
    BY <1>2 DEF Requests, Run, Stop, Pause, Close, SurpriseRemoval, Open, Client, FrontEnd,
                BeginFlush, Cancel, Submit, NotifyCancel, Park, ReadPump, WorkDispatch, WorkBegin,
                busVars, runVars, cpuVars
  <2> QED
    BY <2>1, CountFrame
<1>3. CASE Control /\ ~QuiesceClaim
  <2>1. UNCHANGED <<irp, cpu, inFlight>>
    BY <1>3 DEF Control, Teardown, Startup, Worker, Rundown, StopPublish, StopSettled, Shutdown,
                QuiesceBegin, QuiesceStop, QuiesceClaimed, QuiesceDrainWait, QuiesceDrained,
                QuiescePumpIdle, ReleaseIsoch, Unquarantine, DrainReads, Destroy, Allocate,
                OpenEngine, ControlPump, ListenCheck, Listen, SetIsochEnable, PublishRun,
                WorkEnable, WorkRetry, busVars, runVars, cpuVars
  <2> QED
    BY <2>1, CountFrame
<1>4. CASE UNCHANGED vars
  BY <1>4, CountFrame DEF vars, busVars, runVars, cpuVars
<1> QED
  BY <1>1, <1>2, <1>3, <1>4, CountPump, CountBus, CountCompletion DEF Next

-----------------------------------------------------------------------------
(* The drain.                                                               *)

(* A stopped context stays stopped while the engine drains.                 *)
Silent == draining /\ ctl # "isochStop" => ~listening /\ ~busListening

(* Past the wait nothing is at the bus driver or in a completion routine,    *)
(* and nothing is left for another claim once none was found.               *)
Quiet ==
  draining /\ ctl \notin Stopping =>
    /\ \A d \in Desc : irp[d] = "none"
    /\ \A c \in Cpu : ~Counted(c)
    /\ ctl # "drainCheck" => pendingList = {}

(* What a descriptor's state says of the bus driver's mapping: nothing is    *)
(* mapped through a free one, a frame that finished early is filled, an      *)
(* unfilled buffer is detached only by the teardown, and what is about to be *)
(* delivered as good was filled without error.                              *)
MapInv ==
  \A d \in Desc :
    /\ fstate[d] = "Free" => dma[d] = NoBuf
    /\ fstate[d] = "CompletedWhileAttaching" => dma[d] # NoBuf /\ fill[d] # "empty"
    /\ fstate[d] = "DetachFailed" /\ ctl = "unquarantine" => dma[d] = NoBuf
    /\ fstate[d] = "Detaching" /\ fill[d] = "empty" => draining /\ ctl \in {"claim", "drainWait"}
    /\ fstate[d] = "Detaching" /\ outcome[d] = "success" => fill[d] = "ok"

DrainInv ==
  /\ PoolInv /\ InFlightExact /\ FlowInv /\ HandleInv
  /\ Silent /\ Quiet /\ MapInv

LEMMA SilentNext ==
  ASSUME "isochStop" \notin Faults, TypeOK, FlowInv, HandleInv, Silent, [Next]_vars
  PROVE  Silent'
<1> USE DEF Silent
<1>1. CASE UNCHANGED <<ctrl, context>>
  BY <1>1 DEF ctrl, context
<1>2. CASE Requests \/ WorkBegin
  BY <1>2 DEF Requests, Run, Stop, Pause, Close, SurpriseRemoval, Open, WorkBegin, Accepts, Enter,
              FlowInv, busVars, runVars, ctlVars
<1>3. CASE QuiesceStop
  BY <1>3 DEF QuiesceStop, IsochStop, HandleInv, Stopping
<1>4. CASE ReleaseIsoch
  BY <1>4 DEF ReleaseIsoch, IsochStop
<1>5. CASE Teardown /\ ~QuiesceStop /\ ~ReleaseIsoch
  BY <1>5 DEF Teardown, Rundown, StopPublish, StopSettled, Shutdown, QuiesceBegin, QuiesceClaim,
              QuiesceClaimed, QuiesceDrainWait, QuiesceDrained, QuiescePumpIdle, Unquarantine,
              DrainReads, Destroy, Goto, Enter, busVars, runVars, ctlVars
<1>6. CASE Listen
  BY <1>6 DEF Listen, FlowInv
<1>7. CASE (Startup \/ Worker) /\ ~Listen
  BY <1>7 DEF Startup, Worker, Allocate, OpenEngine, ControlPump, ListenCheck, SetIsochEnable,
              PublishRun, WorkEnable, WorkRetry, Goto, Enter, busVars, runVars, ctlVars
<1>8. CASE UNCHANGED vars
  BY <1>1, <1>8 DEF vars, ctrl, context, busVars, runVars, resVars, ctlVars
<1> QED
  BY <1>1, <1>2, <1>3, <1>4, <1>5, <1>6, <1>7, <1>8, UnheldKeeps DEF Next, Unheld, Control

(* While all is quiet only the holder of the mutex moves the pool, and it    *)
(* does so by a claim or a delivery.                                        *)
LEMMA QuietUnheld ==
  ASSUME PoolInv, Silent, Quiet, Unheld, draining, ctl \notin Stopping
  PROVE  /\ UNCHANGED irp /\ \A c \in Cpu : ~Counted(c)'
         /\ UNCHANGED pendingList
<1> USE DEF Quiet, Silent, Stopping
<1>1. CASE Client \/ FrontEnd \/ WorkDispatch
  BY <1>1 DEF Client, FrontEnd, BeginFlush, Cancel, Submit, NotifyCancel, Park, ReadPump,
              WorkDispatch, Counted, busVars, cpuVars, descVars
<1>2. CASE Bus
  <2>1. ASSUME NEW d \in Desc PROVE ~BusAttach(d) /\ ~AttachCompleteFrameDone(d) /\ ~IsochCallback(d)
    BY DEF BusAttach, AttachCompleteFrameDone, IsochCallback
  <2> QED
    BY <1>2, <2>1 DEF Bus
<1>3. ASSUME NEW c \in Cpu, Completion(c) PROVE IrpDoneTail(c)
  BY <1>3 DEF Completion, AttachSignal, Deliver, DetachPump, IrpDone, AttachFailed,
              AttachCompletePublish, DetachFailed, DetachComplete, Counted
<1>4. ASSUME NEW c \in Cpu, Completion(c)
      PROVE  UNCHANGED <<irp, pendingList>> /\ \A e \in Cpu : ~Counted(e)'
  BY <1>3, <1>4 DEF IrpDoneTail, CpuAt, Counted, PoolInv, TypeOK, CpuTypeOK, busVars, descVars
<1>5. ASSUME NEW t \in Thread, Pump(t) PROVE UNCHANGED <<irp, pendingList, cpu>>
  BY <1>5 DEF Pump, LapBegin, LapClaim, LapAcquire, LapSkipNoMdl, LapPublish, LapDeliver, LapEnd,
              descVars, busVars, cpuVars
<1> QED
  BY <1>1, <1>2, <1>4, <1>5 DEF Unheld, Counted

LEMMA QuietNext ==
  ASSUME PoolInv, InFlightExact, FlowInv, Silent, Quiet, [Next]_vars
  PROVE  Quiet'
<1>1. CASE Unheld
  BY <1>1, QuietUnheld, UnheldKeeps DEF Quiet, ctrl
<1>2. CASE QuiesceDrainWait
  BY <1>2, CountedOut DEF QuiesceDrainWait, Quiet, Counted, Goto, Enter, busVars, cpuVars
<1>3. CASE QuiesceBegin \/ QuiesceStop \/ QuiesceClaim \/ QuiesceClaimed
  BY <1>3 DEF QuiesceBegin, QuiesceStop, QuiesceClaim, QuiesceClaimed, Quiet, Stopping, Goto,
              Enter, ctlVars
<1>4. CASE QuiesceDrained
  BY <1>4 DEF QuiesceDrained, Quiet, Stopping, Counted, Goto, Enter, busVars, cpuVars, descVars,
              runVars
<1> DEFINE Rest == /\ UNCHANGED <<irp, cpu, pendingList>>
                   /\ ctl \notin Stopping \cup {"drainCheck"}
                   /\ draining' => draining
<1>5. CASE Rest
  BY <1>5 DEF Quiet, Counted
<1>6. CASE Requests \/ WorkBegin
  <2>1. Rest
    BY <1>6 DEF Requests, Run, Stop, Pause, Close, SurpriseRemoval, Open, WorkBegin, Accepts,
                FlowInv, Stopping, busVars, runVars, cpuVars, descVars
  <2> QED
    BY <1>5, <2>1
<1>7. CASE Rundown \/ StopPublish \/ StopSettled \/ Shutdown \/ QuiescePumpIdle \/ ReleaseIsoch
           \/ Unquarantine \/ DrainReads \/ Destroy
  <2>1. UNCHANGED <<irp, cpu, pendingList, draining>>
    BY <1>7 DEF Rundown, StopPublish, StopSettled, Shutdown, QuiescePumpIdle, ReleaseIsoch,
                Unquarantine, DrainReads, Destroy, busVars, runVars, cpuVars, descVars
  <2>2. ctl \in {"rundown", "stop", "settled", "shutdown", "pumpIdle", "release", "unquarantine",
                 "drain", "destroy"}
    BY <1>7 DEF Rundown, StopPublish, StopSettled, Shutdown, QuiescePumpIdle, ReleaseIsoch,
                Unquarantine, DrainReads, Destroy
  <2> QED
    BY <1>5, <2>1, <2>2 DEF Stopping
<1>8. CASE Startup \/ Worker
  <2>1. UNCHANGED <<irp, cpu, pendingList>>
    BY <1>8 DEF Startup, Worker, Allocate, OpenEngine, ControlPump, ListenCheck, Listen,
                SetIsochEnable, PublishRun, WorkEnable, WorkRetry, busVars, cpuVars, descVars
  <2>3. draining' = FALSE \/ draining' = draining
    BY <1>8 DEF Startup, Worker, Allocate, OpenEngine, ControlPump, ListenCheck, Listen,
                SetIsochEnable, PublishRun, WorkEnable, WorkRetry, runVars
  <2>2. ctl \in {"allocate", "open", "resume", "pump", "pumping", "listen", "listenWait",
                 "listenIrb", "enable", "running", "workEnable", "workRetry"}
    BY <1>8 DEF Startup, Worker, Allocate, OpenEngine, ControlPump, ListenCheck, Listen,
                SetIsochEnable, PublishRun, WorkEnable, WorkRetry
  <2> QED
    BY <1>5, <2>1, <2>2, <2>3 DEF Stopping
<1>9. CASE UNCHANGED vars
  BY <1>9 DEF vars, Quiet, Counted, busVars, runVars, cpuVars, descVars, ctlVars
<1> QED
  BY <1>1, <1>2, <1>3, <1>4, <1>6, <1>7, <1>8, <1>9 DEF Next, Unheld, Control, Teardown

LEMMA MapPump ==
  ASSUME PoolInv, MapInv, NEW t \in Thread, Pump(t)
  PROVE  MapInv'
<1>1. UNCHANGED <<dma, fill, outcome, ctl, draining>>
  BY DEF Pump, LapBegin, LapClaim, LapAcquire, LapSkipNoMdl, LapPublish, LapDeliver, LapEnd,
         descVars, busVars, runVars, ctlVars
<1>2. CASE UNCHANGED fstate
  BY <1>1, <1>2 DEF MapInv
<1>3. CASE LapPublish(t) /\ ~draining
  BY <1>1, <1>3 DEF LapPublish, MapInv, PoolInv, TypeOK, DescTypeOK, PumpTypeOK
<1>4. (LapPublish(t) /\ ~draining) \/ UNCHANGED fstate
  BY DEF Pump, LapBegin, LapClaim, LapAcquire, LapSkipNoMdl, LapPublish, LapDeliver, LapEnd,
         descVars
<1> QED
  BY <1>2, <1>3, <1>4

(* A detach begun on a filled buffer, with the outcome its status means, or  *)
(* by the teardown.                                                         *)
LEMMA MapDetach ==
  ASSUME PoolInv, MapInv, NEW d \in Desc, NEW result, BeginDetach(d, result),
         UNCHANGED <<dma, ctl, draining>>, NEW s, fill' = [fill EXCEPT ![d] = s],
         s = "empty" => draining /\ ctl \in {"claim", "drainWait"},
         result = "success" => s = "ok"
  PROVE  MapInv'
<1>1. /\ fstate' = [fstate EXCEPT ![d] = "Detaching"]
      /\ outcome' = [outcome EXCEPT ![d] = result]
  BY DEF BeginDetach
<1>2. ASSUME NEW e \in Desc, e # d
      PROVE  fstate'[e] = fstate[e] /\ outcome'[e] = outcome[e] /\ fill'[e] = fill[e]
  BY <1>1, <1>2 DEF PoolInv, TypeOK, DescTypeOK, BusTypeOK
<1>3. fstate'[d] = "Detaching" /\ outcome'[d] = result /\ fill'[d] = s
  BY <1>1 DEF PoolInv, TypeOK, DescTypeOK, BusTypeOK
<1> QED
  BY <1>2, <1>3 DEF MapInv

LEMMA MapBus ==
  ASSUME PoolInv, MapInv, Bus
  PROVE  MapInv'
<1> USE DEF PoolInv, TypeOK, DescTypeOK, BusTypeOK
<1>1. ASSUME NEW d \in Desc, BusAttach(d) PROVE MapInv'
  <2>1. fstate[d] \in {"Attaching", "CompletedWhileAttaching"} /\ dma[d] = NoBuf
    BY <1>1 DEF BusAttach, IrpFollowsState
  <2>2. /\ dma' = [dma EXCEPT ![d] = cookie[d]] /\ fill' = [fill EXCEPT ![d] = "empty"]
        /\ UNCHANGED <<fstate, outcome, ctl, draining>>
    BY <1>1 DEF BusAttach, descVars, runVars, ctlVars
  <2> QED
    BY <2>1, <2>2 DEF MapInv
<1>2. ASSUME NEW d \in Desc, IsochCallback(d) PROVE MapInv'
  <2>1. PICK s \in {"ok", "error"} :
          /\ fill' = [fill EXCEPT ![d] = s]
          /\ \/ BeginDetach(d, FrameOutcome(s))
             \/ /\ fstate[d] = "Attaching"
                /\ fstate' = [fstate EXCEPT ![d] = "CompletedWhileAttaching"]
                /\ UNCHANGED outcome
             \/ UNCHANGED <<fstate, outcome>>
    BY <1>2 DEF IsochCallback
  <2>2. dma[d] # NoBuf /\ fill[d] = "empty" /\ UNCHANGED <<dma, ctl, draining>>
    BY <1>2 DEF IsochCallback, ctlVars
  <2>3. CASE BeginDetach(d, FrameOutcome(s))
    BY <2>1, <2>2, <2>3, MapDetach DEF FrameOutcome
  <2>4. CASE fstate' = [fstate EXCEPT ![d] = "CompletedWhileAttaching"] /\ UNCHANGED outcome
    BY <2>1, <2>2, <2>4 DEF MapInv
  <2>5. CASE UNCHANGED <<fstate, outcome>>
    BY <2>1, <2>2, <2>5 DEF MapInv
  <2> QED
    BY <2>1, <2>3, <2>4, <2>5
<1>3. ASSUME NEW d \in Desc, AttachCompleteFrameDone(d) PROVE MapInv'
  <2>1. /\ BeginDetach(d, FrameOutcome(fill[d])) /\ UNCHANGED <<dma, fill, ctl, draining>>
        /\ fill[d] # "empty" /\ fill' = [fill EXCEPT ![d] = fill[d]]
    BY <1>3 DEF AttachCompleteFrameDone, MapInv, runVars, ctlVars
  <2> QED
    BY <2>1, MapDetach DEF FrameOutcome
<1> QED
  BY <1>1, <1>2, <1>3 DEF Bus

LEMMA MapCompletion ==
  ASSUME PoolInv, FlowInv, Quiet, MapInv, NEW c \in Cpu, Completion(c)
  PROVE  MapInv'
<1> USE DEF PoolInv, TypeOK, DescTypeOK, BusTypeOK
<1>1. CASE UNCHANGED <<fstate, outcome, dma, fill, ctl, draining>>
  BY <1>1 DEF MapInv
<1>2. CASE AttachSignal(c) \/ Deliver(c) \/ DetachPump(c) \/ IrpDone(c) \/ IrpDoneTail(c)
  BY <1>1, <1>2 DEF AttachSignal, Deliver, DetachPump, IrpDone, IrpDoneTail, descVars, busVars,
                    runVars, ctlVars
<1>3. ASSUME NEW d \in Desc, AttachFailed(c, d) PROVE MapInv'
  BY <1>3 DEF AttachFailed, Recycle, MapInv, runVars, ctlVars
<1>4. ASSUME NEW d \in Desc, AttachCompletePublish(c, d) PROVE MapInv'
  BY <1>4 DEF AttachCompletePublish, MapInv, runVars, ctlVars
<1>5. ASSUME NEW d \in Desc, DetachComplete(c, d) PROVE MapInv'
  BY <1>5 DEF DetachComplete, Recycle, MapInv, runVars, ctlVars
<1>6. ASSUME NEW d \in Desc, DetachFailed(c, d) PROVE MapInv'
  <2>1. ctl # "unquarantine"
    BY <1>6 DEF DetachFailed, Quiet, FlowInv, Shut, Stopping
  <2> QED
    BY <1>6, <2>1 DEF DetachFailed, MapInv, runVars, ctlVars
<1> QED
  BY <1>2, <1>3, <1>4, <1>5, <1>6 DEF Completion

(* While nothing is at the bus driver no buffer is being detached.           *)
LEMMA NoneMoving ==
  ASSUME PoolInv, NEW d \in Desc, irp[d] = "none"
  PROVE  fstate[d] \notin {"Attaching", "CompletedWhileAttaching", "Detaching"}
  BY DEF PoolInv, IrpFollowsState

LEMMA MapControl ==
  ASSUME PoolInv, InFlightExact, FlowInv, Quiet, MapInv, Control \/ Requests \/ WorkBegin
  PROVE  MapInv'
<1> DEFINE Pool == UNCHANGED <<fstate, outcome, dma, fill>>
<1>1. CASE Pool /\ ctl \notin {"claim", "drainWait"} /\ ctl' # "unquarantine"
  BY <1>1 DEF MapInv
<1>2. CASE QuiesceClaim
  <2>1. PICK d \in pendingList : BeginDetach(d, "cancelled")
    BY <1>2 DEF QuiesceClaim
  <2>2. /\ d \in Desc /\ fill' = [fill EXCEPT ![d] = fill[d]]
        /\ UNCHANGED <<dma, ctl, draining>> /\ ctl = "claim" /\ draining
    <3>1. d \in Desc /\ fill = [fill EXCEPT ![d] = fill[d]]
      BY <2>1 DEF PoolInv, TypeOK, DescTypeOK, BusTypeOK
    <3>2. fill' = fill /\ UNCHANGED <<dma, ctl, draining>> /\ ctl = "claim"
      BY <1>2 DEF QuiesceClaim, ctlVars, runVars, busVars
    <3>3. draining
      BY <3>2 DEF FlowInv, Shut, Stopping
    <3> QED
      BY <3>1, <3>2, <3>3
  <2>3. PICK s : s = fill[d]
    OBVIOUS
  <2>4. fill' = [fill EXCEPT ![d] = s] /\ UNCHANGED <<dma, ctl, draining>>
    BY <2>2, <2>3
  <2>5. s = "empty" => draining /\ ctl \in {"claim", "drainWait"}
    BY <2>2
  <2>6. PICK result : result = "cancelled"
    OBVIOUS
  <2>7. BeginDetach(d, result) /\ (result = "success" => s = "ok")
    BY <2>1, <2>6
  <2> HIDE DEF Pool
  <2> QED
    BY <2>2, <2>4, <2>5, <2>7, MapDetach
<1>3. CASE QuiesceClaimed
  BY <1>3 DEF QuiesceClaimed, MapInv, Goto, Enter, descVars, busVars, runVars
<1>4. CASE QuiesceDrainWait
  <2>1. \A d \in Desc : fstate[d] # "Detaching"
    BY <1>4, CountedOut, NoneMoving DEF QuiesceDrainWait
  <2> QED
    BY <1>4, <2>1 DEF QuiesceDrainWait, MapInv, Goto, Enter, descVars, busVars, runVars
<1>5. CASE ReleaseIsoch
  <2>1. \A d \in Desc : fstate[d] \notin {"CompletedWhileAttaching", "Detaching"}
    BY <1>5, NoneMoving DEF ReleaseIsoch, Quiet, FlowInv, Shut, Stopping
  <2>2. PICK flushed \in BOOLEAN :
          /\ dma' = IF flushed THEN [d \in Desc |-> NoBuf] ELSE dma
          /\ ctl' = "unquarantine" => MayDeliver(flushed)
    <3>1. \A f : Goto(IF MayDeliver(f) THEN "unquarantine" ELSE AfterRelease) =>
                   (ctl' = "unquarantine" => MayDeliver(f))
      BY DEF Goto, Enter, AfterRelease
    <3> QED
      BY <1>5, <3>1 DEF ReleaseIsoch
  <2>3. UNCHANGED <<fstate, outcome>>
    BY <1>5 DEF ReleaseIsoch, descVars
  <2>4. CASE flushed
    BY <2>1, <2>2, <2>3, <2>4 DEF MapInv
  <2>5. CASE ~flushed
    BY <2>1, <2>2, <2>3, <2>5 DEF MapInv, MayDeliver, Quarantined
  <2> QED
    BY <2>4, <2>5
<1>6. CASE Unquarantine
  <2>1. UNCHANGED <<dma, fill, draining>> /\ ctl = "unquarantine"
    BY <1>6 DEF Unquarantine, busVars, runVars
  <2>2. ASSUME NEW d \in Quarantined, Recycle(d), UNCHANGED <<ctl, op>> PROVE MapInv'
    BY <2>1, <2>2 DEF Recycle, Quarantined, MapInv, PoolInv, TypeOK, DescTypeOK
  <2>3. CASE Quarantined = {} /\ UNCHANGED <<fstate, outcome>>
    BY <2>1, <2>3 DEF MapInv, Quarantined
  <2> QED
    BY <1>6, <2>2, <2>3 DEF Unquarantine
<1>7. CASE Requests \/ WorkBegin
  <2>1. Pool /\ ctl = "idle" /\ ctl' # "unquarantine"
    BY <1>7 DEF Requests, Run, Stop, Pause, Close, SurpriseRemoval, Open, WorkBegin, Accepts, Enter,
                descVars, busVars, ctlVars
  <2> QED
    BY <1>1, <2>1
<1>8. CASE Rundown \/ StopPublish \/ StopSettled \/ Shutdown \/ QuiesceBegin \/ QuiesceStop
           \/ QuiesceDrained \/ QuiescePumpIdle \/ DrainReads \/ Destroy
  <2>1. Pool /\ ctl \notin {"claim", "drainWait"} /\ ctl' # "unquarantine"
    BY <1>8 DEF Rundown, StopPublish, StopSettled, Shutdown, QuiesceBegin, QuiesceStop,
                QuiesceDrained, QuiescePumpIdle, DrainReads, Destroy, Goto, Enter, descVars, busVars
  <2> QED
    BY <1>1, <2>1
<1>9. CASE Startup \/ Worker
  <2>1. Pool /\ ctl \notin {"claim", "drainWait"} /\ ctl' # "unquarantine"
    BY <1>9 DEF Startup, Worker, Allocate, OpenEngine, ControlPump, ListenCheck, Listen,
                SetIsochEnable, PublishRun, WorkEnable, WorkRetry, AfterPumpCall, AfterListen, Goto,
                Enter, descVars, busVars
  <2> QED
    BY <1>1, <2>1
<1> QED
  BY <1>2, <1>3, <1>4, <1>5, <1>6, <1>7, <1>8, <1>9 DEF Control, Teardown

LEMMA MapNext ==
  ASSUME PoolInv, InFlightExact, FlowInv, Quiet, MapInv, [Next]_vars
  PROVE  MapInv'
<1>1. CASE Client \/ FrontEnd \/ WorkDispatch \/ UNCHANGED vars
  <2>1. UNCHANGED <<fstate, outcome, dma, fill, ctl, draining>>
    BY <1>1 DEF Client, FrontEnd, BeginFlush, Cancel, Submit, NotifyCancel, Park, ReadPump,
                WorkDispatch, vars, descVars, busVars, runVars, ctlVars
  <2> QED
    BY <2>1 DEF MapInv
<1> QED
  BY <1>1, MapPump, MapBus, MapCompletion, MapControl DEF Next

LEMMA DrainInit == Init => DrainInv
<1> SUFFICES ASSUME Init PROVE DrainInv
  OBVIOUS
<1>1. InFlightExact
  <2>1. Sent = {} /\ Inside = {} /\ inFlight = 0
    BY DEF Init, Sent, Inside, Counted
  <2> QED
    BY <2>1, SentInside, FS_EmptySet
<1>2. FlowInv /\ HandleInv /\ Silent
  BY FlowInit DEF Init, Silent
<1>3. Quiet /\ MapInv
  BY DEF Init, Quiet, Counted, MapInv
<1> QED
  BY <1>1, <1>2, <1>3, PoolInit DEF DrainInv

LEMMA DrainNext ==
  ASSUME "isochStop" \notin Faults
  PROVE  DrainInv /\ [Next]_vars => DrainInv'
<1> SUFFICES ASSUME DrainInv, [Next]_vars PROVE DrainInv'
  OBVIOUS
<1> USE DEF DrainInv
<1>1. PoolInv' /\ InFlightExact'
  BY PoolNext, CountNext
<1>2. FlowInv' /\ HandleInv'
  BY FlowNext DEF PoolInv
<1>3. Silent' /\ Quiet' /\ MapInv'
  BY SilentNext, QuietNext, MapNext DEF PoolInv
<1> QED
  BY <1>1, <1>2, <1>3

-----------------------------------------------------------------------------
(* The count is exact at every step (the InFlightIrps invariant of           *)
(* capture.h), whether or not the stop reaches the bus driver, for any       *)
(* number of descriptors and of completions running at once.                *)
THEOREM InFlightExactAlways == Spec => []InFlightExact
<1>1. Init => PoolInv /\ InFlightExact
  BY DrainInit DEF DrainInv
<1>2. PoolInv /\ InFlightExact /\ [Next]_vars => PoolInv' /\ InFlightExact'
  BY PoolNext, CountNext
<1> QED
  BY <1>1, <1>2, PTL DEF Spec

(* A drain waits for an exact count, so that between transitions a draining  *)
(* engine has nothing at the bus driver, in a completion or on a list        *)
(* (teardown.c PhotonicCaptureTeardownQuiesce, the InFlightIrps invariant of *)
(* capture.h), for any number of descriptors, completions and threads.      *)
THEOREM SettledIdleAlways ==
  ASSUME "isochStop" \notin Faults
  PROVE  Spec => []SettledIdle
<1>1. DrainInv => SettledIdle
  <2> SUFFICES ASSUME DrainInv, draining, ctl \notin {"isochStop", "claim", "drainWait", "drainCheck"}
               PROVE  SettledIdle
    BY DEF DrainInv, SettledIdle
  <2>1. /\ \A d \in Desc : irp[d] = "none"
        /\ \A c \in Cpu : ~Counted(c)
        /\ pendingList = {} /\ inFlight = 0 /\ ~listening
    BY CountedOut DEF DrainInv, Quiet, Silent, Stopping
  <2>2. Attached \subseteq Quarantined
    <3> SUFFICES ASSUME NEW d \in Desc, dma[d] # NoBuf PROVE fstate[d] = "DetachFailed"
      BY DEF Attached, Quarantined
    <3>1. fstate[d] \notin {"Attaching", "CompletedWhileAttaching", "Detaching"}
      BY <2>1, NoneMoving DEF DrainInv
    <3>2. fstate[d] # "Pending" /\ fstate[d] # "Free"
      BY <2>1 DEF DrainInv, PoolInv, ListsPartition, OnPending, MapInv
    <3> QED
      BY <3>1, <3>2 DEF DrainInv, PoolInv, TypeOK, DescTypeOK, FrameStates
  <2> QED
    BY <2>1, <2>2 DEF SettledIdle, DrainInv
<1> QED
  BY DrainInit, DrainNext, <1>1, PTL DEF Spec

(* An unfilled buffer is detached only from a stopped context (teardown.c,   *)
(* the one ordering rule), provided the stop reaches the bus driver, whose  *)
(* status resource.c does not look at.                                      *)
THEOREM StopBeforeDetachAlways ==
  ASSUME "isochStop" \notin Faults
  PROVE  Spec => []StopBeforeDetach
<1>1. DrainInv => StopBeforeDetach
  BY DEF DrainInv, MapInv, Silent, PoolInv, IrpFollowsState, StopBeforeDetach
<1> QED
  BY DrainInit, DrainNext, <1>1, PTL DEF Spec

(* Every request on the resource handle ends before the handle is freed      *)
(* (teardown.c: the resources are freed only after the drain).              *)
THEOREM HandleOutlivesIrpsAlways ==
  ASSUME "isochStop" \notin Faults
  PROVE  Spec => []HandleOutlivesIrps
<1>1. DrainInv => HandleOutlivesIrps
  BY DEF DrainInv, Quiet, Silent, HandleInv, Stopping, HandleOutlivesIrps
<1> QED
  BY DrainInit, DrainNext, <1>1, PTL DEF Spec

(* A frame reported delivered is one the bus driver filled without error     *)
(* (pump.c, the status written back by the callback and both completions).  *)
THEOREM NoFalseSuccessAlways ==
  ASSUME "isochStop" \notin Faults
  PROVE  Spec => []NoFalseSuccess
<1>1. DrainInv => NoFalseSuccess
  BY DEF DrainInv, MapInv, NoFalseSuccess
<1> QED
  BY DrainInit, DrainNext, <1>1, PTL DEF Spec
-----------------------------------------------------------------------------
(* What the bus driver maps.                                                *)

(* Through a descriptor it maps the read the descriptor carries.            *)
MapsOwn == \A d \in Desc : dma[d] # NoBuf => dma[d] = cookie[d]

LEMMA OwnPump ==
  ASSUME PoolInv, MapInv, MapsOwn, NEW t \in Thread, Pump(t)
  PROVE  MapsOwn'
<1>1. UNCHANGED dma
  BY DEF Pump, LapBegin, LapClaim, LapAcquire, LapSkipNoMdl, LapPublish, LapDeliver, LapEnd, busVars
<1>2. CASE UNCHANGED cookie
  BY <1>1, <1>2 DEF MapsOwn
<1>3. CASE LapPublish(t) /\ ~draining
  BY <1>1, <1>3 DEF LapPublish, MapsOwn, MapInv, PoolInv, TypeOK, DescTypeOK, PumpTypeOK,
                    ListsPartition, Claimed
<1>4. (LapPublish(t) /\ ~draining) \/ UNCHANGED cookie
  BY DEF Pump, LapBegin, LapClaim, LapAcquire, LapSkipNoMdl, LapPublish, LapDeliver, LapEnd,
         descVars
<1> QED
  BY <1>2, <1>3, <1>4

LEMMA OwnNext ==
  ASSUME PoolInv, MapInv, MapsOwn, [Next]_vars
  PROVE  MapsOwn'
<1> USE DEF PoolInv, TypeOK, DescTypeOK, BusTypeOK
<1>1. CASE UNCHANGED <<dma, cookie>>
  BY <1>1 DEF MapsOwn
<1>2. CASE Requests \/ Client \/ FrontEnd \/ WorkDispatch \/ WorkBegin \/ UNCHANGED vars
  <2>1. UNCHANGED <<dma, cookie>>
    BY <1>2 DEF Requests, Run, Stop, Pause, Close, SurpriseRemoval, Open, Client, FrontEnd,
                BeginFlush, Cancel, Submit, NotifyCancel, Park, ReadPump, WorkDispatch, WorkBegin,
                vars, descVars, busVars
  <2> QED
    BY <1>1, <2>1
<1>3. CASE Bus
  BY <1>1, <1>3 DEF Bus, BusAttach, IsochCallback, AttachCompleteFrameDone, MapsOwn, descVars
<1>4. ASSUME NEW c \in Cpu, Completion(c) PROVE MapsOwn'
  <2>1. CASE AttachSignal(c) \/ Deliver(c) \/ DetachPump(c) \/ IrpDone(c) \/ IrpDoneTail(c)
             \/ \E d \in Desc : AttachCompletePublish(c, d) \/ DetachFailed(c, d)
    BY <1>1, <2>1 DEF AttachSignal, Deliver, DetachPump, IrpDone, IrpDoneTail,
                      AttachCompletePublish, DetachFailed, descVars, busVars
  <2>2. ASSUME NEW d \in Desc, AttachFailed(c, d) \/ DetachComplete(c, d) PROVE MapsOwn'
    BY <2>2 DEF AttachFailed, DetachComplete, Recycle, MapsOwn
  <2> QED
    BY <1>4, <2>1, <2>2 DEF Completion
<1>5. CASE Unquarantine
  BY <1>5 DEF Unquarantine, Recycle, Quarantined, MapsOwn, MapInv, busVars
<1>6. CASE ReleaseIsoch
  BY <1>6 DEF ReleaseIsoch, MapsOwn, descVars
<1>7. CASE Control /\ ~Unquarantine /\ ~ReleaseIsoch
  <2>1. UNCHANGED <<dma, cookie>>
    BY <1>7 DEF Control, Teardown, Startup, Worker, Rundown, StopPublish, StopSettled, Shutdown,
                QuiesceBegin, QuiesceStop, QuiesceClaim, QuiesceClaimed, QuiesceDrainWait,
                QuiesceDrained, QuiescePumpIdle, DrainReads, Destroy, Allocate, OpenEngine,
                ControlPump, ListenCheck, Listen, SetIsochEnable, PublishRun, WorkEnable,
                WorkRetry, descVars, busVars
  <2> QED
    BY <1>1, <2>1
<1> QED
  BY <1>2, <1>3, <1>4, <1>5, <1>6, <1>7, OwnPump DEF Next

(* The reads of a drained engine: where each is and what is mapped of it.   *)
OwnInv == DrainInv /\ ReadInv /\ MapsOwn

LEMMA OwnAlways ==
  ASSUME "isochStop" \notin Faults
  PROVE  Spec => []OwnInv
<1>1. Init => OwnInv
  BY DrainInit, ReadInit DEF OwnInv, Init, MapsOwn
<1>2. OwnInv /\ [Next]_vars => OwnInv'
  BY DrainNext, ReadNext, OwnNext DEF OwnInv, DrainInv
<1> QED
  BY <1>1, <1>2, PTL DEF Spec

(* What is mapped belongs to a descriptor and to nobody else.               *)
LEMMA MappedIsHeld ==
  ASSUME OwnInv, NEW d \in Desc, dma[d] # NoBuf
  PROVE  dma[d] \in Buf /\ dma[d] = cookie[d] /\ dma[d] \in out /\ Holds("desc", d, dma[d])
<1>1. dma[d] \in Buf /\ dma[d] = cookie[d]
  BY DEF OwnInv, MapsOwn, DrainInv, PoolInv, TypeOK, BusTypeOK
<1>2. Holds("desc", d, dma[d])
  BY <1>1 DEF Holds
<1> QED
  BY <1>1, <1>2 DEF OwnInv, ReadInv, OneHolder

(* No page of a read that was given back is still mapped by the bus driver   *)
(* (pump.c DetachComplete, teardown.c: the flush before a quarantined read   *)
(* is delivered), for any number of descriptors and reads.                  *)
THEOREM NoMappedBufferReturnedAlways ==
  ASSUME "isochStop" \notin Faults
  PROVE  Spec => []NoMappedBufferReturned
<1>1. OwnInv => NoMappedBufferReturned
  BY MappedIsHeld DEF NoMappedBufferReturned
<1> QED
  BY OwnAlways, <1>1, PTL

-----------------------------------------------------------------------------
(* The camera and the end of the engine.                                    *)

(* ISO_EN is written only over an active listen on a running engine           *)
(* (capture.c and work.c, the immediate and the deferred enable): the drain  *)
(* that closes the engine has stopped the context first.                    *)
THEOREM EnableOnlyListeningAlways ==
  ASSUME "isochStop" \notin Faults
  PROVE  Spec => EnableOnlyListening
<1>1. ASSUME DrainInv, [Next]_vars, isoEnabled', ~isoEnabled PROVE listening /\ ~draining
  <2>1. CASE SetIsochEnable \/ WorkEnable
    BY <1>1, <2>1 DEF SetIsochEnable, WorkEnable, EnableReady, DrainInv, Silent
  <2>2. CASE ~(SetIsochEnable \/ WorkEnable)
    <3>1. CASE Control \/ Requests \/ WorkBegin \/ WorkDispatch
      BY <1>1, <2>2, <3>1
         DEF Control, Teardown, Startup, Worker, Rundown, StopPublish, StopSettled, Shutdown,
             QuiesceBegin, QuiesceStop, QuiesceClaim, QuiesceClaimed, QuiesceDrainWait,
             QuiesceDrained, QuiescePumpIdle, ReleaseIsoch, Unquarantine, DrainReads, Destroy,
             Allocate, OpenEngine, ControlPump, ListenCheck, Listen, PublishRun, WorkRetry,
             Requests, Run, Stop, Pause, Close, SurpriseRemoval, Open, WorkBegin, WorkDispatch,
             camVars
    <3>2. CASE Client \/ FrontEnd \/ Bus \/ UNCHANGED vars
      BY <1>1, <3>2 DEF Client, FrontEnd, BeginFlush, Cancel, Submit, NotifyCancel, Park, ReadPump,
                        Bus, BusAttach, IsochCallback, AttachCompleteFrameDone, vars, camVars
    <3>3. ASSUME NEW c \in Cpu, Completion(c) PROVE UNCHANGED isoEnabled
      BY <3>3 DEF Completion, AttachSignal, Deliver, DetachPump, IrpDone, IrpDoneTail,
                  AttachFailed, AttachCompletePublish, DetachFailed, DetachComplete, camVars
    <3>4. ASSUME NEW t \in Thread, Pump(t) PROVE UNCHANGED isoEnabled
      BY <3>4 DEF Pump, LapBegin, LapClaim, LapAcquire, LapSkipNoMdl, LapPublish, LapDeliver,
                  LapEnd, camVars
    <3> QED
      BY <1>1, <3>1, <3>2, <3>3, <3>4 DEF Next
  <2> QED
    BY <2>1, <2>2
<1>2. DrainInv /\ [Next]_vars => [isoEnabled' /\ ~isoEnabled => listening /\ ~draining]_vars
  BY <1>1
<1> QED
  BY DrainInit, DrainNext, <1>2, PTL DEF Spec, EnableOnlyListening

(* A close finds the engine running or settled, and leaves its last steps to *)
(* an engine nobody pumps.                                                  *)
GoneInv ==
  /\ ctl = "shutdown" /\ draining => op = "work"
  /\ op = "close" /\ ctl \in {"release", "unquarantine", "drain", "destroy"} => ~pumpActive
  /\ alive # "open" => ~pumpActive
  /\ rundown /\ ctl # "rundown" => cn = "idle"
  /\ alive = "freed" => Quarantined = {}

(* The last steps of a close.                                                *)
Closing ==
  \/ op = "close" /\ ctl \in {"release", "unquarantine", "drain", "destroy"}
  \/ alive # "open"

(* Past the gate and the drain nobody is left to pump.                       *)
LEMMA NobodyPumps ==
  ASSUME DrainInv, GateInv, Closing
  PROVE  /\ draining /\ ctl \notin Stopping \cup {"drainCheck", "pump", "rundown"}
         /\ \A r \in Reader : rd[r] = "idle"
         /\ \A c \in Cpu : ~Counted(c)
         /\ \A d \in Desc : irp[d] = "none"
  BY DEF DrainInv, GateInv, Closing, FlowInv, Quiet, Shut, Stopping

LEMMA GoneUnheld ==
  ASSUME DrainInv, GateInv, GoneInv, Unheld
  PROVE  GoneInv'
<1>1. UNCHANGED <<draining, ctl, op, alive>>
  BY UnheldKeeps DEF ctrl
<1>2. Closing => UNCHANGED <<pumpActive, fstate>>
  <2> SUFFICES ASSUME Closing PROVE UNCHANGED <<pumpActive, fstate>>
    OBVIOUS
  <2>1. ~pumpActive /\ \A t \in Thread : lap[t] = "none"
    BY DEF GoneInv, Closing, DrainInv, PoolInv, OnePumper
  <2>2. CASE Client \/ FrontEnd \/ WorkDispatch
    BY <2>2, NobodyPumps DEF Client, FrontEnd, BeginFlush, Cancel, Submit, NotifyCancel, Park,
                             ReadPump, WorkDispatch, descVars, pumpVars
  <2>3. CASE Bus
    <3>1. \A d \in Desc : dma[d] # NoBuf => fstate[d] \notin {"Pending", "Attaching"}
      BY NobodyPumps DEF DrainInv, PoolInv, IrpFollowsState, ListsPartition, Quiet, OnPending,
                         Stopping
    <3> QED
      BY <2>3, <3>1, NobodyPumps DEF Bus, BusAttach, IsochCallback, AttachCompleteFrameDone,
                                     descVars, pumpVars
  <2>4. ASSUME NEW c \in Cpu, Completion(c) PROVE UNCHANGED <<pumpActive, fstate>>
    BY <2>4, NobodyPumps DEF Completion, AttachSignal, Deliver, DetachPump, IrpDone, IrpDoneTail,
                             AttachFailed, AttachCompletePublish, DetachFailed, DetachComplete,
                             Counted, descVars, pumpVars
  <2>5. ASSUME NEW t \in Thread PROVE ~Pump(t)
    BY <2>1 DEF Pump, LapBegin, LapClaim, LapAcquire, LapSkipNoMdl, LapPublish, LapDeliver, LapEnd
  <2> QED
    BY <2>2, <2>3, <2>4, <2>5 DEF Unheld
<1>3. UNCHANGED rundown /\ (cn = "idle" /\ rundown => cn' = "idle")
  <2>1. CASE Client \/ FrontEnd \/ WorkDispatch
    BY <2>1 DEF Client, FrontEnd, BeginFlush, Cancel, Submit, NotifyCancel, Park, ReadPump,
                WorkDispatch, frontVars
  <2>2. CASE Bus
    BY <2>2 DEF Bus, BusAttach, IsochCallback, AttachCompleteFrameDone, frontVars
  <2>3. ASSUME NEW c \in Cpu, Completion(c) PROVE UNCHANGED <<rundown, cn>>
    BY <2>3 DEF Completion, AttachSignal, Deliver, DetachPump, IrpDone, IrpDoneTail, AttachFailed,
                AttachCompletePublish, DetachFailed, DetachComplete, frontVars
  <2>4. ASSUME NEW t \in Thread, Pump(t) PROVE UNCHANGED <<rundown, cn>>
    BY <2>4 DEF Pump, LapBegin, LapClaim, LapAcquire, LapSkipNoMdl, LapPublish, LapDeliver, LapEnd,
                frontVars
  <2> QED
    BY <2>1, <2>2, <2>3, <2>4 DEF Unheld
<1> QED
  BY <1>1, <1>2, <1>3 DEF GoneInv, Closing, Quarantined

LEMMA GoneHeld ==
  ASSUME DrainInv, GateInv, GoneInv, Control \/ Requests \/ WorkBegin
  PROVE  GoneInv'
<1> USE DEF GoneInv
<1>1. CASE Requests \/ WorkBegin
  BY <1>1 DEF Requests, Run, Stop, Pause, Close, SurpriseRemoval, Open, WorkBegin, Accepts, Enter,
              Quarantined, descVars, pumpVars, frontVars, ctlVars
<1>2. ASSUME UNCHANGED <<pumpActive, fstate, rundown, cn>>, alive = "open", alive' = "open",
             ctl # "rundown", ctl' \notin {"shutdown", "rundown"},
             op' = "close" /\ ctl' \in {"release", "unquarantine", "drain", "destroy"} =>
               ~pumpActive
      PROVE  GoneInv'
  BY <1>2
<1>3. CASE Rundown \/ StopSettled \/ QuiesceBegin \/ QuiesceStop \/ QuiesceClaimed
           \/ QuiesceDrainWait \/ QuiesceDrained
  <2>1. /\ UNCHANGED <<pumpActive, fstate, rundown, cn, op>> /\ alive' = alive /\ alive = "open"
        /\ ctl' \notin {"shutdown", "rundown", "unquarantine", "destroy"}
        /\ ctl' \in {"release", "drain"} => ~pumpActive
        /\ ctl = "rundown" => cn = "idle"
    BY <1>3 DEF Rundown, StopSettled, QuiesceBegin, QuiesceStop, QuiesceClaimed, QuiesceDrainWait,
                QuiesceDrained, Goto, Enter, DrainInv, FlowInv, descVars, pumpVars, frontVars
  <2> QED
    BY <2>1
<1>4. CASE StopPublish \/ Shutdown \/ QuiescePumpIdle
  <2>1. /\ UNCHANGED <<pumpActive, fstate, rundown, cn, op, draining>>
        /\ alive' = alive /\ alive = "open" /\ ctl # "rundown"
        /\ ctl' \in {"settled", "shutdown", "quiesce", "release", "resume"}
        /\ ctl' = "shutdown" => ~draining \/ op = "work"
        /\ ctl' = "release" /\ op = "close" => ~pumpActive
    BY <1>4 DEF StopPublish, Shutdown, QuiescePumpIdle, Goto, Enter, DrainInv, FlowInv, descVars,
                pumpVars, frontVars, runVars
  <2> QED
    BY <2>1
<1>5. CASE QuiesceClaim
  BY <1>5 DEF QuiesceClaim, DrainInv, FlowInv, pumpVars, frontVars, ctlVars
<1>6. CASE ReleaseIsoch
  <2>1. PICK f \in BOOLEAN : Goto(IF MayDeliver(f) THEN "unquarantine" ELSE AfterRelease)
    BY <1>6 DEF ReleaseIsoch
  <2>2. /\ UNCHANGED <<pumpActive, fstate, rundown, cn>> /\ alive' = alive /\ alive = "open"
        /\ ctl = "release"
    BY <1>6 DEF ReleaseIsoch, DrainInv, FlowInv, descVars, pumpVars, frontVars
  <2>3. ctl' \in {"unquarantine", "allocate", "idle", "drain"} /\ op' \in {op, "none"}
    BY <2>1 DEF AfterRelease, Goto, Enter
  <2> QED
    BY <1>2, <2>2, <2>3
<1>7. CASE Unquarantine
  <2>1. UNCHANGED <<pumpActive, rundown, cn, draining>> /\ alive' = alive /\ alive = "open"
        /\ ctl = "unquarantine"
    BY <1>7 DEF Unquarantine, DrainInv, FlowInv, pumpVars, frontVars, runVars
  <2>2. ctl' \in {"unquarantine", "allocate", "idle", "drain"} /\ op' \in {op, "none"}
    BY <1>7 DEF Unquarantine, AfterRelease, Goto, Enter
  <2> QED
    BY <2>1, <2>2
<1>8. CASE DrainReads
  <2>1. /\ UNCHANGED <<pumpActive, fstate, rundown, cn, draining>> /\ alive' = alive /\ ctl = "drain"
        /\ ctl' \in {"drain", "destroy", "listen", "idle"} /\ op' \in {op, "none"}
    BY <1>8 DEF DrainReads, Goto, Enter, descVars, pumpVars, frontVars, runVars
  <2> QED
    BY <2>1 DEF Quarantined
<1>9. CASE Destroy
  <2>1. op = "close" /\ rundown /\ ~pumpActive /\ cn = "idle"
    BY <1>9 DEF Destroy, GateInv
  <2>2. /\ UNCHANGED <<pumpActive, fstate, rundown, cn>> /\ op' = "closed" /\ ctl' = "drain"
        /\ alive' = "freed" => Quarantined = {}
    BY <1>9 DEF Destroy, Enter, descVars, pumpVars, frontVars
  <2> QED
    BY <2>1, <2>2 DEF Quarantined
<1>10. CASE Startup \/ Worker
  <2>1. /\ ctl \in {"allocate", "open", "resume", "pump", "pumping", "listen", "listenWait",
                    "listenIrb", "enable", "running", "workEnable", "workRetry"}
        /\ UNCHANGED <<fstate, rundown, cn>> /\ alive' = alive
    BY <1>10 DEF Startup, Worker, Allocate, OpenEngine, ControlPump, ListenCheck, Listen,
                 SetIsochEnable, PublishRun, WorkEnable, WorkRetry, descVars, frontVars
  <2>2. alive = "open" /\ (ctl = "allocate" => draining)
    BY <2>1 DEF DrainInv, FlowInv, Shut
  <2>3. ctl' \notin {"shutdown", "rundown", "unquarantine", "drain", "destroy"}
        /\ (ctl' = "release" => op' = "failed")
    BY <1>10 DEF Startup, Worker, Allocate, OpenEngine, ControlPump, ListenCheck, Listen,
                 SetIsochEnable, PublishRun, WorkEnable, WorkRetry, AfterPumpCall, AfterListen,
                 Goto, Enter
  <2> QED
    BY <2>1, <2>2, <2>3
<1> QED
  BY <1>1, <1>3, <1>4, <1>5, <1>6, <1>7, <1>8, <1>9, <1>10 DEF Control, Teardown

LEMMA GoneNext ==
  ASSUME DrainInv, GateInv, GoneInv, [Next]_vars
  PROVE  GoneInv'
<1>1. CASE UNCHANGED vars
  BY <1>1 DEF vars, GoneInv, Quarantined, descVars, pumpVars, runVars, frontVars, ctlVars
<1>2. CASE Unheld
  BY <1>2, GoneUnheld
<1>3. CASE Control \/ Requests \/ WorkBegin
  BY <1>3, GoneHeld
<1> QED
  BY <1>1, <1>2, <1>3 DEF Next, Unheld

LEMMA GoneUnreached ==
  ASSUME DrainInv, GateInv, GoneInv
  PROVE  FreedIsUnreached
<1> SUFFICES ASSUME alive # "open" PROVE FreedIsUnreached
  BY DEF FreedIsUnreached
<1>1. Closing
  BY DEF Closing
<1>2. /\ draining /\ ctl \notin Stopping \cup {"drainCheck"}
      /\ \A r \in Reader : rd[r] = "idle"
      /\ \A c \in Cpu : ~Counted(c)
      /\ \A d \in Desc : irp[d] = "none"
  BY <1>1, NobodyPumps
<1>3. ~pumpActive /\ cn = "idle"
  BY DEF GoneInv, GateInv, DrainInv, FlowInv
<1>4. inFlight = 0
  BY <1>2, CountedOut DEF DrainInv
<1>5. ASSUME NEW d \in Desc, alive = "freed" PROVE fstate[d] = "Free" /\ dma[d] = NoBuf
  <2>1. fstate[d] \notin {"Attaching", "CompletedWhileAttaching", "Detaching"}
    BY <1>2, NoneMoving DEF DrainInv
  <2>2. fstate[d] # "Pending"
    BY <1>2 DEF DrainInv, Quiet, PoolInv, ListsPartition, OnPending
  <2>3. fstate[d] # "DetachFailed"
    BY <1>5 DEF GoneInv, Quarantined
  <2>4. fstate[d] = "Free"
    BY <2>1, <2>2, <2>3 DEF DrainInv, PoolInv, TypeOK, DescTypeOK, FrameStates
  <2> QED
    BY <2>4 DEF DrainInv, MapInv
<1> QED
  BY <1>2, <1>3, <1>4, <1>5 DEF FreedIsUnreached, Attached

(* Nothing that could still reach the engine outlives its close, and it      *)
(* holds no read (lifecycle.c PhotonicStreamClose, PhotonicCaptureDestroy),  *)
(* with any number of data threads and completions at the gate.             *)
THEOREM FreedIsUnreachedAlways ==
  ASSUME "isochStop" \notin Faults
  PROVE  Spec => []FreedIsUnreached
<1> DEFINE Inv == DrainInv /\ GateInv /\ GoneInv
<1>1. Init => Inv
  BY DrainInit, ReadInit DEF ReadInv, Init, GoneInv, Quarantined
<1>2. Inv /\ [Next]_vars => Inv'
  BY DrainNext, GateNext, GoneNext DEF DrainInv, PoolInv
<1>3. Inv => FreedIsUnreached
  BY GoneUnreached
<1> QED
  BY <1>1, <1>2, <1>3, PTL DEF Spec
-----------------------------------------------------------------------------
(* The hand-off.                                                            *)

(* What the abstract specification sees of a state.                         *)
Mapped == {dma[d] : d \in Attached}

LEMMA HandoffStutter ==
  ASSUME UNCHANGED <<ready, out, rdBuf, dma>>
  PROVE  UNCHANGED Handoff!hvars
  BY DEF Handoff!hvars, EngineOwned, Parked, Arriving, Attached

(* What a descriptor, a lap or a completion holds the engine owns, and what  *)
(* is in line or with its thread it does not.                               *)
LEMMA OwnsHeld ==
  ASSUME ReadInv, NEW b \in Buf, NEW k, NEW x, Holds(k, x, b), k \in {"lap", "desc", "cpu"}
  PROVE  b \in EngineOwned /\ b \in out /\ b \notin Parked
<1>1. \A l, y : Holds(l, y, b) => l = k
  BY DEF ReadInv, OneHolder
<1>2. b \in out
  BY DEF ReadInv, OneHolder
<1>3. b \notin Parked
  BY <1>1 DEF Holds
<1>4. \A r \in Reader : rdBuf[r] # b
  BY <1>1 DEF Holds
<1> QED
  BY <1>2, <1>3, <1>4 DEF EngineOwned, Arriving

LEMMA OwnedAlike ==
  ASSUME UNCHANGED <<ready, out, rdBuf>>
  PROVE  EngineOwned' = EngineOwned
  BY DEF EngineOwned, Parked, Arriving

LEMMA MappedAlike ==
  ASSUME dma' = dma
  PROVE  Mapped' = Mapped
  BY DEF Mapped, Attached

(* A mapped read is held by a descriptor.                                    *)
LEMMA MappedByDesc ==
  ASSUME OwnInv, NEW b \in Buf, NEW k, NEW x, Holds(k, x, b), b \in Mapped
  PROVE  k = "desc" /\ x \in Desc /\ dma[x] = b
<1>1. PICK d \in Desc : dma[d] # NoBuf /\ b = dma[d]
  BY DEF Mapped, Attached
<1>2. Holds("desc", d, b)
  BY <1>1, MappedIsHeld
<1>3. k = "desc" /\ x = d
  BY <1>2 DEF OwnInv, ReadInv, OneHolder
<1> QED
  BY <1>1, <1>3

(* A read the engine gives back.                                            *)
LEMMA HandoffReturn ==
  ASSUME OwnInv, NEW b \in Buf, NEW k, NEW x, Holds(k, x, b), k \in {"lap", "desc", "cpu"},
         k = "desc" => dma[x] # b, Complete({b}), UNCHANGED <<ready, rdBuf, dma>>
  PROVE  Handoff!Next
<1>1. b \in EngineOwned
  BY OwnsHeld DEF OwnInv
<1>2. b \notin Mapped
  BY MappedByDesc
<1>3. EngineOwned' = EngineOwned \ {b}
  BY DEF EngineOwned, Parked, Arriving, Complete
<1>4. Handoff!Return(b)
  BY <1>1, <1>2, <1>3, MappedAlike DEF Handoff!Return, Mapped
<1> QED
  BY <1>4 DEF Handoff!Next

(* A read that leaves the line for the class driver.                         *)
LEMMA HandoffWithdraw ==
  ASSUME ReadInv, NEW i \in DOMAIN ready, ready' = RemoveAt(ready, i), Complete({ready[i]}),
         UNCHANGED <<rdBuf, dma>>
  PROVE  Handoff!Next
<1>1. ready \in Seq(Buf) /\ IsInjective(ready)
  BY DEF ReadInv, PoolInv, TypeOK, ReadTypeOK
<1>2. Parked' = Parked \ {ready[i]} /\ ready[i] \in Parked
  <2>1. ToSet(RemoveAt(ready, i)) = ToSet(ready) \ {ready[i]}
    BY <1>1, LineRemove
  <2>2. ready[i] \in ToSet(ready)
    BY DEF ToSet
  <2> QED
    BY <2>1, <2>2 DEF Parked
<1>3. EngineOwned' = EngineOwned
  BY <1>2 DEF EngineOwned, Arriving, Complete
<1>4. ready' = Handoff!RemoveAt(ready, i)
  BY DEF RemoveAt, Handoff!RemoveAt
<1>5. Handoff!Withdraw
  BY <1>3, <1>4, MappedAlike DEF Handoff!Withdraw, Mapped
<1> QED
  BY <1>5 DEF Handoff!Next

LEMMA TailIsRemove ==
  ASSUME NEW S, NEW s \in Seq(S), s # <<>>
  PROVE  1 \in DOMAIN s /\ Tail(s) = RemoveAt(s, 1) /\ Head(s) = s[1]
<1>1. 1 \in DOMAIN s
  BY LenProperties, EmptySeq
<1>2. SubSeq(s, 1, 0) = <<>>
  BY SubSeqEmpty
<1>3. Tail(s) = SubSeq(s, 2, Len(s)) /\ Tail(s) \in Seq(S)
  BY TailIsSubSeq, HeadTailProperties
<1>4. RemoveAt(s, 1) = <<>> \o Tail(s)
  BY <1>2, <1>3 DEF RemoveAt
<1>5. <<>> \o Tail(s) = Tail(s)
  BY <1>3, ConcatEmptySeq
<1> QED
  BY <1>1, <1>4, <1>5

LEMMA HandoffWithdrawHead ==
  ASSUME ReadInv, ready # <<>>, ready' = Tail(ready), Complete({Head(ready)}),
         UNCHANGED <<rdBuf, dma>>
  PROVE  Handoff!Next
<1>1. ready \in Seq(Buf)
  BY DEF ReadInv, PoolInv, TypeOK, ReadTypeOK
<1>2. 1 \in DOMAIN ready /\ Tail(ready) = RemoveAt(ready, 1) /\ Head(ready) = ready[1]
  BY <1>1, TailIsRemove
<1> QED
  BY <1>2, HandoffWithdraw

(* The engine takes the head of the line.                                   *)
LEMMA HandoffTake ==
  ASSUME ReadInv, ready # <<>>, ready' = Tail(ready), UNCHANGED <<out, rdBuf, dma>>
  PROVE  Handoff!Next
<1> DEFINE h == Head(ready)
<1>1. h \in Buf /\ Holds("line", "line", h) /\ h \in out /\ Parked' = Parked \ {h}
  BY HeadLeaves
<1>2. h \notin Arriving
  <2>1. \A r \in Reader : rdBuf[r] # h
    BY <1>1 DEF ReadInv, OneHolder, Holds
  <2> QED
    BY <2>1 DEF Arriving
<1> HIDE DEF h
<1>3. EngineOwned' = EngineOwned \cup {h}
  BY <1>1, <1>2 DEF EngineOwned, Arriving
<1>4. Handoff!Take
  BY <1>3, MappedAlike DEF Handoff!Take, Mapped, h
<1> QED
  BY <1>4 DEF Handoff!Next

LEMMA HandoffPump ==
  ASSUME OwnInv, NEW t \in Thread, Pump(t)
  PROVE  [Handoff!Next]_(Handoff!hvars)
<1>1. CASE LapBegin(t) \/ LapClaim(t) \/ LapPublish(t) \/ LapEnd(t)
  <2>1. UNCHANGED <<ready, out, rdBuf, dma>>
    BY <1>1 DEF LapBegin, LapClaim, LapPublish, LapEnd, readVars, frontVars, rdVars, busVars
  <2> QED
    BY <2>1, HandoffStutter
<1>2. CASE LapAcquire(t)
  <2>1. UNCHANGED <<out, rdBuf, dma>>
    BY <1>2 DEF LapAcquire, frontVars, rdVars, busVars
  <2>2. (ready # <<>> /\ ready' = Tail(ready)) \/ UNCHANGED ready
    BY <1>2 DEF LapAcquire
  <2> QED
    BY <2>1, <2>2, HandoffTake, HandoffStutter DEF OwnInv
<1>3. CASE LapSkipNoMdl(t)
  BY <1>3, HandoffWithdrawHead DEF LapSkipNoMdl, OwnInv, frontVars, rdVars, busVars
<1>4. CASE LapDeliver(t)
  <2>1. lapBuf[t] \in Buf /\ Complete({lapBuf[t]}) /\ UNCHANGED <<ready, rdBuf, dma>>
    BY <1>4 DEF LapDeliver, OwnInv, ReadInv, HandsInv, frontVars, rdVars, busVars
  <2>2. Holds("lap", t, lapBuf[t])
    BY DEF Holds
  <2>3. PICK b \in Buf : b = lapBuf[t]
    BY <2>1
  <2> QED
    BY <2>1, <2>2, <2>3, HandoffReturn
<1> QED
  BY <1>1, <1>2, <1>3, <1>4 DEF Pump

LEMMA HandoffBus ==
  ASSUME OwnInv, Bus
  PROVE  [Handoff!Next]_(Handoff!hvars)
<1>1. ASSUME NEW d \in Desc, BusAttach(d) PROVE Handoff!Next
  <2>1. PICK b : b = cookie[d]
    OBVIOUS
  <2>2. /\ b \in Buf /\ Holds("desc", d, b)
        /\ dma' = [dma EXCEPT ![d] = b] /\ dma[d] = NoBuf /\ UNCHANGED <<ready, out, rdBuf>>
    <3>1. fstate[d] # "Free"
      BY <1>1 DEF BusAttach, OwnInv, DrainInv, PoolInv, IrpFollowsState
    <3>2. b \in Buf
      BY <2>1, <3>1 DEF OwnInv, ReadInv, HandsInv
    <3> QED
      BY <1>1, <2>1, <3>2 DEF BusAttach, Holds, readVars, frontVars, rdVars
  <2>3. b \in EngineOwned
    BY <2>2, OwnsHeld DEF OwnInv
  <2>4. b \notin Mapped
    BY <2>2, MappedByDesc, ConstantsAssumption
  <2>5. Mapped' = Mapped \cup {b}
    <3>1. dma \in [Desc -> Buf \cup {NoBuf}] /\ b # NoBuf
      BY <2>2, ConstantsAssumption DEF OwnInv, DrainInv, PoolInv, TypeOK, BusTypeOK
    <3> QED
      BY <2>2, <3>1 DEF Mapped, Attached
  <2>6. Handoff!Map(b)
    BY <2>2, <2>3, <2>4, <2>5, OwnedAlike DEF Handoff!Map, Mapped
  <2> QED
    BY <2>2, <2>6 DEF Handoff!Next
<1>2. ASSUME NEW d \in Desc, IsochCallback(d) \/ AttachCompleteFrameDone(d)
      PROVE  UNCHANGED <<ready, out, rdBuf, dma>>
  BY <1>2 DEF IsochCallback, AttachCompleteFrameDone, readVars, frontVars, rdVars
<1> QED
  BY <1>1, <1>2, HandoffStutter DEF Bus

(* A detach or a flush takes mappings away.                                  *)
LEMMA HandoffUnmap ==
  ASSUME UNCHANGED <<ready, out, rdBuf>>, Mapped' \subseteq Mapped
  PROVE  Handoff!Next
<1>1. PICK S : S = Mapped \ Mapped'
  OBVIOUS
<1>2. S \in SUBSET Mapped /\ Mapped' = Mapped \ S
  BY <1>1
<1>3. Handoff!Unmap(S)
  BY <1>2, OwnedAlike DEF Handoff!Unmap, Mapped
<1> QED
  BY <1>2, <1>3 DEF Handoff!Next, Mapped

LEMMA HandoffCompletion ==
  ASSUME OwnInv, NEW c \in Cpu, Completion(c)
  PROVE  [Handoff!Next]_(Handoff!hvars)
<1>1. CASE Deliver(c)
  <2>1. cpuBuf[c] \in Buf /\ Complete({cpuBuf[c]}) /\ UNCHANGED <<ready, rdBuf, dma>>
    BY <1>1 DEF Deliver, OwnInv, ReadInv, HandsInv, frontVars, rdVars, busVars
  <2>2. Holds("cpu", c, cpuBuf[c])
    BY DEF Holds
  <2>3. PICK b \in Buf : b = cpuBuf[c]
    BY <2>1
  <2> QED
    BY <2>1, <2>2, <2>3, HandoffReturn
<1>2. ASSUME NEW d \in Desc, DetachComplete(c, d) PROVE Handoff!Next
  <2>1. UNCHANGED <<ready, out, rdBuf>> /\ dma' = [dma EXCEPT ![d] = NoBuf]
    BY <1>2 DEF DetachComplete, readVars, frontVars, rdVars
  <2>2. Mapped' \subseteq Mapped
    BY <2>1 DEF Mapped, Attached, OwnInv, DrainInv, PoolInv, TypeOK, BusTypeOK
  <2> QED
    BY <2>1, <2>2, HandoffUnmap
<1>3. ASSUME AttachSignal(c) \/ DetachPump(c) \/ IrpDone(c) \/ IrpDoneTail(c)
             \/ \E d \in Desc : AttachFailed(c, d) \/ AttachCompletePublish(c, d) \/ DetachFailed(c, d)
      PROVE  UNCHANGED <<ready, out, rdBuf, dma>>
  BY <1>3 DEF AttachSignal, DetachPump, IrpDone, IrpDoneTail, AttachFailed, AttachCompletePublish,
              DetachFailed, readVars, frontVars, rdVars, busVars
<1> QED
  BY <1>1, <1>2, <1>3, HandoffStutter DEF Completion

LEMMA HandoffReads ==
  ASSUME OwnInv, Client \/ FrontEnd
  PROVE  [Handoff!Next]_(Handoff!hvars)
<1> USE DEF OwnInv
<1>0. rdBuf \in [Reader -> Buf \cup {NoBuf}] /\ \A r \in Reader : rdBuf[r] \in Buf <=> rd[r] = "park"
  BY DEF ReadInv, PoolInv, TypeOK, FrontTypeOK
<1>1. CASE NotifyCancel
  BY <1>1, HandoffStutter DEF NotifyCancel, readVars, rdVars, busVars
<1>2. CASE BeginFlush
  BY <1>2, HandoffWithdrawHead DEF BeginFlush, frontVars, rdVars, busVars
<1>3. ASSUME NEW b \in Buf, Cancel(b) PROVE [Handoff!Next]_(Handoff!hvars)
  <2>1. UNCHANGED <<rdBuf, dma>>
    BY <1>3 DEF Cancel, rdVars, busVars
  <2>2. CASE UNCHANGED <<ready, out>>
    BY <2>1, <2>2, HandoffStutter
  <2>3. ASSUME NEW i \in DOMAIN ready, ready[i] = b, ready' = RemoveAt(ready, i), Complete({b})
        PROVE  Handoff!Next
    BY <2>1, <2>3, HandoffWithdraw
  <2> QED
    BY <1>3, <2>2, <2>3 DEF Cancel
<1>4. ASSUME NEW r \in Reader, NEW b \in Buf, Submit(r, b) PROVE UNCHANGED Handoff!hvars
  <2>1. /\ UNCHANGED <<ready, dma>> /\ out' = out \cup {b} /\ b \notin out
        /\ rdBuf' = [rdBuf EXCEPT ![r] = b] /\ rdBuf[r] \notin Buf
    BY <1>0, <1>4 DEF Submit, ReaderAt, busVars
  <2>2. EngineOwned' = EngineOwned
    <3>1. \A x \in Buf : x # b => (x \in Arriving' <=> x \in Arriving)
      BY <1>0, <2>1 DEF Arriving
    <3>2. b \in Arriving'
      BY <1>0, <2>1 DEF Arriving
    <3>3. out \subseteq Buf /\ Parked' = Parked
      BY <2>1 DEF ReadInv, PoolInv, TypeOK, ReadTypeOK, Parked
    <3> QED
      BY <2>1, <3>1, <3>2, <3>3 DEF EngineOwned
  <2> QED
    BY <2>1, <2>2, MappedAlike DEF Handoff!hvars, Mapped
<1>5. ASSUME NEW r \in Reader, Park(r) PROVE [Handoff!Next]_(Handoff!hvars)
  <2>1. PICK b : b = rdBuf[r]
    OBVIOUS
  <2>2. /\ b \in Buf /\ dma' = dma /\ b \in Arriving /\ rdBuf' = [rdBuf EXCEPT ![r] = NoBuf]
        /\ out \subseteq Buf /\ Holds("reader", r, b)
    BY <1>0, <1>5, <2>1 DEF Park, ReaderAt, Arriving, busVars, ReadInv, PoolInv, TypeOK, ReadTypeOK,
                            Holds
  <2>3. \A x \in Buf : x # b => (x \in Arriving' <=> x \in Arriving)
    BY <1>0, <2>1, <2>2, ConstantsAssumption DEF Arriving
  <2>4. CASE Complete({b}) /\ UNCHANGED ready
    <3>1. EngineOwned' = EngineOwned
      BY <2>2, <2>3, <2>4 DEF EngineOwned, Complete, Parked
    <3> QED
      BY <2>2, <2>4, <3>1, MappedAlike DEF Handoff!hvars, Mapped
  <2>5. CASE ready' = Append(ready, b) /\ UNCHANGED out
    <3>1. b \notin Parked
      BY <2>2 DEF ReadInv, OneHolder, Holds
    <3>2. Parked' = Parked \cup {b}
      BY <2>2, <2>5, <3>1, LineAppend DEF Parked, ReadInv, PoolInv, TypeOK, ReadTypeOK
    <3>3. EngineOwned' = EngineOwned /\ b \notin EngineOwned
      BY <2>2, <2>3, <2>5, <3>1, <3>2 DEF EngineOwned
    <3>4. ~Handoff!InLine(b)
      BY <3>1 DEF Handoff!InLine, Parked, ToSet
    <3>5. Handoff!Park(b)
      BY <2>2, <2>5, <3>3, <3>4, MappedAlike DEF Handoff!Park, Mapped
    <3> QED
      BY <2>2, <3>5 DEF Handoff!Next
  <2> QED
    BY <1>5, <2>1, <2>4, <2>5 DEF Park
<1>6. ASSUME NEW r \in Reader, ReadPump(r) PROVE UNCHANGED Handoff!hvars
  <2>1. UNCHANGED <<ready, out, dma>> /\ rdBuf' = [rdBuf EXCEPT ![r] = NoBuf] /\ rdBuf[r] = NoBuf
    BY <1>0, <1>6 DEF ReadPump, ReaderAt, readVars, busVars
  <2>2. rdBuf' = rdBuf
    BY <1>0, <2>1
  <2> QED
    BY <2>1, <2>2, HandoffStutter
<1> QED
  BY <1>1, <1>2, <1>3, <1>4, <1>5, <1>6 DEF Client, FrontEnd

LEMMA HandoffControl ==
  ASSUME OwnInv, Control \/ Requests \/ WorkBegin \/ WorkDispatch
  PROVE  [Handoff!Next]_(Handoff!hvars)
<1> USE DEF OwnInv
<1>1. CASE Open
  <2>1. ready = <<>>
    BY <1>1 DEF Open, ReadInv, GateInv
  <2> QED
    BY <1>1, <2>1, HandoffStutter DEF Open, rdVars, busVars
<1>2. CASE ReleaseIsoch
  <2>1. UNCHANGED <<ready, out, rdBuf>> /\ dma' \in {dma, [d \in Desc |-> NoBuf]}
    BY <1>2 DEF ReleaseIsoch, readVars, frontVars, rdVars
  <2>2. Mapped' \subseteq Mapped
    BY <2>1 DEF Mapped, Attached
  <2> QED
    BY <2>1, <2>2, HandoffUnmap
<1>3. CASE Unquarantine
  <2>1. UNCHANGED <<ready, rdBuf, dma>> /\ ctl = "unquarantine"
    BY <1>3 DEF Unquarantine, frontVars, rdVars, busVars
  <2>2. ASSUME NEW d \in Quarantined, Complete({cookie[d]}) PROVE Handoff!Next
    <3>1. PICK b : b = cookie[d]
      OBVIOUS
    <3>2. d \in Desc /\ b \in Buf /\ Holds("desc", d, b) /\ dma[d] = NoBuf
      BY <2>1, <3>1 DEF Quarantined, ReadInv, HandsInv, Holds, DrainInv, MapInv
    <3> QED
      BY <2>1, <2>2, <3>1, <3>2, HandoffReturn, ConstantsAssumption
  <2>3. CASE UNCHANGED out
    BY <2>1, <2>3, HandoffStutter
  <2> QED
    BY <1>3, <2>2, <2>3 DEF Unquarantine
<1>4. CASE DrainReads
  <2>1. UNCHANGED <<rdBuf, dma>>
    BY <1>4 DEF DrainReads, frontVars, rdVars, busVars
  <2> QED
    BY <1>4, <2>1, HandoffWithdrawHead, HandoffStutter DEF DrainReads, readVars
<1>5. CASE (Control \/ Requests \/ WorkBegin \/ WorkDispatch)
           /\ ~(Open \/ ReleaseIsoch \/ Unquarantine \/ DrainReads)
  <2>1. UNCHANGED <<ready, out, rdBuf, dma>>
    BY <1>5 DEF Control, Teardown, Startup, Worker, Rundown, StopPublish, StopSettled, Shutdown,
                QuiesceBegin, QuiesceStop, QuiesceClaim, QuiesceClaimed, QuiesceDrainWait,
                QuiesceDrained, QuiescePumpIdle, Destroy, Allocate, OpenEngine, ControlPump,
                ListenCheck, Listen, SetIsochEnable, PublishRun, WorkEnable, WorkRetry, Requests,
                Run, Stop, Pause, Close, SurpriseRemoval, WorkBegin, WorkDispatch, readVars,
                frontVars, rdVars, busVars
  <2> QED
    BY <2>1, HandoffStutter
<1> QED
  BY <1>1, <1>2, <1>3, <1>4, <1>5

LEMMA HandoffNext ==
  ASSUME OwnInv, [Next]_vars
  PROVE  [Handoff!Next]_(Handoff!hvars)
<1>1. CASE UNCHANGED vars
  BY <1>1, HandoffStutter DEF vars, readVars, frontVars, rdVars, busVars
<1> QED
  BY <1>1, HandoffPump, HandoffBus, HandoffCompletion, HandoffReads, HandoffControl DEF Next

(* The engine and its pin implement the hand-off that the deliver and        *)
(* acquire contracts of capture.h promise, for any number of descriptors,    *)
(* reads and threads: every step of theirs is one of BufferHandoff or leaves *)
(* the line, what the engine owns and what the bus driver maps as they are.  *)
THEOREM ImplementsHandoff ==
  ASSUME "isochStop" \notin Faults
  PROVE  Spec => HandoffSpec
<1>1. Init => Handoff!Init
  BY DEF Init, Handoff!Init, EngineOwned, Attached
<1>2. OwnInv /\ [Next]_vars => [Handoff!Next]_(Handoff!hvars)
  BY HandoffNext
<1> QED
  BY <1>1, <1>2, OwnAlways, PTL DEF Spec, HandoffSpec, Handoff!Spec
=============================================================================
