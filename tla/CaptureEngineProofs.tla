------------------------ MODULE CaptureEngineProofs ------------------------
(***************************************************************************)
(* Proofs about the capture engine, for every set of descriptors, reads    *)
(* and threads and every choice of operations and faults.                  *)
(***************************************************************************)
EXTENDS CaptureEngine, TLAPS, FiniteSetTheorems, SequenceTheorems

-----------------------------------------------------------------------------
(* Type correctness.                                                        *)

LEMMA CardDesc == Cardinality(Desc) \in Nat
  BY ConstantsAssumption, FS_CardinalityType

(* What a group of variables that is left alone keeps. *)
LEMMA TypeFrame ==
  ASSUME TypeOK
  PROVE  /\ UNCHANGED descVars => DescTypeOK'
         /\ UNCHANGED busVars => BusTypeOK'
         /\ UNCHANGED pumpVars => PumpTypeOK'
         /\ UNCHANGED runVars => RunTypeOK'
         /\ UNCHANGED resVars => ResTypeOK'
         /\ UNCHANGED camVars => CamTypeOK'
         /\ UNCHANGED workVars => WorkTypeOK'
         /\ UNCHANGED readVars => ReadTypeOK'
         /\ UNCHANGED frontVars => FrontTypeOK'
         /\ UNCHANGED cpuVars => CpuTypeOK'
         /\ UNCHANGED ctlVars => CtlTypeOK'
  <1>1. UNCHANGED descVars => DescTypeOK'
    BY DEF TypeOK, DescTypeOK, descVars
  <1>2. UNCHANGED busVars => BusTypeOK'
    BY DEF TypeOK, BusTypeOK, busVars
  <1>3. UNCHANGED pumpVars => PumpTypeOK'
    BY DEF TypeOK, PumpTypeOK, pumpVars, lapVars
  <1>4. UNCHANGED runVars => RunTypeOK'
    BY DEF TypeOK, RunTypeOK, runVars
  <1>5. UNCHANGED resVars => ResTypeOK'
    BY DEF TypeOK, ResTypeOK, resVars
  <1>6. UNCHANGED camVars => CamTypeOK'
    BY DEF TypeOK, CamTypeOK, camVars
  <1>7. UNCHANGED workVars => WorkTypeOK'
    BY DEF TypeOK, WorkTypeOK, workVars
  <1>8. UNCHANGED readVars => ReadTypeOK'
    BY DEF TypeOK, ReadTypeOK, readVars
  <1>9. UNCHANGED frontVars => FrontTypeOK'
    BY DEF TypeOK, FrontTypeOK, frontVars, rdVars
  <1>10. UNCHANGED cpuVars => CpuTypeOK'
    BY DEF TypeOK, CpuTypeOK, cpuVars
  <1>11. UNCHANGED ctlVars => CtlTypeOK'
    BY DEF TypeOK, CtlTypeOK, ctlVars
  <1> QED
    BY <1>1, <1>2, <1>3, <1>4, <1>5, <1>6, <1>7, <1>8, <1>9, <1>10, <1>11

LEMMA Bounds == RetryMax \in Nat /\ 0 \in 0 .. RetryMax /\ MaxWorkers \in Nat /\ 0 \in 0 .. MaxWorkers
  BY ConstantsAssumption

(* What the actions do to the line of parked reads leaves it a line of reads. *)
LEMMA ReadyHead ==
  ASSUME ReadTypeOK, ready # <<>>
  PROVE  Head(ready) \in Buf /\ Tail(ready) \in Seq(Buf)
  BY HeadTailProperties DEF ReadTypeOK

LEMMA ReadyRemove ==
  ASSUME ReadTypeOK, NEW i \in DOMAIN ready
  PROVE  RemoveAt(ready, i) \in Seq(Buf)
  <1>1. i \in 1 .. Len(ready) /\ Len(ready) \in Nat /\ \A j \in 1 .. Len(ready) : ready[j] \in Buf
    BY LenProperties, ElementOfSeq DEF ReadTypeOK
  <1>2. SubSeq(ready, 1, i - 1) \in Seq(Buf) /\ SubSeq(ready, i + 1, Len(ready)) \in Seq(Buf)
    BY <1>1, SubSeqProperties
  <1> QED
    BY <1>2, ConcatProperties DEF RemoveAt

LEMMA TypePump ==
  ASSUME TypeOK, NEW t \in Thread, Pump(t)
  PROVE  TypeOK'
  <1> USE TypeFrame DEF TypeOK
  <1>1. CASE LapBegin(t)
    <2>1. PumpTypeOK'
      BY <1>1, ConstantsAssumption, CardDesc DEF LapBegin, PumpTypeOK, LapPcs, LapAt
    <2> QED
      BY <1>1, <2>1 DEF LapBegin
  <1>2. CASE LapClaim(t)
    <2>1. DescTypeOK'
      BY <1>2 DEF LapClaim, DescTypeOK, FrameStates
    <2>2. PumpTypeOK'
      BY <1>2, ConstantsAssumption, CardDesc DEF LapClaim, PumpTypeOK, LapPcs, LapAt, DescTypeOK
    <2> QED
      BY <1>2, <2>1, <2>2 DEF LapClaim
  <1>3. CASE LapAcquire(t)
    <2>1. DescTypeOK'
      BY <1>3 DEF LapAcquire, DescTypeOK, FrameStates, PumpTypeOK
    <2>2. PumpTypeOK'
      <3>1. pumpActive' \in BOOLEAN /\ pumpAgain' \in BOOLEAN /\ lap' \in [Thread -> LapPcs]
        BY <1>3 DEF LapAcquire, PumpTypeOK, LapPcs, LapAt
      <3>2. lapDesc' \in [Thread -> Desc \cup {NoDesc}]
        BY <1>3 DEF LapAcquire, PumpTypeOK, LapAt
      <3>3. lapBuf' \in [Thread -> Buf \cup {NoBuf}]
        BY <1>3, ReadyHead DEF LapAcquire, PumpTypeOK, LapAt
      <3>4. lapCount' \in [Thread -> 0 .. Cardinality(Desc)]
        BY <1>3, CardDesc DEF LapAcquire, PumpTypeOK, LapAt
      <3>5. (\A u \in Thread : lapDesc[u] \in Desc <=> lap[u] \in {"acquire", "publish"})'
        BY <1>3, ConstantsAssumption DEF LapAcquire, PumpTypeOK, LapAt
      <3> QED
        BY <3>1, <3>2, <3>3, <3>4, <3>5 DEF PumpTypeOK
    <2>3. ReadTypeOK'
      BY <1>3, ReadyHead DEF LapAcquire, ReadTypeOK
    <2> QED
      BY <1>3, <2>1, <2>2, <2>3 DEF LapAcquire
  <1>4. CASE LapSkipNoMdl(t)
    <2>1. ReadTypeOK'
      BY <1>4, ReadyHead DEF LapSkipNoMdl, ReadTypeOK, Complete
    <2> QED
      BY <1>4, <2>1 DEF LapSkipNoMdl
  <1>5. CASE LapPublish(t)
    <2>1. DescTypeOK'
      BY <1>5 DEF LapPublish, DescTypeOK, FrameStates, PumpTypeOK
    <2>2. BusTypeOK'
      BY <1>5 DEF LapPublish, BusTypeOK, PumpTypeOK
    <2>3. PumpTypeOK'
      BY <1>5, ConstantsAssumption, CardDesc DEF LapPublish, PumpTypeOK, LapPcs, LapAt
    <2>4. RunTypeOK'
      BY <1>5 DEF LapPublish, RunTypeOK
    <2> QED
      BY <1>5, <2>1, <2>2, <2>3, <2>4 DEF LapPublish
  <1>6. CASE LapDeliver(t)
    <2>1. PumpTypeOK'
      BY <1>6, ConstantsAssumption, CardDesc DEF LapDeliver, PumpTypeOK, LapPcs, LapAt
    <2>2. ReadTypeOK'
      BY <1>6 DEF LapDeliver, ReadTypeOK, Complete
    <2> QED
      BY <1>6, <2>1, <2>2 DEF LapDeliver
  <1>7. CASE LapEnd(t)
    <2>1. PumpTypeOK'
      <3>1. pumpActive' \in BOOLEAN /\ pumpAgain' \in BOOLEAN /\ lap' \in [Thread -> LapPcs]
        BY <1>7 DEF LapEnd, PumpTypeOK, LapPcs, LapAt
      <3>2. lapDesc' \in [Thread -> Desc \cup {NoDesc}]
        BY <1>7 DEF LapEnd, PumpTypeOK, LapAt
      <3>3. lapBuf' \in [Thread -> Buf \cup {NoBuf}]
        BY <1>7 DEF LapEnd, PumpTypeOK, LapAt
      <3>4. lapCount' \in [Thread -> 0 .. Cardinality(Desc)]
        BY <1>7, CardDesc DEF LapEnd, PumpTypeOK, LapAt
      <3>5. (\A u \in Thread : lapDesc[u] \in Desc <=> lap[u] \in {"acquire", "publish"})'
        BY <1>7, ConstantsAssumption DEF LapEnd, PumpTypeOK, LapAt
      <3> QED
        BY <3>1, <3>2, <3>3, <3>4, <3>5 DEF PumpTypeOK
    <2> QED
      BY <1>7, <2>1 DEF LapEnd
  <1> QED
    BY <1>1, <1>2, <1>3, <1>4, <1>5, <1>6, <1>7 DEF Pump

LEMMA TypeBus ==
  ASSUME TypeOK, Bus
  PROVE  TypeOK'
  <1> USE TypeFrame DEF TypeOK
  <1>1. ASSUME NEW d \in Desc, BusAttach(d)
        PROVE  TypeOK'
    <2>1. BusTypeOK'
      BY <1>1 DEF BusAttach, BusTypeOK, DescTypeOK
    <2> QED
      BY <1>1, <2>1 DEF BusAttach
  <1>2. ASSUME NEW d \in Desc, IsochCallback(d)
        PROVE  TypeOK'
    <2>1. DescTypeOK'
      BY <1>2 DEF IsochCallback, DescTypeOK, FrameStates, BeginDetach, FrameOutcome
    <2>2. BusTypeOK'
      BY <1>2 DEF IsochCallback, BusTypeOK, BeginDetach, FrameOutcome
    <2>3. RunTypeOK'
      BY <1>2 DEF IsochCallback, RunTypeOK, BeginDetach, FrameOutcome
    <2> QED
      BY <1>2, <2>1, <2>2, <2>3 DEF IsochCallback
  <1>3. ASSUME NEW d \in Desc, AttachCompleteFrameDone(d)
        PROVE  TypeOK'
    <2>1. DescTypeOK'
      BY <1>3 DEF AttachCompleteFrameDone, DescTypeOK, FrameStates, BeginDetach, FrameOutcome
    <2>2. BusTypeOK'
      BY <1>3 DEF AttachCompleteFrameDone, BusTypeOK, BeginDetach, FrameOutcome
    <2> QED
      BY <1>3, <2>1, <2>2 DEF AttachCompleteFrameDone
  <1> QED
    BY <1>1, <1>2, <1>3 DEF Bus

LEMMA TypeCompletion ==
  ASSUME TypeOK, NEW c \in Cpu, Completion(c)
  PROVE  TypeOK'
  <1> USE TypeFrame DEF TypeOK
  <1>1. CASE AttachSignal(c)
    <2>1. RunTypeOK'
      BY <1>1 DEF AttachSignal, RunTypeOK
    <2>2. WorkTypeOK'
      BY <1>1 DEF AttachSignal, WorkTypeOK
    <2>3. CpuTypeOK'
      BY <1>1 DEF AttachSignal, CpuTypeOK, CpuPcs, CpuAt
    <2> QED
      BY <1>1, <2>1, <2>2, <2>3 DEF AttachSignal
  <1>2. CASE Deliver(c)
    <2>1. ReadTypeOK'
      BY <1>2 DEF Deliver, ReadTypeOK, Complete
    <2>2. CpuTypeOK'
      BY <1>2 DEF Deliver, CpuTypeOK, CpuPcs, CpuAt
    <2> QED
      BY <1>2, <2>1, <2>2 DEF Deliver
  <1>3. CASE DetachPump(c)
    <2>1. PumpTypeOK'
      BY <1>3, ConstantsAssumption, CardDesc DEF DetachPump, PumpTypeOK, LapPcs, PumpCall, LapAt, pumpVars, lapVars, Thread
    <2>2. CpuTypeOK'
      BY <1>3 DEF DetachPump, CpuTypeOK, CpuPcs, CpuAt, AfterPumpCall
    <2> QED
      BY <1>3, <2>1, <2>2 DEF DetachPump
  <1>4. CASE IrpDone(c)
    <2>1. RunTypeOK'
      BY <1>4 DEF IrpDone, RunTypeOK
    <2>2. CpuTypeOK'
      BY <1>4 DEF IrpDone, CpuTypeOK, CpuPcs, CpuAt
    <2> QED
      BY <1>4, <2>1, <2>2 DEF IrpDone
  <1>5. CASE IrpDoneTail(c)
    <2>1. CpuTypeOK'
      BY <1>5 DEF IrpDoneTail, CpuTypeOK, CpuPcs, CpuAt
    <2> QED
      BY <1>5, <2>1 DEF IrpDoneTail
  <1>6. ASSUME NEW d \in Desc, AttachFailed(c, d)
        PROVE  TypeOK'
    <2>1. DescTypeOK'
      BY <1>6 DEF AttachFailed, DescTypeOK, FrameStates, Recycle
    <2>2. BusTypeOK'
      BY <1>6 DEF AttachFailed, BusTypeOK, Recycle
    <2>3. CpuTypeOK'
      BY <1>6 DEF AttachFailed, CpuTypeOK, CpuPcs, CpuAt, DescTypeOK
    <2> QED
      BY <1>6, <2>1, <2>2, <2>3 DEF AttachFailed
  <1>7. ASSUME NEW d \in Desc, AttachCompletePublish(c, d)
        PROVE  TypeOK'
    <2>1. DescTypeOK'
      BY <1>7 DEF AttachCompletePublish, DescTypeOK, FrameStates
    <2>2. BusTypeOK'
      BY <1>7 DEF AttachCompletePublish, BusTypeOK
    <2>3. CpuTypeOK'
      BY <1>7 DEF AttachCompletePublish, CpuTypeOK, CpuPcs, CpuAt
    <2> QED
      BY <1>7, <2>1, <2>2, <2>3 DEF AttachCompletePublish
  <1>8. ASSUME NEW d \in Desc, DetachFailed(c, d)
        PROVE  TypeOK'
    <2>1. DescTypeOK'
      BY <1>8 DEF DetachFailed, DescTypeOK, FrameStates
    <2>2. BusTypeOK'
      BY <1>8 DEF DetachFailed, BusTypeOK
    <2>3. CpuTypeOK'
      BY <1>8 DEF DetachFailed, CpuTypeOK, CpuPcs, CpuAt
    <2> QED
      BY <1>8, <2>1, <2>2, <2>3 DEF DetachFailed
  <1>9. ASSUME NEW d \in Desc, DetachComplete(c, d)
        PROVE  TypeOK'
    <2>1. DescTypeOK'
      BY <1>9 DEF DetachComplete, DescTypeOK, FrameStates, Recycle
    <2>2. BusTypeOK'
      BY <1>9 DEF DetachComplete, BusTypeOK
    <2>3. CpuTypeOK'
      BY <1>9 DEF DetachComplete, CpuTypeOK, CpuPcs, CpuAt, DescTypeOK
    <2> QED
      BY <1>9, <2>1, <2>2, <2>3 DEF DetachComplete
  <1> QED
    BY <1>1, <1>2, <1>3, <1>4, <1>5, <1>6, <1>7, <1>8, <1>9 DEF Completion

LEMMA TypeReads ==
  ASSUME TypeOK, FrontEnd \/ Client
  PROVE  TypeOK'
  <1> USE TypeFrame DEF TypeOK
  <1>1. CASE NotifyCancel
    <2>1. WorkTypeOK'
      BY <1>1 DEF NotifyCancel, WorkTypeOK
    <2>2. FrontTypeOK'
      BY <1>1, ConstantsAssumption DEF NotifyCancel, FrontTypeOK, RdPcs, rdVars
    <2> QED
      BY <1>1, <2>1, <2>2 DEF NotifyCancel
  <1>2. ASSUME NEW r \in Reader, Park(r)
        PROVE  TypeOK'
    <2>1. ReadTypeOK'
      BY <1>2 DEF Park, ReadTypeOK, Complete, FrontTypeOK
    <2>2. FrontTypeOK'
      BY <1>2, ConstantsAssumption DEF Park, FrontTypeOK, RdPcs, ReaderAt
    <2> QED
      BY <1>2, <2>1, <2>2 DEF Park
  <1>3. ASSUME NEW r \in Reader, ReadPump(r)
        PROVE  TypeOK'
    <2>1. PumpTypeOK'
      BY <1>3, ConstantsAssumption, CardDesc DEF ReadPump, PumpTypeOK, LapPcs, PumpCall, LapAt, pumpVars, lapVars, Thread
    <2>2. FrontTypeOK'
      BY <1>3, ConstantsAssumption DEF ReadPump, FrontTypeOK, RdPcs, ReaderAt, AfterPumpCall
    <2> QED
      BY <1>3, <2>1, <2>2 DEF ReadPump
  <1>4. CASE BeginFlush
    <2>1. ReadTypeOK'
      BY <1>4, ReadyHead DEF BeginFlush, ReadTypeOK, Complete
    <2> QED
      BY <1>4, <2>1 DEF BeginFlush
  <1>5. ASSUME NEW b \in Buf, Cancel(b)
        PROVE  TypeOK'
    <2>1. ReadTypeOK'
      BY <1>5, ReadyRemove DEF Cancel, ReadTypeOK, Complete
    <2>2. FrontTypeOK'
      BY <1>5, ConstantsAssumption DEF Cancel, FrontTypeOK, RdPcs, rdVars
    <2> QED
      BY <1>5, <2>1, <2>2 DEF Cancel
  <1>6. ASSUME NEW b \in Buf, NEW r \in Reader, Submit(r, b)
        PROVE  TypeOK'
    <2>1. ReadTypeOK'
      BY <1>6 DEF Submit, ReadTypeOK
    <2>2. FrontTypeOK'
      BY <1>6, ConstantsAssumption DEF Submit, FrontTypeOK, RdPcs, ReaderAt
    <2> QED
      BY <1>6, <2>1, <2>2 DEF Submit
  <1> QED
    BY <1>1, <1>2, <1>3, <1>4, <1>5, <1>6 DEF FrontEnd, Client

LEMMA TypeRequests ==
  ASSUME TypeOK, Requests
  PROVE  TypeOK'
  <1> USE TypeFrame DEF TypeOK
  <1>1. CASE Run
    <2>1. FrontTypeOK'
      BY <1>1, ConstantsAssumption DEF Run, FrontTypeOK, RdPcs, rdVars
    <2>2. CtlTypeOK'
      BY <1>1 DEF Run, CtlTypeOK, CtlPcs, CtlOps, ctlVars, Goto, Enter
    <2> QED
      BY <1>1, <2>1, <2>2 DEF Run
  <1>2. CASE Stop
    <2>1. CtlTypeOK'
      BY <1>2 DEF Stop, CtlTypeOK, CtlPcs, CtlOps, Goto, Enter
    <2> QED
      BY <1>2, <2>1 DEF Stop
  <1>3. CASE Pause
    <2>1. FrontTypeOK'
      BY <1>3, ConstantsAssumption DEF Pause, FrontTypeOK, RdPcs, rdVars
    <2> QED
      BY <1>3, <2>1 DEF Pause
  <1>4. CASE Close
    <2>1. FrontTypeOK'
      BY <1>4, ConstantsAssumption DEF Close, FrontTypeOK, RdPcs, rdVars
    <2>2. CtlTypeOK'
      BY <1>4 DEF Close, CtlTypeOK, CtlPcs, CtlOps, Goto, Enter
    <2> QED
      BY <1>4, <2>1, <2>2 DEF Close
  <1>5. CASE SurpriseRemoval
    <2>1. FrontTypeOK'
      BY <1>5, ConstantsAssumption DEF SurpriseRemoval, FrontTypeOK, RdPcs, rdVars
    <2>2. CtlTypeOK'
      BY <1>5 DEF SurpriseRemoval, CtlTypeOK, CtlPcs, CtlOps, Goto, Enter
    <2> QED
      BY <1>5, <2>1, <2>2 DEF SurpriseRemoval
  <1>6. CASE Open
    <2>1. RunTypeOK'
      BY <1>6 DEF Open, RunTypeOK
    <2>2. CamTypeOK'
      BY <1>6, Bounds DEF Open, CamTypeOK
    <2>3. WorkTypeOK'
      BY <1>6 DEF Open, WorkTypeOK
    <2>4. ReadTypeOK'
      BY <1>6 DEF Open, ReadTypeOK
    <2>5. FrontTypeOK'
      BY <1>6, ConstantsAssumption DEF Open, FrontTypeOK, RdPcs, rdVars
    <2>6. CtlTypeOK'
      BY <1>6 DEF Open, CtlTypeOK, CtlPcs, CtlOps
    <2> QED
      BY <1>6, <2>1, <2>2, <2>3, <2>4, <2>5, <2>6 DEF Open
  <1> QED
    BY <1>1, <1>2, <1>3, <1>4, <1>5, <1>6 DEF Requests

LEMMA TypeTeardown ==
  ASSUME TypeOK, Teardown
  PROVE  TypeOK'
  <1> USE TypeFrame DEF TypeOK
  <1>1. CASE Rundown
    <2>1. CtlTypeOK'
      BY <1>1 DEF Rundown, CtlTypeOK, CtlPcs, CtlOps, Goto, Enter
    <2> QED
      BY <1>1, <2>1 DEF Rundown
  <1>2. CASE StopPublish
    <2>1. FrontTypeOK'
      BY <1>2, ConstantsAssumption DEF StopPublish, FrontTypeOK, RdPcs, rdVars
    <2>2. CtlTypeOK'
      BY <1>2 DEF StopPublish, CtlTypeOK, CtlPcs, CtlOps, Goto, Enter
    <2> QED
      BY <1>2, <2>1, <2>2 DEF StopPublish
  <1>3. CASE StopSettled
    <2>1. CtlTypeOK'
      BY <1>3 DEF StopSettled, CtlTypeOK, CtlPcs, CtlOps, Goto, Enter
    <2> QED
      BY <1>3, <2>1 DEF StopSettled
  <1>4. CASE Shutdown
    <2>1. CamTypeOK'
      BY <1>4 DEF Shutdown, CamTypeOK
    <2>2. FrontTypeOK'
      BY <1>4, ConstantsAssumption DEF Shutdown, FrontTypeOK, RdPcs, rdVars
    <2>3. CtlTypeOK'
      BY <1>4 DEF Shutdown, CtlTypeOK, CtlPcs, CtlOps, Goto, Enter
    <2> QED
      BY <1>4, <2>1, <2>2, <2>3 DEF Shutdown
  <1>5. CASE QuiesceBegin
    <2>1. RunTypeOK'
      BY <1>5 DEF QuiesceBegin, RunTypeOK
    <2>2. CtlTypeOK'
      BY <1>5 DEF QuiesceBegin, CtlTypeOK, CtlPcs, CtlOps, Goto, Enter
    <2> QED
      BY <1>5, <2>1, <2>2 DEF QuiesceBegin
  <1>6. CASE QuiesceStop
    <2>1. BusTypeOK'
      BY <1>6 DEF QuiesceStop, BusTypeOK, IsochStop
    <2>2. RunTypeOK'
      BY <1>6 DEF QuiesceStop, RunTypeOK, IsochStop
    <2>3. CtlTypeOK'
      BY <1>6 DEF QuiesceStop, CtlTypeOK, CtlPcs, CtlOps, Goto, Enter
    <2> QED
      BY <1>6, <2>1, <2>2, <2>3 DEF QuiesceStop
  <1>7. CASE QuiesceClaim
    <2>1. DescTypeOK'
      BY <1>7 DEF QuiesceClaim, DescTypeOK, FrameStates, BeginDetach
    <2>2. BusTypeOK'
      BY <1>7 DEF QuiesceClaim, BusTypeOK, BeginDetach
    <2>3. RunTypeOK'
      BY <1>7 DEF QuiesceClaim, RunTypeOK
    <2> QED
      BY <1>7, <2>1, <2>2, <2>3 DEF QuiesceClaim
  <1>8. CASE QuiesceClaimed
    <2>1. CtlTypeOK'
      BY <1>8 DEF QuiesceClaimed, CtlTypeOK, CtlPcs, CtlOps, Goto, Enter
    <2> QED
      BY <1>8, <2>1 DEF QuiesceClaimed
  <1>9. CASE QuiesceDrainWait
    <2>1. CtlTypeOK'
      BY <1>9 DEF QuiesceDrainWait, CtlTypeOK, CtlPcs, CtlOps, Goto, Enter
    <2> QED
      BY <1>9, <2>1 DEF QuiesceDrainWait
  <1>10. CASE QuiesceDrained
    <2>1. CtlTypeOK'
      BY <1>10 DEF QuiesceDrained, CtlTypeOK, CtlPcs, CtlOps, Goto, Enter
    <2> QED
      BY <1>10, <2>1 DEF QuiesceDrained
  <1>11. CASE QuiescePumpIdle
    <2>1. RunTypeOK'
      BY <1>11 DEF QuiescePumpIdle, RunTypeOK
    <2>2. CtlTypeOK'
      BY <1>11 DEF QuiescePumpIdle, CtlTypeOK, CtlPcs, CtlOps, Goto, Enter
    <2> QED
      BY <1>11, <2>1, <2>2 DEF QuiescePumpIdle
  <1>12. CASE ReleaseIsoch
    <2>1. BusTypeOK'
      BY <1>12 DEF ReleaseIsoch, BusTypeOK, IsochStop
    <2>2. RunTypeOK'
      BY <1>12 DEF ReleaseIsoch, RunTypeOK, IsochStop
    <2>3. ResTypeOK'
      BY <1>12 DEF ReleaseIsoch, ResTypeOK
    <2>4. CtlTypeOK'
      BY <1>12 DEF ReleaseIsoch, CtlTypeOK, CtlPcs, CtlOps, Goto, Enter, AfterRelease
    <2> QED
      BY <1>12, <2>1, <2>2, <2>3, <2>4 DEF ReleaseIsoch
  <1>13. CASE Unquarantine
    <2>1. DescTypeOK'
      BY <1>13 DEF Unquarantine, DescTypeOK, FrameStates, Recycle, Quarantined
    <2>2. ReadTypeOK'
      BY <1>13 DEF Unquarantine, ReadTypeOK, Complete
    <2>3. CtlTypeOK'
      BY <1>13 DEF Unquarantine, CtlTypeOK, CtlPcs, CtlOps, Goto, Enter, AfterRelease
    <2> QED
      BY <1>13, <2>1, <2>2, <2>3 DEF Unquarantine
  <1>14. CASE DrainReads
    <2>1. ReadTypeOK'
      BY <1>14, ReadyHead DEF DrainReads, ReadTypeOK, Complete, readVars
    <2>2. CtlTypeOK'
      BY <1>14 DEF DrainReads, CtlTypeOK, CtlPcs, CtlOps, Goto, Enter
    <2> QED
      BY <1>14, <2>1, <2>2 DEF DrainReads
  <1>15. CASE Destroy
    <2>1. ResTypeOK'
      BY <1>15 DEF Destroy, ResTypeOK
    <2>2. CtlTypeOK'
      BY <1>15 DEF Destroy, CtlTypeOK, CtlPcs, CtlOps, Enter
    <2> QED
      BY <1>15, <2>1, <2>2 DEF Destroy
  <1> QED
    BY <1>1, <1>2, <1>3, <1>4, <1>5, <1>6, <1>7, <1>8, <1>9, <1>10, <1>11, <1>12, <1>13, <1>14, <1>15 DEF Teardown

LEMMA TypeStartup ==
  ASSUME TypeOK, Startup
  PROVE  TypeOK'
  <1> USE TypeFrame DEF TypeOK
  <1>1. CASE Allocate
    <2>1. ResTypeOK'
      BY <1>1 DEF Allocate, ResTypeOK, Resources
    <2>2. CtlTypeOK'
      BY <1>1 DEF Allocate, CtlTypeOK, CtlPcs, CtlOps, Goto, Enter
    <2> QED
      BY <1>1, <2>1, <2>2 DEF Allocate
  <1>2. CASE OpenEngine
    <2>1. RunTypeOK'
      BY <1>2 DEF OpenEngine, RunTypeOK
    <2>2. CamTypeOK'
      BY <1>2, Bounds DEF OpenEngine, CamTypeOK
    <2>3. WorkTypeOK'
      BY <1>2 DEF OpenEngine, WorkTypeOK
    <2>4. CtlTypeOK'
      BY <1>2 DEF OpenEngine, CtlTypeOK, CtlPcs, CtlOps, Goto, Enter
    <2> QED
      BY <1>2, <2>1, <2>2, <2>3, <2>4 DEF OpenEngine
  <1>3. CASE ControlPump
    <2>1. PumpTypeOK'
      BY <1>3, ConstantsAssumption, CardDesc DEF ControlPump, PumpTypeOK, LapPcs, PumpCall, LapAt, pumpVars, lapVars, Thread
    <2>2. CtlTypeOK'
      BY <1>3 DEF ControlPump, CtlTypeOK, CtlPcs, CtlOps, Goto, Enter, AfterPumpCall
    <2> QED
      BY <1>3, <2>1, <2>2 DEF ControlPump
  <1>4. CASE ListenCheck
    <2>1. CtlTypeOK'
      BY <1>4 DEF ListenCheck, CtlTypeOK, CtlPcs, CtlOps, Goto, Enter, AfterListen
    <2> QED
      BY <1>4, <2>1 DEF ListenCheck
  <1>5. CASE Listen
    <2>1. BusTypeOK'
      BY <1>5 DEF Listen, BusTypeOK
    <2>2. RunTypeOK'
      BY <1>5 DEF Listen, RunTypeOK
    <2>3. CtlTypeOK'
      BY <1>5 DEF Listen, CtlTypeOK, CtlPcs, CtlOps, Goto, Enter, AfterListen
    <2> QED
      BY <1>5, <2>1, <2>2, <2>3 DEF Listen
  <1>6. CASE SetIsochEnable
    <2>1. CamTypeOK'
      BY <1>6 DEF SetIsochEnable, CamTypeOK
    <2>2. CtlTypeOK'
      BY <1>6 DEF SetIsochEnable, CtlTypeOK, CtlPcs, CtlOps, Goto, Enter
    <2> QED
      BY <1>6, <2>1, <2>2 DEF SetIsochEnable
  <1>7. CASE PublishRun
    <2>1. FrontTypeOK'
      BY <1>7, ConstantsAssumption DEF PublishRun, FrontTypeOK, RdPcs, rdVars
    <2>2. CtlTypeOK'
      BY <1>7 DEF PublishRun, CtlTypeOK, CtlPcs, CtlOps, Goto, Enter
    <2> QED
      BY <1>7, <2>1, <2>2 DEF PublishRun
  <1> QED
    BY <1>1, <1>2, <1>3, <1>4, <1>5, <1>6, <1>7 DEF Startup

LEMMA TypeWork ==
  ASSUME TypeOK, Worker \/ WorkDispatch \/ WorkBegin
  PROVE  TypeOK'
  <1> USE TypeFrame DEF TypeOK
  <1>1. CASE WorkEnable
    <2>1. CamTypeOK'
      BY <1>1 DEF WorkEnable, CamTypeOK
    <2>2. CtlTypeOK'
      BY <1>1 DEF WorkEnable, CtlTypeOK, CtlPcs, CtlOps, Goto, Enter
    <2> QED
      BY <1>1, <2>1, <2>2 DEF WorkEnable
  <1>2. CASE WorkRetry
    <2>1. CamTypeOK'
      BY <1>2, Bounds DEF WorkRetry, BudgetReset, CamTypeOK, MayRetry
    <2>2. WorkTypeOK'
      BY <1>2 DEF WorkRetry, WorkTypeOK
    <2>3. CtlTypeOK'
      BY <1>2 DEF WorkRetry, CtlTypeOK, CtlPcs, CtlOps, Goto, Enter
    <2> QED
      BY <1>2, <2>1, <2>2, <2>3 DEF WorkRetry
  <1>3. CASE WorkDispatch
    <2>1. WorkTypeOK'
      <3>1. workers' \in 0 .. MaxWorkers
        BY <1>3, Bounds DEF WorkDispatch, WorkTypeOK
      <3>2. cancelPending' \in BOOLEAN
        BY <1>3 DEF WorkDispatch, WorkTypeOK
      <3>3. workQueued' \in BOOLEAN
        BY <1>3 DEF WorkDispatch, WorkTypeOK
      <3> QED
        BY <3>1, <3>2, <3>3 DEF WorkTypeOK
    <2> QED
      BY <1>3, <2>1 DEF WorkDispatch
  <1>4. CASE WorkBegin
    <2>1. WorkTypeOK'
      <3>1. workers' \in 0 .. MaxWorkers
        BY <1>4, Bounds DEF WorkBegin, WorkTypeOK
      <3>2. cancelPending' \in BOOLEAN
        BY <1>4 DEF WorkBegin, WorkTypeOK
      <3>3. workQueued' \in BOOLEAN
        BY <1>4 DEF WorkBegin, WorkTypeOK
      <3> QED
        BY <3>1, <3>2, <3>3 DEF WorkTypeOK
    <2>2. CtlTypeOK'
      BY <1>4 DEF WorkBegin, CtlTypeOK, CtlPcs, CtlOps, Goto, Enter
    <2> QED
      BY <1>4, <2>1, <2>2 DEF WorkBegin
  <1> QED
    BY <1>1, <1>2, <1>3, <1>4 DEF Worker

LEMMA TypeInit == Init => TypeOK
  <1> SUFFICES ASSUME Init PROVE TypeOK
    OBVIOUS
  <1>1. DescTypeOK
    BY DEF Init, DescTypeOK, FrameStates
  <1>2. BusTypeOK
    <2>1. irp \in [Desc -> {"none", "attach", "detach"}]
      BY DEF Init
    <2>2. dma \in [Desc -> Buf \cup {NoBuf}]
      BY DEF Init
    <2>3. fill \in [Desc -> {"empty", "ok", "error"}]
      BY DEF Init
    <2>4. busListening \in BOOLEAN
      BY DEF Init
    <2> QED
      BY <2>1, <2>2, <2>3, <2>4 DEF BusTypeOK
  <1>3. PumpTypeOK
    <2>1. pumpActive \in BOOLEAN /\ pumpAgain \in BOOLEAN /\ lap \in [Thread -> LapPcs]
      BY DEF Init, LapPcs
    <2>2. lapDesc \in [Thread -> Desc \cup {NoDesc}] /\ lapBuf \in [Thread -> Buf \cup {NoBuf}]
      BY DEF Init
    <2>3. lapCount \in [Thread -> 0 .. Cardinality(Desc)]
      BY CardDesc DEF Init
    <2>4. \A t \in Thread : lapDesc[t] \in Desc <=> lap[t] \in {"acquire", "publish"}
      BY ConstantsAssumption DEF Init
    <2> QED
      BY <2>1, <2>2, <2>3, <2>4 DEF PumpTypeOK
  <1>4. RunTypeOK
    <2>1. draining \in BOOLEAN /\ listening \in BOOLEAN /\ firstAttach \in BOOLEAN
      BY DEF Init
    <2>2. inFlight \in Int
      BY DEF Init
    <2> QED
      BY <2>1, <2>2 DEF RunTypeOK
  <1>5. ResTypeOK
    BY DEF Init, ResTypeOK
  <1>6. CamTypeOK
    BY Bounds DEF Init, CamTypeOK
  <1>7. WorkTypeOK
    BY Bounds DEF Init, WorkTypeOK
  <1>8. ReadTypeOK
    BY EmptySeq DEF Init, ReadTypeOK
  <1>9. FrontTypeOK
    BY ConstantsAssumption DEF Init, FrontTypeOK, RdPcs
  <1>10. CpuTypeOK /\ CtlTypeOK
    BY DEF Init, CpuTypeOK, CtlTypeOK, CpuPcs, CtlPcs, CtlOps
  <1> QED
    BY <1>1, <1>2, <1>3, <1>4, <1>5, <1>6, <1>7, <1>8, <1>9, <1>10 DEF TypeOK

LEMMA TypeNext == TypeOK /\ [Next]_vars => TypeOK'
  <1> SUFFICES ASSUME TypeOK, [Next]_vars PROVE TypeOK'
    OBVIOUS
  <1>1. CASE UNCHANGED vars
    BY <1>1, TypeFrame DEF vars, TypeOK
  <1>2. CASE Next
    BY <1>2, TypePump, TypeBus, TypeCompletion, TypeReads, TypeRequests, TypeTeardown,
       TypeStartup, TypeWork DEF Next, Control
  <1> QED
    BY <1>1, <1>2

(* Every variable stays in its type: the pump, the completions, the reads   *)
(* and the control transitions never leave the state machines of the code.  *)
THEOREM TypeCorrect == Spec => []TypeOK
  BY TypeInit, TypeNext, PTL DEF Spec

-----------------------------------------------------------------------------
(* The election of the pump and the descriptor pool: that one thread pumps  *)
(* at a time, that the lists partition the pool, and that the one IRP of a  *)
(* descriptor carries what its state says.  The three support each other:   *)
(* a claim taken off FreeList is exclusive because its claimer was elected, *)
(* and a completion finds the descriptor in the state that sent its IRP.    *)

(* What the invariant reads. *)
poolVars == <<fstate, freeList, pendingList, irp, pumpActive, lap, lapDesc>>

PoolInv == TypeOK /\ OnePumper /\ ListsPartition /\ IrpFollowsState

LEMMA PoolFrame ==
  ASSUME PoolInv, UNCHANGED poolVars
  PROVE  OnePumper' /\ ListsPartition' /\ IrpFollowsState'
  BY DEF PoolInv, OnePumper, ListsPartition, Claimed, IrpFollowsState, poolVars, OnPending

-----------------------------------------------------------------------------
(* Most of the engine leaves the pool and the election alone.               *)

LEMMA RequestsElsewhere == Requests => UNCHANGED poolVars
  BY DEF Requests, Run, Stop, Pause, Close, SurpriseRemoval, Open, poolVars, descVars, busVars,
         pumpVars, lapVars

LEMMA TeardownElsewhere ==
  Teardown => UNCHANGED poolVars \/ QuiesceClaim \/ Unquarantine
  BY DEF Teardown, Rundown, StopPublish, StopSettled, Shutdown, QuiesceBegin, QuiesceStop,
         QuiesceClaimed, QuiesceDrainWait, QuiesceDrained, QuiescePumpIdle, ReleaseIsoch,
         DrainReads, Destroy, poolVars, descVars, busVars, pumpVars, lapVars

LEMMA StartupElsewhere == Startup => UNCHANGED poolVars \/ ControlPump
  BY DEF Startup, Allocate, OpenEngine, ListenCheck, Listen, SetIsochEnable, PublishRun,
         poolVars, descVars, busVars, pumpVars, lapVars

LEMMA WorkElsewhere == Worker \/ WorkDispatch \/ WorkBegin => UNCHANGED poolVars
  BY DEF Worker, WorkEnable, WorkRetry, WorkDispatch, WorkBegin, poolVars, descVars, busVars,
         pumpVars, lapVars

LEMMA ReadsElsewhere ==
  FrontEnd \/ Client => UNCHANGED poolVars \/ \E r \in Reader : ReadPump(r)
  BY DEF FrontEnd, Client, NotifyCancel, Park, BeginFlush, Cancel, Submit, poolVars, descVars,
         busVars, pumpVars, lapVars

-----------------------------------------------------------------------------
(* A call of the pump, from whichever thread. *)
LEMMA PoolPumpCall ==
  ASSUME PoolInv, NEW t \in Thread, PumpCall(t), UNCHANGED <<descVars, busVars>>
  PROVE  OnePumper' /\ ListsPartition' /\ IrpFollowsState'
  <1> USE DEF PoolInv
  <1>1. CASE pumpActive
    BY <1>1, PoolFrame DEF PumpCall, poolVars, descVars, busVars, lapVars
  <1>2. CASE ~pumpActive
    <2>1. \A u \in Thread : lap[u] = "none"
      BY <1>2 DEF OnePumper
    <2>2. \A u \in Thread : lapDesc[u] \notin Desc
      BY <2>1 DEF TypeOK, PumpTypeOK
    <2>3. /\ pumpActive'
          /\ lap' = [lap EXCEPT ![t] = "begin"] /\ lapDesc' = [lapDesc EXCEPT ![t] = NoDesc]
      BY <1>2 DEF PumpCall, LapAt
    <2>4. OnePumper'
      BY <2>1, <2>3 DEF OnePumper, TypeOK, PumpTypeOK
    <2>5. \A d \in Desc : ~Claimed(d) /\ ~Claimed(d)'
      BY <2>2, <2>3, ConstantsAssumption DEF Claimed, TypeOK, PumpTypeOK
    <2>6. ListsPartition' /\ IrpFollowsState'
      BY <2>5 DEF ListsPartition, IrpFollowsState, descVars, busVars
    <2> QED
      BY <2>4, <2>6
  <1> QED
    BY <1>1, <1>2
-----------------------------------------------------------------------------
(* The elected thread is alone, and so is its claim. *)
LEMMA ElectedAlone ==
  ASSUME PoolInv, NEW t \in Thread, lap[t] # "none"
  PROVE  /\ pumpActive
         /\ \A u \in Thread : u # t => lap[u] = "none" /\ lapDesc[u] \notin Desc
         /\ \A d \in Desc : Claimed(d) <=> lapDesc[t] = d
  <1>1. pumpActive /\ \A u \in Thread : u # t => lap[u] = "none"
    BY DEF PoolInv, OnePumper
  <1>2. \A u \in Thread : u # t => lapDesc[u] \notin Desc
    BY <1>1 DEF PoolInv, TypeOK, PumpTypeOK
  <1>3. \A d \in Desc : Claimed(d) <=> lapDesc[t] = d
    BY <1>2 DEF Claimed
  <1> QED
    BY <1>1, <1>2, <1>3

(* A lap step that stays in the run keeps the election, and says which      *)
(* descriptor is claimed after it.                                          *)
LEMMA LapMoves ==
  ASSUME PoolInv, NEW t \in Thread, lap[t] # "none", NEW pc \in LapPcs, NEW d, NEW b,
         LapAt(t, pc, d, b), pc # "none", UNCHANGED pumpActive
  PROVE  /\ OnePumper'
         /\ \A e \in Desc : Claimed(e)' <=> e = d
  <1>1. /\ lap' = [lap EXCEPT ![t] = pc] /\ lapDesc' = [lapDesc EXCEPT ![t] = d]
    BY DEF LapAt
  <1>2. OnePumper'
    BY <1>1, ElectedAlone DEF PoolInv, TypeOK, PumpTypeOK, OnePumper
  <1>3. \A e \in Desc : Claimed(e)' <=> e = d
    BY <1>1, ElectedAlone DEF PoolInv, TypeOK, PumpTypeOK, Claimed
  <1> QED
    BY <1>2, <1>3

LEMMA PoolPump ==
  ASSUME PoolInv, NEW t \in Thread, Pump(t)
  PROVE  OnePumper' /\ ListsPartition' /\ IrpFollowsState'
  <1> USE DEF LapPcs
  <1>1. CASE LapBegin(t)
    <2>1. OnePumper' /\ \A e \in Desc : ~Claimed(e) /\ ~Claimed(e)'
      BY <1>1, LapMoves, ElectedAlone, ConstantsAssumption DEF LapBegin, PoolInv, TypeOK, PumpTypeOK
    <2> QED
      BY <1>1, <2>1 DEF LapBegin, PoolInv, ListsPartition, IrpFollowsState, descVars, busVars
  <1>2. CASE LapClaim(t)
    <2>1. \A e \in Desc : ~Claimed(e)
      BY <1>2, ElectedAlone DEF LapClaim, PoolInv, TypeOK, PumpTypeOK
    <2>2. CASE LapAt(t, "end", NoDesc, NoBuf) /\ UNCHANGED freeList
      <3>1. OnePumper' /\ \A e \in Desc : ~Claimed(e)'
        BY <1>2, <2>2, LapMoves, ConstantsAssumption DEF LapClaim
      <3> QED
        BY <1>2, <2>1, <2>2, <3>1 DEF LapClaim, PoolInv, ListsPartition, IrpFollowsState, busVars
    <2>3. ASSUME NEW d \in freeList, freeList' = freeList \ {d}, LapAt(t, "acquire", d, NoBuf)
          PROVE  OnePumper' /\ ListsPartition' /\ IrpFollowsState'
      <3>1. OnePumper' /\ \A e \in Desc : Claimed(e)' <=> e = d
        BY <1>2, <2>3, LapMoves DEF LapClaim
      <3>2. d \in Desc /\ fstate[d] = "Free"
        BY <2>3 DEF PoolInv, TypeOK, DescTypeOK, ListsPartition
      <3> QED
        BY <1>2, <2>1, <2>3, <3>1, <3>2
           DEF LapClaim, PoolInv, ListsPartition, IrpFollowsState, busVars
    <2> QED
      BY <1>2, <2>2, <2>3 DEF LapClaim
  <1>3. CASE LapAcquire(t)
    <2>1. lapDesc[t] \in Desc /\ fstate[lapDesc[t]] = "Free" /\ \A e \in Desc : Claimed(e) <=> e = lapDesc[t]
      BY <1>3, ElectedAlone DEF LapAcquire, PoolInv, TypeOK, PumpTypeOK, ListsPartition
    <2>2. CASE /\ freeList' = freeList \cup {lapDesc[t]}
               /\ \E pc \in {"end", "reject"}, b \in {NoBuf, Head(ready)} : LapAt(t, pc, NoDesc, b)
      <3>1. OnePumper' /\ \A e \in Desc : ~Claimed(e)'
        BY <1>3, <2>2, LapMoves, ConstantsAssumption DEF LapAcquire
      <3> QED
        BY <1>3, <2>1, <2>2, <3>1 DEF LapAcquire, PoolInv, ListsPartition, IrpFollowsState, busVars
    <2>3. CASE LapAt(t, "publish", lapDesc[t], Head(ready)) /\ UNCHANGED freeList
      <3>1. OnePumper' /\ \A e \in Desc : Claimed(e)' <=> e = lapDesc[t]
        BY <1>3, <2>3, LapMoves DEF LapAcquire
      <3> QED
        BY <1>3, <2>1, <2>3, <3>1 DEF LapAcquire, PoolInv, ListsPartition, IrpFollowsState, busVars
    <2> QED
      BY <1>3, <2>2, <2>3 DEF LapAcquire
  <1>4. CASE LapSkipNoMdl(t)
    BY <1>4, PoolFrame DEF LapSkipNoMdl, poolVars, descVars, busVars, pumpVars, lapVars
  <1>5. CASE LapPublish(t)
    <2>1. lapDesc[t] \in Desc /\ fstate[lapDesc[t]] = "Free" /\ \A e \in Desc : Claimed(e) <=> e = lapDesc[t]
      BY <1>5, ElectedAlone DEF LapPublish, PoolInv, TypeOK, PumpTypeOK, ListsPartition
    <2>2. OnePumper' /\ \A e \in Desc : ~Claimed(e)'
      BY <1>5, LapMoves, ConstantsAssumption DEF LapPublish
    <2>3. CASE draining
      BY <1>5, <2>1, <2>2, <2>3 DEF LapPublish, PoolInv, ListsPartition, IrpFollowsState
    <2>4. CASE ~draining
      <3>1. /\ fstate' = [fstate EXCEPT ![lapDesc[t]] = "Attaching"]
            /\ pendingList' = pendingList \cup {lapDesc[t]}
            /\ irp' = [irp EXCEPT ![lapDesc[t]] = "attach"]
            /\ freeList' = freeList
        BY <1>5, <2>4 DEF LapPublish
      <3> QED
        BY <2>1, <2>2, <3>1
           DEF PoolInv, ListsPartition, IrpFollowsState, TypeOK, DescTypeOK, BusTypeOK, OnPending
    <2> QED
      BY <2>3, <2>4
  <1>6. CASE LapDeliver(t)
    <2>1. OnePumper' /\ \A e \in Desc : ~Claimed(e) /\ ~Claimed(e)'
      BY <1>6, LapMoves, ElectedAlone, ConstantsAssumption
         DEF LapDeliver, PoolInv, TypeOK, PumpTypeOK
    <2> QED
      BY <1>6, <2>1 DEF LapDeliver, PoolInv, ListsPartition, IrpFollowsState, descVars, busVars
  <1>7. CASE LapEnd(t)
    <2>1. \A e \in Desc : ~Claimed(e)
      BY <1>7, ElectedAlone DEF LapEnd, PoolInv, TypeOK, PumpTypeOK
    <2>2. CASE pumpAgain
      BY <1>7, <2>1, <2>2, LapMoves, ConstantsAssumption
         DEF LapEnd, PoolInv, ListsPartition, IrpFollowsState, descVars, busVars
    <2>3. CASE ~pumpAgain
      <3>1. /\ lap' = [lap EXCEPT ![t] = "none"] /\ lapDesc' = [lapDesc EXCEPT ![t] = NoDesc]
            /\ ~pumpActive'
        BY <1>7, <2>3 DEF LapEnd, LapAt
      <3>2. OnePumper'
        BY <1>7, <3>1, ElectedAlone DEF LapEnd, PoolInv, TypeOK, PumpTypeOK, OnePumper
      <3>3. \A e \in Desc : ~Claimed(e)'
        BY <2>1, <3>1, ConstantsAssumption DEF Claimed, PoolInv, TypeOK, PumpTypeOK
      <3> QED
        BY <1>7, <2>1, <3>2, <3>3
           DEF LapEnd, PoolInv, ListsPartition, IrpFollowsState, descVars, busVars
    <2> QED
      BY <2>2, <2>3
  <1> QED
    BY <1>1, <1>2, <1>3, <1>4, <1>5, <1>6, <1>7 DEF Pump
-----------------------------------------------------------------------------
(* The steps that move one descriptor leave the election and the claims     *)
(* alone.                                                                   *)
LEMMA MovesUnclaimed ==
  ASSUME PoolInv, UNCHANGED <<pumpActive, lap, lapDesc>>
  PROVE  OnePumper' /\ \A e \in Desc : Claimed(e)' <=> Claimed(e)
  BY DEF PoolInv, OnePumper, Claimed

LEMMA PoolRecycle ==
  ASSUME PoolInv, NEW d \in Desc, Recycle(d), fstate[d] # "Free",
         pendingList' = pendingList \ {d}, irp' = [irp EXCEPT ![d] = "none"],
         UNCHANGED <<pumpActive, lap, lapDesc>>
  PROVE  OnePumper' /\ ListsPartition' /\ IrpFollowsState'
  <1>1. fstate' = [fstate EXCEPT ![d] = "Free"] /\ freeList' = freeList \cup {d}
    BY DEF Recycle
  <1>2. ~Claimed(d)
    BY DEF PoolInv, ListsPartition
  <1> QED
    BY <1>1, <1>2, MovesUnclaimed
       DEF PoolInv, ListsPartition, IrpFollowsState, TypeOK, DescTypeOK, BusTypeOK, OnPending

LEMMA PoolDetach ==
  ASSUME PoolInv, NEW d \in Desc, NEW result, BeginDetach(d, result), fstate[d] \in OnPending,
         UNCHANGED <<freeList, pumpActive, lap, lapDesc>>
  PROVE  OnePumper' /\ ListsPartition' /\ IrpFollowsState'
  <1>1. /\ fstate' = [fstate EXCEPT ![d] = "Detaching"] /\ pendingList' = pendingList \ {d}
        /\ irp' = [irp EXCEPT ![d] = "detach"]
    BY DEF BeginDetach
  <1> QED
    BY <1>1, MovesUnclaimed
       DEF PoolInv, ListsPartition, IrpFollowsState, TypeOK, DescTypeOK, BusTypeOK, OnPending

LEMMA PoolBus ==
  ASSUME PoolInv, Bus
  PROVE  OnePumper' /\ ListsPartition' /\ IrpFollowsState'
  <1>1. ASSUME NEW d \in Desc, BusAttach(d)
        PROVE  OnePumper' /\ ListsPartition' /\ IrpFollowsState'
    BY <1>1, PoolFrame DEF BusAttach, poolVars, descVars, pumpVars, lapVars
  <1>2. ASSUME NEW d \in Desc, IsochCallback(d)
        PROVE  OnePumper' /\ ListsPartition' /\ IrpFollowsState'
    <2>1. UNCHANGED <<freeList, pumpActive, lap, lapDesc>>
      BY <1>2 DEF IsochCallback, pumpVars, lapVars
    <2>2. ASSUME NEW status, fstate[d] = "Pending", BeginDetach(d, FrameOutcome(status))
          PROVE  OnePumper' /\ ListsPartition' /\ IrpFollowsState'
      BY <2>1, <2>2, PoolDetach DEF OnPending
    <2>3. CASE /\ fstate[d] = "Attaching"
               /\ fstate' = [fstate EXCEPT ![d] = "CompletedWhileAttaching"]
               /\ UNCHANGED <<pendingList, outcome, irp, inFlight>>
      BY <2>1, <2>3, MovesUnclaimed
         DEF PoolInv, ListsPartition, IrpFollowsState, TypeOK, DescTypeOK, OnPending
    <2>4. CASE UNCHANGED <<fstate, pendingList, outcome, irp, inFlight>>
      BY <2>1, <2>4, PoolFrame DEF poolVars
    <2> QED
      BY <1>2, <2>2, <2>3, <2>4 DEF IsochCallback
  <1>3. ASSUME NEW d \in Desc, AttachCompleteFrameDone(d)
        PROVE  OnePumper' /\ ListsPartition' /\ IrpFollowsState'
    BY <1>3, PoolDetach DEF AttachCompleteFrameDone, OnPending, pumpVars, lapVars
  <1> QED
    BY <1>1, <1>2, <1>3 DEF Bus

LEMMA PoolCompletion ==
  ASSUME PoolInv, NEW c \in Cpu, Completion(c)
  PROVE  OnePumper' /\ ListsPartition' /\ IrpFollowsState'
  <1>1. CASE AttachSignal(c) \/ Deliver(c) \/ IrpDone(c) \/ IrpDoneTail(c)
    BY <1>1, PoolFrame
       DEF AttachSignal, Deliver, IrpDone, IrpDoneTail, poolVars, descVars, busVars, pumpVars, lapVars
  <1>2. CASE DetachPump(c)
    <2>1. CASE PumpCall(c)
      BY <1>2, <2>1, PoolPumpCall DEF DetachPump, Thread
    <2>2. CASE UNCHANGED pumpVars
      BY <1>2, <2>2, PoolFrame DEF DetachPump, poolVars, descVars, busVars, pumpVars, lapVars
    <2> QED
      BY <1>2, <2>1, <2>2 DEF DetachPump
  <1>3. ASSUME NEW d \in Desc, AttachFailed(c, d)
        PROVE  OnePumper' /\ ListsPartition' /\ IrpFollowsState'
    <2>1. fstate[d] # "Free"
      BY <1>3 DEF AttachFailed, PoolInv, IrpFollowsState
    <2> QED
      BY <1>3, <2>1, PoolRecycle DEF AttachFailed, pumpVars, lapVars
  <1>4. ASSUME NEW d \in Desc, AttachCompletePublish(c, d)
        PROVE  OnePumper' /\ ListsPartition' /\ IrpFollowsState'
    <2>1. /\ fstate[d] = "Attaching" /\ fstate' = [fstate EXCEPT ![d] = "Pending"]
          /\ irp' = [irp EXCEPT ![d] = "none"]
          /\ UNCHANGED <<freeList, pendingList, pumpActive, lap, lapDesc>>
      BY <1>4 DEF AttachCompletePublish, pumpVars, lapVars
    <2> QED
      BY <2>1, MovesUnclaimed
         DEF PoolInv, ListsPartition, IrpFollowsState, TypeOK, DescTypeOK, BusTypeOK, OnPending
  <1>5. ASSUME NEW d \in Desc, DetachFailed(c, d)
        PROVE  OnePumper' /\ ListsPartition' /\ IrpFollowsState'
    <2>1. /\ irp[d] = "detach" /\ fstate' = [fstate EXCEPT ![d] = "DetachFailed"]
          /\ irp' = [irp EXCEPT ![d] = "none"]
          /\ UNCHANGED <<freeList, pendingList, pumpActive, lap, lapDesc>>
      BY <1>5 DEF DetachFailed, pumpVars, lapVars
    <2>2. fstate[d] = "Detaching"
      BY <2>1 DEF PoolInv, IrpFollowsState
    <2> QED
      BY <2>1, <2>2, MovesUnclaimed
         DEF PoolInv, ListsPartition, IrpFollowsState, TypeOK, DescTypeOK, BusTypeOK, OnPending
  <1>6. ASSUME NEW d \in Desc, DetachComplete(c, d)
        PROVE  OnePumper' /\ ListsPartition' /\ IrpFollowsState'
    <2>1. fstate[d] = "Detaching" /\ pendingList' = pendingList \ {d}
      BY <1>6 DEF DetachComplete, PoolInv, ListsPartition, IrpFollowsState, OnPending
    <2> QED
      BY <1>6, <2>1, PoolRecycle DEF DetachComplete, pumpVars, lapVars
  <1> QED
    BY <1>1, <1>2, <1>3, <1>4, <1>5, <1>6 DEF Completion

LEMMA PoolUnquarantine ==
  ASSUME PoolInv, Unquarantine
  PROVE  OnePumper' /\ ListsPartition' /\ IrpFollowsState'
  <1>1. UNCHANGED <<pendingList, irp, pumpActive, lap, lapDesc>>
    BY DEF Unquarantine, busVars, pumpVars, lapVars
  <1>2. ASSUME NEW d \in Quarantined, Recycle(d)
        PROVE  OnePumper' /\ ListsPartition' /\ IrpFollowsState'
    <2>1. d \in Desc /\ fstate[d] = "DetachFailed"
      BY <1>2 DEF Quarantined
    <2>2. irp[d] = "none" /\ d \notin pendingList
      BY <2>1 DEF PoolInv, TypeOK, BusTypeOK, IrpFollowsState, ListsPartition, OnPending
    <2>3. irp' = [irp EXCEPT ![d] = "none"] /\ pendingList' = pendingList \ {d}
      BY <1>1, <2>2 DEF PoolInv, TypeOK, BusTypeOK
    <2> QED
      BY <1>1, <1>2, <2>1, <2>3, PoolRecycle
  <1>3. CASE UNCHANGED <<fstate, cookie, outcome, freeList, out, cancelled>>
    BY <1>1, <1>3, PoolFrame DEF poolVars
  <1> QED
    BY <1>2, <1>3 DEF Unquarantine

LEMMA PoolInit == Init => PoolInv
  <1> SUFFICES ASSUME Init PROVE PoolInv
    OBVIOUS
  <1>1. OnePumper
    BY DEF Init, OnePumper
  <1>2. ListsPartition
    BY ConstantsAssumption DEF Init, ListsPartition, Claimed, OnPending
  <1>3. IrpFollowsState
    BY DEF Init, IrpFollowsState
  <1> QED
    BY <1>1, <1>2, <1>3, TypeInit DEF PoolInv

LEMMA PoolNext == PoolInv /\ [Next]_vars => PoolInv'
  <1> SUFFICES ASSUME PoolInv, [Next]_vars PROVE PoolInv'
    OBVIOUS
  <1>1. TypeOK'
    BY TypeNext DEF PoolInv
  <1>2. OnePumper' /\ ListsPartition' /\ IrpFollowsState'
    <2>1. CASE UNCHANGED poolVars
      BY <2>1, PoolFrame
    <2>2. CASE \E t \in Thread : Pump(t)
      BY <2>2, PoolPump
    <2>3. CASE Bus \/ \E c \in Cpu : Completion(c)
      BY <2>3, PoolBus, PoolCompletion
    <2>4. ASSUME NEW r \in Reader, ReadPump(r)
          PROVE  OnePumper' /\ ListsPartition' /\ IrpFollowsState'
      BY <2>4, PoolPumpCall, PoolFrame
         DEF ReadPump, Thread, poolVars, descVars, busVars, pumpVars, lapVars
    <2>5. CASE ControlPump
      BY <2>5, PoolPumpCall, PoolFrame
         DEF ControlPump, Thread, poolVars, descVars, busVars, pumpVars, lapVars
    <2>6. ASSUME NEW d \in Desc, fstate[d] = "Pending", BeginDetach(d, "cancelled"), QuiesceClaim
          PROVE  OnePumper' /\ ListsPartition' /\ IrpFollowsState'
      BY <2>6, PoolDetach DEF QuiesceClaim, OnPending, pumpVars, lapVars
    <2>7. CASE QuiesceClaim
      BY <2>6, <2>7 DEF QuiesceClaim, PoolInv, TypeOK, DescTypeOK
    <2>8. CASE Unquarantine
      BY <2>8, PoolUnquarantine
    <2>9. CASE UNCHANGED vars
      BY <2>9, <2>1 DEF vars, poolVars, descVars, busVars, pumpVars, lapVars
    <2> QED
      BY <2>1, <2>2, <2>3, <2>4, <2>5, <2>7, <2>8, <2>9, RequestsElsewhere, TeardownElsewhere,
         StartupElsewhere, WorkElsewhere, ReadsElsewhere DEF Next, Control
  <1> QED
    BY <1>1, <1>2 DEF PoolInv

-----------------------------------------------------------------------------
LEMMA PoolAlways == Spec => []PoolInv
  BY PoolInit, PoolNext, PTL DEF Spec

(* PumpActive says exactly whether a thread is inside a lap, and never are  *)
(* two: the election of PhotonicCapturePump is mutual exclusion, whatever   *)
(* the number of data threads, completions and control transitions.         *)
THEOREM OnePumperAlways == Spec => []OnePumper
  BY PoolAlways, PTL DEF PoolInv

(* FreeList, PendingList and the claims of the laps partition the pool at   *)
(* any size: a descriptor is never lost, claimed twice, or on both lists.   *)
THEOREM ListsPartitionAlways == Spec => []ListsPartition
  BY PoolAlways, PTL DEF PoolInv

(* The one IRP a descriptor owns is at the bus driver exactly in the states *)
(* that sent it, so an attach and a detach never overlap on it.             *)
THEOREM IrpFollowsStateAlways == Spec => []IrpFollowsState
  BY PoolAlways, PTL DEF PoolInv
=============================================================================
