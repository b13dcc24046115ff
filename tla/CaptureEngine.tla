--------------------------- MODULE CaptureEngine ---------------------------
(***************************************************************************)
(* The capture engine and its pin, put together: the next-state relation,  *)
(* the fairness the kernel's scheduling gives, and what must hold.         *)
(***************************************************************************)
EXTENDS CapturePump, StreamReads, CaptureControl

Next ==
  \/ Requests \/ Client \/ FrontEnd \/ Control
  \/ WorkDispatch \/ WorkBegin
  \/ Bus \/ \E c \in Cpu : Completion(c)
  \/ \E t \in Thread : Pump(t)

(* Every thread that is running goes on; the bus driver completes every IRP *)
(* it holds; a queued work item runs and, KeWaitForSingleObject being FIFO, *)
(* gets the mutex.  Nothing makes a client act or a camera send a frame.    *)
BusAnswers(d) ==
  \/ BusAttach(d) \/ AttachCompleteFrameDone(d)
  \/ \E c \in Cpu : \/ AttachFailed(c, d) \/ AttachCompletePublish(c, d)
                    \/ DetachFailed(c, d) \/ DetachComplete(c, d)

Fairness ==
  /\ \A t \in Thread : WF_vars(Pump(t))
  /\ \A c \in Cpu : WF_vars(AttachSignal(c) \/ Deliver(c) \/ DetachPump(c)
                            \/ IrpDone(c) \/ IrpDoneTail(c))
  /\ \A d \in Desc : SF_vars(BusAnswers(d))
  /\ WF_vars(FrontEnd) /\ WF_vars(Control)
  /\ WF_vars(WorkDispatch) /\ SF_vars(WorkBegin)

Spec == Init /\ [][Next]_vars /\ Fairness

-----------------------------------------------------------------------------
(* The type invariant, one part per group of variables. *)
DescTypeOK ==
  /\ fstate \in [Desc -> FrameStates] /\ cookie \in [Desc -> Buf \cup {NoBuf}]
  /\ outcome \in [Desc -> {"success", "cancelled", "error"}]
  /\ freeList \in SUBSET Desc /\ pendingList \in SUBSET Desc
BusTypeOK ==
  /\ irp \in [Desc -> {"none", "attach", "detach"}] /\ dma \in [Desc -> Buf \cup {NoBuf}]
  /\ fill \in [Desc -> {"empty", "ok", "error"}] /\ busListening \in BOOLEAN
PumpTypeOK ==
  /\ pumpActive \in BOOLEAN /\ pumpAgain \in BOOLEAN
  /\ lap \in [Thread -> LapPcs] /\ lapDesc \in [Thread -> Desc \cup {NoDesc}]
  /\ lapBuf \in [Thread -> Buf \cup {NoBuf}] /\ lapCount \in [Thread -> 0 .. Cardinality(Desc)]
  /\ \A t \in Thread : lapDesc[t] \in Desc <=> lap[t] \in {"acquire", "publish"}
RunTypeOK ==
  draining \in BOOLEAN /\ inFlight \in Int /\ listening \in BOOLEAN /\ firstAttach \in BOOLEAN
ResTypeOK == held \in SUBSET Resources /\ stranded \in SUBSET Resources
CamTypeOK == enableWanted \in BOOLEAN /\ isoEnabled \in BOOLEAN /\ retries \in 0 .. RetryMax
WorkTypeOK == cancelPending \in BOOLEAN /\ workQueued \in BOOLEAN /\ workers \in 0 .. MaxWorkers
ReadTypeOK == ready \in Seq(Buf) /\ out \in SUBSET Buf /\ cancelled \in SUBSET Buf
FrontTypeOK ==
  /\ streamState \in {"STOP", "PAUSE", "RUN"} /\ rundown \in BOOLEAN /\ removed \in BOOLEAN
  /\ rd \in [Reader -> RdPcs] /\ rdBuf \in [Reader -> Buf \cup {NoBuf}]
  /\ \A r \in Reader : rdBuf[r] \in Buf <=> rd[r] = "park"
  /\ cn \in {"idle", "notify"}
CpuTypeOK == cpu \in [Cpu -> CpuPcs] /\ cpuBuf \in [Cpu -> Buf \cup {NoBuf}]
CtlTypeOK == ctl \in CtlPcs /\ op \in CtlOps /\ alive \in {"open", "freed", "leaked"}
TypeOK ==
  /\ DescTypeOK /\ BusTypeOK /\ PumpTypeOK /\ RunTypeOK /\ ResTypeOK /\ CamTypeOK
  /\ WorkTypeOK /\ ReadTypeOK /\ FrontTypeOK /\ CpuTypeOK /\ CtlTypeOK

(* Who the election lets pump: PumpActive says exactly whether a thread is  *)
(* inside a lap, and never are two (pump.c PhotonicCapturePump).            *)
OnePumper ==
  /\ pumpActive <=> \E t \in Thread : lap[t] # "none"
  /\ \A t, u \in Thread : lap[t] # "none" /\ lap[u] # "none" => t = u

(* The two lists and the private owners partition the pool: a descriptor is *)
(* on FreeList exactly when it is Free and no lap has claimed it, and on    *)
(* PendingList exactly in the states the callback and the quiesce may take  *)
(* it from (capture.h, FreeList/PendingList).                               *)
Claimed(d) == \E t \in Thread : lapDesc[t] = d
ListsPartition ==
  \A d \in Desc :
    /\ d \in freeList <=> fstate[d] = "Free" /\ ~Claimed(d)
    /\ d \in pendingList <=> fstate[d] \in OnPending
    /\ Claimed(d) => fstate[d] = "Free"

(* InFlightIrps counts every attach and detach IRP at the bus driver, and   *)
(* every completion routine that has not yet made its last engine access    *)
(* (capture.h, the InFlightIrps invariant).                                 *)
Counted(c) == cpu[c] \notin {"idle", "tail"}
InFlightExact ==
  inFlight = Cardinality({d \in Desc : irp[d] # "none"}) + Cardinality({c \in Cpu : Counted(c)})

(* One shared IRP per descriptor: it carries what the descriptor's state    *)
(* says and nothing when the descriptor is idle, so an attach and a detach  *)
(* never overlap on it (capture.h, PHOTONIC_CAPTURE_FRAME.Irp).             *)
IrpFollowsState ==
  \A d \in Desc :
    /\ irp[d] = "attach" <=> fstate[d] \in {"Attaching", "CompletedWhileAttaching"}
    /\ irp[d] = "detach" <=> fstate[d] = "Detaching"

(* Every read the class driver sent is in exactly one place until it is     *)
(* completed, and nowhere afterwards: no read is lost, none is completed    *)
(* twice (the single-completer handoff of pump.c, the park of read.c).      *)
Holdings(b) ==
  Cardinality({i \in DOMAIN ready : ready[i] = b})
    + Cardinality({r \in Reader : rdBuf[r] = b})
    + Cardinality({t \in Thread : lapBuf[t] = b})
    + Cardinality({d \in Desc : cookie[d] = b})
    + Cardinality({c \in Cpu : cpuBuf[c] = b})
SingleCompleter == \A b \in Buf : Holdings(b) = IF b \in out THEN 1 ELSE 0

(* The bus driver never maps the pages of a read that was given back, in    *)
(* any order of frames, cancels, failed detaches and releases (pump.c       *)
(* DetachComplete, teardown.c "pages that have already been unlocked").     *)
NoMappedBufferReturned ==
  \A d \in Desc : dma[d] # NoBuf => dma[d] \in out /\ dma[d] = cookie[d]

(* The count a drain waits for is exact, so that outside a transition a     *)
(* draining engine is settled idle: nothing is at the bus driver but        *)
(* quarantined buffers (capture.h, InFlightIrps and Draining).              *)
SettledIdle ==
  /\ InFlightExact
  /\ draining /\ ctl \notin {"isochStop", "claim", "drainWait", "drainCheck"} =>
       /\ inFlight = 0 /\ pendingList = {} /\ ~listening
       /\ \A d \in Desc : irp[d] = "none"
       /\ Attached \subseteq Quarantined
       /\ \A c \in Cpu : ~Counted(c)

(* An unfinished buffer is detached only from a stopped context             *)
(* (teardown.c, the one ordering rule).                                     *)
StopBeforeDetach ==
  \A d \in Desc : irp[d] = "detach" /\ fill[d] = "empty" => ~busListening

(* Every request to the bus driver on the resource handle is made while the *)
(* session holds the handle (teardown.c: the resources are freed only after *)
(* the drain).                                                              *)
HandleOutlivesIrps ==
  ((\E d \in Desc : irp[d] # "none") \/ listening) => "handle" \in held

(* A frame reported delivered is a frame the bus filled without error       *)
(* (pump.c: a failed frame must not be delivered as a full good one).       *)
NoFalseSuccess ==
  \A d \in Desc : fstate[d] = "Detaching" /\ outcome[d] = "success" => fill[d] = "ok"

(* No thread and no IRP can still reach an engine the close has freed, and  *)
(* it holds no read (lifecycle.c PhotonicStreamClose, PhotonicCaptureDestroy).*)
FreedIsUnreached ==
  alive # "open" =>
    /\ ~pumpActive /\ cn = "idle" /\ \A r \in Reader : rd[r] = "idle"
    /\ inFlight = 0 /\ \A c \in Cpu : ~Counted(c)
    /\ alive = "freed" => Attached = {} /\ \A d \in Desc : fstate[d] = "Free"

(* The count drops only after the completion's last access to the engine    *)
(* (pump.c: "This must be the caller's LAST access to the engine").         *)
CountOutlastsAccess == \A c \in Cpu : cpu[c] = "tail" => alive # "freed"

(* No readiness is lost: while the engine runs, a parked read beside a free *)
(* descriptor has a pump on its way to both (capture.h PhotonicCapturePump).*)
PumpComing ==
  \/ pumpActive
  \/ \E r \in Reader : rd[r] = "pump"
  \/ \E c \in Cpu : cpu[c] \in {"deliverFrame", "pump"}
  \/ ctl = "pump"
ReadyIsPumped == ~draining /\ freeList # {} /\ ready # <<>> => PumpComing

(* A parked read on a stopped pin has a drain ahead of it: none can wait    *)
(* where nobody will look again (read.c, the park).                         *)
NoReadParkedWhenStopped ==
  ready # <<>> /\ (streamState = "STOP" \/ removed) /\ alive = "open" => ctl # "idle"

(* ISO_EN is set only over an active listen on a running engine, so no      *)
(* leading frame is transmitted with nobody receiving (capture.c, the       *)
(* deferred enable).                                                        *)
EnableOnlyListening == [][isoEnabled' /\ ~isoEnabled => listening /\ ~draining]_vars

(* The retry budget belongs to one stall: once the mutex is given back, a   *)
(* spent try means that a wanted listen or enable is still unmade, with a   *)
(* work item run coming to make it unless the budget is out (work.c, "it    *)
(* applies per stall, not per session"; capture.c, "starts fresh").         *)
BudgetPerStall ==
  retries # 0 /\ ctl = "idle" /\ alive = "open" =>
    /\ ~listening \/ enableWanted
    /\ workQueued \/ workers > 0 \/ retries = RetryMax

(* A start never overwrites a resource the last session could not release   *)
(* (capture.c: "before fresh allocations would overwrite the recorded       *)
(* handles and strand the old resources").                                  *)
StartStrandsNothing == [][stranded' # stranded => ctl = "destroy"]_vars

-----------------------------------------------------------------------------
(* The engine implements the hand-off its callback contracts promise: a     *)
(* read that neither is parked nor is still with the thread that brings it  *)
(* belongs to the engine until it is completed.                             *)
Arriving == {rdBuf[r] : r \in Reader}
EngineOwned == {b \in out : b \notin Parked \cup Arriving}
Handoff == INSTANCE BufferHandoff WITH
             line <- ready, engine <- EngineOwned, mapped <- {dma[d] : d \in Attached}
HandoffSpec == Handoff!Spec

-----------------------------------------------------------------------------
(* Every transition that takes InterfaceMutex gives it back. *)
MutexReleased == []<>(ctl = "idle")

(* A cancelled read is completed, wherever it was when the cancel came. *)
CancelResolved == \A b \in Buf : []<>(b \notin cancelled)

(* A start is finished however late the first buffer attaches: a running    *)
(* engine with a submitted buffer gets its context listening (work.c        *)
(* EnsureListen) and a deferred camera enable is made (capture.c), unless   *)
(* the engine stops or the buffers go away first.                           *)
ListenWanted == ~draining /\ ~listening /\ pendingList # {} /\ ~removed
EnableDue == enableWanted /\ ~draining /\ pendingList # {} /\ ~removed
StartFinished == []<>~ListenWanted /\ []<>~EnableDue

=============================================================================
