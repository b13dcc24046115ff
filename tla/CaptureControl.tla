-------------------------- MODULE CaptureControl --------------------------
(***************************************************************************)
(* The transitions that hold InterfaceMutex: capture.c (start, stop,       *)
(* destroy), teardown.c, resource.c, work.c, and their callers - the pin's *)
(* state changes, open and close (photonic/stream) and the surprise        *)
(* removal (dispatch.c).  ctl is where the holder stands and op what it    *)
(* came to do, which is where the shared steps return to.                  *)
(***************************************************************************)
EXTENDS CaptureState

-----------------------------------------------------------------------------
(* A request takes the mutex.                                               *)

Enter(name, pc) == op' = name /\ ctl' = pc
Goto(pc) == Enter(IF pc = "idle" THEN "none" ELSE op, pc)

Accepts(name) == ctl = "idle" /\ name \in Ops /\ alive = "open"

(* SRB_SET_STREAM_STATE to KSSTATE_RUN, up to PhotonicCaptureStart's settled *)
(* check and the retry of an unfinished release.                            *)
Run ==
  /\ Accepts("start") /\ ~removed
  /\ \/ /\ ~draining
        /\ streamState' = "RUN"
        /\ UNCHANGED ctlVars
     \/ /\ draining
        /\ Enter("start", IF NeedsReleaseRetry THEN "release" ELSE "allocate")
        /\ UNCHANGED <<streamState, alive>>
  /\ UNCHANGED <<descVars, busVars, pumpVars, runVars, resVars, camVars, workVars, readVars,
                 rundown, removed, rdVars, cn, cpuVars>>

Stop ==
  /\ Accepts("stop")
  /\ Enter("stop", "stop")
  /\ UNCHANGED <<descVars, busVars, pumpVars, runVars, resVars, camVars, workVars, readVars,
                 frontVars, cpuVars, alive>>

(* KSSTATE_PAUSE (and KSSTATE_ACQUIRE) only record the state. *)
Pause ==
  /\ Accepts("pause")
  /\ streamState' = "PAUSE"
  /\ UNCHANGED <<descVars, busVars, pumpVars, runVars, resVars, camVars, workVars, readVars,
                 rundown, removed, rdVars, cn, cpuVars, ctlVars>>

(* SRB_CLOSE_STREAM: the stop and the gate's rundown in one hold. *)
Close ==
  /\ Accepts("close")
  /\ streamState' = "STOP" /\ rundown' = TRUE
  /\ Enter("close", "rundown")
  /\ UNCHANGED <<descVars, busVars, pumpVars, runVars, resVars, camVars, workVars, readVars,
                 removed, rdVars, cn, cpuVars, alive>>

SurpriseRemoval ==
  /\ ctl = "idle" /\ "remove" \in Ops /\ ~removed
  /\ removed' = TRUE
  /\ IF alive = "open" THEN Enter("remove", "stop") ELSE UNCHANGED <<ctl, op>>
  /\ UNCHANGED <<descVars, busVars, pumpVars, runVars, resVars, camVars, workVars, readVars,
                 streamState, rundown, rdVars, cn, cpuVars, alive>>

(* SRB_OPEN_STREAM after a close: PhotonicCaptureCreate makes the engine    *)
(* anew.  The coalescing flag and the queued runs belong to the device.     *)
Open ==
  /\ ctl = "idle" /\ "open" \in Ops /\ alive = "freed" /\ ~removed
  /\ alive' = "open" /\ rundown' = FALSE /\ ready' = <<>>
  /\ draining' = TRUE /\ listening' = FALSE /\ firstAttach' = FALSE
  /\ enableWanted' = FALSE /\ isoEnabled' = FALSE /\ retries' = 0 /\ cancelPending' = FALSE
  /\ UNCHANGED <<descVars, busVars, pumpVars, inFlight, resVars, workQueued, workers, out,
                 cancelled, streamState, removed, rdVars, cn, cpuVars, ctl, op>>

-----------------------------------------------------------------------------
(* PhotonicCaptureStop and the teardown.                                    *)

(* Mutant of Rundown: the close does not wait for the data path. *)
RundownUnwaited ==
  /\ ctl = "rundown"
  /\ Goto("stop")
  /\ UNCHANGED <<descVars, busVars, pumpVars, runVars, resVars, camVars, workVars, readVars,
                 frontVars, cpuVars, alive>>

(* The close waits for the data and cancel handlers inside the gate. *)
Rundown ==
  /\ ctl = "rundown"
  /\ cn = "idle" /\ \A r \in Reader : rd[r] = "idle"
  /\ Goto("stop")
  /\ UNCHANGED <<descVars, busVars, pumpVars, runVars, resVars, camVars, workVars, readVars,
                 frontVars, cpuVars, alive>>

StopPublish ==
  /\ ctl = "stop"
  /\ streamState' = "STOP"
  /\ Goto(IF draining THEN "settled" ELSE "shutdown")
  /\ UNCHANGED <<descVars, busVars, pumpVars, runVars, resVars, camVars, workVars, readVars,
                 rundown, removed, rdVars, cn, cpuVars, alive>>

StopSettled ==
  /\ ctl = "settled" /\ ~pumpActive
  /\ Goto(IF NeedsReleaseRetry THEN "release" ELSE "drain")
  /\ UNCHANGED <<descVars, busVars, pumpVars, runVars, resVars, camVars, workVars, readVars,
                 frontVars, cpuVars, alive>>

(* PhotonicCaptureTeardownShutdown up to the quiesce: publish KSSTATE_STOP  *)
(* and silence the camera.                                                  *)
Shutdown ==
  /\ ctl = "shutdown"
  /\ streamState' = "STOP"
  /\ enableWanted' = FALSE /\ isoEnabled' = FALSE
  /\ Goto(IF draining THEN "release" ELSE "quiesce")
  /\ UNCHANGED <<descVars, busVars, pumpVars, runVars, resVars, retries, workVars, readVars,
                 rundown, removed, rdVars, cn, cpuVars, alive>>

(* PhotonicCaptureTeardownQuiesce, step by step. *)
QuiesceBegin ==
  /\ ctl = "quiesce"
  /\ draining' = TRUE
  /\ Goto("isochStop")
  /\ UNCHANGED <<descVars, busVars, pumpVars, inFlight, listening, firstAttach, resVars,
                 camVars, workVars, readVars, frontVars, cpuVars, alive>>

(* Mutant of IsochStop: the flag is cleared, the request never made. *)
IsochStopUnsent == listening' = FALSE /\ UNCHANGED busListening

(* The request's status is ignored: one that failed leaves the context on.  *)
IsochStop ==
  /\ listening' = FALSE
  /\ busListening' \in IF "isochStop" \in Faults THEN {FALSE, busListening} ELSE {FALSE}

QuiesceStop ==
  /\ ctl = "isochStop"
  /\ IF "handle" \in held THEN IsochStop ELSE UNCHANGED <<listening, busListening>>
  /\ Goto("claim")
  /\ UNCHANGED <<descVars, irp, dma, fill, pumpVars, draining, inFlight, firstAttach, resVars,
                 camVars, workVars, readVars, frontVars, cpuVars, alive>>

(* Mutant of QuiesceClaim: the teardown's own detaches are not counted. *)
QuiesceClaimUncounted ==
  /\ ctl = "claim"
  /\ \E d \in pendingList :
       /\ fstate[d] = "Pending"
       /\ BeginDetach(d, "cancelled")
  /\ UNCHANGED <<cookie, freeList, dma, fill, busListening, pumpVars, runVars, resVars, camVars,
                 workVars, readVars, frontVars, cpuVars, ctlVars>>

QuiesceClaim ==
  /\ ctl = "claim"
  /\ \E d \in pendingList :
       /\ fstate[d] = "Pending"
       /\ BeginDetach(d, "cancelled")
  /\ inFlight' = inFlight + 1
  /\ UNCHANGED <<cookie, freeList, dma, fill, busListening, pumpVars, draining, listening,
                 firstAttach, resVars, camVars, workVars, readVars, frontVars, cpuVars, ctlVars>>

QuiesceClaimed ==
  /\ ctl = "claim" /\ \A d \in pendingList : fstate[d] # "Pending"
  /\ Goto("drainWait")
  /\ UNCHANGED <<descVars, busVars, pumpVars, runVars, resVars, camVars, workVars, readVars,
                 frontVars, cpuVars, alive>>

(* Mutant of QuiesceDrainWait: the wait gives up at its timeout. *)
QuiesceDrainTimeout ==
  /\ ctl = "drainWait"
  /\ Goto("drainCheck")
  /\ UNCHANGED <<descVars, busVars, pumpVars, runVars, resVars, camVars, workVars, readVars,
                 frontVars, cpuVars, alive>>

QuiesceDrainWait ==
  /\ ctl = "drainWait" /\ inFlight = 0
  /\ Goto("drainCheck")
  /\ UNCHANGED <<descVars, busVars, pumpVars, runVars, resVars, camVars, workVars, readVars,
                 frontVars, cpuVars, alive>>

(* Mutant of QuiesceDrained: one claim pass only. *)
QuiesceDrainedOnce ==
  /\ ctl = "drainCheck"
  /\ Goto("pumpIdle")
  /\ UNCHANGED <<descVars, busVars, pumpVars, runVars, resVars, camVars, workVars, readVars,
                 frontVars, cpuVars, alive>>

(* What attach completions published during the drain is claimed next.      *)
QuiesceDrained ==
  /\ ctl = "drainCheck"
  /\ Goto(IF pendingList = {} THEN "pumpIdle" ELSE "claim")
  /\ UNCHANGED <<descVars, busVars, pumpVars, runVars, resVars, camVars, workVars, readVars,
                 frontVars, cpuVars, alive>>

(* Mutant of ResumeRefused: a quarantine does not force the shutdown. *)
ResumeOverQuarantine == removed

(* The pump's election settles and the quiesce returns, to the shutdown or  *)
(* to the work item, which resumes or shuts down.                           *)
ResumeRefused == removed \/ Quarantined # {}

QuiescePumpIdle ==
  /\ ctl = "pumpIdle" /\ ~pumpActive
  /\ firstAttach' = FALSE
  /\ Goto(IF op # "work" THEN "release"
            ELSE IF ResumeRefused THEN "shutdown" ELSE "resume")
  /\ UNCHANGED <<descVars, busVars, pumpVars, draining, inFlight, listening, resVars, camVars,
                 workVars, readVars, frontVars, cpuVars, alive>>

-----------------------------------------------------------------------------
(* PhotonicCaptureTeardownReleaseSessionResources.                          *)

AfterRelease ==
  IF op = "start" /\ Quarantined = {} THEN "allocate"
  ELSE IF op \in {"start", "failed"} THEN "idle"
  ELSE "drain"

(* Mutant of MayDeliver: without waiting for the flush. *)
DeliverAtOnce(flushed) == TRUE

(* Quarantined reads are delivered only after a flush.                      *)
MayDeliver(flushed) == flushed \/ Quarantined = {}

(* PhotonicCaptureResourceReleaseIsoch: the flags kept are those whose free *)
(* never reached the bus driver; the flush is a handle free that succeeded. *)
ReleaseIsoch ==
  /\ ctl = "release"
  /\ IF listening THEN IsochStop ELSE UNCHANGED <<listening, busListening>>
  /\ \E kept \in IF "free" \in Faults THEN SUBSET held ELSE {{}},
        failed \in IF "free" \in Faults THEN BOOLEAN ELSE {FALSE} :
       LET freed   == "handle" \in held \ kept
           flushed == freed /\ ~failed
       IN /\ held' = held \cap kept
          /\ dma' = IF flushed THEN [d \in Desc |-> NoBuf] ELSE dma
          /\ fill' = IF flushed THEN [d \in Desc |-> "empty"] ELSE fill
          /\ Goto(IF MayDeliver(flushed) THEN "unquarantine" ELSE AfterRelease)
  /\ UNCHANGED <<descVars, irp, pumpVars, draining, inFlight, firstAttach, stranded, camVars,
                 workVars, readVars, frontVars, cpuVars, alive>>

(* Each quarantined read is delivered and its descriptor recycled.          *)
Unquarantine ==
  /\ ctl = "unquarantine"
  /\ \/ \E d \in Quarantined :
          /\ Recycle(d)
          /\ Complete({cookie[d]})
          /\ UNCHANGED <<ctl, op>>
     \/ /\ Quarantined = {}
        /\ Goto(AfterRelease)
        /\ UNCHANGED <<fstate, cookie, outcome, freeList, out, cancelled>>
  /\ UNCHANGED <<pendingList, busVars, pumpVars, runVars, resVars, camVars, workVars, ready,
                 frontVars, cpuVars, alive>>

(* PhotonicStreamCompletePendingReads, one hold of PendingLock each, and    *)
(* where each of its callers goes from there.                               *)
DrainReads ==
  /\ ctl = "drain"
  /\ \/ /\ ready # <<>>
        /\ ready' = Tail(ready) /\ Complete({Head(ready)})
        /\ UNCHANGED <<ctl, op>>
     \/ /\ ready = <<>>
        /\ Goto(IF op = "close" THEN "destroy" ELSE IF op = "work" THEN "listen" ELSE "idle")
        /\ UNCHANGED readVars
  /\ UNCHANGED <<descVars, busVars, pumpVars, runVars, resVars, camVars, workVars, frontVars,
                 cpuVars, alive>>

(* PhotonicCaptureDestroy: the engine is freed, or leaked over a quarantine. *)
(* Flags that were still set go with it.                                    *)
Destroy ==
  /\ ctl = "destroy"
  /\ alive' = IF Quarantined # {} THEN "leaked" ELSE "freed"
  /\ stranded' = stranded \cup held /\ held' = {}
  /\ Enter("closed", "drain")
  /\ UNCHANGED <<descVars, busVars, pumpVars, runVars, camVars, workVars, readVars, frontVars,
                 cpuVars>>

-----------------------------------------------------------------------------
(* PhotonicCaptureStart past the retry.                                     *)

(* Channel, bandwidth, handle, in this order.  An allocation over a flag    *)
(* that is still set overwrites the recorded handle.                        *)
Allocate ==
  /\ ctl = "allocate"
  /\ \E got \in IF "alloc" \in Faults
                THEN {{}, {"channel"}, {"channel", "bandwidth"}, Resources} ELSE {Resources} :
       /\ held' = held \cup got
       /\ stranded' = stranded \cup (held \cap got)
       /\ IF got = Resources THEN Goto("open") ELSE Enter("failed", "release")
  /\ UNCHANGED <<descVars, busVars, pumpVars, runVars, camVars, workVars, readVars, frontVars,
                 cpuVars, alive>>

(* The engine opens for submits: the work item's resume clears only         *)
(* Draining, the start also what the previous session left.                 *)
OpenEngine ==
  /\ \/ /\ ctl = "open"
        /\ firstAttach' = FALSE /\ retries' = 0 /\ cancelPending' = FALSE
     \/ /\ ctl = "resume"
        /\ UNCHANGED <<firstAttach, retries, cancelPending>>
  /\ draining' = FALSE
  /\ Goto("pump")
  /\ UNCHANGED <<descVars, busVars, pumpVars, inFlight, listening, resVars, enableWanted,
                 isoEnabled, workQueued, workers, readVars, frontVars, cpuVars, alive>>

ControlPump ==
  /\ \/ /\ ctl = "pump"
        /\ PumpCall(Ctl)
        /\ Goto(AfterPumpCall("pumping", "listen"))
     \/ /\ ctl = "pumping" /\ lap[Ctl] = "none"
        /\ Goto("listen")
        /\ UNCHANGED pumpVars
  /\ UNCHANGED <<descVars, busVars, runVars, resVars, camVars, workVars, readVars, frontVars,
                 cpuVars, alive>>

(* Mutant of AfterListen: a work item that listened leaves the enable out. *)
AfterListenNoEnable == IF op = "start" THEN "enable" ELSE "workRetry"

(* PhotonicCaptureEnsureListen: the check, the bounded wait for the first   *)
(* attach, the check again and the request.                                 *)
AfterListen == IF op = "start" THEN "enable" ELSE "workEnable"

ListenCheck ==
  /\ \/ /\ ctl = "listen"
        /\ Goto(IF NoListenWanted THEN AfterListen ELSE "listenWait")
     \/ /\ ctl = "listenWait"
        /\ Goto(IF ~firstAttach \/ NoListenWanted THEN AfterListen ELSE "listenIrb")
  /\ UNCHANGED <<descVars, busVars, pumpVars, runVars, resVars, camVars, workVars, readVars,
                 frontVars, cpuVars, alive>>

(* The bus driver accepts a listen only over an attached buffer.  One that  *)
(* reports failure may still have started the context (an abandoned IRB).   *)
Listen ==
  /\ ctl = "listenIrb"
  /\ \/ /\ Attached # {}
        /\ listening' = TRUE /\ busListening' = TRUE
     \/ /\ Attached = {} \/ "listen" \in Faults
        /\ busListening' \in IF Attached # {} THEN {busListening, TRUE} ELSE {busListening}
        /\ UNCHANGED listening
  /\ Goto(AfterListen)
  /\ UNCHANGED <<descVars, irp, dma, fill, pumpVars, draining, inFlight, firstAttach, resVars,
                 camVars, workVars, readVars, frontVars, cpuVars, alive>>

(* The pin expects buffers and is never single-frame, so a start that is    *)
(* not listening yet defers the enable.                                     *)
SetIsochEnable ==
  /\ ctl = "enable"
  /\ \/ /\ ~listening
        /\ enableWanted' = TRUE /\ UNCHANGED isoEnabled /\ Goto("running")
     \/ /\ listening
        /\ isoEnabled' = TRUE /\ UNCHANGED enableWanted /\ Goto("running")
     \/ /\ listening /\ "enable" \in Faults
        /\ UNCHANGED <<enableWanted, isoEnabled>> /\ Enter("stop", "stop")
  /\ UNCHANGED <<descVars, busVars, pumpVars, runVars, resVars, retries, workVars, readVars,
                 frontVars, cpuVars, alive>>

PublishRun ==
  /\ ctl = "running"
  /\ streamState' = "RUN" /\ Goto("idle")
  /\ UNCHANGED <<descVars, busVars, pumpVars, runVars, resVars, camVars, workVars, readVars,
                 rundown, removed, rdVars, cn, cpuVars, alive>>

-----------------------------------------------------------------------------
(* The control work item.                                                   *)

(* A run clears the coalescing flag, then waits for the mutex. *)
WorkDispatch ==
  /\ workQueued /\ workers < MaxWorkers
  /\ workQueued' = FALSE /\ workers' = workers + 1
  /\ UNCHANGED <<descVars, busVars, pumpVars, runVars, resVars, camVars, cancelPending,
                 readVars, frontVars, cpuVars, ctlVars>>

(* PhotonicCaptureWorkService up to the cancel resolution. *)
WorkBegin ==
  /\ ctl = "idle" /\ workers > 0
  /\ workers' = workers - 1
  /\ \/ /\ alive = "open"
        /\ cancelPending' = FALSE
        /\ Enter("work", IF cancelPending /\ ~draining THEN "quiesce" ELSE "listen")
     \/ /\ alive # "open"
        /\ UNCHANGED <<cancelPending, op, ctl>>
  /\ UNCHANGED <<descVars, busVars, pumpVars, runVars, resVars, camVars, workQueued, readVars,
                 frontVars, cpuVars, alive>>

(* Mutant of EnableReady: without the listen check. *)
EnableUnheard == enableWanted

(* The deferred camera enable. *)
EnableReady == enableWanted /\ listening
WorkEnable ==
  /\ ctl = "workEnable"
  /\ \/ /\ EnableReady /\ ~removed
        /\ enableWanted' = FALSE /\ isoEnabled' = TRUE
     \/ /\ ~EnableReady \/ removed \/ "enable" \in Faults
        /\ UNCHANGED <<enableWanted, isoEnabled>>
  /\ Goto("workRetry")
  /\ UNCHANGED <<descVars, busVars, pumpVars, runVars, resVars, retries, workVars, readVars,
                 frontVars, cpuVars, alive>>

(* Mutant of MayRetry: one retry too many. *)
MayRetryOnceMore == retries <= RetryMax
MayRetry == retries < RetryMax

(* Mutant of BudgetReset: the tries spent on one stall count for the next.  *)
BudgetKept == UNCHANGED retries

(* A run that finds nothing to retry gives the budget back. *)
BudgetReset == retries' = 0

WorkRetry ==
  /\ ctl = "workRetry"
  /\ LET wanted == (~NoListenWanted \/ EnableReady) /\ ~removed
     IN \/ /\ wanted /\ MayRetry
           /\ retries' = retries + 1 /\ workQueued' = TRUE
        \/ /\ wanted /\ ~MayRetry
           /\ UNCHANGED <<retries, workQueued>>
        \/ /\ ~wanted
           /\ BudgetReset /\ UNCHANGED workQueued
  /\ Goto("idle")
  /\ UNCHANGED <<descVars, busVars, pumpVars, runVars, resVars, enableWanted, isoEnabled,
                 cancelPending, workers, readVars, frontVars, cpuVars, alive>>

-----------------------------------------------------------------------------

Requests == Run \/ Stop \/ Pause \/ Close \/ SurpriseRemoval \/ Open
Teardown == \/ Rundown \/ StopPublish \/ StopSettled \/ Shutdown \/ QuiesceBegin \/ QuiesceStop
            \/ QuiesceClaim \/ QuiesceClaimed \/ QuiesceDrainWait \/ QuiesceDrained
            \/ QuiescePumpIdle \/ ReleaseIsoch \/ Unquarantine \/ DrainReads \/ Destroy
Startup  == \/ Allocate \/ OpenEngine \/ ControlPump \/ ListenCheck \/ Listen \/ SetIsochEnable
            \/ PublishRun
Worker   == WorkEnable \/ WorkRetry
Control  == Teardown \/ Startup \/ Worker

=============================================================================
