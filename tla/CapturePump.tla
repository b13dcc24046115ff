--------------------------- MODULE CapturePump ----------------------------
(***************************************************************************)
(* photonic/capture/pump.c: the single-runner pump, the attach and detach  *)
(* completion routines and the frame callback, with the bus driver that    *)
(* calls them.                                                             *)
(***************************************************************************)
EXTENDS CaptureState

(* The pump: one lap step per lock hold or front-end call of the runner.    *)

LapBegin(t) ==
  /\ lap[t] = "begin"
  /\ pumpAgain' = FALSE
  /\ LapAt(t, "claim", NoDesc, NoBuf)
  /\ UNCHANGED <<descVars, busVars, pumpActive, lapCount, runVars, resVars, camVars, workVars,
                 readVars, frontVars, cpuVars, ctlVars>>

LapClaim(t) ==
  /\ lap[t] = "claim"
  /\ \/ /\ lapCount[t] = Cardinality(Desc) \/ draining \/ freeList = {}
        /\ LapAt(t, "end", NoDesc, NoBuf)
        /\ UNCHANGED <<freeList, lapCount>>
     \/ /\ lapCount[t] < Cardinality(Desc) /\ ~draining
        /\ \E d \in freeList :
             /\ freeList' = freeList \ {d}
             /\ LapAt(t, "acquire", d, NoBuf)
        /\ lapCount' = [lapCount EXCEPT ![t] = @ + 1]
  /\ UNCHANGED <<fstate, cookie, outcome, pendingList, busVars, pumpActive, pumpAgain,
                 runVars, resVars, camVars, workVars, readVars, frontVars, cpuVars, ctlVars>>

(* PhotonicStreamAcquireBuffer, and the lap's reaction to what it returns.  *)
(* A descriptor put back is visible to no one before the lap's next step:   *)
(* only a pump run takes from FreeList.                                     *)
LapAcquire(t) ==
  /\ lap[t] = "acquire"
  /\ \/ /\ ready = <<>>
        /\ freeList' = freeList \cup {lapDesc[t]}
        /\ LapAt(t, "end", NoDesc, NoBuf)
        /\ UNCHANGED ready
     \/ /\ ready # <<>> /\ Head(ready) \in ShortBuf \ NoMdlBuf
        /\ ready' = Tail(ready)
        /\ freeList' = freeList \cup {lapDesc[t]}
        /\ LapAt(t, "reject", NoDesc, Head(ready))
     \/ /\ ready # <<>> /\ Head(ready) \notin ShortBuf \cup NoMdlBuf
        /\ ready' = Tail(ready)
        /\ LapAt(t, "publish", lapDesc[t], Head(ready))
        /\ UNCHANGED freeList
  /\ UNCHANGED <<fstate, cookie, outcome, pendingList, busVars, pumpActive, pumpAgain, lapCount,
                 runVars, resVars, camVars, workVars, out, cancelled, frontVars, cpuVars, ctlVars>>

(* Mutant of LapSkipNoMdl: the read is dropped, not completed. *)
LapDropNoMdl(t) ==
  /\ lap[t] = "acquire" /\ ready # <<>> /\ Head(ready) \in NoMdlBuf
  /\ ready' = Tail(ready)
  /\ UNCHANGED <<descVars, busVars, pumpVars, runVars, resVars, camVars, workVars, out, cancelled,
                 frontVars, cpuVars, ctlVars>>

(* The acquire completes a read without an MDL and offers the next one.     *)
LapSkipNoMdl(t) ==
  /\ lap[t] = "acquire" /\ ready # <<>> /\ Head(ready) \in NoMdlBuf
  /\ ready' = Tail(ready) /\ Complete({Head(ready)})
  /\ UNCHANGED <<descVars, busVars, pumpVars, runVars, resVars, camVars, workVars, frontVars,
                 cpuVars, ctlVars>>

(* Prime, the Draining re-check and publish in one lock hold, and the       *)
(* attach sent to the bus.                                                  *)
LapPublish(t) ==
  /\ lap[t] = "publish"
  /\ \/ /\ draining
        /\ freeList' = freeList \cup {lapDesc[t]}
        /\ LapAt(t, "handBack", NoDesc, lapBuf[t])
        /\ UNCHANGED <<fstate, cookie, pendingList, irp, inFlight>>
     \/ /\ ~draining
        /\ fstate' = [fstate EXCEPT ![lapDesc[t]] = "Attaching"]
        /\ cookie' = [cookie EXCEPT ![lapDesc[t]] = lapBuf[t]]
        /\ pendingList' = pendingList \cup {lapDesc[t]}
        /\ irp' = [irp EXCEPT ![lapDesc[t]] = "attach"]
        /\ inFlight' = inFlight + 1
        /\ LapAt(t, "claim", NoDesc, NoBuf)
        /\ UNCHANGED freeList
  /\ UNCHANGED <<outcome, dma, fill, busListening, pumpActive, pumpAgain, lapCount, draining,
                 listening, firstAttach, resVars, camVars, workVars, readVars,
                 frontVars, cpuVars, ctlVars>>

(* Deliver of a buffer the lap could not attach: a short one, and the lap   *)
(* goes on; one that met a quiesce, and the lap returns.                    *)
LapDeliver(t) ==
  /\ lap[t] \in {"reject", "handBack"}
  /\ Complete({lapBuf[t]})
  /\ LapAt(t, IF lap[t] = "reject" THEN "claim" ELSE "end", NoDesc, NoBuf)
  /\ UNCHANGED <<descVars, busVars, pumpActive, pumpAgain, lapCount, runVars, resVars, camVars,
                 workVars, ready, frontVars, cpuVars, ctlVars>>

LapEnd(t) ==
  /\ lap[t] = "end"
  /\ IF pumpAgain
     THEN LapAt(t, "begin", NoDesc, NoBuf) /\ UNCHANGED pumpActive
     ELSE LapAt(t, "none", NoDesc, NoBuf) /\ pumpActive' = FALSE
  /\ lapCount' = [lapCount EXCEPT ![t] = 0]
  /\ UNCHANGED <<descVars, busVars, pumpAgain, runVars, resVars, camVars, workVars,
                 readVars, frontVars, cpuVars, ctlVars>>

Pump(t) == \/ LapBegin(t) \/ LapClaim(t) \/ LapAcquire(t) \/ LapSkipNoMdl(t)
           \/ LapPublish(t) \/ LapDeliver(t) \/ LapEnd(t)

-----------------------------------------------------------------------------
(* The bus driver.  It accepts an attach at some point before its IRP       *)
(* completes, so a frame can finish before PhotonicCapturePumpAttachComplete*)
(* runs.                                                                    *)

BusAttach(d) ==
  /\ irp[d] = "attach" /\ dma[d] = NoBuf
  /\ dma' = [dma EXCEPT ![d] = cookie[d]]
  /\ fill' = [fill EXCEPT ![d] = "empty"]
  /\ UNCHANGED <<descVars, irp, busListening, pumpVars, runVars, resVars, camVars,
                 workVars, readVars, frontVars, cpuVars, ctlVars>>

(* Mutant of FrameOutcome: the status the bus driver wrote back is not read. *)
OutcomeUnread(status) == "success"

FrameOutcome(status) == IF status = "ok" THEN "success" ELSE "error"

(* PhotonicCapturePumpIsochCallback, with the frame's DMA status.           *)
IsochCallback(d) ==
  /\ busListening /\ dma[d] # NoBuf /\ fill[d] = "empty"
  /\ \E status \in {"ok"} \cup (IF "frame" \in Faults THEN {"error"} ELSE {}) :
       /\ fill' = [fill EXCEPT ![d] = status]
       /\ \/ /\ fstate[d] = "Pending"
             /\ BeginDetach(d, FrameOutcome(status))
             /\ inFlight' = inFlight + 1
          \/ /\ fstate[d] = "Attaching"
             /\ fstate' = [fstate EXCEPT ![d] = "CompletedWhileAttaching"]
             /\ UNCHANGED <<pendingList, outcome, irp, inFlight>>
          \/ /\ fstate[d] \notin {"Pending", "Attaching"}
             /\ UNCHANGED <<fstate, pendingList, outcome, irp, inFlight>>
  /\ UNCHANGED <<cookie, freeList, dma, busListening, pumpVars, draining, listening,
                 firstAttach, resVars, camVars, workVars, readVars, frontVars, cpuVars, ctlVars>>

(* PhotonicCapturePumpAttachComplete, by outcome. *)
AttachFailed(c, d) ==
  /\ "attach" \in Faults
  /\ cpu[c] = "idle" /\ irp[d] = "attach" /\ dma[d] = NoBuf
  /\ pendingList' = pendingList \ {d} /\ Recycle(d)
  /\ irp' = [irp EXCEPT ![d] = "none"]
  /\ CpuAt(c, "deliverFailed", cookie[d])
  /\ UNCHANGED <<dma, fill, busListening, pumpVars, runVars, resVars, camVars,
                 workVars, readVars, frontVars, ctlVars>>

AttachCompleteFrameDone(d) ==
  /\ irp[d] = "attach" /\ fstate[d] = "CompletedWhileAttaching"
  /\ BeginDetach(d, FrameOutcome(fill[d]))   \* the in-flight count carries over
  /\ UNCHANGED <<cookie, freeList, dma, fill, busListening, pumpVars, runVars, resVars,
                 camVars, workVars, readVars, frontVars, cpuVars, ctlVars>>

AttachCompletePublish(c, d) ==
  /\ cpu[c] = "idle"
  /\ irp[d] = "attach" /\ dma[d] # NoBuf /\ fstate[d] = "Attaching"
  /\ fstate' = [fstate EXCEPT ![d] = "Pending"]
  /\ irp' = [irp EXCEPT ![d] = "none"]
  /\ CpuAt(c, IF draining THEN "done" ELSE IF listening THEN "signal" ELSE "signalListen", NoBuf)
  /\ UNCHANGED <<cookie, outcome, freeList, pendingList, dma, fill, busListening, pumpVars,
                 runVars, resVars, camVars, workVars, readVars, frontVars, ctlVars>>

(* Mutant of AttachSignal: nothing asks for the listen. *)
AttachSignalOnly(c) ==
  /\ cpu[c] \in {"signal", "signalListen"}
  /\ firstAttach' = TRUE
  /\ CpuAt(c, "done", NoBuf)
  /\ UNCHANGED <<descVars, busVars, pumpVars, draining, inFlight, listening, resVars,
                 camVars, workVars, readVars, frontVars, ctlVars>>

(* The publish's tail: FirstAttachDone, and the work item when not listening. *)
AttachSignal(c) ==
  /\ cpu[c] \in {"signal", "signalListen"}
  /\ firstAttach' = TRUE
  /\ workQueued' = (workQueued \/ cpu[c] = "signalListen")
  /\ CpuAt(c, "done", NoBuf)
  /\ UNCHANGED <<descVars, busVars, pumpVars, draining, inFlight, listening, resVars,
                 camVars, cancelPending, workers, readVars, frontVars, ctlVars>>

(* Mutant of DetachFailed: the error path returns without IrpDone. *)
DetachFailedEarlyReturn(c, d) ==
  /\ "detach" \in Faults
  /\ cpu[c] = "idle" /\ irp[d] = "detach"
  /\ fstate' = [fstate EXCEPT ![d] = "DetachFailed"]
  /\ irp' = [irp EXCEPT ![d] = "none"]
  /\ UNCHANGED <<cookie, outcome, freeList, pendingList, dma, fill, busListening, pumpVars,
                 runVars, resVars, camVars, workVars, readVars, frontVars, cpuVars, ctlVars>>

(* PhotonicCapturePumpDetachComplete: the quarantine, or the recycle. *)
DetachFailed(c, d) ==
  /\ "detach" \in Faults
  /\ cpu[c] = "idle" /\ irp[d] = "detach"
  /\ fstate' = [fstate EXCEPT ![d] = "DetachFailed"]
  /\ irp' = [irp EXCEPT ![d] = "none"]
  /\ CpuAt(c, "done", NoBuf)
  /\ UNCHANGED <<cookie, outcome, freeList, pendingList, dma, fill, busListening, pumpVars,
                 runVars, resVars, camVars, workVars, readVars, frontVars, ctlVars>>

DetachComplete(c, d) ==
  /\ cpu[c] = "idle" /\ irp[d] = "detach"
  /\ Recycle(d)
  /\ irp' = [irp EXCEPT ![d] = "none"]
  /\ dma' = [dma EXCEPT ![d] = NoBuf]
  /\ fill' = [fill EXCEPT ![d] = "empty"]
  /\ CpuAt(c, "deliverFrame", cookie[d])
  /\ UNCHANGED <<pendingList, busListening, pumpVars, runVars, resVars, camVars, workVars,
                 readVars, frontVars, ctlVars>>

(* Deliver, from either completion: only a recycled frame goes on to pump.  *)
Deliver(c) ==
  /\ cpu[c] \in {"deliverFailed", "deliverFrame"}
  /\ Complete({cpuBuf[c]})
  /\ CpuAt(c, IF cpu[c] = "deliverFrame" THEN "pump" ELSE "done", NoBuf)
  /\ UNCHANGED <<descVars, busVars, pumpVars, runVars, resVars, camVars, workVars, ready,
                 frontVars, ctlVars>>

DetachPump(c) ==
  /\ \/ /\ cpu[c] = "pump"
        /\ PumpCall(c)
        /\ CpuAt(c, AfterPumpCall("pumping", "done"), NoBuf)
     \/ /\ cpu[c] = "pumping" /\ lap[c] = "none"
        /\ CpuAt(c, "done", NoBuf)
        /\ UNCHANGED pumpVars
  /\ UNCHANGED <<descVars, busVars, runVars, resVars, camVars, workVars, readVars,
                 frontVars, ctlVars>>

(* PhotonicCapturePumpIrpDone: the count drops, and the thread that dropped *)
(* it to zero goes on to read Draining and set DrainDone.  No waiter needs  *)
(* the event: the quiesce re-reads the count at every timeout.              *)
IrpDone(c) ==
  /\ cpu[c] = "done"
  /\ inFlight' = inFlight - 1
  /\ CpuAt(c, IF inFlight = 1 THEN "tail" ELSE "idle", NoBuf)
  /\ UNCHANGED <<descVars, busVars, pumpVars, draining, listening, firstAttach, resVars,
                 camVars, workVars, readVars, frontVars, ctlVars>>

IrpDoneTail(c) ==
  /\ cpu[c] = "tail"
  /\ CpuAt(c, "idle", NoBuf)
  /\ UNCHANGED <<descVars, busVars, pumpVars, runVars, resVars, camVars, workVars,
                 readVars, frontVars, ctlVars>>

Completion(c) ==
  \/ AttachSignal(c) \/ Deliver(c) \/ DetachPump(c) \/ IrpDone(c) \/ IrpDoneTail(c)
  \/ \E d \in Desc : AttachFailed(c, d) \/ AttachCompletePublish(c, d)
                     \/ DetachFailed(c, d) \/ DetachComplete(c, d)
Bus == \E d \in Desc : BusAttach(d) \/ IsochCallback(d) \/ AttachCompleteFrameDone(d)
=============================================================================
