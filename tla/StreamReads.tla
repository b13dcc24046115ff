--------------------------- MODULE StreamReads ----------------------------
(***************************************************************************)
(* photonic/stream/read.c: the reads, cancels and flushes of the pin.      *)
(***************************************************************************)
EXTENDS CaptureState

(* Reads, cancels and flushes run beside everything else                    *)
(* (TurnOffSynchronization); the reads and cancels inside the data-path gate.*)

(* A data SRB arrives: the class driver never resends a read that is out.   *)
Submit(r, b) ==
  /\ rd[r] = "idle" /\ b \notin out /\ ~rundown /\ alive = "open"
  /\ out' = out \cup {b}
  /\ ReaderAt(r, "park", b)
  /\ UNCHANGED <<descVars, busVars, pumpVars, runVars, resVars, camVars, workVars, ready,
                 cancelled, streamState, rundown, removed, cn, cpuVars, ctlVars>>

(* Mutant of Refused: a stopped stream parks the read. *)
RefusedOnlyRemoved(b) == removed \/ b \in cancelled

(* The park of PhotonicStreamReceiveReadData: one hold of PendingLock.      *)
Refused(b) == removed \/ streamState = "STOP" \/ b \in cancelled

Park(r) ==
  /\ rd[r] = "park"
  /\ \/ /\ Refused(rdBuf[r])
        /\ Complete({rdBuf[r]})
        /\ ReaderAt(r, "idle", NoBuf)
        /\ UNCHANGED ready
     \/ /\ ~Refused(rdBuf[r])
        /\ ready' = Append(ready, rdBuf[r])
        /\ ReaderAt(r, "pump", NoBuf)
        /\ UNCHANGED <<out, cancelled>>
  /\ UNCHANGED <<descVars, busVars, pumpVars, runVars, resVars, camVars, workVars,
                 streamState, rundown, removed, cn, cpuVars, ctlVars>>

ReadPump(r) ==
  /\ \/ /\ rd[r] = "pump"
        /\ PumpCall(r)
        /\ ReaderAt(r, AfterPumpCall("pumping", "idle"), NoBuf)
     \/ /\ rd[r] = "pumping" /\ lap[r] = "none"
        /\ ReaderAt(r, "idle", NoBuf)
        /\ UNCHANGED pumpVars
  /\ UNCHANGED <<descVars, busVars, runVars, resVars, camVars, workVars, readVars,
                 streamState, rundown, removed, cn, cpuVars, ctlVars>>

(* Mutant of Cancel: the read is completed wherever it is. *)
CancelHeld(b) ==
  /\ "cancel" \in Ops
  /\ cn = "idle" /\ ~rundown /\ alive = "open" /\ b \in out \ cancelled
  /\ ready' = Remove(ready, b)
  /\ Complete({b})
  /\ UNCHANGED <<descVars, busVars, pumpVars, runVars, resVars, camVars, workVars, frontVars,
                 cpuVars, ctlVars>>

(* PhotonicStreamCancelRead, with the Irp->Cancel set just before it: a     *)
(* parked read completes here, any other is left to the teardown of a       *)
(* stopped stream or to the control work item.                              *)
Cancel(b) ==
  /\ "cancel" \in Ops
  /\ cn = "idle" /\ ~rundown /\ alive = "open" /\ b \in out \ cancelled
  /\ \/ \E i \in DOMAIN ready :
          /\ ready[i] = b
          /\ ready' = RemoveAt(ready, i)
          /\ Complete({b})
          /\ UNCHANGED cn
     \/ /\ b \notin Parked
        /\ cancelled' = cancelled \cup {b}
        /\ cn' = IF streamState = "STOP" THEN "idle" ELSE "notify"
        /\ UNCHANGED <<ready, out>>
  /\ UNCHANGED <<descVars, busVars, pumpVars, runVars, resVars, camVars, workVars,
                 streamState, rundown, removed, rdVars, cpuVars, ctlVars>>

(* PhotonicCaptureNotifyCancel and the coalesced PhotonicCaptureRequestWork. *)
NotifyCancel ==
  /\ cn = "notify"
  /\ cn' = "idle" /\ cancelPending' = TRUE /\ workQueued' = TRUE
  /\ UNCHANGED <<descVars, busVars, pumpVars, runVars, resVars, camVars, workers, readVars,
                 streamState, rundown, removed, rdVars, cpuVars, ctlVars>>

(* SRB_BEGIN_FLUSH completes parked reads one hold of PendingLock each, and *)
(* without InterfaceMutex: beside the work item and a surprise removal, not *)
(* beside the pin's other control requests, which the class driver sends    *)
(* one at a time.                                                           *)
BeginFlush ==
  /\ "flush" \in Ops /\ alive = "open" /\ ready # <<>>
  /\ ctl = "idle" \/ op \in {"work", "remove"}
  /\ ready' = Tail(ready) /\ Complete({Head(ready)})
  /\ UNCHANGED <<descVars, busVars, pumpVars, runVars, resVars, camVars, workVars,
                 frontVars, cpuVars, ctlVars>>

FrontEnd == NotifyCancel \/ \E r \in Reader : Park(r) \/ ReadPump(r)
Client   == BeginFlush \/ \E b \in Buf : Cancel(b) \/ \E r \in Reader : Submit(r, b)

=============================================================================
