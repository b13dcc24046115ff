----------------------------- MODULE IoctlRing -----------------------------
(***************************************************************************)
(* photonic/ioctl/frames.c and trigger.c: the capture slot of the IOCTL    *)
(* interface and its ring of mapped frames, over a capture engine reduced  *)
(* to what CaptureEngine shows of it.  The engine attaches what its        *)
(* elected pump acquires, completes attaches and detaches in any order on  *)
(* any processor, and a stop drains it.                                    *)
(***************************************************************************)
EXTENDS Integers, Sequences, FiniteSets, SequencesExt

CONSTANTS Handle,      \* file objects that may own the slot
          Event,       \* events a client registers
          Ring,        \* PHOTONIC_IOCTL_MAX_VIDEO_FRAMES
          Descs,       \* PHOTONIC_CAPTURE_FRAME_COUNT
          Cpu,         \* processors that run completion routines
          Ctl,         \* the thread that holds InterfaceMutex
          NoHandle, NoThread,
          Faults       \* what may fail: "create", "lock", "start", "enable",
                       \* "attach", "detach", "free", "frame", "register"

ASSUME RingAssumption ==
  /\ Ring \in Nat \ {0} /\ Descs \in Nat \ {0}
  /\ NoHandle \notin Handle /\ Ctl \notin Cpu /\ NoThread \notin Cpu \cup {Ctl}

Idx == 0 .. Ring - 1
NoFrame == -1
Thread == Cpu \cup {Ctl}

VARIABLES
  owner, oneShot, pumpRing, running,       \* the slot: FileObject, modes, StreamState
  mdl, fs, mapped, next, current, pins,    \* the ring; pins: pages locked less unlocked
  countdown,                               \* EventList: 0 when not registered
  draining, bus, line,                     \* the engine: what the bus holds, attach order
  runner, again, lap, lapIdx, lapCount,    \* the pump election
  dpc, dpcIdx, stalled,                    \* completion routines
  ctl, by, client, want,                   \* the request under InterfaceMutex
  armed, iso, removed, gone                \* the camera and the device

slotVars  == <<owner, oneShot, pumpRing, running>>
frameVars == <<mdl, mapped, pins>>
ringVars  == <<frameVars, fs, next, current>>
engVars   == <<draining, bus, line>>
pumpVars  == <<runner, again, lap, lapIdx, lapCount>>
dpcVars   == <<dpc, dpcIdx, stalled>>
ctlVars   == <<ctl, by, client, want>>
camVars   == <<armed, iso>>
devVars   == <<removed, gone>>
vars == <<slotVars, ringVars, countdown, engVars, pumpVars, dpcVars, ctlVars, camVars, devVars>>

Init ==
  /\ owner = NoHandle /\ oneShot = FALSE /\ pumpRing = FALSE /\ running = FALSE
  /\ mdl = [i \in Idx |-> FALSE] /\ fs = [i \in Idx |-> "queued"]
  /\ mapped = 0 /\ next = 0 /\ current = NoFrame /\ pins = 0
  /\ countdown = [e \in Event |-> 0]
  /\ draining = TRUE /\ bus = [i \in Idx |-> "none"] /\ line = <<>>
  /\ runner = NoThread /\ again = FALSE /\ lap = "none" /\ lapIdx = 0 /\ lapCount = 0
  /\ dpc = [c \in Cpu |-> "idle"] /\ dpcIdx = [c \in Cpu |-> 0] /\ stalled = FALSE
  /\ ctl = "idle" /\ by = "none" /\ client = NoHandle /\ want = 0
  /\ armed = FALSE /\ iso = FALSE /\ removed = FALSE /\ gone = FALSE

MayFail(f) == IF f \in Faults THEN BOOLEAN ELSE {FALSE}

Held == {i \in Idx : bus[i] = "held"}
AtBus == {i \in Idx : bus[i] \in {"attaching", "attached"}}
Detaching == {i \in Idx : bus[i] \in {"filled", "cancelled"}}
LapHolds == lap \in {"publish", "handBack"}
FreeDescs == Descs - Cardinality({i \in Idx : bus[i] # "none"})
                   - (IF lap \in {"acquire", "publish"} THEN 1 ELSE 0)

-----------------------------------------------------------------------------
(* PhotonicCapturePump with the ring as its buffer source.  A thread that   *)
(* is the runner stays inside the call until its last lap ends.             *)

(* Mutant of PumpCall: losing the election asks for no other lap. *)
PumpCallLost(t) ==
  /\ stalled' = FALSE
  /\ IF runner = NoThread
     THEN runner' = t /\ lap' = "begin" /\ UNCHANGED again
     ELSE UNCHANGED <<runner, lap, again>>
  /\ UNCHANGED <<lapIdx, lapCount>>

PumpCall(t) ==
  /\ stalled' = FALSE
  /\ IF runner = NoThread
     THEN runner' = t /\ lap' = "begin" /\ UNCHANGED again
     ELSE again' = TRUE /\ UNCHANGED <<runner, lap>>
  /\ UNCHANGED <<lapIdx, lapCount>>

LapStep(from, to) == lap = from /\ lap' = to
OutsideLap == <<slotVars, frameVars, current, countdown, dpcVars, ctlVars, camVars, devVars>>

LapBegin ==
  /\ LapStep("begin", "claim") /\ again' = FALSE /\ lapCount' = 0
  /\ UNCHANGED <<OutsideLap, fs, next, engVars, runner, lapIdx>>

LapClaim ==
  /\ LapStep("claim", IF draining \/ FreeDescs = 0 \/ lapCount = Descs THEN "end" ELSE "acquire")
  /\ lapCount' = IF lap' = "acquire" THEN lapCount + 1 ELSE lapCount
  /\ UNCHANGED <<OutsideLap, fs, next, engVars, runner, again, lapIdx>>

(* PhotonicIoctlFramesAcquire: the slot it may produce. *)
Acquire(i) == pumpRing /\ mapped # 0 /\ i = next /\ fs[i] = "queued"

LapAcquire ==
  \/ \E i \in Idx :
       /\ Acquire(i)
       /\ LapStep("acquire", "publish") /\ lapIdx' = i
       /\ fs' = [fs EXCEPT ![i] = "inflight"]
       /\ next' = (i + 1) % mapped
       /\ UNCHANGED <<OutsideLap, engVars, runner, again, lapCount>>
  \/ /\ \A i \in Idx : ~Acquire(i)
     /\ LapStep("acquire", "end")
     /\ UNCHANGED <<OutsideLap, fs, next, engVars, runner, again, lapIdx, lapCount>>

(* Draining is read again in the lock hold that publishes the descriptor.   *)
LapPublish ==
  /\ IF draining
     THEN LapStep("publish", "handBack") /\ UNCHANGED <<engVars, lapIdx>>
     ELSE /\ LapStep("publish", "claim") /\ lapIdx' = 0
          /\ bus' = [bus EXCEPT ![lapIdx] = "attaching"]
          /\ line' = Append(line, lapIdx)
          /\ UNCHANGED draining
  /\ UNCHANGED <<OutsideLap, fs, next, runner, again, lapCount>>

(* PhotonicIoctlFramesDeliver with STATUS_CANCELLED. *)
LapHandBack ==
  /\ LapStep("handBack", "end") /\ lapIdx' = 0
  /\ fs' = [fs EXCEPT ![lapIdx] = "queued"]
  /\ UNCHANGED <<OutsideLap, next, engVars, runner, again, lapCount>>

LapEnd ==
  /\ LapStep("end", IF again THEN "begin" ELSE "none")
  /\ runner' = IF again THEN runner ELSE NoThread
  /\ lapCount' = 0
  /\ UNCHANGED <<OutsideLap, fs, next, engVars, again, lapIdx>>

Lap == LapBegin \/ LapClaim \/ LapAcquire \/ LapPublish \/ LapHandBack \/ LapEnd

-----------------------------------------------------------------------------
(* The bus driver, the camera, and the completion routines they run.        *)

OutsideBus == <<slotVars, ringVars, countdown, pumpVars, ctlVars, devVars>>

AttachDone(i) ==
  /\ bus[i] = "attaching"
  /\ bus' = [bus EXCEPT ![i] = "attached"]
  /\ UNCHANGED <<OutsideBus, draining, line, dpcVars, camVars>>

(* Frames fill the attached buffers in order, also one whose attach has not *)
(* been completed yet, until the context is stopped.  A single-frame camera *)
(* sends one per arm.                                                       *)
Transmits == ~removed /\ IF oneShot THEN armed ELSE iso
Receives == ~draining \/ ctl = "isochStop"
Frame ==
  /\ Transmits /\ Receives /\ line # <<>>
  /\ \E failed \in MayFail("frame") :
       bus' = [bus EXCEPT ![Head(line)] = IF failed THEN "cancelled" ELSE "filled"]
  /\ line' = Tail(line)
  /\ armed' = (armed /\ ~oneShot)
  /\ UNCHANGED <<OutsideBus, draining, dpcVars, iso>>

(* An armed camera is triggered with nothing attached: the frame is lost.   *)
TriggerUnheard ==
  /\ armed /\ (line = <<>> \/ ~Receives) /\ armed' = FALSE
  /\ UNCHANGED <<OutsideBus, engVars, dpcVars, iso>>

Interrupt(c, i, pc) ==
  /\ dpc[c] = "idle"
  /\ dpc' = [dpc EXCEPT ![c] = pc] /\ dpcIdx' = [dpcIdx EXCEPT ![c] = i]
  /\ bus' = [bus EXCEPT ![i] = "none"]
  /\ stalled' = (stalled \/ pc = "dropped")
  /\ UNCHANGED <<OutsideBus, draining, camVars>>

(* The buffer of frame i is taken off, wherever it stands in the order.     *)
LeavesLine(i) == \E n \in DOMAIN line : line[n] = i /\ line' = RemoveAt(line, n)

AttachFailed(c, i) ==
  /\ "attach" \in Faults /\ bus[i] = "attaching"
  /\ LeavesLine(i)
  /\ Interrupt(c, i, "dropped")

DetachDone(c, i) ==
  /\ i \in Detaching
  /\ Interrupt(c, i, IF bus[i] = "filled" THEN "delivered" ELSE "cancelled")
  /\ UNCHANGED line

DetachFailed(i) ==
  /\ "detach" \in Faults /\ i \in Detaching
  /\ bus' = [bus EXCEPT ![i] = "held"]
  /\ UNCHANGED <<OutsideBus, draining, line, dpcVars, camVars>>

Bus == \/ Frame \/ TriggerUnheard
       \/ \E i \in Idx : \/ AttachDone(i) \/ DetachFailed(i)
                         \/ \E c \in Cpu : AttachFailed(c, i) \/ DetachDone(c, i)

(* PhotonicIoctlFramesDeliver: who owns the slot afterwards. *)
SettledAs(ok) == IF ok /\ oneShot THEN "delivered" ELSE "queued"

(* Its hold of FrameLock.  A failed attach is not followed by a pump.       *)
OutsideDpc == <<slotVars, frameVars, next, engVars, ctlVars, camVars, devVars>>
DpcDeliver(c) ==
  /\ dpc[c] \in {"delivered", "cancelled", "dropped"}
  /\ fs' = [fs EXCEPT ![dpcIdx[c]] = SettledAs(dpc[c] = "delivered")]
  /\ current' = IF dpc[c] = "delivered" THEN dpcIdx[c] ELSE current
  /\ dpc' = [dpc EXCEPT ![c] = CASE @ = "delivered" -> "signal"
                                 [] @ = "cancelled" -> "pump"
                                 [] @ = "dropped" -> "done"]
  /\ dpcIdx' = [dpcIdx EXCEPT ![c] = 0]
  /\ stalled' = (stalled \/ dpc[c] = "dropped")
  /\ UNCHANGED <<OutsideDpc, countdown, pumpVars>>

(* PhotonicIoctlFramesSignalEvents: those that reach zero fire. *)
Countdown(n) == IF n = 0 THEN 0 ELSE n - 1

DpcSignal(c) ==
  /\ dpc[c] = "signal" /\ dpc' = [dpc EXCEPT ![c] = "pump"]
  /\ countdown' = [e \in Event |-> Countdown(countdown[e])]
  /\ UNCHANGED <<OutsideDpc, fs, current, pumpVars, dpcIdx, stalled>>

DpcPump(c) ==
  /\ dpc[c] = "pump" /\ dpc' = [dpc EXCEPT ![c] = "done"]
  /\ PumpCall(c)
  /\ UNCHANGED <<OutsideDpc, fs, current, countdown, dpcIdx>>

(* PhotonicCapturePumpIrpDone. *)
DpcDone(c) ==
  /\ dpc[c] = "done" /\ runner # c /\ dpc' = [dpc EXCEPT ![c] = "idle"]
  /\ UNCHANGED <<OutsideDpc, fs, current, countdown, pumpVars, dpcIdx, stalled>>

Completion == \E c \in Cpu : DpcDeliver(c) \/ DpcSignal(c) \/ DpcPump(c) \/ DpcDone(c)

-----------------------------------------------------------------------------
(* What holds InterfaceMutex.  ctl is the place in the code, by the request *)
(* that came, which is where a stop and a release return to.                *)

Goto(pc) == ctl' = pc /\ UNCHANGED <<by, client, want>>
GoIdle == ctl' = "idle" /\ by' = "none" /\ client' = NoHandle /\ want' = 0
Enter(verb, h, n, pc) ==
  /\ ctl = "idle" /\ ~gone
  /\ ctl' = pc /\ by' = verb /\ client' = h /\ want' = n
Owner(h) == owner # NoHandle /\ owner = h
At(pc) == ctl = pc /\ runner # Ctl
OutsideCtl == <<dpcVars, pumpVars>>

(* Mutant of Unmap: what was reported of the old ring stays. *)
UnmapStale(force) ==
  LET kept == IF force THEN {} ELSE {i \in Held : mdl[i]} IN
  /\ mdl' = [i \in Idx |-> i \in kept]
  /\ pins' = pins - Cardinality({i \in Idx : mdl[i]} \ kept)
  /\ fs' = [i \in Idx |-> IF i \in kept THEN fs[i] ELSE "queued"]
  /\ mapped' = 0 /\ UNCHANGED <<next, current>>

(* PhotonicIoctlFramesUnmap: quarantined frames stay locked unless forced.  *)
Unmap(force) ==
  LET kept == IF force THEN {} ELSE {i \in Held : mdl[i]} IN
  /\ mdl' = [i \in Idx |-> i \in kept]
  /\ pins' = pins - Cardinality({i \in Idx : mdl[i]} \ kept)
  /\ fs' = [i \in Idx |-> IF i \in kept THEN fs[i] ELSE "queued"]
  /\ mapped' = 0 /\ next' = 0 /\ current' = NoFrame

(* Mutant of Requeue: slots the engine still holds are reset as well. *)
RequeueAll == fs' = [i \in Idx |-> IF i < mapped THEN "queued" ELSE fs[i]]

(* PhotonicIoctlFramesRequeue, up to its pump. *)
Requeue == fs' = [i \in Idx |-> IF i < mapped /\ fs[i] = "delivered" THEN "queued" ELSE fs[i]]

(* The verbs that take the slot down, and those the device sends.           *)

Stop(h) ==
  /\ Owner(h) /\ Enter("stop", h, 0, "stop")
  /\ UNCHANGED <<slotVars, ringVars, countdown, engVars, OutsideCtl, camVars, devVars>>

(* Mutant of UnmapFrames: the stream is not stopped first. *)
UnmapRunning(h) ==
  /\ Owner(h) /\ Enter("unmap", h, 0, "unmap")
  /\ UNCHANGED <<slotVars, ringVars, countdown, engVars, OutsideCtl, camVars, devVars>>

UnmapFrames(h) ==
  /\ Owner(h) /\ Enter("unmap", h, 0, "stop")
  /\ UNCHANGED <<slotVars, ringVars, countdown, engVars, OutsideCtl, camVars, devVars>>

Unprepare(h) ==
  /\ Owner(h) /\ Enter("unprepare", h, 0, "stop")
  /\ UNCHANGED <<slotVars, ringVars, countdown, engVars, OutsideCtl, camVars, devVars>>

(* PhotonicIoctlCleanup: the owner's last handle is closed. *)
Cleanup(h) ==
  /\ Owner(h) /\ Enter("cleanup", h, 0, "stop")
  /\ UNCHANGED <<slotVars, ringVars, countdown, engVars, OutsideCtl, camVars, devVars>>

SurpriseRemoval ==
  /\ ~removed /\ removed' = TRUE
  /\ Enter("removal", NoHandle, 0, "stop")
  /\ UNCHANGED <<slotVars, ringVars, countdown, engVars, OutsideCtl, camVars, gone>>

(* SRB_UNINITIALIZE_DEVICE: no request is routed here any more. *)
Uninitialize ==
  /\ Enter("uninit", NoHandle, 0, "stop") /\ gone' = TRUE
  /\ UNCHANGED <<slotVars, ringVars, countdown, engVars, OutsideCtl, camVars, removed>>

(* PhotonicIoctlCapturePrepare: a stopped slot of the same handle is        *)
(* released first, a slot of another one refused.                           *)
Prepare(h) ==
  /\ ~removed
  /\ \/ owner = NoHandle /\ Enter("prepare", h, 0, "create")
     \/ owner = h /\ ~running /\ Enter("prepare", h, 0, "stop")
  /\ UNCHANGED <<slotVars, ringVars, countdown, engVars, OutsideCtl, camVars, devVars>>

(* The slot is published when its engine is created.                        *)
Create ==
  /\ ctl = "create" /\ GoIdle
  /\ \E failed \in MayFail("create") : owner' = IF failed THEN NoHandle ELSE client
  /\ UNCHANGED <<oneShot, pumpRing, running, ringVars, countdown, engVars, OutsideCtl, camVars,
                 devVars>>

-----------------------------------------------------------------------------
(* PhotonicCaptureStop and what follows it.                                 *)

(* KSSTATE_STOP, and PhotonicCaptureTeardownDisableCamera unless the engine *)
(* is settled already.  A surprise-removed camera is not written to.        *)
StopBegin ==
  /\ ctl = "stop"
  /\ IF owner = NoHandle
     THEN GoIdle /\ UNCHANGED <<running, camVars>>
     ELSE /\ running' = FALSE
          /\ IF draining
             THEN Goto("pumpIdle") /\ UNCHANGED camVars
             ELSE /\ Goto("quiesce") /\ iso' = FALSE
                  /\ \E failed \in MayFail("register") :
                       armed' = (armed /\ (~oneShot \/ removed \/ failed))
  /\ UNCHANGED <<owner, oneShot, pumpRing, ringVars, countdown, engVars, OutsideCtl, devVars>>

(* PhotonicCaptureTeardownQuiesce. *)
Quiesce ==
  /\ ctl = "quiesce" /\ draining' = TRUE /\ Goto("isochStop")
  /\ UNCHANGED <<slotVars, ringVars, countdown, bus, line, OutsideCtl, camVars, devVars>>

IsochStop ==
  /\ ctl = "isochStop" /\ Goto("claim")
  /\ UNCHANGED <<slotVars, ringVars, countdown, engVars, OutsideCtl, camVars, devVars>>

ClaimAttached ==
  /\ ctl = "claim"
  /\ \/ \E i \in Idx :
          /\ bus[i] = "attached" /\ bus' = [bus EXCEPT ![i] = "cancelled"]
          /\ LeavesLine(i)
          /\ UNCHANGED ctlVars
     \/ /\ \A i \in Idx : bus[i] # "attached"
        /\ Goto("drain") /\ UNCHANGED <<bus, line>>
  /\ UNCHANGED <<slotVars, ringVars, countdown, draining, OutsideCtl, camVars, devVars>>

InFlight == (\E i \in Idx : bus[i] = "attaching" \/ i \in Detaching) \/ \E c \in Cpu : dpc[c] # "idle"
Drained ==
  /\ ctl = "drain" /\ ~InFlight
  /\ Goto(IF AtBus = {} THEN "pumpIdle" ELSE "claim")
  /\ UNCHANGED <<slotVars, ringVars, countdown, engVars, OutsideCtl, camVars, devVars>>

PumpIdle ==
  /\ ctl = "pumpIdle" /\ runner = NoThread /\ Goto("free")
  /\ UNCHANGED <<slotVars, ringVars, countdown, engVars, OutsideCtl, camVars, devVars>>

(* PhotonicCaptureTeardownReleaseSessionResources: quarantined frames are   *)
(* delivered cancelled once the free confirms the flush.                    *)
FlushHeld(flushed) ==
  /\ bus' = [i \in Idx |-> IF flushed /\ i \in Held THEN "none" ELSE bus[i]]
  /\ fs' = [i \in Idx |-> IF flushed /\ i \in Held THEN "queued" ELSE fs[i]]
  /\ UNCHANGED <<draining, line, frameVars, next, current>>

ReleaseSession ==
  /\ ctl = "free"
  /\ \E failed \in MayFail("free") : FlushHeld(~failed)
  /\ CASE by \in {"stop", "removal", "start"} -> GoIdle
       [] by = "unmap" -> Goto("unmap")
       [] OTHER -> Goto("release")
  /\ UNCHANGED <<slotVars, countdown, OutsideCtl, camVars, devVars>>

UnmapRing ==
  /\ ctl = "unmap" /\ Unmap(FALSE) /\ GoIdle
  /\ UNCHANGED <<slotVars, countdown, engVars, OutsideCtl, camVars, devVars>>

Forced == Held # {}

(* Mutant of FlushEvents: registrations survive their slot. *)
EventsKept == UNCHANGED countdown

(* PhotonicIoctlFramesFlushEvents. *)
FlushEvents == countdown' = [e \in Event |-> 0]

(* The rest of PhotonicIoctlCaptureRelease.  An engine with a quarantined   *)
(* frame is leaked with the slot: neither is seen again.                    *)
Release ==
  /\ ctl = "release" /\ Unmap(Forced)
  /\ FlushEvents
  /\ owner' = NoHandle /\ oneShot' = FALSE /\ pumpRing' = FALSE
  /\ bus' = [i \in Idx |-> "none"]
  /\ IF by = "prepare" THEN Goto("create") ELSE GoIdle
  /\ UNCHANGED <<running, draining, line, OutsideCtl, camVars, devVars>>

-----------------------------------------------------------------------------
(* PhotonicIoctlCaptureStart.  The mode of a running session is fixed.      *)

(* Mutant of ModeAllowed: a running session takes any mode. *)
ModeFree(shot, ring) == TRUE

ModeAllowed(shot, ring) == draining \/ (oneShot = shot /\ pumpRing = ring)

Start(h, shot, ring) ==
  /\ Owner(h) /\ ~removed /\ ModeAllowed(shot, ring)
  /\ oneShot' = shot /\ pumpRing' = ring
  /\ IF ring THEN Requeue /\ Enter("start", h, 0, "pumpRequeued")
             ELSE UNCHANGED fs /\ Enter("start", h, 0, "engineStart")
  /\ UNCHANGED <<owner, running, frameVars, next, current, countdown, engVars, OutsideCtl, camVars,
                 devVars>>

(* The calls of PhotonicCapturePump that a request makes, and what follows. *)
AfterPump == [pumpRequeued |-> IF by = "start" THEN "engineStart" ELSE "arm",
              pumpStarted |-> "enable", pumpMapped |-> "mapped"]
CtlPump ==
  /\ ctl \in DOMAIN AfterPump /\ PumpCall(Ctl) /\ Goto(AfterPump[ctl])
  /\ UNCHANGED <<slotVars, ringVars, countdown, engVars, dpc, dpcIdx, camVars, devVars>>

(* PhotonicCaptureStart: a no-op on a running engine; the release a stop    *)
(* left unfinished is tried again before anything is allocated.             *)
EngineStart ==
  /\ At("engineStart")
  /\ \/ ~draining /\ running' = TRUE /\ GoIdle /\ UNCHANGED <<engVars, fs>>
     \/ /\ draining /\ UNCHANGED <<line, running>>
        /\ \E unflushed \in MayFail("free"), failed \in MayFail("start") :
             /\ bus' = [i \in Idx |-> IF ~unflushed /\ i \in Held THEN "none" ELSE bus[i]]
             /\ fs' = [i \in Idx |-> IF ~unflushed /\ i \in Held THEN "queued" ELSE fs[i]]
             /\ IF failed \/ (unflushed /\ Held # {})
                THEN GoIdle /\ UNCHANGED draining
                ELSE Goto("pumpStarted") /\ draining' = FALSE
  /\ UNCHANGED <<owner, oneShot, pumpRing, frameVars, next, current, countdown, OutsideCtl,
                 camVars, devVars>>

(* ISO_EN, or its deferral to the first attach, but never in single-frame   *)
(* mode; a failed write stops the engine again.                             *)
Enable ==
  /\ At("enable")
  /\ \E failed \in IF oneShot THEN {FALSE} ELSE MayFail("enable") :
       IF failed THEN Goto("stop") /\ UNCHANGED <<running, iso>>
                 ELSE GoIdle /\ running' = TRUE /\ iso' = ~oneShot
  /\ UNCHANGED <<owner, oneShot, pumpRing, ringVars, countdown, engVars, OutsideCtl, armed,
                 devVars>>

(* PhotonicIoctlSwTrigger: the caller's frames go back to the engine and    *)
(* are attached before the camera is armed.                                 *)
SwTrigger(h) ==
  /\ Owner(h) /\ ~removed
  /\ IF running THEN Requeue /\ Enter("trigger", h, 0, "pumpRequeued")
                ELSE UNCHANGED fs /\ Enter("trigger", h, 0, "arm")
  /\ UNCHANGED <<slotVars, frameVars, next, current, countdown, engVars, OutsideCtl, camVars,
                 devVars>>

Arm ==
  /\ At("arm") /\ GoIdle
  /\ \E failed \in MayFail("register") : armed' = (armed \/ ~failed)
  /\ UNCHANGED <<slotVars, ringVars, countdown, engVars, OutsideCtl, iso, devVars>>

-----------------------------------------------------------------------------
(* PhotonicIoctlMapVideoFrame. *)

(* Mutant of Leftover: what an earlier unmap left locked is overwritten. *)
LeftoverKept == /\ mdl' = [i \in Idx |-> FALSE] /\ fs' = [i \in Idx |-> "queued"]
                /\ mapped' = 0 /\ next' = 0 /\ current' = NoFrame /\ UNCHANGED pins

(* What an earlier unmap left locked for a frame flushed since is unlocked. *)
Leftover == Unmap(FALSE)

Map(h, n) ==
  /\ Owner(h) /\ ~removed /\ mapped = 0 /\ Held = {}
  /\ Leftover
  /\ Enter("map", h, n, IF n \in 1 .. Ring THEN "lock" ELSE "mapped")
  /\ UNCHANGED <<slotVars, countdown, engVars, OutsideCtl, camVars, devVars>>

(* One frame is locked; the first that cannot be unwinds all before it.     *)
LockFrame ==
  LET n == Cardinality({i \in Idx : mdl[i]}) IN
  /\ ctl = "lock" /\ n < want
  /\ \E failed \in MayFail("lock") :
       IF failed
       THEN Goto("unmap") /\ mapped' = n /\ UNCHANGED <<mdl, pins, fs>>
       ELSE /\ mdl' = [mdl EXCEPT ![n] = TRUE] /\ fs' = [fs EXCEPT ![n] = "queued"]
            /\ pins' = pins + 1 /\ UNCHANGED <<mapped, ctlVars>>
  /\ UNCHANGED <<slotVars, next, current, countdown, engVars, OutsideCtl, camVars, devVars>>

(* The ring is published, and pumped into a stream that already runs.       *)
PublishRing ==
  /\ ctl = "lock" /\ Cardinality({i \in Idx : mdl[i]}) = want
  /\ mapped' = want /\ next' = 0 /\ current' = NoFrame
  /\ Goto(IF running THEN "pumpMapped" ELSE "mapped")
  /\ UNCHANGED <<slotVars, mdl, fs, pins, countdown, engVars, OutsideCtl, camVars, devVars>>

MapDone ==
  /\ At("mapped") /\ GoIdle
  /\ UNCHANGED <<slotVars, ringVars, countdown, engVars, OutsideCtl, camVars, devVars>>

(* PhotonicIoctlRegisterEvent: the next frame, or a ring of frames. *)
RegisterEvent(h, e, n) ==
  /\ Owner(h) /\ ctl = "idle" /\ ~gone /\ mapped # 0 /\ countdown[e] = 0 /\ n \in {1, mapped}
  /\ countdown' = [countdown EXCEPT ![e] = n]
  /\ UNCHANGED <<slotVars, ringVars, engVars, OutsideCtl, ctlVars, camVars, devVars>>

UnregisterEvent(h, e) ==
  /\ Owner(h) /\ ctl = "idle" /\ ~gone /\ countdown[e] # 0
  /\ countdown' = [countdown EXCEPT ![e] = 0]
  /\ UNCHANGED <<slotVars, ringVars, engVars, OutsideCtl, ctlVars, camVars, devVars>>

Request(h) ==
  \/ Prepare(h) \/ Unprepare(h) \/ Stop(h) \/ UnmapFrames(h) \/ Cleanup(h) \/ SwTrigger(h)
  \/ \E shot, ring \in BOOLEAN : Start(h, shot, ring)
  \/ \E n \in 0 .. Ring + 1 : Map(h, n)
  \/ \E e \in Event : UnregisterEvent(h, e) \/ \E n \in 1 .. Ring : RegisterEvent(h, e, n)

Control ==
  \/ SurpriseRemoval \/ Uninitialize \/ Create
  \/ StopBegin \/ Quiesce \/ IsochStop \/ ClaimAttached \/ Drained \/ PumpIdle \/ ReleaseSession
  \/ UnmapRing \/ Release \/ CtlPump \/ EngineStart \/ Enable \/ Arm
  \/ LockFrame \/ PublishRing \/ MapDone

Next == (\E h \in Handle : Request(h)) \/ Control \/ Lap \/ Bus \/ Completion

Spec == Init /\ [][Next]_vars

-----------------------------------------------------------------------------
(* The type invariant. *)
TypeOK ==
  /\ owner \in Handle \cup {NoHandle} /\ {oneShot, pumpRing, running} \subseteq BOOLEAN
  /\ mdl \in [Idx -> BOOLEAN] /\ fs \in [Idx -> {"queued", "inflight", "delivered"}]
  /\ mapped \in 0 .. Ring /\ next \in Idx /\ current \in Idx \cup {NoFrame} /\ pins \in Nat
  /\ countdown \in [Event -> 0 .. Ring] /\ draining \in BOOLEAN
  /\ bus \in [Idx -> {"none", "attaching", "attached", "filled", "cancelled", "held"}]
  /\ line \in Seq(Idx) /\ ToSet(line) = AtBus
  /\ runner \in Thread \cup {NoThread} /\ runner = NoThread <=> lap = "none"
  /\ again \in BOOLEAN /\ lapIdx \in Idx /\ lapCount \in 0 .. Descs /\ FreeDescs \in 0 .. Descs
  /\ lap \in {"none", "begin", "claim", "acquire", "publish", "handBack", "end"}
  /\ dpc \in [Cpu -> {"idle", "delivered", "cancelled", "dropped", "signal", "pump", "done"}]
  /\ dpcIdx \in [Cpu -> Idx] /\ client \in Handle \cup {NoHandle} /\ want \in 0 .. Ring + 1
  /\ {stalled, armed, iso, removed, gone} \subseteq BOOLEAN

(* While the slot exists, no page is unlocked under the bus driver or under *)
(* a lap that has acquired it, whatever detach or free has failed (frames.c *)
(* PhotonicIoctlFramesUnmap; the forced unlock of the final release is the  *)
(* exception frames.c:360 accepts, and takes the slot with it).  Nor is any *)
(* page of the mapped ring, which is where the indices lie: the acquire     *)
(* hands the MDL of the next frame out unchecked.                           *)
LockedWhileInUse ==
  /\ \A i \in Idx : bus[i] # "none" \/ i < mapped => mdl[i]
  /\ LapHolds => mdl[lapIdx]
  /\ current < mapped /\ (mapped # 0 => next < mapped)

(* Every locked page is charged once and found again, across unmaps that    *)
(* skip quarantined frames, failed maps and remaps, and when the slot is    *)
(* gone no page (frames.c:806, PROCESS_HAS_LOCKED_PAGES at :354), event,    *)
(* frame or activity of its engine is left.                                 *)
SlotAccounted ==
  /\ pins = Cardinality({i \in Idx : mdl[i]})
  /\ owner = NoHandle => pins = 0
  /\ owner = NoHandle /\ ctl = "idle" =>
       /\ \A e \in Event : countdown[e] = 0
       /\ AtBus = {} /\ ~InFlight /\ runner = NoThread /\ ~iso

(* A slot is in flight exactly while one party of the engine has its frame: *)
(* the bus, the quarantine, the pump's lap or one completion.  So a frame   *)
(* delivered to the caller is not written, and no slot is lost to the       *)
(* rotation (ioctl_private.h, PHOTONIC_IOCTL_FRAME_STATE).                  *)
Holders(i) ==
  (IF bus[i] # "none" THEN 1 ELSE 0) + (IF LapHolds /\ lapIdx = i THEN 1 ELSE 0)
    + Cardinality({c \in Cpu : dpc[c] \in {"delivered", "cancelled", "dropped"} /\ dpcIdx[c] = i})
FrameAccounted == \A i \in Idx : Holders(i) = IF fs[i] = "inflight" THEN 1 ELSE 0

(* The mode of the slot is the mode of the camera, so a free-running camera *)
(* never meets a slot whose frames wait to be handed back (frames.c:598).   *)
DeliveryMatchesCamera ==
  /\ running => iso = ~oneShot
  /\ running /\ iso /\ pumpRing => \A i \in Idx : fs[i] # "delivered"

(* The next frame in rotation, when it is the engine's and a descriptor is  *)
(* free, has a pump on its way to it, in every order of maps, starts, arms  *)
(* and deliveries; a failed attach is the one event that brings none.       *)
PumpComing == \/ runner # NoThread \/ ctl \in DOMAIN AfterPump
              \/ \E c \in Cpu : dpc[c] \in {"delivered", "cancelled", "signal", "pump"}
RingIsFed ==
  ~draining /\ ~stalled /\ ctl # "unmap" /\ FreeDescs > 0 /\ (\E i \in Idx : Acquire(i)) => PumpComing

(* An armed acquisition is cancelled before the slot goes. *)
ReleaseDisarms == owner = NoHandle /\ ctl = "idle" /\ ~removed => ~armed

=============================================================================
