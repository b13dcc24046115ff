----------------------------- MODULE FakeCamera -----------------------------
(***************************************************************************)
(* The run loop of the emulated camera (src/fake-fw-dev): one thread polls *)
(* the control fd and the fd of the transmit context, answers one request  *)
(* and handles one completion per round, and refills the frame ring; the   *)
(* kernel transmits packets meanwhile, and a second thread counts trigger  *)
(* pulses.  What the registers select is in CameraRegisters; here a mode   *)
(* is its number of packets per frame.                                     *)
(***************************************************************************)
EXTENDS Naturals, Sequences

CONSTANTS
  Modes,      \* packets per frame of the selectable modes; 0: not streamable
  RingOf,     \* frames of a mode that fit the mapped buffer, at most 2
  Fds,        \* descriptor numbers an open may return
  Stride,     \* ISO_INTR_STRIDE
  QueueMax,   \* frames a context buffers at most
  HeaderMax,  \* completions the kernel buffers between two interrupts
  FrameWrap,  \* frame_counter is kept modulo FrameWrap
  MaxPulses,  \* bound on the pulses not yet consumed
  Faults      \* what the kernel may do: "open", "map", "start", "stall", "dead"

ASSUME FakeCameraAssumption ==
  /\ Modes \subseteq Nat /\ \A m \in Modes : RingOf[m] \in 0..2
  /\ Fds \subseteq Nat \ {0}
  /\ Stride \in 1..HeaderMax /\ HeaderMax \in Nat /\ QueueMax \in Nat
  /\ FrameWrap \in Nat /\ FrameWrap > 2 /\ MaxPulses \in Nat
  /\ Faults \subseteq {"open", "map", "start", "stall", "dead"}

VARIABLES
  cam,        \* the transmit state of dcam_camera_t
  ctx,        \* the kernel's context behind cam.fd
  loop,       \* where the run loop is
  snap,       \* what its poll() saw
  inbox,      \* requests of the bus not answered yet
  trigger,    \* TRIGGER_MODE: "free" or "external"
  pending,    \* trigger_pending
  watcher     \* the trigger thread: "wait", or "count" past its mode check

vars == <<cam, ctx, loop, snap, inbox, trigger, pending, watcher>>

NoFd == 0
Slots == 0..1
NoImages == [s \in Slots |-> 0]

(* A frame queued in the kernel: its slot, the image it was queued with, the *)
(* packets accepted, those sent, and the packets of a frame at that time.   *)
QueuedFrame(slot, image, len, ppf) ==
  [slot |-> slot, image |-> image, len |-> len, sent |-> 0, ppf |-> ppf]

(* "clean" and "short" are history: no frame was queued before the start    *)
(* that succeeded; the kernel took less than a frame.                       *)
NoContext == [queue |-> <<>>, count |-> 0, events |-> <<>>, on |-> FALSE,
              dead |-> FALSE, clean |-> TRUE, short |-> FALSE]

Nothing == [ctl |-> FALSE, fd |-> NoFd, iso |-> "none"]

Init ==
  /\ cam \in {[fd |-> NoFd, created |-> FALSE, mapped |-> FALSE, running |-> FALSE,
               oneshot |-> FALSE, mode |-> m, ppf |-> 0, ring |-> 0, acked |-> 0,
               refill |-> 0, next |-> 0, image |-> NoImages] : m \in Modes}
  /\ ctx = NoContext /\ loop = "poll" /\ snap = Nothing /\ inbox = <<>>
  /\ trigger = "free" /\ pending = 0 /\ watcher = "wait"

----------------------------------------------------------------------------
(* The ring.                                                                *)

(* How much of a frame the kernel takes: all of it, or less when it stalls.  *)
Accepted(ppf) == IF "stall" \in Faults THEN 0..ppf ELSE {ppf}

(* dcam_fill_frame_image on a slot, then iso_queue_frame, of which the       *)
(* kernel takes "most" packets, none when its buffer is full.               *)
Refill(x, slot, most) ==
  LET c == x.cam
      len == IF Len(x.ctx.queue) = QueueMax THEN 0 ELSE most
      frame == QueuedFrame(slot, c.next, len, c.ppf)
  IN  [x EXCEPT
         !.cam.image[slot] = c.next, !.cam.next = (c.next + 1) % FrameWrap,
         !.ctx.queue = IF len = 0 THEN @ ELSE Append(@, frame),
         !.ctx.short = @ \/ len < c.ppf]
Refilled(x, first, lens) ==
  LET r[n \in 0..Len(lens)] ==
        IF n = 0 THEN x ELSE Refill(r[n-1], (first + n - 1) % x.cam.ring, lens[n])
  IN  r[Len(lens)]
Takes(n, ppf) == [1..n -> Accepted(ppf)]

----------------------------------------------------------------------------
(* Start and stop of the transmit context.                                  *)

State == [cam |-> cam, ctx |-> ctx]

(* The context: the one there is, a new one, or none when the open fails.    *)
Opened(x) ==
  IF x.cam.created THEN {x}
  ELSE {[cam |-> [x.cam EXCEPT !.fd = n, !.created = TRUE], ctx |-> NoContext] : n \in Fds}
         \cup (IF "open" \in Faults THEN {x} ELSE {})
Mapped(x) ==
  IF ~x.cam.created \/ x.cam.mapped THEN {x}
  ELSE {[x EXCEPT !.cam.mapped = TRUE]} \cup (IF "map" \in Faults THEN {x} ELSE {})

(* The counts start over, the ring is filled (one frame for a one-shot) and  *)
(* the context started.                                                     *)
Sized(c) ==
  [c EXCEPT !.ppf = c.mode, !.ring = RingOf[c.mode], !.next = 0,
            !.refill = (IF c.oneshot THEN 1 ELSE RingOf[c.mode]) % RingOf[c.mode]]
RewoundNot(c) == Sized(c)                                 \* mutant: acked kept
Rewound(c) == [Sized(c) EXCEPT !.acked = 0]
Prefill(c) == IF c.oneshot THEN 1 ELSE c.ring
Filled(x) ==
  IF ~x.cam.mapped THEN {x}
  ELSE IF RingOf[x.cam.mode] = 0 THEN {x}
  ELSE LET y == [x EXCEPT !.cam = Rewound(x.cam)]
           full == {Refilled(y, 0, t) : t \in Takes(Prefill(y.cam), y.cam.ppf)}
       IN  {[f EXCEPT !.cam.running = TRUE, !.ctx.on = TRUE] : f \in full}
             \cup (IF "start" \in Faults THEN {[f EXCEPT !.ctx.clean = FALSE] : f \in full} ELSE {})

(* dcam_iso_start                                                           *)
IsoStart(x) ==
  IF x.cam.running \/ x.cam.mode = 0 THEN {x}
  ELSE UNION {UNION {Filled(m) : m \in Mapped(o)} : o \in Opened(x)}

(* dcam_iso_stop.  The sizes and counts the next start computes before it    *)
(* reads them are not kept; the packets acknowledged are.                   *)
IsoStop(x) ==
  [cam |-> [x.cam EXCEPT !.fd = NoFd, !.created = FALSE, !.mapped = FALSE, !.running = FALSE,
                         !.image = NoImages, !.ring = 0, !.ppf = 0, !.refill = 0, !.next = 0],
   ctx |-> NoContext]

----------------------------------------------------------------------------
(* The kernel's side of the context.                                        *)

(* iso_queue_frame asks for an interrupt on a frame's last packet, and at    *)
(* least every Stride packets.                                              *)
FlaggedLast(f) == f.sent + 1 = f.ppf                      \* mutant: last packet only
Flagged(f) == f.sent + 1 = f.ppf \/ (f.sent + 1) % Stride = 0

(* A packet goes out.  An interrupt reports the completions since the last,  *)
(* none if there were more than the kernel's buffer holds.                  *)
Transmit ==
  /\ cam.fd # NoFd /\ ctx.on /\ ~ctx.dead /\ ctx.queue # <<>>
  /\ LET f == Head(ctx.queue)
         n == ctx.count + 1
         rest == IF f.sent + 1 = f.len THEN Tail(ctx.queue)
                 ELSE <<[f EXCEPT !.sent = @ + 1]>> \o Tail(ctx.queue)
     IN  ctx' = [ctx EXCEPT
                   !.queue = rest,
                   !.count = IF Flagged(f) THEN 0 ELSE n,
                   !.events = IF Flagged(f) /\ n <= HeaderMax THEN Append(@, n) ELSE @]
  /\ UNCHANGED <<cam, loop, snap, inbox, trigger, pending, watcher>>

ContextDies ==
  /\ "dead" \in Faults /\ cam.fd # NoFd /\ ~ctx.dead
  /\ ctx' = [ctx EXCEPT !.dead = TRUE]
  /\ UNCHANGED <<cam, loop, snap, inbox, trigger, pending, watcher>>

----------------------------------------------------------------------------
(* The run loop: poll, one control event, one event of the context.         *)

IsoReady == IF cam.fd = NoFd THEN "none"
            ELSE IF ctx.dead THEN "error"
            ELSE IF ctx.events # <<>> THEN "input" ELSE "none"

Poll ==
  /\ loop = "poll" /\ (inbox # <<>> \/ IsoReady # "none")
  /\ snap' = [ctl |-> inbox # <<>>, fd |-> cam.fd, iso |-> IsoReady]
  /\ loop' = IF inbox # <<>> THEN "control" ELSE "iso"
  /\ UNCHANGED <<cam, ctx, inbox, trigger, pending, watcher>>

(* The requests that reach the transmit context or the trigger; each is      *)
(* answered once, at the end of its handler.                                *)
Answered == inbox' = Tail(inbox) /\ loop' = "iso"

WriteIsoEn(x, on) == IF on THEN IsoStart([x EXCEPT !.cam.oneshot = FALSE]) ELSE {IsoStop(x)}
WriteOneShot(x) == IsoStart([IsoStop(x) EXCEPT !.cam.oneshot = TRUE])
WriteMode(x, m) == [x EXCEPT !.cam.mode = m]

Written(request) ==
  CASE request = "iso_on" -> WriteIsoEn(State, TRUE)
    [] request = "iso_off" -> WriteIsoEn(State, FALSE)
    [] request = "one_shot" -> WriteOneShot(State)
    [] request = "mode" -> {WriteMode(State, m) : m \in Modes}
    [] OTHER -> {State}

RegisterWrite ==
  /\ loop = "control" /\ Head(inbox) \notin {"external", "free"}
  /\ \E x \in Written(Head(inbox)) : cam' = x.cam /\ ctx' = x.ctx
  /\ Answered
  /\ UNCHANGED <<snap, trigger, pending, watcher>>

(* The mailbox write of TRIGGER_MODE, then the disarm on leaving external.   *)
WriteTriggerMode ==
  /\ loop = "control" /\ Head(inbox) \in {"external", "free"}
  /\ trigger' = Head(inbox)
  /\ IF Head(inbox) = "free" THEN loop' = "disarm" /\ UNCHANGED inbox ELSE Answered
  /\ UNCHANGED <<cam, ctx, snap, pending, watcher>>

DisarmedNot == pending                                    \* mutant: nothing dropped
Disarmed == 0
Disarm ==
  /\ loop = "disarm" /\ pending' = Disarmed
  /\ Answered
  /\ UNCHANGED <<cam, ctx, snap, trigger, watcher>>

(* dcam_on_iso_interrupt for "n" completed packets.                          *)
Clamped(n) == IF n > cam.ring * cam.ppf THEN cam.ring * cam.ppf ELSE n
Done(n) == (cam.acked + Clamped(n)) \div cam.ppf          \* frames completed
Consumed(n) == IF trigger = "free" THEN pending ELSE IF pending < n THEN 0 ELSE pending - n
Interrupt(n) ==
  LET x == [State EXCEPT !.ctx.events = Tail(@),
                         !.cam.acked = (cam.acked + Clamped(n)) % cam.ppf]
  IN  IF ~cam.running
        THEN cam' = cam /\ ctx' = [ctx EXCEPT !.events = Tail(@)] /\ UNCHANGED pending
      ELSE IF cam.oneshot /\ Done(n) > 0
        THEN cam' = IsoStop(x).cam /\ ctx' = IsoStop(x).ctx /\ pending' = Consumed(1)
      ELSE /\ \E t \in Takes(Done(n), cam.ppf) :
                LET y == Refilled(x, cam.refill, t)
                IN  /\ cam' = [y.cam EXCEPT !.refill = (@ + Done(n)) % cam.ring]
                    /\ ctx' = y.ctx
           /\ pending' = Consumed(Done(n))

(* The fd is the one polled, by its number.  A read that finds nothing       *)
(* returns at once.                                                         *)
Polled == cam.fd # NoFd /\ cam.fd = snap.fd
EmptyReadBlocks == FALSE                                  \* mutant: blocking fd
EmptyRead == ctx.events = <<>>

IsoEvent ==
  /\ loop = "iso" /\ loop' = "poll" /\ snap' = Nothing
  /\ \/ /\ ~Polled \/ snap.iso = "none"
        /\ UNCHANGED <<cam, ctx, pending>>
     \/ /\ Polled /\ snap.iso = "error"
        /\ cam' = IsoStop(State).cam /\ ctx' = IsoStop(State).ctx /\ UNCHANGED pending
     \/ /\ Polled /\ snap.iso = "input" /\ EmptyRead
        /\ UNCHANGED <<cam, ctx, pending>>
     \/ /\ Polled /\ snap.iso = "input" /\ ctx.events # <<>>
        /\ Interrupt(Head(ctx.events))
  /\ UNCHANGED <<inbox, trigger, watcher>>

----------------------------------------------------------------------------
(* The host, and the trigger thread.                                        *)

(* The driver's register writes are synchronous: one request at a time.      *)
Request ==
  /\ inbox = <<>>
  /\ \E r \in {"iso_on", "iso_off", "one_shot", "mode", "external", "free"} : inbox' = <<r>>
  /\ UNCHANGED <<cam, ctx, loop, snap, trigger, pending, watcher>>

(* An edge on the line: the mode is checked without the lock, ...            *)
Pulse ==
  /\ watcher = "wait" /\ trigger = "external" /\ pending < MaxPulses
  /\ watcher' = "count"
  /\ UNCHANGED <<cam, ctx, loop, snap, inbox, trigger, pending>>

(* ... and the pulse counted under it.                                       *)
CountPulse ==
  /\ watcher = "count"
  /\ pending' = pending + 1 /\ watcher' = "wait"
  /\ UNCHANGED <<cam, ctx, loop, snap, inbox, trigger>>

----------------------------------------------------------------------------
Loop == Poll \/ RegisterWrite \/ WriteTriggerMode \/ Disarm \/ IsoEvent
Next == Loop \/ Transmit \/ ContextDies \/ Request \/ Pulse \/ CountPulse

(* The loop's thread is scheduled, and the bus has a cycle for each packet.  *)
Spec == Init /\ [][Next]_vars /\ WF_vars(Loop) /\ WF_vars(Transmit)

----------------------------------------------------------------------------
(* Properties.                                                              *)

(* Until its last packet is out a queued frame keeps the image it was queued *)
(* with, frames follow one another without a gap, and a one-shot renders no *)
(* second frame: the ring is refilled by counting packets across            *)
(* interrupts, restarts and stale readiness.  A frame the kernel takes in    *)
(* part or not at all leaves no gap between two that are queued, for the    *)
(* ring has two slots.  In a context that a failed start had already queued *)
(* frames into, nothing is promised.                                        *)
FramesWhole ==
  cam.running /\ ctx.clean =>
    /\ \A i \in DOMAIN ctx.queue : cam.image[ctx.queue[i].slot] = ctx.queue[i].image
    /\ cam.oneshot => cam.next = 1
    /\ \A i \in DOMAIN ctx.queue : i > 1 =>
         ctx.queue[i].image = (ctx.queue[i-1].image + 1) % FrameWrap

(* The loop serves both descriptors: every request is answered, and a stream *)
(* whose ring has run dry is refilled or ends, unless the kernel took less   *)
(* than a frame.                                                            *)
RunDry == cam.running /\ ctx.queue = <<>> /\ ~ctx.short
LoopServesBoth == []<>(inbox = <<>>) /\ []<>~RunDry

(* A disarm leaves at most the one pulse the trigger thread was counting.    *)
AtMostOneStray == trigger = "free" /\ loop # "disarm" => pending <= 1
=============================================================================
