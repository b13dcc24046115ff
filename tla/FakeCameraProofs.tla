-------------------------- MODULE FakeCameraProofs --------------------------
(***************************************************************************)
(* The emulated camera, for every set of modes, fault and bound.  Its      *)
(* trigger: the thread that counts pulses takes no lock for its mode       *)
(* check, so the count it makes after a disarm is the only one.  Its ring: *)
(* the refill counts packets, not frames, and still never renders into a   *)
(* slot the kernel has yet to send from.                                   *)
(***************************************************************************)
EXTENDS FakeCamera, TLAPS

------------------------------------------------------------------------------
(* Once the disarm has run, what is pending and what the trigger thread is   *)
(* still to count make one pulse at most.                                   *)
StrayInv ==
  trigger = "free" /\ loop # "disarm" =>
    \/ pending = 0
    \/ pending = 1 /\ watcher # "count"

LEMMA InitStray == Init => StrayInv
  BY DEF Init, StrayInv

LEMMA NextStray == StrayInv /\ [Next]_vars => StrayInv'
<1> SUFFICES ASSUME StrayInv, [Next]_vars PROVE StrayInv'
  OBVIOUS
<1> USE DEF StrayInv
<1>1. CASE Poll
  BY <1>1 DEF Poll
<1>2. CASE RegisterWrite
  BY <1>2 DEF RegisterWrite, Answered
<1>3. CASE WriteTriggerMode
  <2>1. CASE Head(inbox) = "free"
    BY <1>3, <2>1 DEF WriteTriggerMode
  <2>2. CASE Head(inbox) = "external"
    BY <1>3, <2>2 DEF WriteTriggerMode
  <2> QED
    BY <1>3, <2>1, <2>2 DEF WriteTriggerMode
<1>4. CASE Disarm
  BY <1>4 DEF Disarm, Disarmed, Answered
<1>5. CASE IsoEvent
  <2>1. loop = "iso" /\ loop' = "poll" /\ UNCHANGED <<trigger, watcher>>
    BY <1>5 DEF IsoEvent
  <2>2. ASSUME trigger = "free" PROVE pending' = pending
    <3>1. CASE UNCHANGED pending
      BY <3>1
    <3>2. CASE Interrupt(Head(ctx.events))
      BY <2>2, <3>2 DEF Interrupt, Consumed
    <3> QED
      BY <1>5, <3>1, <3>2 DEF IsoEvent
  <2> QED
    BY <2>1, <2>2
<1>6. CASE Transmit
  BY <1>6 DEF Transmit
<1>7. CASE ContextDies
  BY <1>7 DEF ContextDies
<1>8. CASE Request
  BY <1>8 DEF Request
<1>9. CASE Pulse
  BY <1>9 DEF Pulse
<1>10. CASE CountPulse
  BY <1>10 DEF CountPulse
<1>11. CASE UNCHANGED vars
  BY <1>11 DEF vars
<1> QED
  BY <1>1, <1>2, <1>3, <1>4, <1>5, <1>6, <1>7, <1>8, <1>9, <1>10, <1>11 DEF Next, Loop

(* A disarm leaves at most the one pulse the trigger thread was counting     *)
(* (trigger.c, the unlocked mode check and dcam_trigger_disarm).            *)
THEOREM AtMostOneStrayAlways == Spec => []AtMostOneStray
<1>1. StrayInv => AtMostOneStray
  BY DEF StrayInv, AtMostOneStray
<1> QED
  BY InitStray, NextStray, <1>1, PTL DEF Spec

------------------------------------------------------------------------------
(* The types of a frame, of the transmit state and of the kernel's context. *)
Frame == [slot : Slots, image : Nat, len : Nat, sent : Nat, ppf : Nat]
CamType == [fd : Fds \cup {NoFd}, created : BOOLEAN, mapped : BOOLEAN, running : BOOLEAN,
            oneshot : BOOLEAN, mode : Modes, ppf : Nat, ring : 0..2, acked : Nat,
            refill : Nat, next : Nat, image : [Slots -> Nat]]
CtxType == [queue : Seq(Frame), count : Nat, events : Seq(Nat), on : BOOLEAN,
            dead : BOOLEAN, clean : BOOLEAN, short : BOOLEAN]
Streams == [cam : CamType, ctx : CtxType]

(* How many fills ago a slot was filled, when "at" is the next.             *)
Age(c, at, slot) == (at + c.ring - 1 - slot) % c.ring

(* The counts of a running camera.                                          *)
Sizes(c) == c.ring \in 1..2 /\ c.ppf > 0 /\ c.acked < c.ppf /\ c.next < FrameWrap

(* The frames the kernel holds, against the slot to fill next and the       *)
(* packets "owed", those sent and not yet paid for by a refill: each lies   *)
(* in its slot with its image, they are in the order of their fills, and a  *)
(* frame that n fills have followed has n frames of packets fewer between   *)
(* it and its overwriting.  A frame taken in part, or not at all, has fewer *)
(* packets to send and so is further from it.                               *)
Lined(x, at, owed) ==
  LET c == x.cam  q == x.ctx.queue IN
  /\ owed <= c.ring * c.ppf
  /\ \A i \in DOMAIN q :
       /\ q[i].slot < c.ring /\ c.image[q[i].slot] = q[i].image
       /\ q[i].sent < q[i].len /\ q[i].len <= c.ppf /\ (i > 1 => q[i].sent = 0)
       /\ q[i].image < FrameWrap
       /\ (q[i].image + 1 + Age(c, at, q[i].slot)) % FrameWrap = c.next
       /\ Age(c, at, q[i].slot) * c.ppf + owed <= (c.ring - 1) * c.ppf + q[i].sent
  /\ \A i, j \in DOMAIN q : i < j => Age(c, at, q[i].slot) > Age(c, at, q[j].slot)

(* A fill ages every slot but the one it fills.                             *)
LEMMA AgeFacts ==
  ASSUME NEW c, c.ring \in 1..2, NEW at \in Nat, NEW s \in Slots, at < c.ring, s < c.ring
  PROVE  /\ Age(c, at, s) \in 0..1 /\ Age(c, at, s) < c.ring
         /\ Age(c, at, s) = 0 => s # at \/ c.ring = 1
         /\ Age(c, at, s) + 1 < c.ring =>
              s # at /\ Age(c, (at + 1) % c.ring, s) = Age(c, at, s) + 1
         /\ Age(c, (at + 1) % c.ring, at) = 0
         /\ (at + 1) % c.ring \in 0..c.ring - 1
<1>1. CASE c.ring = 1
  BY <1>1 DEF Age, Slots
<1>2. CASE c.ring = 2
  BY <1>2 DEF Age, Slots
<1> QED BY <1>1, <1>2

(* An update of its parts leaves a pair of camera and context one.          *)
LEMMA StillPair ==
  ASSUME NEW C, NEW D, NEW x \in [cam : C, ctx : D], NEW y, NEW s, NEW a, NEW b, NEW c, NEW d,
         y = [x EXCEPT !.cam.image[s] = a, !.cam.next = b, !.ctx.queue = c, !.ctx.short = d]
  PROVE  y = [cam |-> y.cam, ctx |-> y.ctx]
  OBVIOUS

(* What one refill does to each part.                                       *)
LEMMA RefillParts ==
  ASSUME NEW x \in Streams, NEW slot \in Slots, NEW most \in Nat
  PROVE  LET y == Refill(x, slot, most)
             len == IF Len(x.ctx.queue) = QueueMax THEN 0 ELSE most
             frame == QueuedFrame(slot, x.cam.next, len, x.cam.ppf)
         IN  /\ y \in Streams
             /\ y.cam = [x.cam EXCEPT !.image = [@ EXCEPT ![slot] = x.cam.next],
                                      !.next = (@ + 1) % FrameWrap]
             /\ y.ctx.queue = IF len = 0 THEN x.ctx.queue ELSE Append(x.ctx.queue, frame)
             /\ y.ctx.events = x.ctx.events /\ y.ctx.count = x.ctx.count
             /\ y.ctx.on = x.ctx.on /\ y.ctx.clean = x.ctx.clean
<1> DEFINE y == Refill(x, slot, most)
           len == IF Len(x.ctx.queue) = QueueMax THEN 0 ELSE most
           frame == QueuedFrame(slot, x.cam.next, len, x.cam.ppf)
<1>0. x = [cam |-> x.cam, ctx |-> x.ctx] /\ x.cam \in CamType /\ x.ctx \in CtxType
  BY DEF Streams
<1>1. y.cam = [x.cam EXCEPT !.image = [@ EXCEPT ![slot] = x.cam.next],
                            !.next = (@ + 1) % FrameWrap]
  BY <1>0 DEF Refill, CamType
<1>2. y.ctx = [x.ctx EXCEPT !.queue = IF len = 0 THEN @ ELSE Append(@, frame),
                            !.short = @ \/ len < x.cam.ppf]
  BY <1>0 DEF Refill, CtxType
<1>3. y = [cam |-> y.cam, ctx |-> y.ctx]
  <2>1. y = [x EXCEPT !.cam.image[slot] = x.cam.next, !.cam.next = (x.cam.next + 1) % FrameWrap,
                      !.ctx.queue = IF len = 0 THEN x.ctx.queue ELSE Append(x.ctx.queue, frame),
                      !.ctx.short = x.ctx.short \/ len < x.cam.ppf]
    BY DEF Refill
  <2> HIDE DEF y, len, frame
  <2> QED BY <2>1, StillPair DEF Streams
<1>4. frame \in Frame /\ len \in Nat
  BY <1>0 DEF QueuedFrame, Frame, CamType
<1>5. y.ctx.queue = (IF len = 0 THEN x.ctx.queue ELSE Append(x.ctx.queue, frame))
      /\ y.ctx.short = (x.ctx.short \/ len < x.cam.ppf)
      /\ y.ctx.events = x.ctx.events /\ y.ctx.count = x.ctx.count
      /\ y.ctx.on = x.ctx.on /\ y.ctx.clean = x.ctx.clean
  <2> HIDE DEF y, len, frame
  <2> QED BY <1>0, <1>2 DEF CtxType
<1>6. y.ctx \in CtxType
  <2> HIDE DEF y, len, frame
  <2>1. x.ctx.queue \in Seq(Frame) BY <1>0 DEF CtxType
  <2>2. Append(x.ctx.queue, frame) \in Seq(Frame) BY <2>1, <1>4
  <2> QED BY <1>0, <1>2, <2>1, <2>2 DEF CtxType
<1>7. y.cam \in CamType
  <2> HIDE DEF y
  <2>1. (x.cam.next + 1) % FrameWrap \in Nat BY <1>0, FakeCameraAssumption DEF CamType
  <2>2. [x.cam.image EXCEPT ![slot] = x.cam.next] \in [Slots -> Nat] BY <1>0 DEF CamType
  <2> QED BY <1>0, <1>1, <2>1, <2>2 DEF CamType
<1> HIDE DEF y, len, frame
<1>8. y \in Streams BY <1>3, <1>6, <1>7 DEF Streams
<1>9. QED BY <1>1, <1>5, <1>8 DEF y, len, frame

(* Images are numbered modulo FrameWrap.                                    *)
LEMMA NextImage ==
  ASSUME NEW m \in Nat, NEW a \in Nat, NEW n \in Nat, (m + 1 + a) % FrameWrap = n
  PROVE  (m + 1 + (a + 1)) % FrameWrap = (n + 1) % FrameWrap
<1> DEFINE k == m + 1 + a
<1>1. k \in Nat /\ FrameWrap \in Nat \ {0} /\ FrameWrap > 2
  BY FakeCameraAssumption
<1> HIDE DEF k
<1>2. PICK q \in Nat : k = q * FrameWrap + n /\ n < FrameWrap
  <2>1. k % FrameWrap = n BY DEF k
  <2>2. /\ k \div FrameWrap \in Nat /\ k % FrameWrap < FrameWrap
        /\ k = (k \div FrameWrap) * FrameWrap + (k % FrameWrap)
    BY <1>1
  <2> QED BY <2>1, <2>2
<1>3. CASE n + 1 < FrameWrap
  <2>1. k + 1 = q * FrameWrap + (n + 1) BY <1>2, <1>1
  <2>2. (k + 1) % FrameWrap = n + 1 BY <2>1, <1>1, <1>2, <1>3
  <2>3. (n + 1) % FrameWrap = n + 1 BY <1>1, <1>3
  <2> QED BY <2>2, <2>3 DEF k
<1>4. CASE n + 1 = FrameWrap
  <2>1. k + 1 = (q + 1) * FrameWrap BY <1>2, <1>1, <1>4
  <2>2. (k + 1) % FrameWrap = 0 BY <2>1, <1>1, <1>2
  <2>3. (n + 1) % FrameWrap = 0 BY <1>1, <1>4
  <2> QED BY <2>2, <2>3 DEF k
<1> QED BY <1>1, <1>2, <1>3, <1>4

(* With a frame of packets owed no frame lies in the slot to fill next.     *)
LEMMA RoomToFill ==
  ASSUME NEW r \in 1..2, NEW p \in Nat, NEW a \in 0..1, NEW owed \in Nat, NEW sent \in Nat,
         sent < p, p <= owed, a * p + owed <= (r - 1) * p + sent
  PROVE  a + 1 < r
<1>1. CASE r = 1 /\ a = 0
  BY <1>1
<1>2. CASE r = 1 /\ a = 1
  BY <1>2
<1>3. CASE r = 2 /\ a = 1
  BY <1>3
<1> QED BY <1>1, <1>2, <1>3

LEMMA OneMoreFill ==
  ASSUME NEW p \in Nat, NEW a \in Nat, NEW owed \in Nat
  PROVE  (a + 1) * p + (owed - p) = a * p + owed
  OBVIOUS

LEMMA UpToOne == ASSUME NEW n \in Nat, ~(n > 1) PROVE n \in 0..1
  OBVIOUS

LEMMA OnlyPair ==
  ASSUME NEW n \in 0..1, NEW i \in 1..n+1, NEW j \in 1..n+1, i < j
  PROVE  i = 1 /\ j = 2 /\ n = 1
  OBVIOUS

(* A refill paid for by a frame of packets keeps the line: what is queued   *)
(* gets a fill older, and the slot it takes is nobody's.                    *)
LEMMA RefillLined ==
  ASSUME NEW x \in Streams, NEW at \in Slots, NEW owed \in Nat, NEW most \in 0..x.cam.ppf,
         Sizes(x.cam), at < x.cam.ring, Lined(x, at, owed), x.cam.ppf <= owed
  PROVE  /\ Lined(Refill(x, at, most), (at + 1) % x.cam.ring, owed - x.cam.ppf)
         /\ owed - x.cam.ppf \in Nat
<1> DEFINE y == Refill(x, at, most)
           c == x.cam
           q == x.ctx.queue
           len == IF Len(q) = QueueMax THEN 0 ELSE most
           frame == QueuedFrame(at, c.next, len, c.ppf)
           p == c.ppf
           next == (at + 1) % c.ring
<1>1. /\ c \in CamType /\ q \in Seq(Frame) /\ p \in Nat /\ p > 0 /\ c.ring \in 1..2 /\ c.next \in Nat
      /\ c.next < FrameWrap /\ FrameWrap \in Nat /\ len \in 0..p /\ c.image \in [Slots -> Nat] /\ FrameWrap > 2
  BY FakeCameraAssumption DEF Streams, CamType, CtxType, Sizes
<1>2. /\ y.cam = [c EXCEPT !.image = [@ EXCEPT ![at] = c.next], !.next = (@ + 1) % FrameWrap]
      /\ y.ctx.queue = IF len = 0 THEN q ELSE Append(q, frame)
  <2>1. most \in Nat BY <1>1
  <2> HIDE DEF y, len, frame, c, q, p, next
  <2> QED BY <2>1, RefillParts DEF y, len, frame, c, q, p
<1>3. y.cam.ring = c.ring /\ y.cam.ppf = p /\ y.cam.next = (c.next + 1) % FrameWrap
      /\ y.cam.image = [c.image EXCEPT ![at] = c.next]
  <2> HIDE DEF y
  <2> QED BY <1>1, <1>2 DEF CamType
<1>4. frame.slot = at /\ frame.image = c.next /\ frame.sent = 0 /\ frame.len = len /\ frame \in Frame
  BY <1>1 DEF QueuedFrame, Frame
<1>5. \A s : Age(y.cam, next, s) = Age(c, next, s)
  BY <1>3 DEF Age
<1>l. /\ owed <= c.ring * p
      /\ \A i \in DOMAIN q :
           /\ q[i].slot < c.ring /\ c.image[q[i].slot] = q[i].image
           /\ q[i].sent < q[i].len /\ q[i].len <= p /\ (i > 1 => q[i].sent = 0)
           /\ q[i].image < FrameWrap
           /\ (q[i].image + 1 + Age(c, at, q[i].slot)) % FrameWrap = c.next
           /\ Age(c, at, q[i].slot) * p + owed <= (c.ring - 1) * p + q[i].sent
      /\ \A i, j \in DOMAIN q : i < j => Age(c, at, q[i].slot) > Age(c, at, q[j].slot)
  BY DEF Lined
<1> HIDE DEF y, len, frame, next
<1>6. ASSUME NEW i \in DOMAIN q
      PROVE  /\ q[i].slot # at /\ Age(c, next, q[i].slot) = Age(c, at, q[i].slot) + 1
             /\ Age(c, at, q[i].slot) \in Nat /\ q[i] \in Frame
             /\ q[i].slot \in Slots
  <2>1. q[i] \in Frame BY <1>1
  <2>2. q[i].slot \in Slots /\ q[i].sent \in Nat /\ q[i].len \in Nat /\ q[i].image \in Nat
    BY <2>1 DEF Frame
  <2>3. /\ q[i].slot < c.ring /\ q[i].sent < q[i].len /\ q[i].len <= p
        /\ Age(c, at, q[i].slot) * p + owed <= (c.ring - 1) * p + q[i].sent
    BY <1>l
  <2> DEFINE a == Age(c, at, q[i].slot)
  <2>4. a \in 0..1
    <3>1. at \in Nat /\ at < c.ring /\ c.ring \in 1..2 BY <1>1 DEF Slots
    <3> QED BY AgeFacts, <2>2, <2>3, <3>1
  <2>5. a + 1 < c.ring
    <3>1. a * p + owed <= (c.ring - 1) * p + q[i].sent
      BY <2>3
    <3>0. p \in Nat /\ p <= owed /\ c.ring \in 1..2 BY <1>1
    <3> HIDE DEF a, c, q, p
    <3>2. q[i].sent < p
      BY <2>2, <2>3, <3>0
    <3> QED BY <2>2, <2>4, <3>0, <3>1, <3>2, RoomToFill
  <2>6. q[i].slot # at /\ Age(c, next, q[i].slot) = a + 1
    <3>1. at \in Nat /\ at < c.ring /\ c.ring \in 1..2 BY <1>1 DEF Slots
    <3> HIDE DEF c, q
    <3> QED BY AgeFacts, <2>2, <2>3, <2>5, <3>1 DEF next
  <2> QED BY <2>1, <2>2, <2>4, <2>6
<1>7. Age(c, next, at) = 0
  BY AgeFacts, <1>1 DEF Slots, next
<1>8. owed - p \in Nat BY <1>1
<1>9. ASSUME NEW i \in DOMAIN q
      PROVE  LET f == q[i] IN
             /\ f.slot < c.ring /\ y.cam.image[f.slot] = f.image
             /\ f.sent < f.len /\ f.len <= p /\ (i > 1 => f.sent = 0)
             /\ f.image < FrameWrap
             /\ (f.image + 1 + Age(c, next, f.slot)) % FrameWrap = y.cam.next
             /\ Age(c, next, f.slot) * p + (owed - p) <= (c.ring - 1) * p + f.sent
  <2> DEFINE f == q[i]  a == Age(c, at, q[i].slot)
  <2>1. /\ f.slot # at /\ Age(c, next, f.slot) = a + 1 /\ a \in Nat /\ f \in Frame /\ f.slot \in Slots
        /\ f.image \in Nat /\ f.sent \in Nat
    BY <1>6 DEF Frame
  <2>2. /\ f.slot < c.ring /\ c.image[f.slot] = f.image
        /\ f.sent < f.len /\ f.len <= p /\ (i > 1 => f.sent = 0)
        /\ f.image < FrameWrap
        /\ (f.image + 1 + a) % FrameWrap = c.next
        /\ a * p + owed <= (c.ring - 1) * p + f.sent
    BY <1>l
  <2> HIDE DEF f, a
  <2>3. y.cam.image[f.slot] = f.image
    BY <2>1, <2>2, <1>3, <1>1
  <2>4. (f.image + 1 + (a + 1)) % FrameWrap = y.cam.next
    <3>1. c.next \in Nat BY <1>1
    <3>2. (f.image + 1 + (a + 1)) % FrameWrap = (c.next + 1) % FrameWrap
      BY <2>1, <2>2, <3>1, NextImage
    <3> QED BY <3>2, <1>3
  <2>5. (a + 1) * p + (owed - p) = a * p + owed
    BY <2>1, <1>1, OneMoreFill
  <2> QED BY <2>1, <2>2, <2>3, <2>4, <2>5 DEF f
<1>10. owed - p <= c.ring * p
  BY <1>l, <1>1
<1>11. CASE len = 0
  <2>1. y.ctx.queue = q BY <1>11, <1>2
  <2>2. \A i, j \in DOMAIN q : i < j => Age(c, next, q[i].slot) > Age(c, next, q[j].slot)
    BY <1>l, <1>6
  <2>3. Lined(y, next, owed - p)
    BY <2>1, <2>2, <1>3, <1>5, <1>9, <1>10 DEF Lined
  <2> QED BY <2>3, <1>8 DEF y, next
<1>12. CASE len # 0
  <2>1. y.ctx.queue = Append(q, frame) BY <1>12, <1>2
  <2> DEFINE z == Append(q, frame)
  <2>2. /\ z \in Seq(Frame) /\ DOMAIN z = 1..Len(q) + 1 /\ DOMAIN q = 1..Len(q) /\ Len(q) \in Nat
        /\ z[Len(q) + 1] = frame /\ \A i \in 1..Len(q) : z[i] = q[i]
    BY <1>1, <1>4
  <2> HIDE DEF z
  <2>3. Len(q) \in 0..1
    <3>0. Len(q) \in Nat BY <1>1
    <3> HIDE DEF q
    <3>1. SUFFICES ASSUME Len(q) > 1 PROVE FALSE BY <3>0, UpToOne
    <3>2. 1 \in DOMAIN q /\ 2 \in DOMAIN q BY <2>2, <3>1
    <3>3. q[1].slot \in Slots /\ q[2].slot \in Slots /\ q[1].slot # at /\ q[2].slot # at
      BY <3>2, <1>6
    <3>4. q[1].slot = q[2].slot BY <3>3 DEF Slots
    <3>5. Age(c, at, q[1].slot) > Age(c, at, q[2].slot) /\ Age(c, at, q[1].slot) \in Nat
      BY <3>2, <1>l, <1>6
    <3> QED BY <3>4, <3>5
  <2>4. ASSUME NEW i \in DOMAIN z, NEW j \in DOMAIN z, i < j
        PROVE  Age(c, next, z[i].slot) > Age(c, next, z[j].slot)
    <3>0. i \in 1..Len(q) + 1 /\ j \in 1..Len(q) + 1 BY <2>2
    <3> HIDE DEF q
    <3>1. i = 1 /\ j = 2 /\ Len(q) = 1 BY <3>0, <2>3, <2>4, OnlyPair
    <3>2. z[i] = q[1] /\ 1 \in DOMAIN q /\ z[j] = frame BY <3>1, <2>2
    <3> QED BY <3>2, <1>6, <1>7, <1>4
  <2>5. (c.next + 1 + 0) % FrameWrap = y.cam.next BY <1>1, <1>3
  <2>6. owed - p <= (c.ring - 1) * p
    <3>1. owed <= c.ring * p BY <1>l
    <3>2. CASE c.ring = 1 BY <3>1, <3>2, <1>1
    <3>3. CASE c.ring = 2 BY <3>1, <3>3, <1>1
    <3> QED BY <3>2, <3>3, <1>1
  <2>7. ASSUME NEW i \in DOMAIN z
        PROVE  LET f == z[i] IN
             /\ f.slot < c.ring /\ y.cam.image[f.slot] = f.image
             /\ f.sent < f.len /\ f.len <= p /\ (i > 1 => f.sent = 0)
             /\ f.image < FrameWrap
             /\ (f.image + 1 + Age(c, next, f.slot)) % FrameWrap = y.cam.next
             /\ Age(c, next, f.slot) * p + (owed - p) <= (c.ring - 1) * p + f.sent
    <3>1. CASE i \in DOMAIN q
      <4>1. z[i] = q[i] BY <3>1, <2>2
      <4> QED BY <4>1, <3>1, <1>9
    <3>2. CASE i = Len(q) + 1
      <4>1. z[i] = frame BY <3>2, <2>2
      <4>2. frame.slot < c.ring /\ y.cam.image[frame.slot] = frame.image
        BY <1>1, <1>3, <1>4
      <4>3. frame.sent < frame.len /\ frame.len <= p /\ frame.sent = 0 /\ frame.image < FrameWrap
        BY <1>1, <1>4, <1>12
      <4>4. (frame.image + 1 + Age(c, next, frame.slot)) % FrameWrap = y.cam.next
        BY <2>5, <1>4, <1>7
      <4>5. Age(c, next, frame.slot) * p + (owed - p) <= (c.ring - 1) * p + frame.sent
        <5>1. 0 * p = 0 BY <1>1
        <5>2. (c.ring - 1) * p \in Nat BY <1>1
        <5> QED BY <5>1, <5>2, <2>6, <1>4, <1>7, <1>8
      <4> QED BY <4>1, <4>2, <4>3, <4>4, <4>5
    <3> QED BY <3>1, <3>2, <2>2
  <2>8. Lined(y, next, owed - p)
    BY <2>1, <2>4, <2>7, <1>3, <1>5, <1>10 DEF Lined, z
  <2> QED BY <2>8, <1>8 DEF y, next
<1> QED BY <1>11, <1>12

(* A ring of two takes two refills at most in a row, so that the recursion  *)
(* can be written out.                                                      *)
LEMMA RefilledSteps ==
  ASSUME NEW x, NEW first \in Nat, NEW lens \in Seq(Nat)
  PROVE  /\ Len(lens) = 0 => Refilled(x, first, lens) = x
         /\ Len(lens) = 1 => Refilled(x, first, lens) = Refill(x, first % x.cam.ring, lens[1])
         /\ Len(lens) = 2 => Refilled(x, first, lens) =
              Refill(Refill(x, first % x.cam.ring, lens[1]), (first + 1) % x.cam.ring, lens[2])
<1> DEFINE body(g) == [n \in 0..Len(lens) |->
             IF n = 0 THEN x ELSE Refill(g[n-1], (first + n - 1) % x.cam.ring, lens[n])]
           r == CHOOSE g : g = body(g)
           one == Refill(x, first % x.cam.ring, lens[1])
           two == Refill(one, (first + 1) % x.cam.ring, lens[2])
<1>1. Refilled(x, first, lens) = r[Len(lens)]
  BY DEF Refilled
<1>2. ASSUME NEW g, g = body(g) PROVE r = body(r)
  <2> HIDE DEF body
  <2> QED BY <1>2
<1>3. first + 1 - 1 = first /\ first + 2 - 1 = first + 1
  OBVIOUS
<1>4. ASSUME Len(lens) = 0 PROVE r[0] = x
  <2> DEFINE g == [n \in 0..0 |-> x]
  <2>1. g = body(g)
    BY <1>4
  <2>2. r = body(r)
    <3> HIDE DEF g, r, body
    <3> QED BY <2>1, <1>2
  <2> QED BY <2>2, <1>4
<1>5. ASSUME Len(lens) = 1 PROVE r[1] = one
  <2> DEFINE g == [n \in 0..1 |-> IF n = 0 THEN x ELSE one]
  <2>1. g = body(g)
    <3> HIDE DEF one
    <3>1. ASSUME NEW n \in 0..1 PROVE g[n] = body(g)[n]
      <4>1. CASE n = 0 BY <4>1, <1>5
      <4>2. CASE n = 1 BY <4>2, <1>3, <1>5 DEF one
      <4>3. n = 0 \/ n = 1 OBVIOUS
      <4> HIDE DEF g, body
      <4> QED BY <4>1, <4>2, <4>3
    <3> QED BY <3>1, <1>5
  <2>2. r = body(r)
    <3> HIDE DEF g, r, body
    <3> QED BY <2>1, <1>2
  <2> HIDE DEF r
  <2>3. r[0] = x BY <2>2, <1>5
  <2>4. r[1] = Refill(r[0], (first + 1 - 1) % x.cam.ring, lens[1]) BY <2>2, <1>5
  <2> QED BY <2>3, <2>4, <1>3
<1>6. ASSUME Len(lens) = 2 PROVE r[2] = two
  <2> DEFINE g == [n \in 0..2 |-> IF n = 0 THEN x ELSE IF n = 1 THEN one ELSE two]
  <2>1. g = body(g)
    <3> HIDE DEF one, two
    <3>1. ASSUME NEW n \in 0..2 PROVE g[n] = body(g)[n]
      <4>1. CASE n = 0 BY <4>1, <1>6
      <4>2. CASE n = 1 BY <4>2, <1>3, <1>6 DEF one
      <4>3. CASE n = 2 BY <4>3, <1>3, <1>6 DEF two
      <4>4. n = 0 \/ n = 1 \/ n = 2 OBVIOUS
      <4> HIDE DEF g, body
      <4> QED BY <4>1, <4>2, <4>3, <4>4
    <3> QED BY <3>1, <1>6
  <2>2. r = body(r)
    <3> HIDE DEF g, r, body
    <3> QED BY <2>1, <1>2
  <2> HIDE DEF r
  <2>3. r[0] = x BY <2>2, <1>6
  <2>4. r[1] = Refill(r[0], (first + 1 - 1) % x.cam.ring, lens[1]) BY <2>2, <1>6
  <2>5. r[2] = Refill(r[1], (first + 2 - 1) % x.cam.ring, lens[2]) BY <2>2, <1>6
  <2> QED BY <2>3, <2>4, <2>5, <1>3
<1> HIDE DEF r
<1> QED BY <1>1, <1>4, <1>5, <1>6

(* A refill moves the image, its number and the queue, and nothing else.    *)
Moves(x, y) ==
  /\ y \in Streams
  /\ \E im \in [Slots -> Nat], n \in Nat : y.cam = [x.cam EXCEPT !.image = im, !.next = n]
  /\ y.ctx.events = x.ctx.events /\ y.ctx.count = x.ctx.count
  /\ y.ctx.on = x.ctx.on /\ y.ctx.clean = x.ctx.clean

LEMMA MovesKeeps ==
  ASSUME NEW x \in Streams, NEW y, Moves(x, y)
  PROVE  /\ y \in Streams
         /\ y.cam.ring = x.cam.ring /\ y.cam.ppf = x.cam.ppf /\ y.cam.acked = x.cam.acked
         /\ y.cam.refill = x.cam.refill /\ y.cam.running = x.cam.running
         /\ y.cam.oneshot = x.cam.oneshot
         /\ y.ctx.events = x.ctx.events /\ y.ctx.count = x.ctx.count
         /\ y.ctx.on = x.ctx.on /\ y.ctx.clean = x.ctx.clean
<1>1. PICK im, n : y.cam = [x.cam EXCEPT !.image = im, !.next = n]
  BY DEF Moves
<1>2. x.cam \in CamType
  BY DEF Streams
<1> QED BY <1>1, <1>2 DEF Moves, CamType

LEMMA MovesTwice ==
  ASSUME NEW x \in Streams, NEW y, NEW z, Moves(x, y), Moves(y, z)
  PROVE  Moves(x, z)
<1>1. PICK im \in [Slots -> Nat], n \in Nat : y.cam = [x.cam EXCEPT !.image = im, !.next = n]
  BY DEF Moves
<1>2. PICK jm \in [Slots -> Nat], m \in Nat : z.cam = [y.cam EXCEPT !.image = jm, !.next = m]
  BY DEF Moves
<1>3. x.cam \in CamType
  BY DEF Streams
<1>4. z.cam = [x.cam EXCEPT !.image = jm, !.next = m]
  BY <1>1, <1>2, <1>3 DEF CamType
<1> QED BY <1>4 DEF Moves

LEMMA MovesNot == ASSUME NEW x \in Streams PROVE Moves(x, x)
<1>1. x.cam = [x.cam EXCEPT !.image = x.cam.image, !.next = x.cam.next]
      /\ x.cam.image \in [Slots -> Nat] /\ x.cam.next \in Nat
  BY DEF Streams, CamType
<1> QED BY <1>1 DEF Moves

LEMMA RefillMoves ==
  ASSUME NEW x \in Streams, NEW slot \in Slots, NEW most \in Nat
  PROVE  /\ Moves(x, Refill(x, slot, most))
         /\ Refill(x, slot, most).cam.next = (x.cam.next + 1) % FrameWrap
<1> DEFINE y == Refill(x, slot, most)
<1>1. /\ y \in Streams
      /\ y.cam = [x.cam EXCEPT !.image = [@ EXCEPT ![slot] = x.cam.next],
                               !.next = (@ + 1) % FrameWrap]
      /\ y.ctx.events = x.ctx.events /\ y.ctx.count = x.ctx.count
      /\ y.ctx.on = x.ctx.on /\ y.ctx.clean = x.ctx.clean
  BY RefillParts
<1>2. x.cam \in CamType
  BY DEF Streams
<1>3. [x.cam.image EXCEPT ![slot] = x.cam.next] \in [Slots -> Nat]
  BY <1>2 DEF CamType
<1>4. (x.cam.next + 1) % FrameWrap \in Nat
  BY <1>2, FakeCameraAssumption DEF CamType
<1> HIDE DEF y
<1>5. y.cam.next = (x.cam.next + 1) % FrameWrap
  BY <1>1, <1>2 DEF CamType
<1>6. y.cam = [x.cam EXCEPT !.image = [x.cam.image EXCEPT ![slot] = x.cam.next],
                            !.next = (x.cam.next + 1) % FrameWrap]
  BY <1>1
<1>7. Moves(x, y)
  BY <1>1, <1>3, <1>4, <1>6 DEF Moves
<1> QED BY <1>5, <1>7 DEF y

(* What the kernel takes of n frames.                                       *)
LEMMA TakesFacts ==
  ASSUME NEW n \in Nat, NEW p \in Nat, NEW t \in Takes(n, p)
  PROVE  t \in Seq(Nat) /\ Len(t) = n /\ \A i \in 1..n : t[i] \in 0..p
<1>1. Accepted(p) \subseteq 0..p /\ 0..p \subseteq Nat
  BY DEF Accepted
<1>2. t \in [1..n -> Accepted(p)]
  BY DEF Takes
<1>3. t \in [1..n -> 0..p] /\ t \in [1..n -> Nat]
  BY <1>1, <1>2
<1> QED BY <1>3

(* The refills one after another, each paid for by a frame of packets.      *)
LEMMA RefilledWhole ==
  ASSUME NEW x \in Streams, NEW at \in Slots, x.cam.ring \in 1..2, at < x.cam.ring,
         NEW n \in 0..2, NEW t \in Takes(n, x.cam.ppf)
  PROVE  LET y == Refilled(x, at, t) IN
         /\ Moves(x, y)
         /\ n = 0 => y = x
         /\ n = 1 => y.cam.next = (x.cam.next + 1) % FrameWrap
         /\ Sizes(x.cam) => Sizes(y.cam)
         /\ \A owed \in Nat : Sizes(x.cam) /\ Lined(x, at, owed) /\ n * x.cam.ppf <= owed =>
              Lined(y, (at + n) % x.cam.ring, owed - n * x.cam.ppf)
<1> DEFINE r == x.cam.ring
           p == x.cam.ppf
           at1 == (at + 1) % r
           x1 == Refill(x, at, t[1])
           x2 == Refill(x1, at1, t[2])
<1>1. p \in Nat /\ x.cam.next \in Nat /\ at \in Nat /\ r \in 1..2 /\ at \in 0..r-1
  BY DEF Streams, CamType, Slots
<1>2. t \in Seq(Nat) /\ Len(t) = n /\ \A i \in 1..n : t[i] \in 0..p
  BY <1>1, TakesFacts
<1>3. at % r = at /\ at1 \in Slots /\ at1 < r /\ (at1 + 1) % r = (at + 2) % r /\ (at + 0) % r = at
  <2>1. CASE r = 1 BY <2>1, <1>1 DEF Slots
  <2>2. CASE r = 2 BY <2>2, <1>1 DEF Slots
  <2> QED BY <2>1, <2>2, <1>1
<1>4. FrameWrap \in Nat /\ FrameWrap > 2 BY FakeCameraAssumption
<1>5. CASE n = 0
  <2>1. Refilled(x, at, t) = x BY <1>1, <1>2, <1>5, RefilledSteps
  <2>2. \A owed \in Nat : owed - 0 * p = owed BY <1>1
  <2> QED BY <2>1, <2>2, <1>3, <1>5, MovesNot
<1>6. ASSUME n # 0
      PROVE  /\ Moves(x, x1) /\ x1.cam.next = (x.cam.next + 1) % FrameWrap /\ x1 \in Streams
             /\ Sizes(x.cam) => Sizes(x1.cam)
             /\ x1.cam.ring = r /\ x1.cam.ppf = p
             /\ \A owed \in Nat : Sizes(x.cam) /\ Lined(x, at, owed) /\ p <= owed =>
                  Lined(x1, at1, owed - p) /\ owed - p \in Nat
  <2>1. t[1] \in 0..p /\ t[1] \in Nat BY <1>1, <1>2, <1>6
  <2>2. Moves(x, x1) /\ x1.cam.next = (x.cam.next + 1) % FrameWrap
    BY <2>1, RefillMoves
  <2>3. x1.cam.ring = r /\ x1.cam.ppf = p /\ x1.cam.acked = x.cam.acked /\ x1 \in Streams
    BY <2>2, MovesKeeps
  <2>4. (x.cam.next + 1) % FrameWrap < FrameWrap BY <1>1, <1>4
  <2>5. Sizes(x.cam) => Sizes(x1.cam) BY <2>2, <2>3, <2>4 DEF Sizes
  <2>6. ASSUME NEW owed \in Nat, Sizes(x.cam), Lined(x, at, owed), p <= owed
        PROVE  Lined(x1, at1, owed - p) /\ owed - p \in Nat
    BY <2>1, <2>6, RefillLined
  <2> QED BY <2>2, <2>3, <2>5, <2>6
<1>7. CASE n = 1
  <2>1. Refilled(x, at, t) = x1 BY <1>1, <1>2, <1>3, <1>7, RefilledSteps
  <2>2. 1 * p = p BY <1>1
  <2> HIDE DEF x1
  <2> QED BY <2>1, <2>2, <1>6, <1>7
<1>8. CASE n = 2
  <2>1. Refilled(x, at, t) = x2 BY <1>1, <1>2, <1>3, <1>8, RefilledSteps
  <2>2. /\ Moves(x, x1) /\ x1 \in Streams /\ (Sizes(x.cam) => Sizes(x1.cam))
        /\ x1.cam.ring = r /\ x1.cam.ppf = p
        /\ \A owed \in Nat : Sizes(x.cam) /\ Lined(x, at, owed) /\ p <= owed =>
             Lined(x1, at1, owed - p) /\ owed - p \in Nat
    BY <1>6, <1>8
  <2>3. t[2] \in 0..p /\ t[2] \in Nat BY <1>1, <1>2, <1>8
  <2> HIDE DEF x1, at1
  <2>4. Moves(x1, x2) /\ x2.cam.next = (x1.cam.next + 1) % FrameWrap
    BY <2>2, <2>3, <1>3, RefillMoves
  <2>5. x2.cam.ring = r /\ x2.cam.ppf = p /\ x2.cam.acked = x1.cam.acked /\ x2 \in Streams
    BY <2>2, <2>4, MovesKeeps
  <2>6. (x1.cam.next + 1) % FrameWrap < FrameWrap
    <3>1. x1.cam.next \in Nat BY <2>2 DEF Streams, CamType
    <3> QED BY <3>1, <1>4
  <2>7. Sizes(x1.cam) => Sizes(x2.cam) BY <2>2, <2>4, <2>5, <2>6 DEF Sizes
  <2>8. ASSUME NEW owed \in Nat, Sizes(x.cam), Lined(x, at, owed), 2 * p <= owed
        PROVE  Lined(x2, (at + 2) % r, owed - 2 * p)
    <3>1. p <= owed /\ p <= owed - p /\ owed - p - p = owed - 2 * p BY <2>8, <1>1
    <3>2. Lined(x1, at1, owed - p) /\ owed - p \in Nat /\ Sizes(x1.cam) BY <2>2, <2>8, <3>1
    <3> DEFINE left == owed - p
    <3>3. left \in Nat /\ Lined(x1, at1, left) /\ x1.cam.ppf <= left /\ at1 < x1.cam.ring /\ t[2] \in 0..x1.cam.ppf
      BY <3>1, <3>2, <2>2, <2>3, <1>3
    <3> HIDE DEF left, p, r
    <3>4. Lined(x2, (at1 + 1) % x1.cam.ring, left - x1.cam.ppf)
      BY <3>2, <3>3, <2>2, <1>3, RefillLined
    <3> QED BY <3>4, <3>1, <2>2, <1>3 DEF left
  <2>9. Moves(x, x2) BY <2>2, <2>4, MovesTwice
  <2> HIDE DEF x2
  <2> QED BY <2>1, <2>2, <2>7, <2>8, <2>9, <1>8
<1> QED BY <1>5, <1>7, <1>8

(* The sum of a sequence, by what is left of it from each place on.         *)
Tallied(s, total) ==
  \E left \in [0 .. Len(s) -> Nat] :
    /\ left[0] = total /\ left[Len(s)] = 0
    /\ \A k \in 1 .. Len(s) : left[k-1] = s[k] + left[k]

LEMMA TallyNone == Tallied(<<>>, 0)
<1> DEFINE left == [k \in 0..0 |-> 0]
<1>1. left \in [0 .. Len(<<>>) -> Nat] /\ left[0] = 0 /\ left[Len(<<>>)] = 0
  OBVIOUS
<1>2. 1 .. Len(<<>>) = {}
  OBVIOUS
<1> HIDE DEF left
<1> QED BY <1>1, <1>2 DEF Tallied

LEMMA TallyMore ==
  ASSUME NEW s \in Seq(Nat), NEW total \in Nat, NEW n \in Nat, Tallied(s, total)
  PROVE  Tallied(Append(s, n), total + n)
<1>1. PICK left \in [0 .. Len(s) -> Nat] :
        /\ left[0] = total /\ left[Len(s)] = 0
        /\ \A k \in 1 .. Len(s) : left[k-1] = s[k] + left[k]
  BY DEF Tallied
<1> DEFINE z == Append(s, n)
           len == Len(s)
           more == [k \in 0 .. len + 1 |-> IF k = len + 1 THEN 0 ELSE left[k] + n]
<1>2. len \in Nat /\ Len(z) = len + 1 /\ z[len + 1] = n
      /\ \A k \in 1 .. len : z[k] = s[k] /\ s[k] \in Nat
  OBVIOUS
<1> HIDE DEF z, len
<1>3. more \in [0 .. len + 1 -> Nat]
  BY <1>1, <1>2 DEF len
<1>4. more[0] = total + n /\ more[len + 1] = 0
  BY <1>1, <1>2
<1>5. ASSUME NEW k \in 1 .. len + 1 PROVE more[k-1] = z[k] + more[k]
  <2>1. CASE k = len + 1
    <3>1. k - 1 = len /\ len \in 0 .. len + 1 /\ len # len + 1 BY <2>1, <1>2
    <3>2. more[len] = left[len] + n /\ left[len] = 0 BY <3>1, <1>1, <1>2 DEF len
    <3> QED BY <2>1, <3>1, <3>2, <1>2, <1>4
  <2>2. CASE k \in 1 .. len
    <3>1. k - 1 \in 0 .. len /\ k - 1 # len + 1 /\ k # len + 1 /\ k \in 0 .. len BY <2>2, <1>2
    <3>2. more[k] = left[k] + n /\ more[k-1] = left[k-1] + n BY <3>1, <2>2, <1>2
    <3>3. left[k-1] = z[k] + left[k] /\ left[k] \in Nat /\ z[k] \in Nat
      BY <2>2, <3>1, <1>1, <1>2 DEF len
    <3> QED BY <3>2, <3>3, <1>2
  <2> QED BY <2>1, <2>2, <1>2
<1> HIDE DEF more
<1>6. Tallied(z, total + n)
  BY <1>2, <1>3, <1>4, <1>5 DEF Tallied
<1> QED BY <1>6 DEF z

LEMMA TallyLess ==
  ASSUME NEW s \in Seq(Nat), NEW total \in Nat, Tallied(s, total), s # <<>>
  PROVE  Head(s) \in Nat /\ \E rest \in Nat : Tallied(Tail(s), rest) /\ total = Head(s) + rest
<1>1. PICK left \in [0 .. Len(s) -> Nat] :
        /\ left[0] = total /\ left[Len(s)] = 0
        /\ \A k \in 1 .. Len(s) : left[k-1] = s[k] + left[k]
  BY DEF Tallied
<1> DEFINE z == Tail(s)
           len == Len(s) - 1
           n == Head(s)
           less == [k \in 0 .. len |-> left[k+1]]
<1>2. /\ len \in Nat /\ Len(z) = len /\ Len(s) = len + 1 /\ n = s[1] /\ n \in Nat
      /\ \A k \in 1 .. len : z[k] = s[k+1]
  OBVIOUS
<1> HIDE DEF z, len, n
<1>3. left \in [0 .. len + 1 -> Nat] /\ left[len + 1] = 0
      /\ \A k \in 1 .. len + 1 : left[k-1] = s[k] + left[k]
  BY <1>1, <1>2
<1>4. less \in [0 .. len -> Nat]
  BY <1>2, <1>3
<1>5. less[len] = 0 /\ less[0] = left[1]
  BY <1>2, <1>3
<1>6. ASSUME NEW k \in 1 .. len PROVE less[k-1] = z[k] + less[k]
  <2>1. k + 1 \in 1 .. len + 1 /\ k + 1 - 1 = k /\ k - 1 + 1 = k /\ k - 1 \in 0 .. len /\ k \in 0 .. len
    BY <1>2
  <2>2. left[k] = s[k+1] + left[k+1] BY <2>1, <1>3
  <2>3. less[k] = left[k+1] /\ less[k-1] = left[k] BY <2>1
  <2> QED BY <2>2, <2>3, <1>2
<1>7. left[0] = s[1] + left[1]
  <2>1. 1 \in 1 .. len + 1 /\ 1 - 1 = 0 BY <1>2
  <2> QED BY <2>1, <1>3
<1>8. left[1] \in Nat
  BY <1>2, <1>3
<1> HIDE DEF less
<1>9. Tallied(z, left[1])
  BY <1>2, <1>4, <1>5, <1>6 DEF Tallied
<1> QED BY <1>1, <1>2, <1>7, <1>8, <1>9 DEF z, n

(* The packets reported, counted or acknowledged of what is still owed.     *)
Owes(x, owed) ==
  \E told \in Nat :
    Tallied(x.ctx.events, told) /\ x.cam.acked + x.ctx.count + told <= owed

(* A stream that counts: no interrupt can claim packets not yet sent.       *)
Fed(x) == \E owed \in Nat : Lined(x, x.cam.refill, owed) /\ Owes(x, owed)

(* The invariant, of any camera and context the handlers compute.           *)
Whole(x) ==
  /\ x \in Streams
  /\ x.cam.running => Sizes(x.cam) /\ x.cam.refill < x.cam.ring
  /\ ~x.cam.running =>
       /\ ~x.ctx.on /\ x.ctx.events = <<>> /\ x.ctx.count = 0
       /\ x.ctx.clean => x.ctx.queue = <<>>
  /\ x.cam.running /\ x.ctx.clean => Fed(x) /\ (x.cam.oneshot => x.cam.next = 1)

(* The line depends on the ring and the queue only.                         *)
LEMMA LinedFrame ==
  ASSUME NEW x, NEW y, NEW at, NEW owed, Lined(x, at, owed), y.ctx.queue = x.ctx.queue,
         y.cam.ring = x.cam.ring, y.cam.ppf = x.cam.ppf, y.cam.next = x.cam.next,
         y.cam.image = x.cam.image
  PROVE  Lined(y, at, owed)
<1>1. \A s : Age(y.cam, at, s) = Age(x.cam, at, s)
  BY DEF Age
<1> QED BY <1>1 DEF Lined

(* A stream at rest is whole whatever its sizes.                           *)
LEMMA RestWhole ==
  ASSUME NEW x \in Streams, ~x.cam.running, ~x.ctx.on, x.ctx.events = <<>>, x.ctx.count = 0,
         x.ctx.clean => x.ctx.queue = <<>>
  PROVE  Whole(x)
  BY DEF Whole

LEMMA EmptyContext == NoContext \in CtxType
  BY DEF NoContext, CtxType

(* dcam_iso_stop, from anywhere.                                            *)
LEMMA StopWhole ==
  ASSUME NEW x \in Streams
  PROVE  /\ Whole(IsoStop(x)) /\ ~IsoStop(x).cam.running
         /\ IsoStop(x).ctx = NoContext
<1> DEFINE y == IsoStop(x)
<1>1. x.cam \in CamType
  BY DEF Streams
<1>2. NoImages \in [Slots -> Nat]
  BY DEF NoImages
<1>3. y.cam = [x.cam EXCEPT !.fd = NoFd, !.created = FALSE, !.mapped = FALSE, !.running = FALSE,
                 !.image = NoImages, !.ring = 0, !.ppf = 0, !.refill = 0, !.next = 0]
      /\ y.ctx = NoContext /\ y = [cam |-> y.cam, ctx |-> y.ctx]
  BY DEF IsoStop
<1> HIDE DEF y
<1>4. y.cam \in CamType /\ ~y.cam.running
  <2>1. y.cam = [x.cam EXCEPT !.fd = NoFd, !.created = FALSE, !.mapped = FALSE, !.running = FALSE,
                   !.image = NoImages, !.ring = 0, !.ppf = 0, !.refill = 0, !.next = 0]
    BY <1>3
  <2>2. y.cam = [fd |-> NoFd, created |-> FALSE, mapped |-> FALSE, running |-> FALSE,
                 oneshot |-> x.cam.oneshot, mode |-> x.cam.mode, ppf |-> 0, ring |-> 0,
                 acked |-> x.cam.acked, refill |-> 0, next |-> 0, image |-> NoImages]
    BY <2>1, <1>1 DEF CamType
  <2>3. x.cam.oneshot \in BOOLEAN /\ x.cam.mode \in Modes /\ x.cam.acked \in Nat
    BY <1>1 DEF CamType
  <2>4. NoFd \in Fds \cup {NoFd} /\ 0 \in 0..2 /\ 0 \in Nat
    OBVIOUS
  <2> QED BY <2>2, <2>3, <2>4, <1>2 DEF CamType
<1>5. y \in Streams
  BY <1>3, <1>4, EmptyContext DEF Streams
<1>6. ~y.ctx.on /\ y.ctx.events = <<>> /\ y.ctx.count = 0 /\ y.ctx.queue = <<>>
  BY <1>3 DEF NoContext
<1>7. Whole(y)
  BY <1>4, <1>5, <1>6, RestWhole
<1> QED BY <1>3, <1>4, <1>7 DEF y

(* What a start opens and maps is at rest.                                 *)
Ready(x) == Whole(x) /\ ~x.cam.running /\ x.cam.mode # 0

LEMMA OpenedReady ==
  ASSUME NEW x, Ready(x), NEW y \in Opened(x)
  PROVE  Ready(y)
<1>1. x \in Streams /\ x.cam \in CamType
  BY DEF Ready, Whole, Streams
<1>2. CASE y = x
  BY <1>2
<1>3. ASSUME NEW n \in Fds,
             y = [cam |-> [x.cam EXCEPT !.fd = n, !.created = TRUE], ctx |-> NoContext]
      PROVE  Ready(y)
  <2>1. y.cam = [x.cam EXCEPT !.fd = n, !.created = TRUE] /\ y.ctx = NoContext
        /\ y = [cam |-> y.cam, ctx |-> y.ctx]
    BY <1>3
  <2>2. y.cam \in CamType /\ ~y.cam.running /\ y.cam.mode # 0
    BY <2>1, <1>1 DEF Ready, CamType
  <2>3. y \in Streams
    BY <2>1, <2>2, EmptyContext DEF Streams
  <2>4. ~y.ctx.on /\ y.ctx.events = <<>> /\ y.ctx.count = 0 /\ y.ctx.queue = <<>>
    BY <2>1 DEF NoContext
  <2> QED BY <2>2, <2>3, <2>4, RestWhole DEF Ready
<1> QED BY <1>2, <1>3 DEF Opened

(* A part of the camera set, the context kept.                             *)
LEMMA SetCam ==
  ASSUME NEW C, NEW D, NEW x \in [cam : C, ctx : D], NEW y, NEW v
  PROVE  /\ y = [x EXCEPT !.cam.mapped = v] =>
              y.cam = [x.cam EXCEPT !.mapped = v] /\ y.ctx = x.ctx /\ y = [cam |-> y.cam, ctx |-> y.ctx]
         /\ y = [x EXCEPT !.cam.oneshot = v] =>
              y.cam = [x.cam EXCEPT !.oneshot = v] /\ y.ctx = x.ctx /\ y = [cam |-> y.cam, ctx |-> y.ctx]
         /\ y = [x EXCEPT !.cam.mode = v] =>
              y.cam = [x.cam EXCEPT !.mode = v] /\ y.ctx = x.ctx /\ y = [cam |-> y.cam, ctx |-> y.ctx]
         /\ y = [x EXCEPT !.cam = v] =>
              y.cam = v /\ y.ctx = x.ctx /\ y = [cam |-> y.cam, ctx |-> y.ctx]
  OBVIOUS

LEMMA SetRunning ==
  ASSUME NEW C, NEW D, NEW x \in [cam : C, ctx : D], NEW y
  PROVE  /\ y = [x EXCEPT !.cam.running = TRUE, !.ctx.on = TRUE] =>
              /\ y.cam = [x.cam EXCEPT !.running = TRUE] /\ y.ctx = [x.ctx EXCEPT !.on = TRUE]
              /\ y = [cam |-> y.cam, ctx |-> y.ctx]
         /\ y = [x EXCEPT !.ctx.clean = FALSE] =>
              y.cam = x.cam /\ y.ctx = [x.ctx EXCEPT !.clean = FALSE] /\ y = [cam |-> y.cam, ctx |-> y.ctx]
  OBVIOUS

LEMMA MappedReady ==
  ASSUME NEW x, Ready(x), NEW y \in Mapped(x)
  PROVE  Ready(y)
<1>1. x \in Streams /\ x.cam \in CamType /\ x.ctx \in CtxType
  BY DEF Ready, Whole, Streams
<1>2. CASE y = x
  BY <1>2
<1>3. CASE y = [x EXCEPT !.cam.mapped = TRUE]
  <2>1. y.cam = [x.cam EXCEPT !.mapped = TRUE] /\ y.ctx = x.ctx /\ y = [cam |-> y.cam, ctx |-> y.ctx]
    <3>1. x \in [cam : CamType, ctx : CtxType] BY <1>1 DEF Streams
    <3> QED BY <3>1, <1>3, SetCam
  <2>2. y.cam \in CamType /\ ~y.cam.running /\ y.cam.mode # 0
    BY <2>1, <1>1 DEF Ready, CamType
  <2>3. y \in Streams
    BY <2>1, <2>2, <1>1 DEF Streams
  <2> QED BY <2>1, <2>2, <2>3, RestWhole DEF Ready, Whole
<1> QED BY <1>2, <1>3 DEF Mapped

(* The prefill of a start pays with the packets of a whole ring, that of a  *)
(* one-shot with those of one frame of it.                                  *)
LEMMA FilledWhole ==
  ASSUME NEW x, Ready(x), NEW y \in Filled(x)
  PROVE  Whole(y)
<1>1. x \in Streams /\ x.cam \in CamType /\ x.ctx \in CtxType /\ Whole(x)
  BY DEF Ready, Whole, Streams
<1>2. CASE y = x
  BY <1>1, <1>2
<1> DEFINE z == [x EXCEPT !.cam = Rewound(x.cam)]
           r == RingOf[x.cam.mode]
           p == x.cam.mode
           n == Prefill(z.cam)
<1>3. ASSUME r # 0, NEW t \in Takes(n, z.cam.ppf), NEW f, f = Refilled(z, 0, t),
             y = [f EXCEPT !.cam.running = TRUE, !.ctx.on = TRUE] \/ y = [f EXCEPT !.ctx.clean = FALSE]
      PROVE  Whole(y)
  <2>1. p \in Nat /\ p > 0 /\ r \in 1..2
    BY <1>1, <1>3, FakeCameraAssumption DEF Ready, CamType
  <2>2. Rewound(x.cam) = [x.cam EXCEPT !.ppf = p, !.ring = r, !.next = 0, !.acked = 0,
                            !.refill = (IF x.cam.oneshot THEN 1 ELSE r) % r]
    BY <1>1 DEF Rewound, Sized, CamType
  <2>3. z.cam = Rewound(x.cam) /\ z.ctx = x.ctx /\ z = [cam |-> z.cam, ctx |-> z.ctx]
    BY <1>1, SetCam DEF Streams
  <2>4. (IF x.cam.oneshot THEN 1 ELSE r) % r \in 0..r-1
    BY <2>1
  <2> HIDE DEF z
  <2>5. /\ z.cam \in CamType /\ z.cam.ppf = p /\ z.cam.ring = r /\ z.cam.next = 0 /\ z.cam.acked = 0
        /\ z.cam.oneshot = x.cam.oneshot /\ ~z.cam.running
        /\ z.cam.refill = (IF x.cam.oneshot THEN 1 ELSE r) % r /\ z.cam.refill < r
    <3> DEFINE v == (IF x.cam.oneshot THEN 1 ELSE r) % r
    <3>1. z.cam = [x.cam EXCEPT !.ppf = p, !.ring = r, !.next = 0, !.acked = 0, !.refill = v]
      BY <2>2, <2>3
    <3>2. v \in Nat /\ v < r BY <2>1, <2>4
    <3>3. p \in Nat /\ r \in 0..2 BY <2>1
    <3> HIDE DEF v, r, p
    <3>4. /\ z.cam.ppf = p /\ z.cam.ring = r /\ z.cam.next = 0 /\ z.cam.acked = 0
          /\ z.cam.oneshot = x.cam.oneshot /\ z.cam.running = x.cam.running /\ z.cam.refill = v
      BY <3>1, <1>1 DEF CamType
    <3>5. z.cam \in CamType
      <4>1. [x.cam EXCEPT !.ppf = p, !.ring = r] \in CamType
        BY <3>3, <1>1 DEF CamType
      <4>2. \A c \in CamType : [c EXCEPT !.next = 0, !.acked = 0, !.refill = v] \in CamType
        BY <3>2 DEF CamType
      <4>3. z.cam = [[x.cam EXCEPT !.ppf = p, !.ring = r] EXCEPT !.next = 0, !.acked = 0, !.refill = v]
        BY <3>1
      <4> QED BY <4>1, <4>2, <4>3
    <3> QED BY <3>2, <3>4, <3>5 DEF Ready, v
  <2>6. z \in Streams
    BY <1>1, <2>3, <2>5 DEF Streams
  <2>7. n \in 1..2 /\ n = (IF x.cam.oneshot THEN 1 ELSE r) /\ n <= r
    BY <2>1, <2>5 DEF Prefill
  <2>8. Sizes(z.cam)
    BY <2>1, <2>5, FakeCameraAssumption DEF Sizes
  <2> HIDE DEF n, r, p
  <2>9. /\ Moves(z, f) /\ Sizes(f.cam) /\ (n = 1 => f.cam.next = (z.cam.next + 1) % FrameWrap)
        /\ \A owed \in Nat : Lined(z, 0, owed) /\ n * z.cam.ppf <= owed =>
             Lined(f, (0 + n) % z.cam.ring, owed - n * z.cam.ppf)
    <3>1. 0 \in Slots /\ z.cam.ring \in 1..2 /\ 0 < z.cam.ring /\ n \in 0..2
      BY <2>1, <2>5, <2>7 DEF Slots
    <3> QED BY <3>1, <2>6, <2>8, <1>3, RefilledWhole
  <2>10. /\ f \in Streams /\ f.cam.ring = r /\ f.cam.ppf = p /\ f.cam.acked = 0
         /\ f.cam.refill = z.cam.refill /\ ~f.cam.running /\ f.cam.oneshot = x.cam.oneshot
         /\ f.ctx.events = <<>> /\ f.ctx.count = 0 /\ ~f.ctx.on /\ f.ctx.clean = x.ctx.clean
    BY <2>3, <2>5, <2>6, <2>9, MovesKeeps DEF Ready, Whole
  <2>11. f.cam \in CamType /\ f.ctx \in CtxType BY <2>10 DEF Streams
  <2>12. CASE y = [f EXCEPT !.ctx.clean = FALSE]
    <3>1. y.cam = f.cam /\ y.ctx = [f.ctx EXCEPT !.clean = FALSE] /\ y = [cam |-> y.cam, ctx |-> y.ctx]
      BY <2>12, <2>10, SetRunning DEF Streams
    <3>2. y.ctx \in CtxType /\ ~y.ctx.clean /\ y.ctx.events = <<>> /\ y.ctx.count = 0 /\ ~y.ctx.on
      BY <3>1, <2>10, <2>11 DEF CtxType
    <3>3. y \in Streams /\ ~y.cam.running BY <3>1, <3>2, <2>10, <2>11 DEF Streams
    <3> QED BY <3>2, <3>3, RestWhole
  <2>13. CASE y = [f EXCEPT !.cam.running = TRUE, !.ctx.on = TRUE]
    <3>1. y.cam = [f.cam EXCEPT !.running = TRUE] /\ y.ctx = [f.ctx EXCEPT !.on = TRUE]
          /\ y = [cam |-> y.cam, ctx |-> y.ctx]
      BY <2>13, <2>10, SetRunning DEF Streams
    <3>2. /\ y.ctx \in CtxType /\ y.ctx.clean = x.ctx.clean /\ y.ctx.events = <<>> /\ y.ctx.count = 0
          /\ y.ctx.queue = f.ctx.queue
      BY <3>1, <2>10, <2>11 DEF CtxType
    <3>3. /\ y.cam \in CamType /\ y.cam.running /\ y.cam.ring = r /\ y.cam.ppf = p /\ y.cam.acked = 0
          /\ y.cam.refill = z.cam.refill /\ y.cam.next = f.cam.next /\ y.cam.image = f.cam.image
          /\ y.cam.oneshot = x.cam.oneshot
      BY <3>1, <2>10, <2>11 DEF CamType
    <3>4. y \in Streams BY <3>1, <3>2, <3>3 DEF Streams
    <3>5. Sizes(y.cam) /\ y.cam.refill < y.cam.ring
      BY <3>3, <2>5, <2>9, <2>10 DEF Sizes, r
    <3>6. ASSUME y.ctx.clean PROVE Fed(y) /\ (y.cam.oneshot => y.cam.next = 1)
      <4>1. z.ctx.queue = <<>> BY <2>3, <3>2, <3>6 DEF Ready, Whole
      <4>2. r * p \in Nat /\ n * p \in Nat /\ n * p <= r * p /\ r * p - n * p \in Nat
        BY <2>1, <2>7 DEF r, p, n
      <4>3. Lined(z, 0, r * p)
        BY <4>1, <4>2, <2>5 DEF Lined, r, p
      <4>4. Lined(f, (0 + n) % r, r * p - n * p)
        BY <4>2, <4>3, <2>5, <2>9 DEF r, p
      <4>5. (0 + n) % r = y.cam.refill
        BY <2>5, <2>7, <3>3
      <4>6. Lined(y, y.cam.refill, r * p - n * p)
        BY <4>4, <4>5, <3>2, <3>3, <2>10, LinedFrame
      <4>7. Owes(y, r * p - n * p)
        BY <4>2, <3>2, <3>3, TallyNone DEF Owes
      <4>8. y.cam.oneshot => y.cam.next = 1
        <5>1. FrameWrap \in Nat /\ FrameWrap > 2 BY FakeCameraAssumption
        <5>2. (0 + 1) % FrameWrap = 1 BY <5>1
        <5> QED BY <5>2, <2>5, <2>7, <2>9, <3>3
      <4> QED BY <4>2, <4>6, <4>7, <4>8 DEF Fed
    <3> QED BY <3>3, <3>4, <3>5, <3>6 DEF Whole
  <2> QED BY <1>3, <2>12, <2>13
<1>4. y = x \/ \E t \in Takes(n, z.cam.ppf) :
        /\ r # 0
        /\ \/ y = [Refilled(z, 0, t) EXCEPT !.cam.running = TRUE, !.ctx.on = TRUE]
           \/ y = [Refilled(z, 0, t) EXCEPT !.ctx.clean = FALSE]
  BY DEF Filled
<1> HIDE DEF z, r, n
<1> QED BY <1>2, <1>3, <1>4

LEMMA StartWhole ==
  ASSUME NEW x, Whole(x), NEW y \in IsoStart(x)
  PROVE  Whole(y)
<1>1. CASE x.cam.running \/ x.cam.mode = 0
  BY <1>1 DEF IsoStart
<1>2. CASE ~x.cam.running /\ x.cam.mode # 0
  <2>1. PICK o \in Opened(x) : \E m \in Mapped(o) : y \in Filled(m)
    BY <1>2 DEF IsoStart
  <2> QED BY <1>2, <2>1, OpenedReady, MappedReady, FilledWhole DEF Ready
<1> QED BY <1>1, <1>2

LEMMA LaterFrame ==
  ASSUME NEW p \in Nat, NEW a \in 0..1, NEW b \in 0..1, NEW owed \in Nat, NEW sent \in Nat,
         NEW room \in Nat, b < a, sent < p, a * p + owed <= room + sent
  PROVE  b * p + (owed + 1) <= room
<1>1. a = 1 /\ b = 0
  OBVIOUS
<1>2. 1 * p = p /\ 0 * p = 0
  OBVIOUS
<1>3. p + owed <= room + sent
  BY <1>1, <1>2
<1>4. owed + 1 <= room
  BY <1>3
<1> QED BY <1>1, <1>2, <1>4

LEMMA TailFacts ==
  ASSUME NEW S, NEW q \in Seq(S), q # <<>>
  PROVE  /\ Tail(q) \in Seq(S) /\ DOMAIN Tail(q) = 1..Len(q) - 1
         /\ \A i \in 1..Len(q) - 1 : Tail(q)[i] = q[i+1] /\ i + 1 \in DOMAIN q /\ i + 1 > 1
<1>1. Len(q) \in Nat /\ DOMAIN q = 1..Len(q)
  OBVIOUS
<1>2. Tail(q) \in Seq(S) /\ Len(Tail(q)) = Len(q) - 1
  OBVIOUS
<1>3. \A i \in 1..Len(q) - 1 : Tail(q)[i] = q[i+1]
  OBVIOUS
<1>4. DOMAIN Tail(q) = 1..Len(q) - 1
  BY <1>2
<1> QED BY <1>1, <1>2, <1>3, <1>4

LEMMA HeadFacts ==
  ASSUME NEW S, NEW q \in Seq(S), q # <<>>, NEW g \in S
  PROVE  LET z == <<g>> \o Tail(q) IN
         /\ z \in Seq(S) /\ DOMAIN z = DOMAIN q /\ z[1] = g
         /\ \A i \in DOMAIN q : i > 1 => z[i] = q[i]
<1> DEFINE u == Tail(q)
           z == <<g>> \o u
<1>1. Len(q) \in Nat /\ DOMAIN q = 1..Len(q) /\ Len(q) > 0
  OBVIOUS
<1>2. u \in Seq(S) /\ Len(u) = Len(q) - 1 /\ \A i \in 1..Len(q) - 1 : u[i] = q[i+1]
  OBVIOUS
<1> HIDE DEF u
<1>3. <<g>> \in Seq(S) /\ Len(<<g>>) = 1 /\ <<g>>[1] = g
  OBVIOUS
<1>4. z \in Seq(S) /\ Len(z) = 1 + Len(u)
      /\ \A i \in 1..Len(z) : z[i] = IF i <= 1 THEN <<g>>[i] ELSE u[i - 1]
  BY <1>2, <1>3
<1> HIDE DEF z
<1>5. DOMAIN z = 1..Len(q)
  BY <1>1, <1>2, <1>4
<1>6. z[1] = g
  BY <1>1, <1>2, <1>3, <1>4
<1>7. ASSUME NEW i \in 1..Len(q), i > 1 PROVE z[i] = q[i]
  <2>1. i - 1 \in 1..Len(q) - 1 /\ i - 1 + 1 = i /\ ~(i <= 1) BY <1>1, <1>7
  <2>2. z[i] = u[i-1] BY <2>1, <1>1, <1>2, <1>4
  <2> QED BY <2>1, <2>2, <1>2
<1> QED BY <1>1, <1>4, <1>5, <1>6, <1>7 DEF z, u

LEMMA OneMoreSent ==
  ASSUME NEW f \in Frame
  PROVE  LET g == [f EXCEPT !.sent = @ + 1] IN
         /\ g \in Frame /\ g.slot = f.slot /\ g.image = f.image /\ g.len = f.len
         /\ g.sent = f.sent + 1
  BY DEF Frame

(* A packet that goes out is one more that is owed: the frames behind the   *)
(* head keep their distance to the refill.                                  *)
LEMMA SentLined ==
  ASSUME NEW x \in Streams, NEW y, NEW at \in Slots, NEW owed \in Nat, Sizes(x.cam), at < x.cam.ring,
         Lined(x, at, owed), x.ctx.queue # <<>>, y.cam = x.cam,
         y.ctx.queue = LET f == Head(x.ctx.queue) IN
                       IF f.sent + 1 = f.len THEN Tail(x.ctx.queue)
                       ELSE <<[f EXCEPT !.sent = @ + 1]>> \o Tail(x.ctx.queue)
  PROVE  Lined(y, at, owed + 1) /\ y.ctx.queue \in Seq(Frame)
<1> DEFINE c == x.cam
           q == x.ctx.queue
           z == y.ctx.queue
           p == c.ppf
           r == c.ring
           f == q[1]
           g == [f EXCEPT !.sent = @ + 1]
           room == (r - 1) * p
           A(i) == Age(c, at, q[i].slot)
<1>1. /\ q \in Seq(Frame) /\ Len(q) \in Nat /\ Len(q) > 0 /\ 1 \in DOMAIN q /\ DOMAIN q = 1..Len(q)
      /\ p \in Nat /\ r \in 1..2 /\ room \in Nat /\ at \in Nat /\ at < r
  <2>1. q \in Seq(Frame) /\ p \in Nat /\ r \in 1..2 /\ at \in Nat BY DEF Streams, CamType, CtxType, Sizes, Slots
  <2>2. r - 1 \in Nat BY <2>1
  <2>3. room \in Nat BY <2>1, <2>2
  <2> QED BY <2>1, <2>3
<1>2. \A i \in DOMAIN q :
        /\ q[i] \in Frame /\ q[i].slot \in Slots /\ q[i].sent \in Nat /\ q[i].len \in Nat
        /\ q[i].slot < r /\ c.image[q[i].slot] = q[i].image
        /\ q[i].sent < q[i].len /\ q[i].len <= p /\ (i > 1 => q[i].sent = 0)
        /\ q[i].image < FrameWrap
        /\ (q[i].image + 1 + A(i)) % FrameWrap = c.next
        /\ A(i) * p + owed <= room + q[i].sent
  <2>1. \A i \in DOMAIN q : q[i] \in Frame BY <1>1
  <2> QED BY <2>1 DEF Lined, Frame
<1>3. \A i, j \in DOMAIN q : i < j => A(i) > A(j)
  BY DEF Lined
<1>4. \A i \in DOMAIN q : A(i) \in 0..1
  BY <1>1, <1>2, AgeFacts
<1> HIDE DEF A, room
<1>5. ASSUME NEW i \in DOMAIN q, i > 1
      PROVE  A(i) * p + (owed + 1) <= room + q[i].sent
  <2>1. A(i) < A(1) /\ A(i) \in 0..1 /\ A(1) \in 0..1 BY <1>1, <1>3, <1>4, <1>5
  <2>2. f.sent \in Nat /\ f.sent < p /\ A(1) * p + owed <= room + f.sent BY <1>1, <1>2
  <2> HIDE DEF f, p, q
  <2>3. A(i) * p + (owed + 1) <= room BY <2>1, <2>2, <1>1, LaterFrame
  <2> QED BY <2>3, <1>1, <1>2, <1>5
<1>6. owed + 1 <= r * p
  <2>1. A(1) * p \in Nat /\ f.sent \in Nat /\ f.sent < p /\ A(1) * p + owed <= room + f.sent
    <3>1. A(1) \in Nat BY <1>1, <1>4
    <3>2. A(1) * p \in Nat BY <3>1, <1>1
    <3>3. f.sent \in Nat /\ f.sent < f.len /\ f.len <= p /\ f.len \in Nat
          /\ A(1) * p + owed <= room + f.sent
      BY <1>1, <1>2
    <3> HIDE DEF f, p
    <3>4. f.sent < p BY <3>3, <1>1
    <3> QED BY <3>2, <3>3, <3>4
  <2>2. room + p = r * p
    <3>1. CASE r = 1 BY <3>1, <1>1 DEF room
    <3>2. CASE r = 2 BY <3>2, <1>1 DEF room
    <3> QED BY <3>1, <3>2, <1>1
  <2> HIDE DEF f
  <2> QED BY <2>1, <2>2, <1>1
<1>7. y.cam = c
  OBVIOUS
<1>8. CASE f.sent + 1 = f.len
  <2>1. z = Tail(q) BY <1>8, <1>1
  <2>2. /\ z \in Seq(Frame) /\ DOMAIN z = 1..Len(q) - 1
        /\ \A i \in 1..Len(q) - 1 : z[i] = q[i+1] /\ i + 1 \in DOMAIN q /\ i + 1 > 1
    BY <2>1, <1>1, TailFacts
  <2>3. ASSUME NEW i \in DOMAIN z
        PROVE /\ z[i].slot < r /\ c.image[z[i].slot] = z[i].image
              /\ z[i].sent < z[i].len /\ z[i].len <= p /\ (i > 1 => z[i].sent = 0)
              /\ z[i].image < FrameWrap
              /\ (z[i].image + 1 + Age(c, at, z[i].slot)) % FrameWrap = c.next
              /\ Age(c, at, z[i].slot) * p + (owed + 1) <= room + z[i].sent
    <3>1. z[i] = q[i+1] /\ i + 1 \in DOMAIN q /\ i + 1 > 1 BY <2>2
    <3>2. A(i+1) * p + (owed + 1) <= room + q[i+1].sent BY <3>1, <1>5
    <3> QED BY <3>1, <3>2, <1>2 DEF A
  <2>4. ASSUME NEW i \in DOMAIN z, NEW j \in DOMAIN z, i < j
        PROVE  Age(c, at, z[i].slot) > Age(c, at, z[j].slot)
    <3>1. z[i] = q[i+1] /\ i + 1 \in DOMAIN q /\ z[j] = q[j+1] /\ j + 1 \in DOMAIN q BY <2>2
    <3>2. i + 1 < j + 1 BY <2>2, <2>4, <1>1
    <3> QED BY <3>1, <3>2, <1>3 DEF A
  <2> HIDE DEF z, c, p, r
  <2> QED BY <2>2, <2>3, <2>4, <1>6, <1>7 DEF Lined, z, c, p, r, room
<1>9. CASE f.sent + 1 # f.len
  <2>1. z = <<g>> \o Tail(q) BY <1>9, <1>1
  <2>2. /\ g \in Frame /\ g.slot = f.slot /\ g.image = f.image /\ g.len = f.len
        /\ g.sent = f.sent + 1
    <3>1. f \in Frame BY <1>1, <1>2
    <3> QED BY <3>1, OneMoreSent
  <2> HIDE DEF g
  <2>3. /\ z \in Seq(Frame) /\ DOMAIN z = DOMAIN q /\ z[1] = g
        /\ \A i \in DOMAIN q : i > 1 => z[i] = q[i]
    <3>1. q \in Seq(Frame) /\ q # <<>> /\ g \in Frame BY <2>2, <1>1
    <3> HIDE DEF q, z
    <3> QED BY <3>1, <2>1, HeadFacts
  <2>4. \A i \in DOMAIN z : Age(c, at, z[i].slot) = A(i) /\ i \in DOMAIN q
    <3>1. \A i \in DOMAIN q : i = 1 \/ i > 1 BY <1>1
    <3> QED BY <3>1, <2>2, <2>3 DEF A
  <2>5. ASSUME NEW i \in DOMAIN z
        PROVE /\ z[i].slot < r /\ c.image[z[i].slot] = z[i].image
              /\ z[i].sent < z[i].len /\ z[i].len <= p /\ (i > 1 => z[i].sent = 0)
              /\ z[i].image < FrameWrap
              /\ (z[i].image + 1 + Age(c, at, z[i].slot)) % FrameWrap = c.next
              /\ Age(c, at, z[i].slot) * p + (owed + 1) <= room + z[i].sent
    <3>1. CASE i > 1
      <4>1. z[i] = q[i] /\ i \in DOMAIN q BY <3>1, <2>3
      <4>2. A(i) * p + (owed + 1) <= room + q[i].sent BY <4>1, <3>1, <1>5
      <4> QED BY <4>1, <4>2, <1>2 DEF A
    <3>2. CASE i = 1
      <4>1. z[i] = g BY <3>2, <2>3
      <4>2. /\ f.slot < r /\ c.image[f.slot] = f.image /\ f.sent < f.len /\ f.len <= p
            /\ f.image < FrameWrap /\ (f.image + 1 + A(1)) % FrameWrap = c.next
            /\ A(1) * p + owed <= room + f.sent /\ f.sent \in Nat /\ f.len \in Nat
        BY <1>1, <1>2
      <4>3. A(1) * p \in Nat
        <5>1. A(1) \in Nat BY <1>1, <1>4
        <5> QED BY <5>1, <1>1
      <4> HIDE DEF f, p
      <4>4. f.sent + 1 < f.len BY <4>2, <1>9
      <4>5. A(1) * p + (owed + 1) <= room + (f.sent + 1) BY <4>2, <4>3, <1>1
      <4>6. Age(c, at, z[i].slot) = A(1) BY <2>4, <3>2
      <4>7. z[i].slot = f.slot /\ z[i].image = f.image /\ z[i].len = f.len /\ z[i].sent = f.sent + 1
        BY <4>1, <2>2
      <4>8. ~(i > 1) BY <3>2
      <4>9. Age(c, at, z[i].slot) * p + (owed + 1) <= room + z[i].sent
        BY <4>5, <4>6, <4>7
      <4> HIDE DEF z
      <4> QED BY <4>2, <4>4, <4>6, <4>7, <4>8, <4>9
    <3>3. i = 1 \/ i > 1 BY <2>3, <1>1
    <3> QED BY <3>1, <3>2, <3>3
  <2>6. ASSUME NEW i \in DOMAIN z, NEW j \in DOMAIN z, i < j
        PROVE  Age(c, at, z[i].slot) > Age(c, at, z[j].slot)
    BY <2>4, <2>6, <1>3
  <2> HIDE DEF z, c, p, r
  <2> QED BY <2>3, <2>5, <2>6, <1>6, <1>7 DEF Lined, z, c, p, r, room
<1> QED BY <1>8, <1>9

(* An interrupt completes two frames at most.                               *)
LEMMA FramesDone ==
  ASSUME NEW p \in Nat, p > 0, NEW r \in 1..2, NEW acked \in Nat, acked < p, NEW n \in Nat,
         n <= r * p
  PROVE  LET m == acked + n IN
         /\ m \div p \in 0..2 /\ m % p \in Nat /\ m % p < p
         /\ m = (m \div p) * p + (m % p) /\ (m \div p) * p \in Nat
<1> DEFINE m == acked + n
           d == m \div p
<1>1. m \in Nat
  OBVIOUS
<1> HIDE DEF m
<1>2. d \in Nat /\ m % p \in Nat /\ m % p < p /\ m = d * p + (m % p)
  BY <1>1
<1> HIDE DEF d
<1>3. r * p <= 2 * p
  OBVIOUS
<1>4. m < 3 * p
  <2>1. r * p \in Nat OBVIOUS
  <2> QED BY <2>1, <1>3 DEF m
<1>5. d * p \in Nat
  BY <1>2
<1>6. d < 3
  <2>1. SUFFICES ASSUME d >= 3 PROVE FALSE BY <1>2
  <2>2. d * p >= 3 * p BY <2>1, <1>2
  <2> QED BY <2>2, <1>1, <1>2, <1>4, <1>5
<1> QED BY <1>2, <1>5, <1>6 DEF m, d

LEMMA FedFrame ==
  ASSUME NEW x, NEW y, Fed(x), y.ctx.queue = x.ctx.queue, y.ctx.events = x.ctx.events,
         y.ctx.count = x.ctx.count, y.cam.ring = x.cam.ring, y.cam.ppf = x.cam.ppf,
         y.cam.next = x.cam.next, y.cam.image = x.cam.image, y.cam.acked = x.cam.acked,
         y.cam.refill = x.cam.refill
  PROVE  Fed(y)
<1>1. PICK owed \in Nat : Lined(x, x.cam.refill, owed) /\ Owes(x, owed)
  BY DEF Fed
<1>2. Lined(y, x.cam.refill, owed)
  BY <1>1, LinedFrame
<1>3. Owes(y, owed)
  BY <1>1 DEF Owes
<1> QED BY <1>1, <1>2, <1>3 DEF Fed

(* What the registers write.                                               *)
LEMMA OneShotSet ==
  ASSUME NEW x, Whole(x), NEW v \in BOOLEAN, v => ~x.cam.running,
         NEW y, y = [x EXCEPT !.cam.oneshot = v]
  PROVE  Whole(y)
<1>1. x \in [cam : CamType, ctx : CtxType] /\ x.cam \in CamType /\ x.ctx \in CtxType
  BY DEF Whole, Streams
<1>2. y.cam = [x.cam EXCEPT !.oneshot = v] /\ y.ctx = x.ctx /\ y = [cam |-> y.cam, ctx |-> y.ctx]
  BY <1>1, SetCam
<1>3. /\ y.cam \in CamType /\ y.cam.running = x.cam.running /\ y.cam.oneshot = v
      /\ y.cam.ring = x.cam.ring /\ y.cam.ppf = x.cam.ppf /\ y.cam.next = x.cam.next
      /\ y.cam.image = x.cam.image /\ y.cam.acked = x.cam.acked /\ y.cam.refill = x.cam.refill
  BY <1>1, <1>2 DEF CamType
<1>4. y \in Streams
  BY <1>1, <1>2, <1>3 DEF Streams
<1>5. Sizes(x.cam) => Sizes(y.cam)
  BY <1>3 DEF Sizes
<1>6. Fed(x) => Fed(y)
  <2>1. y.ctx.queue = x.ctx.queue /\ y.ctx.events = x.ctx.events /\ y.ctx.count = x.ctx.count
    BY <1>2
  <2> QED BY <2>1, <1>3, FedFrame
<1> QED BY <1>2, <1>3, <1>4, <1>5, <1>6 DEF Whole

LEMMA ModeSet ==
  ASSUME NEW x, Whole(x), NEW m \in Modes, NEW y, y = [x EXCEPT !.cam.mode = m]
  PROVE  Whole(y)
<1>1. x \in [cam : CamType, ctx : CtxType] /\ x.cam \in CamType /\ x.ctx \in CtxType
  BY DEF Whole, Streams
<1>2. y.cam = [x.cam EXCEPT !.mode = m] /\ y.ctx = x.ctx /\ y = [cam |-> y.cam, ctx |-> y.ctx]
  BY <1>1, SetCam
<1>3. /\ y.cam \in CamType /\ y.cam.running = x.cam.running /\ y.cam.oneshot = x.cam.oneshot
      /\ y.cam.ring = x.cam.ring /\ y.cam.ppf = x.cam.ppf /\ y.cam.next = x.cam.next
      /\ y.cam.image = x.cam.image /\ y.cam.acked = x.cam.acked /\ y.cam.refill = x.cam.refill
  BY <1>1, <1>2 DEF CamType
<1>4. y \in Streams
  BY <1>1, <1>2, <1>3 DEF Streams
<1>5. Sizes(x.cam) => Sizes(y.cam)
  BY <1>3 DEF Sizes
<1>6. Fed(x) => Fed(y)
  <2>1. y.ctx.queue = x.ctx.queue /\ y.ctx.events = x.ctx.events /\ y.ctx.count = x.ctx.count
    BY <1>2
  <2> QED BY <2>1, <1>3, FedFrame
<1> QED BY <1>2, <1>3, <1>4, <1>5, <1>6 DEF Whole

LEMMA WrittenWhole ==
  ASSUME Whole(State), NEW request, NEW x \in Written(request)
  PROVE  Whole(x)
<1>1. CASE request = "iso_on"
  <2> DEFINE z == [State EXCEPT !.cam.oneshot = FALSE]
  <2>1. x \in IsoStart(z) BY <1>1 DEF Written, WriteIsoEn
  <2>2. Whole(z) BY OneShotSet
  <2> HIDE DEF z
  <2> QED BY <2>1, <2>2, StartWhole
<1>2. CASE request = "iso_off"
  <2>1. x = IsoStop(State) BY <1>2 DEF Written, WriteIsoEn
  <2>2. State \in Streams BY DEF Whole
  <2> QED BY <2>1, <2>2, StopWhole
<1>3. CASE request = "one_shot"
  <2> DEFINE s == IsoStop(State)
             z == [s EXCEPT !.cam.oneshot = TRUE]
  <2>1. x \in IsoStart(z) BY <1>3 DEF Written, WriteOneShot
  <2>2. State \in Streams BY DEF Whole
  <2>3. Whole(s) /\ ~s.cam.running BY <2>2, StopWhole
  <2> HIDE DEF s
  <2>4. Whole(z) BY <2>3, OneShotSet
  <2> HIDE DEF z
  <2> QED BY <2>1, <2>4, StartWhole
<1>4. CASE request = "mode"
  <2>1. PICK m \in Modes : x = [State EXCEPT !.cam.mode = m] BY <1>4 DEF Written, WriteMode
  <2> QED BY <2>1, ModeSet
<1>5. CASE request \notin {"iso_on", "iso_off", "one_shot", "mode"}
  BY <1>5 DEF Written
<1> QED BY <1>1, <1>2, <1>3, <1>4, <1>5

LEMMA StateParts ==
  /\ State.cam = cam /\ State.ctx = ctx
  /\ State \in Streams <=> cam \in CamType /\ ctx \in CtxType
  BY DEF State, Streams

LEMMA StatePrimed ==
  State' = [cam |-> cam', ctx |-> ctx']
  BY DEF State

(* The actions that touch the camera or its context, one by one.            *)
LEMMA TransmitWhole ==
  ASSUME Whole(State), Transmit
  PROVE  Whole(State)'
<1> DEFINE y == [cam |-> cam', ctx |-> ctx']
           f == Head(ctx.queue)
           n == ctx.count + 1
           rest == IF f.sent + 1 = f.len THEN Tail(ctx.queue)
                   ELSE <<[f EXCEPT !.sent = @ + 1]>> \o Tail(ctx.queue)
           told == IF Flagged(f) /\ n <= HeaderMax THEN Append(ctx.events, n) ELSE ctx.events
           count == IF Flagged(f) THEN 0 ELSE n
<1>1. cam \in CamType /\ ctx \in CtxType /\ State \in Streams
  BY StateParts DEF Whole
<1>2. ctx.queue # <<>> /\ cam' = cam /\ ctx.on
      /\ ctx' = [ctx EXCEPT !.queue = rest, !.count = count, !.events = told]
  BY DEF Transmit
<1>3. ctx.queue \in Seq(Frame) /\ ctx.events \in Seq(Nat) /\ ctx.count \in Nat /\ n \in Nat
  BY <1>1 DEF CtxType
<1>4. cam.running /\ Sizes(cam) /\ cam.refill < cam.ring /\ cam.refill \in Nat
  BY <1>1, <1>2, StateParts DEF Whole, CamType
<1>5. rest \in Seq(Frame)
  <2>1. f \in Frame BY <1>2, <1>3
  <2> DEFINE g == [f EXCEPT !.sent = @ + 1]
  <2>2. g \in Frame BY <2>1, OneMoreSent
  <2>3. Tail(ctx.queue) \in Seq(Frame) BY <1>2, <1>3
  <2> HIDE DEF g
  <2>4. <<g>> \o Tail(ctx.queue) \in Seq(Frame) BY <2>2, <2>3
  <2> QED BY <2>3, <2>4 DEF g
<1>6. told \in Seq(Nat) /\ count \in Nat
  <2>1. Append(ctx.events, n) \in Seq(Nat) BY <1>3
  <2> QED BY <2>1, <1>3
<1> HIDE DEF rest, told, count
<1>7. y.cam = cam /\ y.ctx = ctx' /\ ctx' \in CtxType
      /\ ctx'.queue = rest /\ ctx'.count = count /\ ctx'.events = told
      /\ ctx'.on = ctx.on /\ ctx'.clean = ctx.clean
  BY <1>1, <1>2, <1>5, <1>6 DEF CtxType
<1>8. y \in Streams
  BY <1>1, <1>7, <1>2 DEF Streams
<1>9. ASSUME ctx.clean PROVE Fed(y) /\ (cam.oneshot => cam.next = 1)
  <2>1. PICK owed \in Nat : Lined(State, cam.refill, owed) /\ Owes(State, owed)
    BY <1>4, <1>9, StateParts DEF Whole, Fed
  <2>2. cam.refill \in Slots
    BY <1>4 DEF Sizes, Slots
  <2>3. Lined(y, cam.refill, owed + 1)
    <3> HIDE DEF y
    <3>1. y.cam = State.cam /\ y.ctx.queue = LET h == Head(State.ctx.queue) IN
                       IF h.sent + 1 = h.len THEN Tail(State.ctx.queue)
                       ELSE <<[h EXCEPT !.sent = @ + 1]>> \o Tail(State.ctx.queue)
      BY <1>7, StateParts DEF rest
    <3>2. Sizes(State.cam) /\ cam.refill < State.cam.ring /\ State.ctx.queue # <<>>
      BY <1>2, <1>4, StateParts
    <3> QED BY <1>1, <2>1, <2>2, <3>1, <3>2, SentLined
  <2>4. Owes(y, owed + 1)
    <3>1. PICK t \in Nat : Tallied(ctx.events, t) /\ cam.acked + ctx.count + t <= owed
      BY <2>1, StateParts DEF Owes
    <3>2. cam.acked \in Nat BY <1>1 DEF CamType
    <3>3. CASE Flagged(f) /\ n <= HeaderMax
      <4>1. told = Append(ctx.events, n) /\ count = 0 BY <3>3 DEF told, count
      <4>2. Tallied(told, t + n) BY <4>1, <3>1, <1>3, TallyMore
      <4>3. cam.acked + 0 + (t + n) <= owed + 1 BY <3>1, <3>2, <1>3
      <4>4. t + n \in Nat BY <3>1, <1>3
      <4> QED BY <4>1, <4>2, <4>3, <4>4, <1>7 DEF Owes
    <3>4. CASE Flagged(f) /\ ~(n <= HeaderMax)
      <4>1. told = ctx.events /\ count = 0 BY <3>4 DEF told, count
      <4>2. cam.acked + 0 + t <= owed + 1 BY <3>1, <3>2, <1>3
      <4> QED BY <4>1, <4>2, <3>1, <1>7 DEF Owes
    <3>5. CASE ~Flagged(f)
      <4>1. told = ctx.events /\ count = n BY <3>5 DEF told, count
      <4>2. cam.acked + n + t <= owed + 1 BY <3>1, <3>2, <1>3
      <4> QED BY <4>1, <4>2, <3>1, <1>7 DEF Owes
    <3> QED BY <3>3, <3>4, <3>5
  <2>5. owed + 1 \in Nat BY <2>1
  <2> HIDE DEF y
  <2>6. Fed(y) BY <2>3, <2>4, <2>5, <1>7 DEF Fed
  <2> QED BY <2>6, <1>4, <1>9, StateParts DEF Whole
<1> HIDE DEF y
<1>10. Whole(y)
  BY <1>4, <1>7, <1>8, <1>9 DEF Whole
<1> QED BY <1>10, StatePrimed DEF y

LEMMA ContextDiesWhole ==
  ASSUME Whole(State), ContextDies
  PROVE  Whole(State)'
<1> DEFINE y == [cam |-> cam', ctx |-> ctx']
<1>1. cam \in CamType /\ ctx \in CtxType /\ cam' = cam /\ ctx' = [ctx EXCEPT !.dead = TRUE]
  BY StateParts DEF Whole, ContextDies
<1>2. /\ ctx' \in CtxType /\ ctx'.queue = ctx.queue /\ ctx'.events = ctx.events
      /\ ctx'.count = ctx.count /\ ctx'.on = ctx.on /\ ctx'.clean = ctx.clean
  BY <1>1 DEF CtxType
<1>3. y \in Streams /\ y.cam = State.cam /\ y.ctx = ctx'
  BY <1>1, <1>2, StateParts DEF Streams
<1> HIDE DEF y
<1>4. Fed(State) => Fed(y)
  BY <1>2, <1>3, StateParts, FedFrame
<1>5. Whole(y)
  BY <1>2, <1>3, <1>4, StateParts DEF Whole
<1> QED BY <1>5, StatePrimed DEF y

LEMMA RegisterWhole ==
  ASSUME Whole(State), RegisterWrite
  PROVE  Whole(State)'
<1>1. PICK x \in Written(Head(inbox)) : cam' = x.cam /\ ctx' = x.ctx
  BY DEF RegisterWrite
<1>2. Whole(x)
  BY WrittenWhole
<1>3. x = [cam |-> x.cam, ctx |-> x.ctx]
  BY <1>2 DEF Whole, Streams
<1> QED BY <1>1, <1>2, <1>3, StatePrimed

LEMMA SetAcked ==
  ASSUME NEW C, NEW D, NEW x \in [cam : C, ctx : D], NEW y, NEW e, NEW a,
         y = [x EXCEPT !.ctx.events = e, !.cam.acked = a]
  PROVE  /\ y.cam = [x.cam EXCEPT !.acked = a] /\ y.ctx = [x.ctx EXCEPT !.events = e]
         /\ y = [cam |-> y.cam, ctx |-> y.ctx]
  OBVIOUS

LEMMA StillOwed ==
  ASSUME NEW m \in Nat, NEW done \in Nat, NEW acked \in Nat, NEW count \in Nat,
         NEW rest \in Nat, NEW owed \in Nat, m = done + acked, m + count + rest <= owed
  PROVE  done <= owed /\ owed - done \in Nat /\ acked + count + rest <= owed - done
  OBVIOUS

LEMMA InterruptWhole ==
  ASSUME Whole(State), ctx.events # <<>>, Interrupt(Head(ctx.events))
  PROVE  Whole(State)'
<1> DEFINE n == Head(ctx.events)
           p == cam.ppf
           r == cam.ring
           m == cam.acked + Clamped(n)
           x == [State EXCEPT !.ctx.events = Tail(@), !.cam.acked = m % p]
           d == Done(n)
<1>1. cam \in CamType /\ ctx \in CtxType /\ State \in Streams
  BY StateParts DEF Whole
<1>2. cam.running /\ Sizes(cam) /\ cam.refill < r /\ cam.refill \in Nat
  BY <1>1, StateParts DEF Whole, CamType
<1>3. /\ ctx.events \in Seq(Nat) /\ n \in Nat /\ Tail(ctx.events) \in Seq(Nat)
      /\ p \in Nat /\ p > 0 /\ r \in 1..2 /\ cam.acked \in Nat /\ cam.acked < p /\ cam.refill \in Slots
  BY <1>1, <1>2 DEF CamType, CtxType, Sizes, Slots
<1>4. r * p \in Nat /\ Clamped(n) \in Nat /\ Clamped(n) <= r * p /\ Clamped(n) <= n
  <2>1. r * p \in Nat BY <1>3
  <2> QED BY <2>1, <1>3 DEF Clamped
<1>5. /\ d \in 0..2 /\ m % p \in Nat /\ m % p < p /\ m = d * p + (m % p) /\ d * p \in Nat
  <2> DEFINE k == Clamped(n)
  <2>1. d = m \div p BY DEF Done
  <2> HIDE DEF k, p, r, d
  <2>2. /\ m \div p \in 0..2 /\ m % p \in Nat /\ m % p < p
        /\ m = (m \div p) * p + (m % p) /\ (m \div p) * p \in Nat
    BY <1>3, <1>4, FramesDone DEF k
  <2> QED BY <2>1, <2>2
<1>6. /\ x.cam = [cam EXCEPT !.acked = m % p] /\ x.ctx = [ctx EXCEPT !.events = Tail(ctx.events)]
      /\ x = [cam |-> x.cam, ctx |-> x.ctx]
  <2>1. x = [State EXCEPT !.ctx.events = Tail(ctx.events), !.cam.acked = m % p]
    BY StateParts
  <2> HIDE DEF x, m, p
  <2> QED BY <2>1, <1>1, StateParts, SetAcked DEF Streams
<1>7. \/ /\ cam.oneshot /\ d > 0
         /\ cam' = IsoStop(x).cam /\ ctx' = IsoStop(x).ctx
      \/ /\ ~(cam.oneshot /\ d > 0)
         /\ \E t \in Takes(d, p) :
              LET y == Refilled(x, cam.refill, t)
              IN  /\ cam' = [y.cam EXCEPT !.refill = (@ + d) % r]
                  /\ ctx' = y.ctx
  BY <1>2 DEF Interrupt
<1> HIDE DEF n, p, r, m, x, d
<1>8. /\ x.cam \in CamType /\ x.cam.ppf = p /\ x.cam.ring = r /\ x.cam.refill = cam.refill
      /\ x.cam.running /\ x.cam.oneshot = cam.oneshot /\ x.cam.next = cam.next
      /\ x.cam.image = cam.image /\ x.cam.acked = m % p
  <2> DEFINE v == m % p
  <2>1. v \in Nat /\ x.cam = [cam EXCEPT !.acked = v] BY <1>5, <1>6
  <2> HIDE DEF v
  <2>2. x.cam \in CamType BY <2>1, <1>1 DEF CamType
  <2>3. /\ x.cam.ppf = cam.ppf /\ x.cam.ring = cam.ring /\ x.cam.refill = cam.refill
        /\ x.cam.running = cam.running /\ x.cam.oneshot = cam.oneshot /\ x.cam.next = cam.next
        /\ x.cam.image = cam.image /\ x.cam.acked = v
    BY <2>1, <1>1 DEF CamType
  <2> QED BY <2>2, <2>3, <1>2 DEF p, r, v
<1>9. /\ x.ctx \in CtxType /\ x.ctx.queue = ctx.queue /\ x.ctx.count = ctx.count
      /\ x.ctx.events = Tail(ctx.events) /\ x.ctx.clean = ctx.clean
  BY <1>1, <1>3, <1>6 DEF CtxType
<1>10. x \in Streams
  BY <1>6, <1>8, <1>9 DEF Streams
<1>11. Sizes(x.cam)
  BY <1>2, <1>5, <1>8 DEF Sizes, p, r
<1>12. CASE cam' = IsoStop(x).cam /\ ctx' = IsoStop(x).ctx
  <2>1. Whole(IsoStop(x)) BY <1>10, StopWhole
  <2>2. IsoStop(x) = [cam |-> cam', ctx |-> ctx'] BY <2>1, <1>12 DEF Whole, Streams
  <2> QED BY <2>1, <2>2, StatePrimed
<1>13. ASSUME ~(cam.oneshot /\ d > 0), NEW t \in Takes(d, p), NEW y, y = Refilled(x, cam.refill, t),
              cam' = [y.cam EXCEPT !.refill = (@ + d) % r], ctx' = y.ctx
       PROVE  Whole(State)'
  <2> DEFINE z == [cam |-> cam', ctx |-> ctx']
  <2>1. /\ Moves(x, y) /\ (d = 0 => y = x) /\ Sizes(y.cam)
        /\ \A owed \in Nat : Lined(x, cam.refill, owed) /\ d * p <= owed =>
             Lined(y, (cam.refill + d) % r, owed - d * p)
    BY <1>2, <1>3, <1>5, <1>8, <1>10, <1>11, <1>13, RefilledWhole DEF r, p
  <2>2. /\ y \in Streams /\ y.cam.ring = r /\ y.cam.ppf = p /\ y.cam.acked = m % p
        /\ y.cam.refill = cam.refill /\ y.cam.running /\ y.cam.oneshot = cam.oneshot
        /\ y.ctx.events = Tail(ctx.events) /\ y.ctx.count = ctx.count /\ y.ctx.clean = ctx.clean
    BY <2>1, <1>8, <1>9, <1>10, MovesKeeps
  <2>3. y.cam \in CamType /\ y.ctx \in CtxType BY <2>2 DEF Streams
  <2>4. (cam.refill + d) % r \in Nat /\ (cam.refill + d) % r < r
    <3>1. d \in Nat /\ cam.refill \in Nat BY <1>2, <1>5
    <3>2. r \in Nat /\ r > 0 BY <1>3
    <3> DEFINE k == cam.refill + d
    <3>3. k \in Nat BY <3>1
    <3> HIDE DEF k
    <3>4. k % r \in Nat /\ k % r < r BY <3>2, <3>3
    <3> QED BY <3>4 DEF k
  <2>5. cam' = [y.cam EXCEPT !.refill = (cam.refill + d) % r] BY <1>13, <2>2
  <2>6. /\ cam' \in CamType /\ cam'.refill = (cam.refill + d) % r /\ cam'.running
        /\ cam'.ring = r /\ cam'.ppf = p /\ cam'.acked = m % p /\ cam'.oneshot = cam.oneshot
        /\ cam'.next = y.cam.next /\ cam'.image = y.cam.image
    BY <2>2, <2>3, <2>4, <2>5 DEF CamType
  <2>7. z \in Streams /\ z.cam = cam' /\ z.ctx = ctx' /\ ctx' = y.ctx
    BY <1>13, <2>3, <2>6 DEF Streams
  <2> HIDE DEF z
  <2>8. Sizes(z.cam) BY <2>1, <2>2, <2>6, <2>7 DEF Sizes
  <2>9. ASSUME ctx.clean PROVE Fed(z)
    <3>1. PICK owed \in Nat : Lined(State, cam.refill, owed) /\ Owes(State, owed)
      BY <1>2, <2>9, StateParts DEF Whole, Fed
    <3>2. Lined(x, cam.refill, owed)
      BY <3>1, <1>8, <1>9, StateParts, LinedFrame DEF p, r
    <3>3. PICK total \in Nat : Tallied(ctx.events, total) /\ cam.acked + ctx.count + total <= owed
      BY <3>1, StateParts DEF Owes
    <3>4. PICK rest \in Nat : Tallied(Tail(ctx.events), rest) /\ total = n + rest
      BY <3>3, <1>3, TallyLess DEF n
    <3>5. ctx.count \in Nat BY <1>1 DEF CtxType
    <3>6. m <= cam.acked + n /\ m \in Nat BY <1>3, <1>4 DEF m
    <3>7. /\ d * p <= owed /\ owed - d * p \in Nat
          /\ (m % p) + ctx.count + rest <= owed - d * p
      <4>1. m + ctx.count + rest <= owed BY <3>3, <3>4, <3>5, <3>6, <1>3
      <4> QED BY <4>1, <3>4, <3>5, <3>6, <1>5, StillOwed
    <3>8. Lined(y, (cam.refill + d) % r, owed - d * p) BY <2>1, <3>2, <3>7
    <3>9. Lined(z, z.cam.refill, owed - d * p)
      BY <3>8, <2>2, <2>6, <2>7, LinedFrame
    <3>10. Owes(z, owed - d * p)
      BY <3>4, <3>7, <2>2, <2>6, <2>7 DEF Owes
    <3> QED BY <3>7, <3>9, <3>10 DEF Fed
  <2>10. ASSUME ctx.clean, cam.oneshot PROVE z.cam.next = 1
    <3>1. d = 0 BY <2>10, <1>13, <1>5
    <3>2. y = x BY <3>1, <2>1
    <3>3. cam.next = 1 BY <2>10, <1>2, StateParts DEF Whole
    <3> QED BY <3>2, <3>3, <1>8, <2>6, <2>7
  <2>11. Whole(z)
    BY <2>2, <2>4, <2>6, <2>7, <2>8, <2>9, <2>10 DEF Whole
  <2> QED BY <2>11, StatePrimed DEF z
<1> QED BY <1>7, <1>12, <1>13

LEMMA InitWhole == Init => Whole(State)
<1> SUFFICES ASSUME Init PROVE Whole(State)
  OBVIOUS
<1>1. PICK m \in Modes :
        cam = [fd |-> NoFd, created |-> FALSE, mapped |-> FALSE, running |-> FALSE,
               oneshot |-> FALSE, mode |-> m, ppf |-> 0, ring |-> 0, acked |-> 0,
               refill |-> 0, next |-> 0, image |-> NoImages]
  BY DEF Init
<1>2. ctx = NoContext
  BY DEF Init
<1>3. NoImages \in [Slots -> Nat]
  BY DEF NoImages
<1>4. cam \in CamType /\ ~cam.running
  <2>1. NoFd \in Fds \cup {NoFd} /\ 0 \in 0..2 /\ 0 \in Nat OBVIOUS
  <2> QED BY <1>1, <1>3, <2>1 DEF CamType
<1>5. ~ctx.on /\ ctx.events = <<>> /\ ctx.count = 0 /\ ctx.queue = <<>>
  BY <1>2 DEF NoContext
<1>6. State \in Streams
  BY <1>2, <1>4, EmptyContext, StateParts
<1> QED BY <1>4, <1>5, <1>6, StateParts, RestWhole

LEMMA NextWhole == Whole(State) /\ [Next]_vars => Whole(State)'
<1> SUFFICES ASSUME Whole(State), [Next]_vars PROVE Whole(State)'
  OBVIOUS
<1>1. ASSUME UNCHANGED <<cam, ctx>> PROVE Whole(State)'
  <2>1. State' = State BY <1>1 DEF State
  <2> QED BY <2>1
<1>2. CASE Transmit
  BY <1>2, TransmitWhole
<1>3. CASE ContextDies
  BY <1>3, ContextDiesWhole
<1>4. CASE RegisterWrite
  BY <1>4, RegisterWhole
<1>5. CASE IsoEvent
  <2>1. CASE cam' = IsoStop(State).cam /\ ctx' = IsoStop(State).ctx
    <3>1. Whole(IsoStop(State))
      <4>1. State \in Streams BY DEF Whole
      <4> QED BY <4>1, StopWhole
    <3>2. IsoStop(State) = [cam |-> cam', ctx |-> ctx'] BY <3>1, <2>1 DEF Whole, Streams
    <3> QED BY <3>1, <3>2, StatePrimed
  <2>2. CASE ctx.events # <<>> /\ Interrupt(Head(ctx.events))
    BY <2>2, InterruptWhole
  <2> QED BY <1>1, <1>5, <2>1, <2>2 DEF IsoEvent
<1>6. CASE Poll
  BY <1>1, <1>6 DEF Poll
<1>7. CASE WriteTriggerMode
  BY <1>1, <1>7 DEF WriteTriggerMode
<1>8. CASE Disarm
  BY <1>1, <1>8 DEF Disarm
<1>9. CASE Request \/ Pulse \/ CountPulse
  BY <1>1, <1>9 DEF Request, Pulse, CountPulse
<1>10. CASE UNCHANGED vars
  BY <1>1, <1>10 DEF vars
<1> QED BY <1>2, <1>3, <1>4, <1>5, <1>6, <1>7, <1>8, <1>9, <1>10 DEF Next, Loop

LEMMA OnceAround ==
  ASSUME NEW k \in Nat, NEW w \in Nat, w > 0, k < 2 * w
  PROVE  k % w = IF k < w THEN k ELSE k - w
<1>1. CASE k < w
  BY <1>1
<1>2. CASE k >= w
  <2>1. k - w \in Nat /\ k - w < w /\ k = 1 * w + (k - w) BY <1>2
  <2>2. k % w = k - w BY <2>1
  <2> QED BY <1>2, <2>2
<1> QED BY <1>1, <1>2

(* Frames one fill apart have images one apart.                             *)
LEMMA FollowingImage ==
  ASSUME NEW a \in Nat, NEW b \in Nat, NEW n \in Nat, a < FrameWrap, b < FrameWrap,
         (a + 1 + 1) % FrameWrap = n, (b + 1 + 0) % FrameWrap = n
  PROVE  b = (a + 1) % FrameWrap
<1> DEFINE w == FrameWrap
<1>1. w \in Nat /\ w > 2
  BY FakeCameraAssumption
<1> HIDE DEF w
<1>3. (a + 1) % w \in Nat /\ a + 2 < 2 * w /\ b + 1 < 2 * w /\ a + 1 + 1 = a + 2 /\ b + 1 + 0 = b + 1
  BY <1>1 DEF w
<1>4. (a + 2) % w = (b + 1) % w
  BY <1>3 DEF w
<1>5. a < w /\ b < w
  BY DEF w
<1>6. /\ (a + 2) % w = IF a + 2 < w THEN a + 2 ELSE a + 2 - w
      /\ (a + 1) % w = IF a + 1 < w THEN a + 1 ELSE a + 1 - w
      /\ (b + 1) % w = IF b + 1 < w THEN b + 1 ELSE b + 1 - w
  <2>1. /\ a + 2 \in Nat /\ a + 1 \in Nat /\ b + 1 \in Nat
        /\ a + 2 < 2 * w /\ a + 1 < 2 * w /\ b + 1 < 2 * w
    BY <1>1, <1>5
  <2>2. w > 0 BY <1>1
  <2>3. (a + 2) % w = IF a + 2 < w THEN a + 2 ELSE a + 2 - w
    BY <2>1, <2>2, <1>1, OnceAround
  <2>4. (a + 1) % w = IF a + 1 < w THEN a + 1 ELSE a + 1 - w
    BY <2>1, <2>2, <1>1, OnceAround
  <2>5. (b + 1) % w = IF b + 1 < w THEN b + 1 ELSE b + 1 - w
    BY <2>1, <2>2, <1>1, OnceAround
  <2> QED BY <2>3, <2>4, <2>5
<1> DEFINE u == (a + 2) % w
           t == (a + 1) % w
           v == (b + 1) % w
<1>7. /\ u = IF a + 2 < w THEN a + 2 ELSE a + 2 - w
      /\ t = IF a + 1 < w THEN a + 1 ELSE a + 1 - w
      /\ v = IF b + 1 < w THEN b + 1 ELSE b + 1 - w
      /\ u = v
  BY <1>4, <1>6
<1> HIDE DEF u, t, v
<1>8. b = t
  BY <1>1, <1>5, <1>7
<1>9. b = (a + 1) % w
  BY <1>8 DEF t
<1> QED BY <1>9 DEF w

(* Until its last packet is out a queued frame keeps the image it was queued *)
(* with, and frames follow one another without a gap, however the kernel     *)
(* reports its packets (dcam_on_iso_interrupt, iso_queue_frame).             *)
THEOREM FramesWholeAlways == Spec => []FramesWhole
<1>1. Whole(State) => FramesWhole
  <2> SUFFICES ASSUME Whole(State), cam.running, ctx.clean
               PROVE  /\ \A i \in DOMAIN ctx.queue : cam.image[ctx.queue[i].slot] = ctx.queue[i].image
                      /\ cam.oneshot => cam.next = 1
                      /\ \A i \in DOMAIN ctx.queue : i > 1 =>
                           ctx.queue[i].image = (ctx.queue[i-1].image + 1) % FrameWrap
    BY DEF FramesWhole
  <2> DEFINE q == ctx.queue
             A(i) == Age(cam, cam.refill, q[i].slot)
  <2>1. cam \in CamType /\ q \in Seq(Frame) /\ cam.next \in Nat /\ cam.refill \in Nat
    BY StateParts DEF Whole, CamType, CtxType
  <2>2. Fed(State) /\ (cam.oneshot => cam.next = 1) /\ Sizes(cam) /\ cam.refill < cam.ring
    BY StateParts DEF Whole
  <2>3. PICK owed \in Nat : Lined(State, cam.refill, owed)
    BY <2>2, StateParts DEF Fed
  <2>4. \A i \in DOMAIN q :
          /\ q[i] \in Frame /\ q[i].slot \in Slots /\ q[i].image \in Nat /\ q[i].slot < cam.ring
          /\ cam.image[q[i].slot] = q[i].image /\ q[i].image < FrameWrap
          /\ (q[i].image + 1 + A(i)) % FrameWrap = cam.next
    <3>1. \A i \in DOMAIN q : q[i] \in Frame BY <2>1
    <3> QED BY <2>3, <3>1, StateParts DEF Lined, Frame
  <2>5. \A i, j \in DOMAIN q : i < j => A(i) > A(j)
    BY <2>3, StateParts DEF Lined
  <2>6. \A i \in DOMAIN q : A(i) \in 0..1
    <3>1. cam.ring \in 1..2 BY <2>2 DEF Sizes
    <3> QED BY <3>1, <2>1, <2>2, <2>4, AgeFacts
  <2> HIDE DEF A
  <2>7. ASSUME NEW i \in DOMAIN q, i > 1 PROVE q[i].image = (q[i-1].image + 1) % FrameWrap
    <3>1. i - 1 \in DOMAIN q /\ i - 1 < i BY <2>1, <2>7
    <3>2. A(i-1) > A(i) BY <3>1, <2>5, <2>7
    <3>3. A(i-1) = 1 /\ A(i) = 0 BY <3>1, <3>2, <2>6, <2>7
    <3>4. /\ (q[i-1].image + 1 + 1) % FrameWrap = cam.next /\ (q[i].image + 1 + 0) % FrameWrap = cam.next
          /\ q[i-1].image \in Nat /\ q[i].image \in Nat
          /\ q[i-1].image < FrameWrap /\ q[i].image < FrameWrap
      BY <3>1, <3>3, <2>4
    <3> HIDE DEF q
    <3> QED BY <3>4, <2>1, FollowingImage
  <2> QED BY <2>2, <2>4, <2>7
<1> QED BY InitWhole, NextWhole, <1>1, PTL DEF Spec
=============================================================================
