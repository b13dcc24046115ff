-------------------------- MODULE IoctlRingProofs --------------------------
(***************************************************************************)
(* Proofs about the capture slot of the IOCTL interface, for every length  *)
(* of the ring, number of descriptors and set of handles, events,          *)
(* processors and faults.  The invariant has a part for each thing that    *)
(* moves: the places of the request, the order at the bus, the holder of   *)
(* each frame, the pages and indices of the ring, and the pump election.   *)
(***************************************************************************)
EXTENDS IoctlRing, TLAPS, FiniteSetTheorems, SequenceTheorems

(* The places of a request: while an engine drains, once it is still, where *)
(* it calls the pump, and where it goes on after the call.                  *)
Drains == {"isochStop", "claim", "drain", "pumpIdle"}
Still == {"free", "release", "unmap", "create", "lock"}
Calls == {"pumpRequeued", "pumpStarted", "pumpMapped"}
Returns == {"engineStart", "arm", "enable", "mapped"}
Places == {"idle", "stop", "quiesce"} \cup Drains \cup Still \cup Calls \cup Returns

SlotTypes ==
  /\ owner \in Handle \cup {NoHandle} /\ oneShot \in BOOLEAN /\ pumpRing \in BOOLEAN
  /\ running \in BOOLEAN
FrameTypes == mdl \in [Idx -> BOOLEAN] /\ mapped \in 0 .. Ring /\ pins \in Nat
TurnTypes ==
  /\ fs \in [Idx -> {"queued", "inflight", "delivered"}]
  /\ next \in Idx /\ current \in Idx \cup {NoFrame}
EventTypes == countdown \in [Event -> 0 .. Ring]
EngineTypes ==
  /\ draining \in BOOLEAN /\ line \in Seq(Idx)
  /\ bus \in [Idx -> {"none", "attaching", "attached", "filled", "cancelled", "held"}]
PumpTypes ==
  /\ runner \in Thread \cup {NoThread} /\ again \in BOOLEAN
  /\ lapIdx \in Idx /\ lapCount \in 0 .. Descs
  /\ lap \in {"none", "begin", "claim", "acquire", "publish", "handBack", "end"}
DpcTypes ==
  /\ dpc \in [Cpu -> {"idle", "delivered", "cancelled", "dropped", "signal", "pump", "done"}]
  /\ dpcIdx \in [Cpu -> Idx] /\ stalled \in BOOLEAN
CtlTypes == ctl \in Places /\ client \in Handle \cup {NoHandle} /\ want \in 0 .. Ring + 1
CamTypes == armed \in BOOLEAN /\ iso \in BOOLEAN
DevTypes == removed \in BOOLEAN /\ gone \in BOOLEAN
Types ==
  /\ SlotTypes /\ FrameTypes /\ TurnTypes /\ EventTypes /\ EngineTypes
  /\ PumpTypes /\ DpcTypes /\ CtlTypes /\ CamTypes /\ DevTypes

(* No frame is on its way through the bus or a completion.                  *)
QuietBus ==
  /\ \A i \in Idx : bus[i] \in {"none", "held"}
  /\ \A c \in Cpu : dpc[c] = "idle"

(* Where a request may be, and what the engine is doing meanwhile: settled  *)
(* outside the places that drain it, and silent as long as no ring is       *)
(* mapped, for a lap acquires nothing.                                      *)
Settled == mapped = 0 \/ (draining /\ ctl \notin Drains)
PlacesInv ==
  /\ runner = Ctl => ctl \in Returns
  /\ ctl \in Drains \cup {"free", "release", "create"} => draining
  /\ ctl \in {"pumpStarted", "enable", "quiesce"} => ~draining /\ ~running
  /\ ctl \notin {"stop", "pumpStarted", "enable", "quiesce"} => (running <=> ~draining)
  /\ running => ~draining
  /\ owner = NoHandle => draining /\ ctl \in {"idle", "stop", "create"}
  /\ ctl = "create" => owner = NoHandle
  /\ by = "prepare" => client \in Handle
  /\ ctl = "create" => by = "prepare"
  /\ Settled \/ ctl \in Still \cup {"pumpIdle"} => QuietBus
  /\ Settled => ~LapHolds /\ runner \notin Cpu
  /\ draining /\ ctl \notin Drains => lap # "acquire"
  /\ ctl \in Still => runner = NoThread
  /\ lap = "handBack" => draining
  /\ draining \/ ctl \in {"pumpStarted", "enable", "quiesce"} => ~iso
  /\ running => (iso <=> ~oneShot)

(* The order at the bus lists each buffer that is at the bus once.          *)
LineInv ==
  /\ \A m, n \in 1 .. Len(line) : line[m] = line[n] => m = n
  /\ \A i \in Idx : i \in AtBus <=> \E n \in 1 .. Len(line) : line[n] = i

(* A completion carries a frame until it has delivered it.                  *)
Carries(c, i) == dpc[c] \in {"delivered", "cancelled", "dropped"} /\ dpcIdx[c] = i

(* A frame is in flight exactly while somebody holds it, and one at a time. *)
HoldersInv ==
  /\ \A i \in Idx : fs[i] = "inflight" <=>
       bus[i] # "none" \/ (LapHolds /\ lapIdx = i) \/ \E c \in Cpu : Carries(c, i)
  /\ LapHolds => bus[lapIdx] = "none"
  /\ \A i \in Idx, c \in Cpu : Carries(c, i) => bus[i] = "none" /\ ~(LapHolds /\ lapIdx = i)
  /\ \A i \in Idx, b, c \in Cpu : Carries(b, i) /\ Carries(c, i) => b = c

(* What is held lies in the mapped ring, unless quarantined, and is locked. *)
RingInv ==
  /\ current < mapped /\ (mapped # 0 => next < mapped)
  /\ \A i \in Idx : bus[i] \notin {"none", "held"} \/ fs[i] = "delivered" => i < mapped
  /\ LapHolds => lapIdx < mapped
  /\ \A c \in Cpu, i \in Idx : Carries(c, i) => i < mapped
  /\ \A i \in Idx : bus[i] # "none" \/ i < mapped => mdl[i]
  /\ ~oneShot /\ pumpRing => \A i \in Idx : fs[i] # "delivered"

(* What is charged is what is locked; a map locks the frames in order; and  *)
(* a slot that is gone has left nothing.                                    *)
Locked == {i \in Idx : mdl[i]}
ChargeInv ==
  /\ pins = Cardinality(Locked)
  /\ ctl = "lock" =>
       /\ mapped = 0 /\ next = 0 /\ current = NoFrame /\ want \in 1 .. Ring /\ Held = {}
       /\ \E n \in 0 .. want : \A i \in Idx : mdl[i] <=> i < n
  /\ owner = NoHandle => mapped = 0 /\ Locked = {} /\ \A e \in Event : countdown[e] = 0

(* The descriptors a lap has claimed are still busy unless somebody is to   *)
(* pump again, so a lap that runs out of laps has run out of descriptors,   *)
(* and one that ends unasked leaves nothing to attach.  Only an attach that *)
(* failed, or a drain, takes a frame off the bus without a pump to follow.  *)
Busy == {i \in Idx : bus[i] # "none"}
Claimed == IF lap \in {"acquire", "publish"} THEN 1 ELSE 0
Coming == \/ ctl \in Calls
          \/ \E c \in Cpu : dpc[c] \in {"delivered", "cancelled", "signal", "pump"}
Fed == FreeDescs = 0 \/ \A i \in Idx : ~Acquire(i)
Stirred == draining \/ stalled \/ Coming
Asked == again \/ Stirred
PumpInv ==
  /\ runner = NoThread <=> lap = "none"
  /\ Cardinality(Busy) + Claimed <= Descs
  /\ lap \in {"claim", "acquire", "publish"} /\ ~Asked => lapCount <= Cardinality(Busy) + Claimed
  /\ lap = "end" /\ ~Asked => Fed
  /\ lap = "none" /\ ~Stirred /\ ctl # "unmap" => Fed

RingIInv ==
  Types /\ PlacesInv /\ LineInv /\ HoldersInv /\ RingInv /\ ChargeInv /\ PumpInv

-----------------------------------------------------------------------------
(* Arithmetic of the ring.                                                  *)

LEMMA IdxFacts ==
  /\ Ring \in Nat \ {0} /\ Descs \in Nat \ {0} /\ Idx \subseteq Nat /\ 0 \in Idx
  /\ \A n \in Nat : n < Ring <=> n \in Idx
  /\ NoFrame \notin Idx /\ NoFrame < 0
  /\ IsFiniteSet(Idx) /\ Cardinality(Idx) = Ring
  BY RingAssumption, FS_Interval DEF Idx, NoFrame

LEMMA NextIdx ==
  ASSUME NEW i \in Idx, NEW m \in 1 .. Ring, i < m
  PROVE  (i + 1) % m \in 0 .. m - 1
  BY IdxFacts

(* A set of frames is finite, and grows and shrinks by the frames it gets   *)
(* and loses.                                                               *)
LEMMA SetOfIdx ==
  ASSUME NEW S \in SUBSET Idx
  PROVE  IsFiniteSet(S) /\ Cardinality(S) \in Nat
  BY IdxFacts, FS_Subset, FS_CardinalityType

LEMMA SetWith ==
  ASSUME NEW S \in SUBSET Idx, NEW i \in Idx, i \notin S
  PROVE  Cardinality(S \cup {i}) = Cardinality(S) + 1
  BY SetOfIdx, FS_AddElement

LEMMA SetWithout ==
  ASSUME NEW S \in SUBSET Idx, NEW i \in S
  PROVE  Cardinality(S \ {i}) = Cardinality(S) - 1
  BY SetOfIdx, FS_RemoveElement

LEMMA EmptyIdx == \A S \in SUBSET Idx : Cardinality(S) = 0 <=> S = {}
  BY SetOfIdx, FS_EmptySet

(* The first n frames of the ring. *)
LEMMA FirstFrames ==
  ASSUME NEW n \in 0 .. Ring, NEW S, S = {i \in Idx : i < n}
  PROVE  Cardinality(S) = n
  <1>1. S = 0 .. n - 1
    BY IdxFacts DEF Idx
  <1>2. n \in Nat /\ n - 1 \in Int
    BY RingAssumption
  <1>3. Cardinality(0 .. n - 1) = IF 0 > n - 1 THEN 0 ELSE (n - 1) - 0 + 1
    BY <1>2, FS_Interval
  <1>4. Cardinality(0 .. n - 1) = n
    BY <1>2, <1>3
  <1> QED
    BY <1>1, <1>4

-----------------------------------------------------------------------------
(* Type correctness.                                                        *)

LEMMA InitTypes == Init => Types
  BY IdxFacts, EmptySeq DEF Init, Types, SlotTypes, FrameTypes, TurnTypes, EventTypes, EngineTypes,
     PumpTypes, DpcTypes, CtlTypes, CamTypes, DevTypes, Places, Thread, NoFrame


LEMMA TypeFrame ==
  ASSUME Types
  PROVE  /\ UNCHANGED slotVars => SlotTypes'
         /\ UNCHANGED frameVars => FrameTypes'
         /\ UNCHANGED <<fs, next, current>> => TurnTypes'
         /\ UNCHANGED ringVars => FrameTypes' /\ TurnTypes'
         /\ UNCHANGED countdown => EventTypes'
         /\ UNCHANGED engVars => EngineTypes'
         /\ UNCHANGED pumpVars => PumpTypes'
         /\ UNCHANGED dpcVars => DpcTypes'
         /\ UNCHANGED ctlVars => CtlTypes'
         /\ UNCHANGED camVars => CamTypes'
         /\ UNCHANGED devVars => DevTypes'
  <1>1. UNCHANGED slotVars => SlotTypes'
    BY DEF Types, SlotTypes, slotVars
  <1>2. UNCHANGED frameVars => FrameTypes'
    BY DEF Types, FrameTypes, frameVars
  <1>3. UNCHANGED <<fs, next, current>> => TurnTypes'
    BY DEF Types, TurnTypes
  <1>4. UNCHANGED ringVars => FrameTypes' /\ TurnTypes'
    BY <1>2, <1>3 DEF ringVars
  <1>5. UNCHANGED countdown => EventTypes'
    BY DEF Types, EventTypes
  <1>6. UNCHANGED engVars => EngineTypes'
    BY DEF Types, EngineTypes, engVars
  <1>7. UNCHANGED pumpVars => PumpTypes'
    BY DEF Types, PumpTypes, pumpVars
  <1>8. UNCHANGED dpcVars => DpcTypes'
    BY DEF Types, DpcTypes, dpcVars
  <1>9. UNCHANGED ctlVars => CtlTypes'
    BY DEF Types, CtlTypes, ctlVars
  <1>10. UNCHANGED camVars => CamTypes'
    BY DEF Types, CamTypes, camVars
  <1>11. UNCHANGED devVars => DevTypes'
    BY DEF Types, DevTypes, devVars
  <1> QED
    BY <1>1, <1>2, <1>3, <1>4, <1>5, <1>6, <1>7, <1>8, <1>9, <1>10, <1>11

LEMMA LapTypes ==
  ASSUME RingIInv, Lap
  PROVE  Types'
  <1> USE TypeFrame DEF Types, RingIInv
  <1>1. UNCHANGED OutsideLap
    BY DEF Lap, LapBegin, LapClaim, LapAcquire, LapPublish, LapHandBack, LapEnd, OutsideLap
  <1>2. /\ SlotTypes' /\ FrameTypes' /\ EventTypes' /\ DpcTypes' /\ CtlTypes' /\ CamTypes'
        /\ DevTypes' /\ current' = current
    BY <1>1 DEF OutsideLap
  <1>3. CASE LapBegin
    <2>1. lapCount' \in 0 .. Descs
      BY <1>3, IdxFacts DEF LapBegin
    <2>2. PumpTypes'
      BY <1>3, <2>1 DEF LapBegin, LapStep, PumpTypes
    <2> QED
      BY <1>2, <1>3, <2>2 DEF LapBegin
  <1>4. CASE LapClaim
    <2>1. lapCount' \in 0 .. Descs
      BY <1>4, IdxFacts DEF LapClaim, LapStep, PumpTypes
    <2>2. PumpTypes'
      BY <1>4, <2>1 DEF LapClaim, LapStep, PumpTypes
    <2> QED
      BY <1>2, <1>4, <2>2 DEF LapClaim
  <1>5. CASE LapAcquire
    <2>1. CASE UNCHANGED <<fs, next, lapIdx>>
      <3>1. PumpTypes'
        BY <1>5, <2>1 DEF LapAcquire, LapStep, PumpTypes
      <3> QED
        BY <1>2, <1>5, <2>1, <3>1 DEF LapAcquire
    <2>2. ASSUME NEW i \in Idx, Acquire(i), LapStep("acquire", "publish"), lapIdx' = i,
                 fs' = [fs EXCEPT ![i] = "inflight"], next' = (i + 1) % mapped,
                 UNCHANGED <<engVars, runner, again, lapCount>>
          PROVE  Types'
      <3>1. mapped \in 1 .. Ring /\ i < mapped
        BY <2>2, IdxFacts DEF Acquire, RingInv, FrameTypes
      <3>2. next' \in Idx
        BY <2>2, <3>1, NextIdx, IdxFacts DEF Idx
      <3>3. TurnTypes'
        BY <1>2, <2>2, <3>2 DEF TurnTypes
      <3>4. PumpTypes'
        BY <2>2 DEF LapStep, PumpTypes
      <3> QED
        BY <1>2, <2>2, <3>3, <3>4
    <2> QED
      BY <1>5, <2>1, <2>2 DEF LapAcquire
  <1>6. CASE LapPublish
    <2>1. CASE draining
      BY <1>2, <1>6, <2>1 DEF LapPublish, LapStep, PumpTypes, TurnTypes
    <2>2. CASE ~draining
      <3>1. line' \in Seq(Idx) /\ lapIdx \in Idx
        BY <1>6, <2>2, AppendProperties DEF LapPublish, EngineTypes, PumpTypes
      <3>2. EngineTypes'
        BY <1>6, <2>2, <3>1 DEF LapPublish, EngineTypes
      <3>3. PumpTypes'
        BY <1>6, <2>2, IdxFacts DEF LapPublish, LapStep, PumpTypes
      <3> QED
        BY <1>2, <1>6, <3>2, <3>3 DEF LapPublish
    <2> QED
      BY <2>1, <2>2
  <1>7. CASE LapHandBack
    <2>1. TurnTypes'
      BY <1>2, <1>7 DEF LapHandBack, TurnTypes
    <2>2. PumpTypes'
      BY <1>7, IdxFacts DEF LapHandBack, LapStep, PumpTypes
    <2> QED
      BY <1>2, <1>7, <2>1, <2>2 DEF LapHandBack
  <1>8. CASE LapEnd
    <2>1. PumpTypes'
      BY <1>8, IdxFacts DEF LapEnd, LapStep, PumpTypes
    <2> QED
      BY <1>2, <1>8, <2>1 DEF LapEnd
  <1> QED
    BY <1>3, <1>4, <1>5, <1>6, <1>7, <1>8 DEF Lap

(* Taking one out of a sequence leaves a sequence. *)
LEMMA LineRemove ==
  ASSUME line \in Seq(Idx), NEW n \in DOMAIN line
  PROVE  /\ RemoveAt(line, n) \in Seq(Idx) /\ Len(RemoveAt(line, n)) = Len(line) - 1
         /\ \A k \in 1 .. Len(line) - 1 :
              RemoveAt(line, n)[k] = IF k < n THEN line[k] ELSE line[k + 1]
  <1>1. Len(line) \in Nat /\ n \in 1 .. Len(line) /\ \A k \in 1 .. Len(line) : line[k] \in Idx
    BY LenProperties, ElementOfSeq
  <1> DEFINE a == SubSeq(line, 1, n - 1)
             b == SubSeq(line, n + 1, Len(line))
  <1>2. a \in Seq(Idx) /\ Len(a) = n - 1 /\ \A k \in 1 .. n - 1 : a[k] = line[k]
    <2>1. \A k \in 1 .. n - 1 : line[k] \in Idx
      BY <1>1
    <2> QED
      BY <1>1, <2>1, SubSeqProperties
  <1>3. b \in Seq(Idx) /\ Len(b) = Len(line) - n /\ \A k \in 1 .. Len(line) - n : b[k] = line[n + k]
    <2>1. \A k \in n + 1 .. Len(line) : line[k] \in Idx
      BY <1>1
    <2> QED
      BY <1>1, <2>1, SubSeqProperties
  <1> HIDE DEF a, b
  <1>4. /\ a \o b \in Seq(Idx) /\ Len(a \o b) = Len(a) + Len(b)
        /\ \A k \in 1 .. Len(a) + Len(b) : (a \o b)[k] = IF k <= Len(a) THEN a[k] ELSE b[k - Len(a)]
    BY <1>2, <1>3, ConcatProperties
  <1>5. RemoveAt(line, n) = a \o b
    BY DEF RemoveAt, a, b
  <1> DEFINE r == RemoveAt(line, n)
  <1>6. r \in Seq(Idx) /\ Len(r) = Len(line) - 1
    BY <1>1, <1>2, <1>3, <1>4, <1>5
  <1>7. ASSUME NEW k \in 1 .. Len(line) - 1
        PROVE  r[k] = IF k < n THEN line[k] ELSE line[k + 1]
    <2>1. CASE k < n
      BY <1>1, <1>2, <1>3, <1>4, <1>5, <2>1
    <2>2. CASE k >= n
      <3>1. k - (n - 1) \in 1 .. Len(line) - n /\ n + (k - (n - 1)) = k + 1
        BY <1>1, <2>2
      <3>2. b[k - (n - 1)] = line[n + (k - (n - 1))]
        BY <1>3, <3>1
      <3>3. k \in 1 .. Len(a) + Len(b) /\ ~(k <= Len(a)) /\ k - Len(a) = k - (n - 1)
        BY <1>1, <1>2, <1>3, <2>2
      <3>4. (a \o b)[k] = b[k - (n - 1)]
        BY <1>4, <3>3
      <3> QED
        BY <1>1, <1>5, <2>2, <3>1, <3>2, <3>4
    <2> QED
      BY <1>1, <2>1, <2>2
  <1> QED
    BY <1>6, <1>7

LEMMA BusTypes ==
  ASSUME RingIInv, Bus
  PROVE  Types'
  <1> USE TypeFrame DEF Types, RingIInv
  <1>1. UNCHANGED OutsideBus
    BY DEF Bus, Frame, TriggerUnheard, AttachDone, AttachFailed, DetachDone, DetachFailed, Interrupt,
           OutsideBus, pumpVars
  <1>2. /\ SlotTypes' /\ FrameTypes' /\ TurnTypes' /\ EventTypes' /\ CtlTypes' /\ DevTypes'
        /\ PumpTypes'
    BY <1>1 DEF OutsideBus
  <1>3. CASE Frame
    <2>1. line' \in Seq(Idx) /\ Head(line) \in Idx
      BY <1>3, HeadTailProperties DEF Frame, EngineTypes
    <2>2. EngineTypes'
      BY <1>3, <2>1 DEF Frame, EngineTypes
    <2>3. CamTypes'
      BY <1>3 DEF Frame, CamTypes
    <2> QED
      BY <1>2, <1>3, <2>2, <2>3 DEF Frame
  <1>4. CASE TriggerUnheard
    BY <1>2, <1>4 DEF TriggerUnheard, CamTypes
  <1>5. ASSUME NEW i \in Idx, AttachDone(i) \/ DetachFailed(i) PROVE Types'
    <2>1. EngineTypes'
      BY <1>5 DEF AttachDone, DetachFailed, EngineTypes
    <2> QED
      BY <1>2, <1>5, <2>1 DEF AttachDone, DetachFailed
  <1>6. ASSUME NEW i \in Idx, NEW c \in Cpu, AttachFailed(c, i) \/ DetachDone(c, i) PROVE Types'
    <2>1. line' \in Seq(Idx)
      BY <1>6, LineRemove DEF AttachFailed, LeavesLine, DetachDone, EngineTypes
    <2>2. EngineTypes'
      BY <1>6, <2>1 DEF AttachFailed, DetachDone, Interrupt, EngineTypes
    <2>3. DpcTypes'
      BY <1>6 DEF AttachFailed, DetachDone, Interrupt, DpcTypes
    <2> QED
      BY <1>2, <1>6, <2>2, <2>3 DEF AttachFailed, DetachDone, Interrupt
  <1> QED
    BY <1>3, <1>4, <1>5, <1>6 DEF Bus

LEMMA CompletionTypes ==
  ASSUME RingIInv, Completion
  PROVE  Types'
  <1> USE TypeFrame DEF Types, RingIInv
  <1> SUFFICES ASSUME NEW c \in Cpu, DpcDeliver(c) \/ DpcSignal(c) \/ DpcPump(c) \/ DpcDone(c)
               PROVE  Types'
    BY DEF Completion
  <1>1. UNCHANGED OutsideDpc
    BY DEF DpcDeliver, DpcSignal, DpcPump, DpcDone, OutsideDpc
  <1>2. /\ SlotTypes' /\ FrameTypes' /\ EngineTypes' /\ CtlTypes' /\ CamTypes' /\ DevTypes'
        /\ next' = next
    BY <1>1 DEF OutsideDpc
  <1>3. CASE DpcDeliver(c)
    <2>1. DpcTypes'
      BY <1>3, IdxFacts DEF DpcDeliver, DpcTypes
    <2>2. TurnTypes'
      BY <1>2, <1>3 DEF DpcDeliver, SettledAs, DpcTypes, TurnTypes
    <2> QED
      BY <1>2, <1>3, <2>1, <2>2 DEF DpcDeliver
  <1>4. CASE DpcSignal(c)
    <2>1. EventTypes'
      BY <1>4, IdxFacts DEF DpcSignal, Countdown, EventTypes
    <2>2. DpcTypes'
      BY <1>4 DEF DpcSignal, DpcTypes
    <2> QED
      BY <1>2, <1>4, <2>1, <2>2 DEF DpcSignal
  <1>5. CASE DpcPump(c)
    <2>1. DpcTypes'
      BY <1>5 DEF DpcPump, PumpCall, DpcTypes
    <2>2. PumpTypes'
      BY <1>5 DEF DpcPump, PumpCall, PumpTypes, Thread
    <2> QED
      BY <1>2, <1>5, <2>1, <2>2 DEF DpcPump
  <1>6. CASE DpcDone(c)
    <2>1. DpcTypes'
      BY <1>6 DEF DpcDone, DpcTypes
    <2> QED
      BY <1>2, <1>6, <2>1 DEF DpcDone
  <1> QED
    BY <1>3, <1>4, <1>5, <1>6

(* What the requests do to the turns of the frames leaves them in their types. *)
LEMMA RequeueTypes ==
  ASSUME TurnTypes, Requeue, UNCHANGED <<next, current>>
  PROVE  TurnTypes'
  BY DEF TurnTypes, Requeue

LEMMA UnmapTypes ==
  ASSUME Types, ChargeInv, NEW force \in BOOLEAN, Unmap(force)
  PROVE  FrameTypes' /\ TurnTypes'
  <1> DEFINE kept == IF force THEN {} ELSE {i \in Held : mdl[i]}
  <1>1. Locked \in SUBSET Idx /\ {i \in Idx : mdl[i]} = Locked
    BY DEF Locked
  <1>2. Cardinality(Locked \ kept) \in Nat /\ Cardinality(Locked \ kept) <= Cardinality(Locked)
    BY <1>1, SetOfIdx, FS_Subset, FS_CardinalityType
  <1>3. pins' = pins - Cardinality(Locked \ kept) /\ pins = Cardinality(Locked) /\ pins \in Nat
    BY <1>1 DEF Unmap, ChargeInv, Types, FrameTypes
  <1>4. pins' \in Nat
    BY <1>2, <1>3
  <1>5. mdl' \in [Idx -> BOOLEAN] /\ mapped' \in 0 .. Ring
    BY IdxFacts DEF Unmap
  <1>6. fs' \in [Idx -> {"queued", "inflight", "delivered"}]
    BY DEF Unmap, Types, TurnTypes
  <1>7. next' \in Idx /\ current' \in Idx \cup {NoFrame}
    BY IdxFacts DEF Unmap
  <1> QED
    BY <1>4, <1>5, <1>6, <1>7 DEF FrameTypes, TurnTypes

(* Moving on and returning. *)
LEMMA MoveTypes ==
  ASSUME CtlTypes
  PROVE  /\ \A pc \in Places : Goto(pc) => CtlTypes'
         /\ GoIdle => CtlTypes'
  BY IdxFacts DEF CtlTypes, Goto, GoIdle, Places

LEMMA RequestTypes ==
  ASSUME RingIInv, NEW h \in Handle, Request(h)
  PROVE  Types'
  <1> USE TypeFrame DEF Types, RingIInv
  <1>1. /\ UNCHANGED engVars /\ UNCHANGED OutsideCtl /\ UNCHANGED camVars /\ UNCHANGED devVars
        /\ UNCHANGED owner /\ UNCHANGED running
    BY DEF Request, Prepare, Unprepare, Stop, UnmapFrames, Cleanup, SwTrigger, Start, Map,
           RegisterEvent, UnregisterEvent, slotVars
  <1>2. EngineTypes' /\ PumpTypes' /\ DpcTypes' /\ CamTypes' /\ DevTypes'
    BY <1>1 DEF OutsideCtl
  <1>3. 0 \in 0 .. Ring + 1
    BY IdxFacts
  <1>4. {"create", "stop", "arm", "pumpRequeued", "engineStart", "lock", "mapped"} \subseteq Places
    BY DEF Places, Still, Returns, Calls
  <1>5. CASE Prepare(h) \/ Unprepare(h) \/ Stop(h) \/ UnmapFrames(h) \/ Cleanup(h)
    <2>1. CtlTypes'
      BY <1>3, <1>4, <1>5 DEF Prepare, Unprepare, Stop, UnmapFrames, Cleanup, Enter, CtlTypes
    <2> QED
      BY <1>2, <1>5, <2>1 DEF Prepare, Unprepare, Stop, UnmapFrames, Cleanup
  <1>6. CASE SwTrigger(h)
    <2>1. CtlTypes'
      BY <1>3, <1>4, <1>6 DEF SwTrigger, Enter, CtlTypes
    <2>2. TurnTypes'
      BY <1>6, RequeueTypes DEF SwTrigger
    <2> QED
      BY <1>2, <1>6, <2>1, <2>2 DEF SwTrigger
  <1>7. ASSUME NEW shot \in BOOLEAN, NEW ring \in BOOLEAN, Start(h, shot, ring) PROVE Types'
    <2>1. CtlTypes'
      BY <1>3, <1>4, <1>7 DEF Start, Enter, CtlTypes
    <2>2. TurnTypes'
      BY <1>7, RequeueTypes DEF Start
    <2>3. SlotTypes'
      BY <1>7 DEF Start, SlotTypes
    <2> QED
      BY <1>2, <1>7, <2>1, <2>2, <2>3 DEF Start
  <1>8. ASSUME NEW n \in 0 .. Ring + 1, Map(h, n) PROVE Types'
    <2>1. CtlTypes'
      BY <1>4, <1>8 DEF Map, Enter, CtlTypes
    <2>2. FrameTypes' /\ TurnTypes'
      BY <1>8, UnmapTypes DEF Map, Leftover
    <2> QED
      BY <1>2, <1>8, <2>1, <2>2 DEF Map
  <1>9. ASSUME NEW e \in Event, UnregisterEvent(h, e) PROVE Types'
    <2>1. EventTypes'
      BY <1>9, IdxFacts DEF UnregisterEvent, EventTypes
    <2> QED
      BY <1>2, <1>9, <2>1 DEF UnregisterEvent
  <1>10. ASSUME NEW e \in Event, NEW n \in 1 .. Ring, RegisterEvent(h, e, n) PROVE Types'
    <2>1. EventTypes'
      BY <1>10, IdxFacts DEF RegisterEvent, EventTypes
    <2> QED
      BY <1>2, <1>10, <2>1 DEF RegisterEvent
  <1> QED
    BY <1>5, <1>6, <1>7, <1>8, <1>9, <1>10 DEF Request

(* The requests of the device, and the stop.                                *)
Draining ==
  \/ SurpriseRemoval \/ Uninitialize \/ StopBegin \/ Quiesce \/ IsochStop \/ ClaimAttached
  \/ Drained \/ PumpIdle \/ MapDone
Changing ==
  \/ Create \/ ReleaseSession \/ UnmapRing \/ Release \/ CtlPump \/ EngineStart \/ Enable \/ Arm
  \/ LockFrame \/ PublishRing

LEMMA DrainingTypes ==
  ASSUME RingIInv, Draining
  PROVE  Types'
  <1> USE TypeFrame DEF Types, RingIInv
  <1>1. UNCHANGED ringVars /\ UNCHANGED countdown /\ UNCHANGED OutsideCtl
    BY DEF Draining, SurpriseRemoval, Uninitialize, StopBegin, Quiesce, IsochStop, ClaimAttached,
           Drained, PumpIdle, MapDone
  <1>2. FrameTypes' /\ TurnTypes' /\ EventTypes' /\ PumpTypes' /\ DpcTypes'
    BY <1>1 DEF OutsideCtl
  <1>3. /\ {"stop", "quiesce", "idle"} \subseteq Places /\ 0 \in 0 .. Ring + 1
        /\ {"isochStop", "claim", "drain", "pumpIdle", "free"} \subseteq Places
    BY IdxFacts DEF Places, Drains, Still
  <1>4. CASE SurpriseRemoval \/ Uninitialize
    <2>1. CtlTypes'
      BY <1>3, <1>4 DEF SurpriseRemoval, Uninitialize, Enter, CtlTypes
    <2>2. DevTypes'
      BY <1>4 DEF SurpriseRemoval, Uninitialize, DevTypes
    <2> QED
      BY <1>2, <1>4, <2>1, <2>2 DEF SurpriseRemoval, Uninitialize
  <1>5. CASE StopBegin
    <2>1. CtlTypes'
      BY <1>3, <1>5, MoveTypes DEF StopBegin
    <2>2. SlotTypes'
      BY <1>5 DEF StopBegin, SlotTypes
    <2>3. CamTypes'
      BY <1>5 DEF StopBegin, CamTypes, camVars
    <2> QED
      BY <1>2, <1>5, <2>1, <2>2, <2>3 DEF StopBegin
  <1>6. CASE Quiesce
    <2>1. CtlTypes'
      BY <1>3, <1>6, MoveTypes DEF Quiesce
    <2>2. EngineTypes'
      BY <1>6 DEF Quiesce, EngineTypes
    <2> QED
      BY <1>2, <1>6, <2>1, <2>2 DEF Quiesce
  <1>7. CASE IsochStop \/ Drained \/ PumpIdle \/ MapDone
    <2>1. CtlTypes'
      BY <1>3, <1>7, MoveTypes DEF IsochStop, Drained, PumpIdle, MapDone
    <2> QED
      BY <1>2, <1>7, <2>1 DEF IsochStop, Drained, PumpIdle, MapDone
  <1>8. CASE ClaimAttached
    <2>1. CtlTypes'
      BY <1>3, <1>8, MoveTypes DEF ClaimAttached
    <2>2. line' \in Seq(Idx)
      BY <1>8, LineRemove DEF ClaimAttached, LeavesLine, EngineTypes
    <2>3. EngineTypes'
      BY <1>8, <2>2 DEF ClaimAttached, EngineTypes
    <2> QED
      BY <1>2, <1>8, <2>1, <2>3 DEF ClaimAttached
  <1> QED
    BY <1>4, <1>5, <1>6, <1>7, <1>8 DEF Draining

LEMMA ChangingTypes ==
  ASSUME RingIInv, Changing
  PROVE  Types'
  <1> USE TypeFrame DEF Types, RingIInv
  <1>1. /\ {"stop", "idle"} \subseteq Places
        /\ {"unmap", "release", "create", "enable", "mapped", "arm", "engineStart"} \subseteq Places
        /\ {"pumpStarted", "pumpMapped"} \subseteq Places
    BY DEF Places, Still, Returns, Calls
  <1>2. CASE Create
    <2>1. CtlTypes'
      BY <1>1, <1>2, MoveTypes DEF Create
    <2>2. SlotTypes'
      BY <1>2 DEF Create, SlotTypes, CtlTypes
    <2> QED
      BY <1>2, <2>1, <2>2 DEF Create, OutsideCtl
  <1>3. CASE ReleaseSession
    <2>1. CtlTypes'
      BY <1>1, <1>3, MoveTypes DEF ReleaseSession
    <2>2. EngineTypes' /\ TurnTypes' /\ FrameTypes'
      BY <1>3 DEF ReleaseSession, FlushHeld, EngineTypes, TurnTypes
    <2> QED
      BY <1>3, <2>1, <2>2 DEF ReleaseSession, OutsideCtl
  <1>4. CASE UnmapRing
    <2>1. CtlTypes'
      BY <1>4, MoveTypes DEF UnmapRing
    <2>2. FrameTypes' /\ TurnTypes'
      BY <1>4, UnmapTypes DEF UnmapRing
    <2> QED
      BY <1>4, <2>1, <2>2 DEF UnmapRing, OutsideCtl
  <1>5. CASE Release
    <2>1. CtlTypes'
      BY <1>1, <1>5, MoveTypes DEF Release
    <2>2. FrameTypes' /\ TurnTypes'
      BY <1>5, UnmapTypes DEF Release, Forced
    <2>3. SlotTypes' /\ EngineTypes'
      BY <1>5 DEF Release, SlotTypes, EngineTypes
    <2>4. EventTypes'
      BY <1>5, IdxFacts DEF Release, FlushEvents, EventTypes
    <2> QED
      BY <1>5, <2>1, <2>2, <2>3, <2>4 DEF Release, OutsideCtl
  <1>6. CASE CtlPump
    <2>1. CtlTypes'
      BY <1>1, <1>6, MoveTypes DEF CtlPump, AfterPump
    <2>2. PumpTypes'
      BY <1>6 DEF CtlPump, PumpCall, PumpTypes, Thread
    <2>3. DpcTypes'
      BY <1>6 DEF CtlPump, PumpCall, DpcTypes
    <2> QED
      BY <1>6, <2>1, <2>2, <2>3 DEF CtlPump
  <1>7. CASE EngineStart
    <2>1. CtlTypes'
      BY <1>1, <1>7, MoveTypes DEF EngineStart
    <2>2. EngineTypes' /\ TurnTypes'
      BY <1>7 DEF EngineStart, EngineTypes, TurnTypes, engVars
    <2>3. SlotTypes'
      BY <1>7 DEF EngineStart, SlotTypes
    <2> QED
      BY <1>7, <2>1, <2>2, <2>3 DEF EngineStart, OutsideCtl
  <1>8. CASE Enable
    <2>1. CtlTypes'
      BY <1>1, <1>8, MoveTypes DEF Enable
    <2>2. SlotTypes' /\ CamTypes'
      BY <1>8 DEF Enable, SlotTypes, CamTypes
    <2> QED
      BY <1>8, <2>1, <2>2 DEF Enable, OutsideCtl
  <1>9. CASE Arm
    <2>1. CtlTypes'
      BY <1>9, MoveTypes DEF Arm
    <2>2. CamTypes'
      BY <1>9 DEF Arm, CamTypes
    <2> QED
      BY <1>9, <2>1, <2>2 DEF Arm, OutsideCtl
  <1>10. CASE LockFrame
    <2>1. CtlTypes'
      BY <1>1, <1>10, MoveTypes DEF LockFrame, ctlVars, CtlTypes
    <2> DEFINE n == Cardinality({i \in Idx : mdl[i]})
    <2>2. n \in 0 .. Ring /\ n < Ring
      <3>1. n < want /\ ctl = "lock"
        BY <1>10 DEF LockFrame
      <3>2. want \in 1 .. Ring
        BY <3>1 DEF ChargeInv
      <3>3. n \in Nat
        BY SetOfIdx
      <3> QED
        BY <3>1, <3>2, <3>3, RingAssumption
    <2>3. n \in Idx
      BY <2>2, IdxFacts
    <2> HIDE DEF n
    <2>4. /\ \/ mapped' = n /\ UNCHANGED <<mdl, pins, fs>>
             \/ /\ mdl' = [mdl EXCEPT ![n] = TRUE] /\ fs' = [fs EXCEPT ![n] = "queued"]
                /\ pins' = pins + 1 /\ UNCHANGED mapped
          /\ UNCHANGED <<next, current>>
      BY <1>10 DEF LockFrame, n
    <2>5. FrameTypes'
      <3>1. mdl' \in [Idx -> BOOLEAN]
        BY <2>4 DEF FrameTypes
      <3>2. mapped' \in 0 .. Ring
        BY <2>2, <2>4 DEF FrameTypes
      <3>3. pins' \in Nat
        BY <2>4 DEF FrameTypes
      <3> QED
        BY <3>1, <3>2, <3>3 DEF FrameTypes
    <2>6. TurnTypes'
      BY <2>3, <2>4 DEF TurnTypes
    <2> QED
      BY <1>10, <2>1, <2>5, <2>6 DEF LockFrame, OutsideCtl
  <1>11. CASE PublishRing
    <2>1. CtlTypes'
      BY <1>1, <1>11, MoveTypes DEF PublishRing
    <2>2. FrameTypes' /\ TurnTypes'
      BY <1>11, IdxFacts DEF PublishRing, FrameTypes, TurnTypes, ChargeInv
    <2> QED
      BY <1>11, <2>1, <2>2 DEF PublishRing, OutsideCtl
  <1> QED
    BY <1>2, <1>3, <1>4, <1>5, <1>6, <1>7, <1>8, <1>9, <1>10, <1>11 DEF Changing

LEMMA NextTypes ==
  ASSUME RingIInv, [Next]_vars
  PROVE  Types'
  <1>1. CASE UNCHANGED vars
    BY <1>1, TypeFrame DEF vars, RingIInv, Types
  <1>2. Control => Draining \/ Changing
    BY DEF Control, Draining, Changing
  <1> QED
    BY <1>1, <1>2, LapTypes, BusTypes, CompletionTypes, RequestTypes, DrainingTypes, ChangingTypes
    DEF Next

-----------------------------------------------------------------------------
(* The places of the requests.                                              *)

placeVars == <<owner, oneShot, running, mapped, draining, bus, runner, lap, dpc, ctlVars, iso>>

LEMMA PlacesFrame ==
  ASSUME PlacesInv, UNCHANGED placeVars
  PROVE  PlacesInv'
  BY DEF PlacesInv, Settled, QuietBus, LapHolds, placeVars, ctlVars

LEMMA InitPlaces == Init => PlacesInv
  BY RingAssumption DEF Init, PlacesInv, Settled, QuietBus, LapHolds, Drains, Still, Returns, Thread

LEMMA LapPlaces ==
  ASSUME RingIInv, Lap
  PROVE  PlacesInv'
  <1> USE DEF RingIInv
  <1>1. UNCHANGED <<owner, oneShot, running, mapped, draining, dpc, ctl, by, client, iso>>
    BY DEF Lap, LapBegin, LapClaim, LapAcquire, LapPublish, LapHandBack, LapEnd, OutsideLap, slotVars,
           frameVars, engVars, dpcVars, ctlVars, camVars
  <1>2. lap # "none" /\ runner # NoThread /\ ctl \notin Still
    BY DEF Lap, LapBegin, LapClaim, LapAcquire, LapPublish, LapHandBack, LapEnd, LapStep, PumpInv,
           PlacesInv
  <1>3. runner' \in {runner, NoThread} /\ NoThread \notin Cpu \cup {Ctl}
    BY RingAssumption DEF Lap, LapBegin, LapClaim, LapAcquire, LapPublish, LapHandBack, LapEnd
  <1>4. Settled' = Settled
    BY <1>1 DEF Settled
  <1>5. Settled \/ ctl \in Still \cup {"pumpIdle"} => QuietBus'
    <2>1. ASSUME Settled \/ ctl = "pumpIdle" PROVE UNCHANGED bus
      <3>1. CASE LapPublish
        BY <1>2, <2>1, <3>1 DEF LapPublish, LapStep, PlacesInv, LapHolds, Drains, engVars
      <3> QED
        BY <3>1 DEF Lap, LapBegin, LapClaim, LapAcquire, LapHandBack, LapEnd, engVars
    <2> QED
      BY <1>1, <1>2, <2>1 DEF PlacesInv, QuietBus
  <1>6. Settled => ~LapHolds'
    <2>1. CASE LapAcquire
      BY <2>1 DEF LapAcquire, LapStep, PlacesInv, Settled, LapHolds, Acquire
    <2> QED
      BY <2>1 DEF Lap, LapBegin, LapClaim, LapPublish, LapHandBack, LapEnd, LapStep, PlacesInv, LapHolds
  <1>7. draining /\ ctl \notin Drains => lap' # "acquire"
    BY DEF Lap, LapBegin, LapClaim, LapAcquire, LapPublish, LapHandBack, LapEnd, LapStep
  <1>8. lap' = "handBack" => draining
    BY DEF Lap, LapBegin, LapClaim, LapAcquire, LapPublish, LapHandBack, LapEnd, LapStep
  <1> QED
    BY <1>1, <1>2, <1>3, <1>4, <1>5, <1>6, <1>7, <1>8 DEF PlacesInv

(* What stands at the bus first is there. *)
LEMMA FirstAtBus ==
  ASSUME Types, LineInv, line # <<>>
  PROVE  /\ Head(line) \in Idx /\ bus[Head(line)] \in {"attaching", "attached"}
         /\ 1 \in 1 .. Len(line) /\ Head(line) = line[1]
  <1>1. Len(line) \in Nat \ {0} /\ Head(line) \in Idx
    BY EmptySeq, HeadTailProperties DEF Types, EngineTypes
  <1>2. 1 \in 1 .. Len(line) /\ Head(line) = line[1]
    BY <1>1
  <1> QED
    BY <1>1, <1>2 DEF LineInv, AtBus

LEMMA BusPlaces ==
  ASSUME RingIInv, Bus
  PROVE  PlacesInv'
  <1> USE DEF RingIInv
  <1>1. UNCHANGED <<owner, oneShot, running, mapped, draining, runner, lap, ctl, by, client, iso>>
    BY DEF Bus, Frame, TriggerUnheard, AttachDone, AttachFailed, DetachDone, DetachFailed, Interrupt,
           OutsideBus, slotVars, ringVars, frameVars, pumpVars, ctlVars, engVars, camVars
  <1>2. QuietBus => UNCHANGED <<bus, dpc>>
    <2>1. ASSUME QuietBus, Frame PROVE FALSE
      BY <2>1, FirstAtBus DEF Frame, QuietBus
    <2> QED
      BY <2>1 DEF Bus, TriggerUnheard, AttachDone, AttachFailed, DetachDone, DetachFailed, QuietBus,
                  Detaching, engVars, dpcVars
  <1>3. QuietBus => QuietBus'
    BY <1>2 DEF QuietBus
  <1> QED
    BY <1>1, <1>3 DEF PlacesInv, Settled, LapHolds

LEMMA CompletionPlaces ==
  ASSUME RingIInv, Completion
  PROVE  PlacesInv'
  <1> USE DEF RingIInv
  <1> PICK c \in Cpu : DpcDeliver(c) \/ DpcSignal(c) \/ DpcPump(c) \/ DpcDone(c)
    BY DEF Completion
  <1>1. UNCHANGED <<owner, oneShot, running, mapped, draining, bus, ctl, by, client, iso>>
    BY DEF DpcDeliver, DpcSignal, DpcPump, DpcDone, OutsideDpc, slotVars, frameVars, engVars, ctlVars,
           camVars
  <1>2. dpc[c] # "idle"
    BY DEF DpcDeliver, DpcSignal, DpcPump, DpcDone
  <1>3. ~Settled /\ ctl \notin Still \cup {"pumpIdle"}
    BY <1>2 DEF PlacesInv, QuietBus
  <1>4. /\ runner' \in {runner, c} /\ c # Ctl
        /\ lap' = "handBack" => lap = "handBack"
    BY RingAssumption DEF DpcDeliver, DpcSignal, DpcPump, DpcDone, PumpCall, pumpVars
  <1>5. ~Settled' /\ ~(draining /\ ctl \notin Drains)
    BY <1>1, <1>3 DEF Settled
  <1> QED
    BY <1>1, <1>3, <1>4, <1>5 DEF PlacesInv

(* A request leaves the idle place for its first. *)
LEMMA EnterPlaces ==
  ASSUME RingIInv, ctl = "idle",
         UNCHANGED <<owner, running, mapped, draining, bus, runner, lap, dpc, iso>>,
         running => oneShot' = oneShot,
         ctl' \in {"stop", "create", "pumpRequeued", "engineStart", "arm", "lock", "mapped"},
         ctl' \notin {"stop", "create"} => owner # NoHandle,
         ctl' = "create" => owner = NoHandle /\ by' = "prepare",
         ctl' = "lock" => mapped = 0,
         by' = "prepare" => client' \in Handle
  PROVE  PlacesInv'
  <1>1. /\ PlacesInv /\ runner \in Thread \cup {NoThread}
        /\ ctl \notin Drains \cup Still \cup Returns
    BY DEF RingIInv, Types, PumpTypes, Drains, Still, Returns
  <1>2. Settled' = Settled
    BY <1>1 DEF Settled, Drains
  <1>3. QuietBus' = QuietBus /\ LapHolds' = LapHolds
    BY DEF QuietBus, LapHolds
  <1>4. ctl' \in Still => Settled /\ runner = NoThread
    BY <1>1 DEF PlacesInv, Settled, Still, Thread
  <1>5. ctl' \notin Drains \cup {"free", "release", "quiesce", "pumpStarted", "enable", "pumpIdle"}
    BY DEF Drains
  <1>6. Settled' \/ ctl' \in Still \cup {"pumpIdle"} => QuietBus'
    BY <1>1, <1>2, <1>3, <1>4, <1>5 DEF PlacesInv
  <1>7. Settled' => ~LapHolds' /\ runner' \notin Cpu
    BY <1>1, <1>2, <1>3 DEF PlacesInv
  <1>8. runner' # Ctl
    BY <1>1 DEF PlacesInv
  <1>9. running => (iso' <=> ~oneShot')
    BY <1>1 DEF PlacesInv
  <1> QED
    BY <1>1, <1>4, <1>5, <1>6, <1>7, <1>8, <1>9 DEF PlacesInv

LEMMA RequestPlaces ==
  ASSUME RingIInv, NEW h \in Handle, Request(h)
  PROVE  PlacesInv'
  <1>1. ctl = "idle" /\ UNCHANGED <<owner, running, draining, bus, runner, lap, dpc, iso>>
    BY DEF Request, Prepare, Unprepare, Stop, UnmapFrames, Cleanup, SwTrigger, Start, Map, Enter,
           RegisterEvent, UnregisterEvent, slotVars, engVars, OutsideCtl, dpcVars, pumpVars, camVars
  <1>2. PlacesInv /\ (owner = NoHandle => draining) /\ (running <=> ~draining)
    BY <1>1 DEF RingIInv, PlacesInv
  <1>3. CASE Prepare(h)
    BY <1>1, <1>2, <1>3, EnterPlaces DEF Prepare, Enter, slotVars, ringVars, frameVars
  <1>4. CASE Unprepare(h) \/ Stop(h) \/ UnmapFrames(h) \/ Cleanup(h)
    BY <1>1, <1>2, <1>4, EnterPlaces
    DEF Unprepare, Stop, UnmapFrames, Cleanup, Enter, Owner, slotVars, ringVars, frameVars
  <1>5. CASE SwTrigger(h)
    BY <1>1, <1>2, <1>5, EnterPlaces DEF SwTrigger, Enter, Owner, slotVars, frameVars
  <1>6. ASSUME NEW shot \in BOOLEAN, NEW ring \in BOOLEAN, Start(h, shot, ring) PROVE PlacesInv'
    BY <1>1, <1>2, <1>6, EnterPlaces DEF Start, Enter, Owner, ModeAllowed, frameVars
  <1>7. ASSUME NEW n \in 0 .. Ring + 1, Map(h, n) PROVE PlacesInv'
    <2>1. mapped' = mapped
      BY <1>7 DEF Map, Leftover, Unmap
    <2> QED
      BY <1>1, <1>2, <1>7, <2>1, EnterPlaces DEF Map, Enter, Owner, slotVars
  <1>8. ASSUME NEW e \in Event, UnregisterEvent(h, e) \/ \E n \in 1 .. Ring : RegisterEvent(h, e, n)
        PROVE  PlacesInv'
    BY <1>1, <1>2, <1>8, PlacesFrame
    DEF RegisterEvent, UnregisterEvent, placeVars, slotVars, ringVars, frameVars
  <1> QED
    BY <1>3, <1>4, <1>5, <1>6, <1>7, <1>8 DEF Request

LEMMA DrainingPlaces ==
  ASSUME RingIInv, Draining
  PROVE  PlacesInv'
  <1>1. /\ UNCHANGED <<owner, oneShot, mapped, runner, lap, dpc>>
        /\ PlacesInv /\ PumpInv /\ runner \in Thread \cup {NoThread}
    BY DEF Draining, SurpriseRemoval, Uninitialize, StopBegin, Quiesce, IsochStop, ClaimAttached,
           Drained, PumpIdle, MapDone, OutsideCtl, slotVars, ringVars, frameVars, dpcVars, pumpVars,
           RingIInv, Types, PumpTypes
  <1>2. LapHolds' = LapHolds
    BY <1>1 DEF LapHolds
  <1>3. CASE SurpriseRemoval \/ Uninitialize
    <2>1. /\ ctl = "idle" /\ ctl' = "stop" /\ by' # "prepare"
          /\ UNCHANGED <<running, draining, bus, iso>>
      BY <1>3 DEF SurpriseRemoval, Uninitialize, Enter, slotVars, engVars, camVars
    <2> QED
      BY <1>1, <2>1, EnterPlaces
  <1>4. CASE StopBegin
    <2>1. ctl = "stop" /\ UNCHANGED <<draining, bus>>
      BY <1>4 DEF StopBegin, engVars
    <2>2. QuietBus' = QuietBus
      BY <1>1, <2>1 DEF QuietBus
    <2>3. CASE owner = NoHandle
      <3>1. ctl' = "idle" /\ by' = "none" /\ UNCHANGED <<running, iso>>
        BY <1>4, <2>3 DEF StopBegin, GoIdle, camVars
      <3> QED
        BY <1>1, <1>2, <2>1, <2>2, <2>3, <3>1 DEF PlacesInv, Settled, Drains, Still, Returns
    <2>4. CASE owner # NoHandle /\ draining
      <3>1. ctl' = "pumpIdle" /\ UNCHANGED <<by, client, iso>> /\ running' = FALSE
        BY <1>4, <2>4 DEF StopBegin, Goto, camVars
      <3> QED
        BY <1>1, <1>2, <2>1, <2>2, <2>4, <3>1 DEF PlacesInv, Settled, Drains, Still, Returns
    <2>5. CASE owner # NoHandle /\ ~draining
      <3>1. ctl' = "quiesce" /\ UNCHANGED <<by, client>> /\ running' = FALSE /\ iso' = FALSE
        BY <1>4, <2>5 DEF StopBegin, Goto
      <3> QED
        BY <1>1, <1>2, <2>1, <2>2, <2>5, <3>1 DEF PlacesInv, Settled, Drains, Still, Returns
    <2> QED
      BY <2>3, <2>4, <2>5
  <1>5. CASE Quiesce
    <2>1. /\ ctl = "quiesce" /\ ctl' = "isochStop" /\ draining' = TRUE
          /\ UNCHANGED <<by, client, running, bus, iso>>
      BY <1>5 DEF Quiesce, Goto, slotVars, camVars
    <2>2. QuietBus' = QuietBus
      BY <1>1, <2>1 DEF QuietBus
    <2> QED
      BY <1>1, <1>2, <2>1, <2>2 DEF PlacesInv, Settled, Drains, Still, Returns
  <1>6. CASE IsochStop
    <2>1. ctl = "isochStop" /\ ctl' = "claim" /\ UNCHANGED <<by, client, running, draining, bus, iso>>
      BY <1>6 DEF IsochStop, Goto, slotVars, engVars, camVars
    <2>2. QuietBus' = QuietBus
      BY <1>1, <2>1 DEF QuietBus
    <2> QED
      BY <1>1, <1>2, <2>1, <2>2 DEF PlacesInv, Settled, Drains, Still, Returns
  <1>7. CASE ClaimAttached
    <2>1. /\ ctl = "claim" /\ ctl' \in {"claim", "drain"}
          /\ UNCHANGED <<by, client, running, draining, iso>>
      BY <1>7 DEF ClaimAttached, Goto, slotVars, camVars, ctlVars
    <2>2. QuietBus => UNCHANGED bus
      BY <1>7 DEF ClaimAttached, QuietBus
    <2>3. QuietBus => QuietBus'
      BY <1>1, <2>2 DEF QuietBus
    <2> QED
      BY <1>1, <1>2, <2>1, <2>3 DEF PlacesInv, Settled, Drains, Still, Returns
  <1>8. CASE Drained
    <2>1. /\ ctl = "drain" /\ ctl' \in {"pumpIdle", "claim"}
          /\ UNCHANGED <<by, client, running, draining, bus, iso>>
      BY <1>8 DEF Drained, Goto, slotVars, engVars, camVars
    <2>2. ctl' = "pumpIdle" => QuietBus
      <3>1. ctl' = "pumpIdle" => AtBus = {}
        BY <1>8 DEF Drained, Goto
      <3>2. /\ \A c \in Cpu : dpc[c] = "idle"
            /\ \A i \in Idx : bus[i] \notin {"attaching", "filled", "cancelled"}
        BY <1>8 DEF Drained, InFlight, Detaching
      <3> QED
        BY <3>1, <3>2 DEF QuietBus, AtBus, RingIInv, Types, EngineTypes
    <2>3. QuietBus' = QuietBus
      BY <1>1, <2>1 DEF QuietBus
    <2> QED
      BY <1>1, <1>2, <2>1, <2>2, <2>3 DEF PlacesInv, Settled, Drains, Still, Returns
  <1>9. CASE PumpIdle
    <2>1. /\ ctl = "pumpIdle" /\ ctl' = "free" /\ runner = NoThread
          /\ UNCHANGED <<by, client, running, draining, bus, iso>>
      BY <1>9 DEF PumpIdle, Goto, slotVars, engVars, camVars
    <2>2. QuietBus' = QuietBus
      BY <1>1, <2>1 DEF QuietBus
    <2>3. lap = "none" /\ NoThread \notin Cpu
      BY <1>1, <2>1, RingAssumption DEF PumpInv
    <2> QED
      BY <1>1, <1>2, <2>1, <2>2, <2>3 DEF PlacesInv, Settled, Drains, Still, Returns, LapHolds
  <1>10. CASE MapDone
    <2>1. /\ ctl = "mapped" /\ runner # Ctl /\ ctl' = "idle" /\ by' = "none"
          /\ UNCHANGED <<running, draining, bus, iso>>
      BY <1>10 DEF MapDone, At, GoIdle, slotVars, engVars, camVars
    <2>2. QuietBus' = QuietBus
      BY <1>1, <2>1 DEF QuietBus
    <2> QED
      BY <1>1, <1>2, <2>1, <2>2 DEF PlacesInv, Settled, Drains, Still, Returns
  <1> QED
    BY <1>3, <1>4, <1>5, <1>6, <1>7, <1>8, <1>9, <1>10 DEF Draining

LEMMA ChangingPlaces ==
  ASSUME RingIInv, Changing
  PROVE  PlacesInv'
  <1>1. PlacesInv /\ PumpInv /\ NoThread \notin Cpu \cup {Ctl} /\ Ctl \notin Cpu
    BY RingAssumption DEF RingIInv
  <1>2. CASE Create
    <2>1. /\ ctl = "create" /\ ctl' = "idle" /\ by' = "none"
          /\ UNCHANGED <<oneShot, running, mapped, draining, bus, runner, lap, dpc, iso>>
      BY <1>2 DEF Create, GoIdle, ringVars, frameVars, engVars, OutsideCtl, dpcVars, pumpVars, camVars
    <2>2. QuietBus' = QuietBus /\ LapHolds' = LapHolds
      BY <2>1 DEF QuietBus, LapHolds
    <2> QED
      BY <1>1, <2>1, <2>2 DEF PlacesInv, Settled, Drains, Still, Returns
  <1>3. CASE ReleaseSession
    <2>1. /\ ctl = "free" /\ UNCHANGED <<owner, oneShot, running, mapped, draining, runner, lap, dpc, iso>>
          /\ \A i \in Idx : bus'[i] \in {bus[i], "none"}
      BY <1>3 DEF ReleaseSession, FlushHeld, slotVars, frameVars, OutsideCtl, dpcVars, pumpVars, camVars
    <2>2. (QuietBus => QuietBus') /\ LapHolds' = LapHolds
      BY <2>1 DEF QuietBus, LapHolds
    <2>3. /\ ctl' \in {"idle", "unmap", "release"}
          /\ by' = "prepare" => by = "prepare" /\ client' = client
      BY <1>3 DEF ReleaseSession, GoIdle, Goto
    <2> QED
      BY <1>1, <2>1, <2>2, <2>3 DEF PlacesInv, Settled, Drains, Still, Returns
  <1>4. CASE UnmapRing
    <2>1. /\ ctl = "unmap" /\ ctl' = "idle" /\ by' = "none" /\ mapped' = 0
          /\ UNCHANGED <<owner, oneShot, running, draining, bus, runner, lap, dpc, iso>>
      BY <1>4 DEF UnmapRing, Unmap, GoIdle, slotVars, engVars, OutsideCtl, dpcVars, pumpVars, camVars
    <2>2. QuietBus' = QuietBus /\ LapHolds' = LapHolds
      BY <2>1 DEF QuietBus, LapHolds
    <2>3. runner = NoThread /\ lap = "none"
      BY <1>1, <2>1 DEF PlacesInv, PumpInv, Still
    <2> QED
      BY <1>1, <2>1, <2>2, <2>3 DEF PlacesInv, Settled, Drains, Still, Returns, LapHolds
  <1>5. CASE Release
    <2>1. /\ ctl = "release" /\ mapped' = 0 /\ owner' = NoHandle /\ oneShot' = FALSE
          /\ bus' = [i \in Idx |-> "none"] /\ UNCHANGED <<running, draining, runner, lap, dpc, iso>>
      BY <1>5 DEF Release, Unmap, OutsideCtl, dpcVars, pumpVars, camVars
    <2>2. QuietBus' /\ LapHolds' = LapHolds /\ runner = NoThread /\ lap = "none"
      BY <1>1, <2>1 DEF QuietBus, LapHolds, PlacesInv, PumpInv, Still
    <2>3. \/ by = "prepare" /\ ctl' = "create" /\ UNCHANGED <<by, client>>
          \/ ctl' = "idle" /\ by' = "none"
      BY <1>5 DEF Release, GoIdle, Goto
    <2> QED
      BY <1>1, <2>1, <2>2, <2>3 DEF PlacesInv, Settled, Drains, Still, Returns, LapHolds
  <1>6. CASE CtlPump
    <2>1. /\ ctl \in Calls /\ ctl' \in {"engineStart", "arm", "enable", "mapped"}
          /\ ctl' = "enable" <=> ctl = "pumpStarted"
          /\ UNCHANGED <<owner, oneShot, running, mapped, draining, bus, dpc, iso, by, client>>
      BY <1>6 DEF CtlPump, AfterPump, Calls, Goto, slotVars, ringVars, frameVars, engVars, camVars
    <2>2. QuietBus' = QuietBus /\ runner' \in {runner, Ctl} /\ lap' \in {lap, "begin"}
      BY <1>6, <2>1 DEF QuietBus, CtlPump, PumpCall
    <2>3. ctl \notin Drains \cup Still \cup {"quiesce", "stop", "idle", "enable"}
      BY <2>1 DEF Calls, Drains, Still
    <2>4. Settled' = Settled /\ (LapHolds' => LapHolds)
      BY <2>1, <2>2, <2>3 DEF Settled, Drains, LapHolds
    <2>5. ctl' \in Returns /\ ctl' \notin Drains \cup Still \cup {"pumpIdle"} /\ owner # NoHandle
      BY <1>1, <2>1, <2>3 DEF Returns, Drains, Still, PlacesInv
    <2>6. Settled' \/ ctl' \in Still \cup {"pumpIdle"} => QuietBus'
      BY <1>1, <2>2, <2>4, <2>5 DEF PlacesInv
    <2>7. Settled' => ~LapHolds' /\ runner' \notin Cpu
      BY <1>1, <2>2, <2>4 DEF PlacesInv
    <2>8. draining => ctl \notin Drains /\ lap' # "acquire"
      BY <1>1, <2>2, <2>3 DEF PlacesInv
    <2> QED
      BY <1>1, <2>1, <2>2, <2>3, <2>5, <2>6, <2>7, <2>8 DEF PlacesInv
  <1>7. CASE EngineStart
    <2>1. /\ ctl = "engineStart" /\ runner # Ctl /\ \A i \in Idx : bus'[i] \in {bus[i], "none"}
          /\ UNCHANGED <<owner, oneShot, mapped, dpc, runner, lap, iso>>
      BY <1>7 DEF EngineStart, At, OutsideCtl, dpcVars, pumpVars, frameVars, camVars, engVars
    <2>2. (QuietBus => QuietBus') /\ LapHolds' = LapHolds
      BY <2>1 DEF QuietBus, LapHolds
    <2>3. CASE ~draining
      <3>1. running' = TRUE /\ ctl' = "idle" /\ by' = "none" /\ draining' = draining
        BY <1>7, <2>3 DEF EngineStart, GoIdle, engVars
      <3> QED
        BY <1>1, <2>1, <2>2, <2>3, <3>1 DEF PlacesInv, Settled, Drains, Still, Returns
    <2>4. CASE draining
      <3>1. /\ running' = running /\ draining' \in BOOLEAN
            /\ \/ ctl' = "idle" /\ by' = "none" /\ draining' = draining
               \/ ctl' = "pumpStarted" /\ UNCHANGED <<by, client>> /\ draining' = FALSE
        BY <1>7, <2>4 DEF EngineStart, GoIdle, Goto
      <3>2. QuietBus /\ ~LapHolds /\ lap # "handBack"
        BY <1>1, <2>1, <2>4 DEF PlacesInv, Settled, Drains, LapHolds
      <3> QED
        BY <1>1, <2>1, <2>2, <2>4, <3>1, <3>2 DEF PlacesInv, Settled, Drains, Still, Returns
    <2> QED
      BY <2>3, <2>4
  <1>8. CASE Enable
    <2>1. /\ ctl = "enable" /\ runner # Ctl
          /\ UNCHANGED <<owner, oneShot, mapped, draining, bus, dpc, runner, lap>>
          /\ \/ ctl' = "stop" /\ UNCHANGED <<by, client, running, iso>>
             \/ ctl' = "idle" /\ by' = "none" /\ running' = TRUE /\ (iso' <=> ~oneShot)
      BY <1>8 DEF Enable, At, Goto, GoIdle, ringVars, frameVars, engVars, OutsideCtl, dpcVars, pumpVars
    <2>2. QuietBus' = QuietBus /\ LapHolds' = LapHolds
      BY <2>1 DEF QuietBus, LapHolds
    <2> QED
      BY <1>1, <2>1, <2>2 DEF PlacesInv, Settled, Drains, Still, Returns
  <1>9. CASE Arm
    <2>1. /\ ctl = "arm" /\ runner # Ctl /\ ctl' = "idle" /\ by' = "none"
          /\ UNCHANGED <<owner, oneShot, running, mapped, draining, bus, dpc, runner, lap, iso>>
      BY <1>9 DEF Arm, At, GoIdle, slotVars, ringVars, frameVars, engVars, OutsideCtl, dpcVars, pumpVars
    <2>2. QuietBus' = QuietBus /\ LapHolds' = LapHolds
      BY <2>1 DEF QuietBus, LapHolds
    <2> QED
      BY <1>1, <2>1, <2>2 DEF PlacesInv, Settled, Drains, Still, Returns
  <1>10. CASE LockFrame
    <2>1. /\ ctl = "lock" /\ ctl' \in {"lock", "unmap"} /\ UNCHANGED <<by, client>>
          /\ UNCHANGED <<owner, oneShot, running, draining, bus, dpc, runner, lap, iso>>
      BY <1>10 DEF LockFrame, Goto, slotVars, engVars, OutsideCtl, dpcVars, pumpVars, ctlVars, camVars
    <2>2. QuietBus' = QuietBus /\ LapHolds' = LapHolds
      BY <2>1 DEF QuietBus, LapHolds
    <2>3. runner = NoThread /\ lap = "none" /\ QuietBus
      BY <1>1, <2>1 DEF PlacesInv, PumpInv, Still
    <2> QED
      BY <1>1, <2>1, <2>2, <2>3 DEF PlacesInv, Settled, Drains, Still, Returns, LapHolds
  <1>11. CASE PublishRing
    <2>1. /\ ctl = "lock" /\ ctl' \in {"pumpMapped", "mapped"} /\ UNCHANGED <<by, client>>
          /\ UNCHANGED <<owner, oneShot, running, draining, bus, dpc, runner, lap, iso>>
      BY <1>11 DEF PublishRing, Goto, slotVars, engVars, OutsideCtl, dpcVars, pumpVars, camVars
    <2>2. QuietBus' = QuietBus /\ LapHolds' = LapHolds
      BY <2>1 DEF QuietBus, LapHolds
    <2>3. runner = NoThread /\ lap = "none" /\ QuietBus
      BY <1>1, <2>1 DEF PlacesInv, PumpInv, Still
    <2> QED
      BY <1>1, <2>1, <2>2, <2>3 DEF PlacesInv, Settled, Drains, Still, Returns, LapHolds
  <1> QED
    BY <1>2, <1>3, <1>4, <1>5, <1>6, <1>7, <1>8, <1>9, <1>10, <1>11 DEF Changing

LEMMA NextPlaces ==
  ASSUME RingIInv, [Next]_vars
  PROVE  PlacesInv'
  <1>1. CASE UNCHANGED vars
    BY <1>1, PlacesFrame DEF vars, RingIInv, placeVars, slotVars, ringVars, frameVars, engVars,
       pumpVars, dpcVars, camVars
  <1>2. Control => Draining \/ Changing
    BY DEF Control, Draining, Changing
  <1> QED
    BY <1>1, <1>2, LapPlaces, BusPlaces, CompletionPlaces, RequestPlaces, DrainingPlaces,
       ChangingPlaces DEF Next

-----------------------------------------------------------------------------
(* The order at the bus.                                                    *)

LEMMA LineFrame ==
  ASSUME LineInv, line' = line, AtBus' = AtBus
  PROVE  LineInv'
  BY DEF LineInv

(* The n-th leaves and the rest close up. *)
LEMMA LineShorter ==
  ASSUME Types, LineInv, NEW n \in 1 .. Len(line),
         line' \in Seq(Idx), Len(line') = Len(line) - 1,
         \A k \in 1 .. Len(line) - 1 : line'[k] = IF k < n THEN line[k] ELSE line[k + 1],
         \A i \in Idx : i \in AtBus' <=> i \in AtBus /\ i # line[n]
  PROVE  LineInv'
  <1>1. Len(line) \in Nat /\ n \in Nat
    BY LenProperties DEF Types, EngineTypes
  <1> DEFINE f(k) == IF k < n THEN k ELSE k + 1
  <1>2. \A k \in 1 .. Len(line') : f(k) \in 1 .. Len(line) /\ f(k) # n /\ line'[k] = line[f(k)]
    BY <1>1
  <1>3. \A j, k \in 1 .. Len(line') : f(j) = f(k) => j = k
    BY <1>1
  <1>4. \A m \in 1 .. Len(line) : m # n => \E k \in 1 .. Len(line') : f(k) = m
    <2> SUFFICES ASSUME NEW m \in 1 .. Len(line), m # n
                 PROVE  \E k \in 1 .. Len(line') : f(k) = m
      OBVIOUS
    <2>1. CASE m < n
      <3>1. m \in 1 .. Len(line') /\ f(m) = m
        BY <1>1, <2>1
      <3> QED
        BY <3>1
    <2>2. CASE m > n
      <3>1. m - 1 \in 1 .. Len(line') /\ f(m - 1) = m
        BY <1>1, <2>2
      <3> QED
        BY <3>1
    <2> QED
      BY <1>1, <2>1, <2>2
  <1> HIDE DEF f
  <1>5. \A j, k \in 1 .. Len(line') : line'[j] = line'[k] => j = k
    BY <1>2, <1>3 DEF LineInv
  <1>6. ASSUME NEW i \in Idx, i \in AtBus' PROVE \E k \in 1 .. Len(line') : line'[k] = i
    <2>1. PICK m \in 1 .. Len(line) : line[m] = i /\ m # n
      BY <1>6 DEF LineInv
    <2>2. PICK k \in 1 .. Len(line') : f(k) = m
      BY <1>4, <2>1
    <2> QED
      BY <1>2, <2>1, <2>2
  <1>7. ASSUME NEW i \in Idx, NEW k \in 1 .. Len(line'), line'[k] = i PROVE i \in AtBus'
    <2>1. line[f(k)] = i /\ f(k) \in 1 .. Len(line) /\ f(k) # n
      BY <1>2, <1>7
    <2>2. i \in AtBus /\ i # line[n]
      BY <2>1 DEF LineInv
    <2> QED
      BY <2>2
  <1> QED
    BY <1>5, <1>6, <1>7 DEF LineInv

LEMMA LineLeft ==
  ASSUME Types, LineInv, NEW j \in Idx, LeavesLine(j), \A i \in Idx : i \in AtBus' <=> i \in AtBus /\ i # j
  PROVE  LineInv'
  <1>1. PICK n \in DOMAIN line : line[n] = j /\ line' = RemoveAt(line, n)
    BY DEF LeavesLine
  <1>2. line \in Seq(Idx) /\ n \in 1 .. Len(line)
    BY LenProperties DEF Types, EngineTypes
  <1> QED
    BY <1>1, <1>2, LineRemove, LineShorter

LEMMA LapLine ==
  ASSUME RingIInv, Lap
  PROVE  LineInv'
  <1> USE DEF RingIInv
  <1>1. CASE LapPublish /\ ~draining
    <2>1. /\ lapIdx \in Idx /\ line \in Seq(Idx) /\ Len(line) \in Nat
          /\ bus' = [bus EXCEPT ![lapIdx] = "attaching"] /\ line' = Append(line, lapIdx)
      BY <1>1, LenProperties DEF LapPublish, Types, EngineTypes, PumpTypes
    <2>2. lapIdx \notin AtBus
      BY <1>1 DEF LapPublish, LapStep, HoldersInv, LapHolds, AtBus
    <2>3. \A i \in Idx : i \in AtBus' <=> i \in AtBus \/ i = lapIdx
      BY <2>1 DEF AtBus, Types, EngineTypes
    <2>4. /\ Len(line') = Len(line) + 1 /\ line'[Len(line) + 1] = lapIdx
          /\ \A k \in 1 .. Len(line) : line'[k] = line[k]
      BY <2>1, AppendProperties
    <2>5. \A k \in 1 .. Len(line) : line[k] # lapIdx
      BY <2>1, <2>2 DEF LineInv
    <2>6. \A k \in 1 .. Len(line') : k \in 1 .. Len(line) \/ k = Len(line) + 1
      BY <2>1, <2>4
    <2>7. \A j, k \in 1 .. Len(line') : line'[j] = line'[k] => j = k
      BY <2>4, <2>5, <2>6 DEF LineInv
    <2>8. ASSUME NEW i \in Idx, i \in AtBus' PROVE \E k \in 1 .. Len(line') : line'[k] = i
      <3>1. CASE i = lapIdx
        BY <2>1, <2>4, <3>1
      <3>2. CASE i \in AtBus
        <4>1. PICK k \in 1 .. Len(line) : line[k] = i
          BY <3>2 DEF LineInv
        <4>2. k \in 1 .. Len(line')
          BY <2>1, <2>4
        <4> QED
          BY <2>4, <4>1, <4>2
      <3> QED
        BY <2>3, <2>8, <3>1, <3>2
    <2>9. ASSUME NEW i \in Idx, NEW k \in 1 .. Len(line'), line'[k] = i PROVE i \in AtBus'
      BY <2>3, <2>4, <2>6, <2>9 DEF LineInv
    <2> QED
      BY <2>7, <2>8, <2>9 DEF LineInv
  <1>2. CASE UNCHANGED <<bus, line>>
    BY <1>2, LineFrame DEF AtBus
  <1> QED
    BY <1>1, <1>2 DEF Lap, LapBegin, LapClaim, LapAcquire, LapPublish, LapHandBack, LapEnd, engVars

LEMMA BusLine ==
  ASSUME RingIInv, Bus
  PROVE  LineInv'
  <1> USE DEF RingIInv
  <1>1. CASE Frame
    <2>1. /\ line \in Seq(Idx) /\ line # <<>> /\ line' = Tail(line)
          /\ bus' \in {[bus EXCEPT ![Head(line)] = x] : x \in {"cancelled", "filled"}}
      BY <1>1 DEF Frame, Types, EngineTypes
    <2>2. /\ 1 \in 1 .. Len(line) /\ Len(line) \in Nat /\ Head(line) = line[1] /\ Head(line) \in Idx
          /\ line' \in Seq(Idx) /\ Len(line') = Len(line) - 1
          /\ \A k \in 1 .. Len(line) - 1 : line'[k] = line[k + 1]
      BY <2>1, FirstAtBus, LenProperties, HeadTailProperties
    <2>3. \A i \in Idx : i \in AtBus' <=> i \in AtBus /\ i # line[1]
      BY <2>1, <2>2 DEF AtBus, Types, EngineTypes
    <2>4. \A k \in 1 .. Len(line) - 1 : line'[k] = IF k < 1 THEN line[k] ELSE line[k + 1]
      BY <2>2
    <2> QED
      BY <2>2, <2>3, <2>4, LineShorter
  <1>2. CASE TriggerUnheard
    BY <1>2, LineFrame DEF TriggerUnheard, engVars, AtBus
  <1>3. ASSUME NEW i \in Idx, AttachDone(i) \/ DetachFailed(i) PROVE LineInv'
    <2>1. AtBus' = AtBus /\ line' = line
      BY <1>3 DEF AttachDone, DetachFailed, AtBus, Detaching, Types, EngineTypes
    <2> QED
      BY <2>1, LineFrame
  <1>4. ASSUME NEW i \in Idx, NEW c \in Cpu, AttachFailed(c, i) PROVE LineInv'
    <2>1. \A j \in Idx : j \in AtBus' <=> j \in AtBus /\ j # i
      BY <1>4 DEF AttachFailed, Interrupt, AtBus, Types, EngineTypes
    <2> QED
      BY <1>4, <2>1, LineLeft DEF AttachFailed
  <1>5. ASSUME NEW i \in Idx, NEW c \in Cpu, DetachDone(c, i) PROVE LineInv'
    <2>1. AtBus' = AtBus /\ line' = line
      BY <1>5 DEF DetachDone, Interrupt, AtBus, Detaching, Types, EngineTypes
    <2> QED
      BY <2>1, LineFrame
  <1> QED
    BY <1>1, <1>2, <1>3, <1>4, <1>5 DEF Bus

LEMMA ControlLine ==
  ASSUME RingIInv, Control
  PROVE  LineInv'
  <1> USE DEF RingIInv
  <1>1. CASE ClaimAttached
    <2>1. ASSUME NEW i \in Idx, bus[i] = "attached", bus' = [bus EXCEPT ![i] = "cancelled"],
                 LeavesLine(i)
          PROVE  LineInv'
      <3>1. \A j \in Idx : j \in AtBus' <=> j \in AtBus /\ j # i
        BY <2>1 DEF AtBus, Types, EngineTypes
      <3> QED
        BY <2>1, <3>1, LineLeft
    <2>2. CASE UNCHANGED <<bus, line>>
      BY <2>2, LineFrame DEF AtBus
    <2> QED
      BY <1>1, <2>1, <2>2 DEF ClaimAttached
  <1>2. CASE ReleaseSession \/ EngineStart
    <2>1. line' = line /\ AtBus' = AtBus
      BY <1>2 DEF ReleaseSession, FlushHeld, EngineStart, engVars, AtBus, Held
    <2> QED
      BY <2>1, LineFrame
  <1>3. CASE Release
    <2>1. QuietBus
      BY <1>3 DEF Release, PlacesInv, Still
    <2>2. line' = line /\ AtBus' = {} /\ AtBus = {}
      BY <1>3, <2>1 DEF Release, AtBus, QuietBus
    <2> QED
      BY <2>2, LineFrame
  <1>4. CASE UNCHANGED <<bus, line>>
    BY <1>4, LineFrame DEF AtBus
  <1> QED
    BY <1>1, <1>2, <1>3, <1>4
    DEF Control, SurpriseRemoval, Uninitialize, Create, StopBegin, Quiesce, IsochStop, Drained,
        PumpIdle, UnmapRing, CtlPump, Enable, Arm, LockFrame, PublishRing, MapDone, engVars

LEMMA NextLine ==
  ASSUME RingIInv, [Next]_vars
  PROVE  LineInv'
  <1>1. CASE UNCHANGED <<bus, line>>
    BY <1>1, LineFrame DEF AtBus, RingIInv
  <1>2. Completion => UNCHANGED <<bus, line>>
    BY DEF Completion, DpcDeliver, DpcSignal, DpcPump, DpcDone, OutsideDpc, engVars
  <1>3. (\E h \in Handle : Request(h)) => UNCHANGED <<bus, line>>
    BY DEF Request, Prepare, Unprepare, Stop, UnmapFrames, Cleanup, SwTrigger, Start, Map,
           RegisterEvent, UnregisterEvent, engVars
  <1>4. UNCHANGED vars => UNCHANGED <<bus, line>>
    BY DEF vars, engVars
  <1> QED
    BY <1>1, <1>2, <1>3, <1>4, LapLine, BusLine, ControlLine DEF Next

-----------------------------------------------------------------------------
(* Who holds a frame.                                                       *)

LEMMA HoldersFrame ==
  ASSUME HoldersInv,
         \A i \in Idx : (fs'[i] = "inflight") <=> (fs[i] = "inflight"),
         \A i \in Idx : (bus'[i] = "none") <=> (bus[i] = "none"),
         LapHolds' <=> LapHolds, LapHolds => lapIdx' = lapIdx, lapIdx \in Idx,
         \A i \in Idx, c \in Cpu : Carries(c, i)' <=> Carries(c, i)
  PROVE  HoldersInv'
  BY DEF HoldersInv

(* Once no engine runs, only a quarantined frame is in flight. *)
LEMMA QuietHolders ==
  ASSUME HoldersInv, QuietBus, ~LapHolds
  PROVE  \A i \in Idx : fs[i] = "inflight" <=> i \in Held
  BY DEF HoldersInv, QuietBus, Held, Carries

LEMMA LapHolders ==
  ASSUME RingIInv, Lap
  PROVE  HoldersInv'
  <1> USE DEF RingIInv
  <1>1. dpc' = dpc /\ dpcIdx' = dpcIdx /\ \A i \in Idx, c \in Cpu : Carries(c, i)' <=> Carries(c, i)
    BY DEF Lap, LapBegin, LapClaim, LapAcquire, LapPublish, LapHandBack, LapEnd, OutsideLap, dpcVars,
           Carries
  <1>2. lapIdx \in Idx
    BY DEF Types, PumpTypes
  <1>3. CASE LapBegin \/ LapClaim \/ LapEnd
    <2>1. UNCHANGED <<fs, bus>> /\ ~LapHolds' /\ ~LapHolds
      BY <1>3 DEF LapBegin, LapClaim, LapEnd, LapStep, LapHolds, engVars
    <2> QED
      BY <1>1, <1>2, <2>1, HoldersFrame
  <1>4. CASE LapAcquire
    <2>1. CASE UNCHANGED <<fs, bus>> /\ ~LapHolds' /\ ~LapHolds
      BY <1>1, <1>2, <2>1, HoldersFrame
    <2>2. ASSUME NEW i \in Idx, fs[i] = "queued", ~LapHolds, LapHolds', lapIdx' = i, bus' = bus,
                 fs' = [fs EXCEPT ![i] = "inflight"]
          PROVE  HoldersInv'
      <3>1. bus[i] = "none" /\ \A c \in Cpu : ~Carries(c, i)
        BY <2>2 DEF HoldersInv
      <3>2. \A j \in Idx : fs'[j] = "inflight" <=> fs[j] = "inflight" \/ j = i
        BY <2>2 DEF Types, TurnTypes
      <3> QED
        BY <1>1, <2>2, <3>1, <3>2 DEF HoldersInv
    <2> QED
      BY <1>4, <2>1, <2>2 DEF LapAcquire, LapStep, LapHolds, Acquire, engVars
  <1>5. CASE LapPublish
    <2>1. LapHolds /\ fs' = fs
      BY <1>5 DEF LapPublish, LapStep, LapHolds
    <2>2. CASE draining
      <3>1. UNCHANGED <<bus, lapIdx>> /\ LapHolds'
        BY <1>5, <2>2 DEF LapPublish, LapStep, LapHolds, engVars
      <3> QED
        BY <1>1, <1>2, <2>1, <3>1, HoldersFrame
    <2>3. CASE ~draining
      <3>1. ~LapHolds' /\ bus' = [bus EXCEPT ![lapIdx] = "attaching"]
        BY <1>5, <2>3 DEF LapPublish, LapStep, LapHolds
      <3>2. \A i \in Idx : bus'[i] # "none" <=> bus[i] # "none" \/ i = lapIdx
        BY <1>2, <3>1 DEF Types, EngineTypes
      <3> QED
        BY <1>1, <1>2, <2>1, <3>1, <3>2 DEF HoldersInv
    <2> QED
      BY <2>2, <2>3
  <1>6. CASE LapHandBack
    <2>1. LapHolds /\ ~LapHolds' /\ bus' = bus /\ fs' = [fs EXCEPT ![lapIdx] = "queued"]
      BY <1>6 DEF LapHandBack, LapStep, LapHolds, engVars
    <2>2. \A i \in Idx : fs'[i] = "inflight" <=> fs[i] = "inflight" /\ i # lapIdx
      BY <1>2, <2>1 DEF Types, TurnTypes
    <2> QED
      BY <1>1, <1>2, <2>1, <2>2 DEF HoldersInv
  <1> QED
    BY <1>3, <1>4, <1>5, <1>6 DEF Lap

LEMMA BusHolders ==
  ASSUME RingIInv, Bus
  PROVE  HoldersInv'
  <1> USE DEF RingIInv
  <1>1. UNCHANGED <<fs, lap, lapIdx>> /\ LapHolds' = LapHolds /\ lapIdx \in Idx
    BY DEF Bus, Frame, TriggerUnheard, AttachDone, AttachFailed, DetachDone, DetachFailed, Interrupt,
           OutsideBus, ringVars, pumpVars, LapHolds, Types, PumpTypes
  <1>2. ASSUME UNCHANGED <<dpc, dpcIdx>>, \A i \in Idx : (bus'[i] = "none") <=> (bus[i] = "none")
        PROVE  HoldersInv'
    <2>1. \A i \in Idx, c \in Cpu : Carries(c, i)' <=> Carries(c, i)
      BY <1>2 DEF Carries
    <2> QED
      BY <1>1, <1>2, <2>1, HoldersFrame
  <1>3. CASE Frame
    <2>1. Head(line) \in Idx /\ bus[Head(line)] # "none"
      BY <1>3, FirstAtBus DEF Frame
    <2>2. UNCHANGED <<dpc, dpcIdx>> /\ \A i \in Idx : (bus'[i] = "none") <=> (bus[i] = "none")
      BY <1>3, <2>1 DEF Frame, dpcVars, Types, EngineTypes
    <2> QED
      BY <1>2, <2>2
  <1>4. CASE TriggerUnheard
    BY <1>2, <1>4 DEF TriggerUnheard, engVars, dpcVars
  <1>5. ASSUME NEW i \in Idx, AttachDone(i) \/ DetachFailed(i) PROVE HoldersInv'
    <2>1. UNCHANGED <<dpc, dpcIdx>> /\ \A j \in Idx : (bus'[j] = "none") <=> (bus[j] = "none")
      BY <1>5 DEF AttachDone, DetachFailed, Detaching, dpcVars, Types, EngineTypes
    <2> QED
      BY <1>2, <2>1
  <1>6. ASSUME NEW i \in Idx, NEW c \in Cpu, AttachFailed(c, i) \/ DetachDone(c, i) PROVE HoldersInv'
    <2>1. /\ bus[i] # "none" /\ dpc[c] = "idle" /\ bus' = [bus EXCEPT ![i] = "none"]
          /\ dpc'[c] \in {"dropped", "delivered", "cancelled"} /\ dpcIdx'[c] = i
          /\ \A b \in Cpu \ {c} : dpc'[b] = dpc[b] /\ dpcIdx'[b] = dpcIdx[b]
      BY <1>6 DEF AttachFailed, DetachDone, Interrupt, Detaching, Types, DpcTypes
    <2>2. \A j \in Idx, b \in Cpu : Carries(b, j)' <=> Carries(b, j) \/ (b = c /\ j = i)
      BY <2>1 DEF Carries
    <2>3. \A j \in Idx : bus'[j] = "none" <=> bus[j] = "none" \/ j = i
      BY <2>1 DEF Types, EngineTypes
    <2>4. \A b \in Cpu : ~Carries(b, i)
      BY <2>1 DEF HoldersInv
    <2> QED
      BY <1>1, <2>1, <2>2, <2>3, <2>4 DEF HoldersInv
  <1> QED
    BY <1>3, <1>4, <1>5, <1>6 DEF Bus

LEMMA CompletionHolders ==
  ASSUME RingIInv, Completion
  PROVE  HoldersInv'
  <1> USE DEF RingIInv
  <1> PICK c \in Cpu : DpcDeliver(c) \/ DpcSignal(c) \/ DpcPump(c) \/ DpcDone(c)
    BY DEF Completion
  <1>1. bus' = bus /\ lapIdx' = lapIdx /\ lapIdx \in Idx /\ LapHolds' = LapHolds
    <2>1. LapHolds' = LapHolds
      BY DEF DpcDeliver, DpcSignal, DpcPump, DpcDone, PumpCall, pumpVars, LapHolds, PumpInv
    <2> QED
      BY <2>1 DEF DpcDeliver, DpcSignal, DpcPump, DpcDone, OutsideDpc, engVars, pumpVars, PumpCall,
                  Types, PumpTypes
  <1>2. CASE DpcDeliver(c)
    <2> DEFINE i == dpcIdx[c]
    <2>1. /\ i \in Idx /\ Carries(c, i) /\ fs' = [fs EXCEPT ![i] = SettledAs(dpc[c] = "delivered")]
          /\ SettledAs(dpc[c] = "delivered") \in {"queued", "delivered"}
      BY <1>2 DEF DpcDeliver, Carries, SettledAs, Types, DpcTypes
    <2> HIDE DEF i
    <2>2. \A j \in Idx : fs'[j] = "inflight" <=> fs[j] = "inflight" /\ j # i
      BY <2>1 DEF Types, TurnTypes
    <2>3. \A b \in Cpu : (dpc'[b] = dpc[b] /\ dpcIdx'[b] = dpcIdx[b]) \/ b = c
      BY <1>2 DEF DpcDeliver, Types, DpcTypes
    <2>4. dpc'[c] \in {"signal", "pump", "done"}
      BY <1>2 DEF DpcDeliver, Types, DpcTypes
    <2>5. \A j \in Idx, b \in Cpu : Carries(b, j)' <=> Carries(b, j) /\ b # c
      BY <2>3, <2>4 DEF Carries
    <2>6. \A j \in Idx : Carries(c, j) => j = i
      BY DEF Carries, i
    <2> QED
      BY <1>1, <2>1, <2>2, <2>5, <2>6 DEF HoldersInv
  <1>3. CASE DpcSignal(c) \/ DpcPump(c) \/ DpcDone(c)
    <2>1. /\ fs' = fs /\ dpcIdx' = dpcIdx /\ dpc[c] \in {"signal", "pump", "done"}
          /\ dpc'[c] \in {"idle", "pump", "done"} /\ \A b \in Cpu \ {c} : dpc'[b] = dpc[b]
      BY <1>3 DEF DpcSignal, DpcPump, DpcDone, Types, DpcTypes
    <2>2. \A j \in Idx, b \in Cpu : Carries(b, j)' <=> Carries(b, j)
      BY <2>1 DEF Carries
    <2> QED
      BY <1>1, <2>1, <2>2, HoldersFrame
  <1> QED
    BY <1>2, <1>3

(* Requests and the control path leave the completions and the lap alone.   *)
LEMMA CtlHolders ==
  ASSUME RingIInv, UNCHANGED <<dpc, dpcIdx, lapIdx>>, LapHolds' = LapHolds
  PROVE  /\ \A i \in Idx, c \in Cpu : Carries(c, i)' <=> Carries(c, i)
         /\ \/ UNCHANGED <<fs, bus>>
            \/ /\ \A i \in Idx : (fs'[i] = "inflight") <=> (fs[i] = "inflight")
               /\ \A i \in Idx : (bus'[i] = "none") <=> (bus[i] = "none")
            \/ /\ QuietBus /\ ~LapHolds
               /\ \A i \in Idx : fs'[i] = "inflight" <=> bus'[i] # "none"
            => HoldersInv'
  <1>1. lapIdx \in Idx
    BY DEF RingIInv, Types, PumpTypes
  <1>2. \A i \in Idx, c \in Cpu : Carries(c, i)' <=> Carries(c, i)
    BY DEF Carries
  <1>3. QuietBus => \A i \in Idx, c \in Cpu : ~Carries(c, i)
    BY DEF QuietBus, Carries
  <1>4. ASSUME \A i \in Idx : (fs'[i] = "inflight") <=> (fs[i] = "inflight"),
               \A i \in Idx : (bus'[i] = "none") <=> (bus[i] = "none")
        PROVE  HoldersInv'
    BY <1>1, <1>2, <1>4, HoldersFrame DEF RingIInv
  <1>5. ASSUME QuietBus, ~LapHolds, \A i \in Idx : fs'[i] = "inflight" <=> bus'[i] # "none"
        PROVE  HoldersInv'
    BY <1>2, <1>3, <1>5 DEF HoldersInv
  <1> QED
    BY <1>2, <1>4, <1>5

LEMMA RequestHolders ==
  ASSUME RingIInv, NEW h \in Handle, Request(h)
  PROVE  HoldersInv'
  <1> USE DEF RingIInv
  <1>1. bus' = bus /\ UNCHANGED <<dpc, dpcIdx, lap, lapIdx>> /\ LapHolds' = LapHolds
    BY DEF Request, Prepare, Unprepare, Stop, UnmapFrames, Cleanup, SwTrigger, Start, Map,
           RegisterEvent, UnregisterEvent, engVars, OutsideCtl, dpcVars, pumpVars, LapHolds
  <1>2. CASE fs' = fs
    BY <1>1, <1>2, CtlHolders
  <1>3. CASE Requeue
    <2>1. \A i \in Idx : (fs'[i] = "inflight") <=> (fs[i] = "inflight")
      BY <1>3 DEF Requeue
    <2> QED
      BY <1>1, <2>1, CtlHolders
  <1>4. ASSUME NEW n \in 0 .. Ring + 1, Map(h, n) PROVE HoldersInv'
    <2>1. mapped = 0 /\ Held = {} /\ fs' = [i \in Idx |-> "queued"]
      BY <1>4 DEF Map, Leftover, Unmap
    <2>2. QuietBus /\ ~LapHolds
      BY <2>1 DEF PlacesInv, Settled
    <2>3. \A i \in Idx : fs'[i] = "inflight" <=> bus'[i] # "none"
      BY <1>1, <2>1, <2>2 DEF QuietBus, Held
    <2> QED
      BY <1>1, <2>2, <2>3, CtlHolders
  <1> QED
    BY <1>2, <1>3, <1>4 DEF Request, Prepare, Unprepare, Stop, UnmapFrames, Cleanup, SwTrigger, Start,
       RegisterEvent, UnregisterEvent, ringVars

LEMMA ControlHolders ==
  ASSUME RingIInv, Control
  PROVE  HoldersInv'
  <1> USE DEF RingIInv
  <1>1. UNCHANGED <<dpc, dpcIdx, lapIdx>> /\ LapHolds' = LapHolds
    <2>1. CASE CtlPump
      BY <2>1 DEF CtlPump, PumpCall, LapHolds, PumpInv
    <2> QED
      BY <2>1 DEF Control, SurpriseRemoval, Uninitialize, Create, StopBegin, Quiesce, IsochStop,
         ClaimAttached, Drained, PumpIdle, ReleaseSession, UnmapRing, Release, EngineStart, Enable, Arm,
         LockFrame, PublishRing, MapDone, OutsideCtl, dpcVars, pumpVars, LapHolds
  <1>2. ctl \in Still => QuietBus /\ ~LapHolds /\ \A i \in Idx : fs[i] = "inflight" <=> i \in Held
    BY QuietHolders DEF PlacesInv, PumpInv, LapHolds
  <1>3. CASE UNCHANGED <<fs, bus>>
    BY <1>1, <1>3, CtlHolders
  <1>4. CASE ClaimAttached
    <2>1. fs' = fs /\ \A i \in Idx : (bus'[i] = "none") <=> (bus[i] = "none")
      BY <1>4 DEF ClaimAttached, ringVars, Types, EngineTypes
    <2> QED
      BY <1>1, <2>1, CtlHolders
  <1>5. ASSUME ctl \in Still,
               bus' = bus \/ \A i \in Idx : bus'[i] = "none",
               \/ fs' = [i \in Idx |-> IF i \in Held /\ mdl[i] THEN fs[i] ELSE "queued"] /\ bus' = bus
               \/ fs' = [i \in Idx |-> "queued"] /\ \A i \in Idx : bus'[i] = "none"
        PROVE  HoldersInv'
    <2>1. \A i \in Held : mdl[i]
      BY DEF RingInv, Held
    <2>2. \A i \in Idx : fs'[i] = "inflight" <=> bus'[i] # "none"
      BY <1>2, <1>5, <2>1 DEF QuietBus, Held
    <2> QED
      BY <1>1, <1>2, <1>5, <2>2, CtlHolders
  <1>6. CASE ReleaseSession \/ EngineStart
    <2>1. \/ UNCHANGED <<fs, bus>>
          \/ /\ bus' = [i \in Idx |-> IF i \in Held THEN "none" ELSE bus[i]]
             /\ fs' = [i \in Idx |-> IF i \in Held THEN "queued" ELSE fs[i]]
             /\ draining /\ ctl \notin Drains
          \/ /\ bus' = [i \in Idx |-> bus[i]] /\ fs' = [i \in Idx |-> fs[i]]
      <3>1. CASE ReleaseSession
        BY <3>1 DEF ReleaseSession, FlushHeld, PlacesInv, Drains
      <3>2. CASE EngineStart /\ ~draining
        BY <3>2 DEF EngineStart, engVars
      <3>3. CASE EngineStart /\ draining
        BY <3>3 DEF EngineStart, At, Drains
      <3> QED
        BY <1>6, <3>1, <3>2, <3>3
    <2>2. CASE draining /\ ctl \notin Drains
      <3>1. QuietBus /\ ~LapHolds
        BY <2>2 DEF PlacesInv, Settled
      <3>2. \A i \in Idx : fs[i] = "inflight" <=> i \in Held
        BY <3>1, QuietHolders
      <3>3. \A i \in Idx : fs'[i] = "inflight" <=> bus'[i] # "none"
        BY <2>1, <3>1, <3>2 DEF QuietBus, Held
      <3> QED
        BY <1>1, <3>1, <3>3, CtlHolders
    <2>3. CASE ~(draining /\ ctl \notin Drains)
      BY <1>1, <2>1, <2>3, CtlHolders
    <2> QED
      BY <2>2, <2>3
  <1>7. CASE UnmapRing
    <2>1. fs' = [i \in Idx |-> IF i \in Held /\ mdl[i] THEN fs[i] ELSE "queued"] /\ bus' = bus
      BY <1>7 DEF UnmapRing, Unmap, engVars, Held
    <2> QED
      BY <1>5, <1>7, <2>1 DEF UnmapRing, Still
  <1>8. CASE Release
    <2>1. fs' = [i \in Idx |-> "queued"] /\ bus' = [i \in Idx |-> "none"]
      BY <1>8 DEF Release, Unmap, Forced
    <2> QED
      BY <1>5, <1>8, <2>1 DEF Release, Still
  <1>9. CASE LockFrame
    <2>1. ctl = "lock" /\ Held = {} /\ bus' = bus
      BY <1>9 DEF LockFrame, ChargeInv, engVars
    <2>2. QuietBus /\ ~LapHolds /\ \A i \in Idx : fs[i] # "inflight" /\ bus[i] = "none"
      BY <1>2, <2>1 DEF Still, QuietBus, Held
    <2>3. \A i \in Idx : fs'[i] \in {fs[i], "queued"}
      BY <1>9 DEF LockFrame, Types, TurnTypes
    <2> QED
      BY <1>1, <2>1, <2>2, <2>3, CtlHolders
  <1> QED
    BY <1>3, <1>4, <1>6, <1>7, <1>8, <1>9
    DEF Control, SurpriseRemoval, Uninitialize, Create, StopBegin, Quiesce, IsochStop, Drained,
        PumpIdle, CtlPump, Enable, Arm, PublishRing, MapDone, engVars, ringVars

LEMMA NextHolders ==
  ASSUME RingIInv, [Next]_vars
  PROVE  HoldersInv'
  <1>1. CASE UNCHANGED vars
    BY <1>1 DEF vars, RingIInv, HoldersInv, Carries, LapHolds, ringVars, engVars, pumpVars, dpcVars
  <1> QED
    BY <1>1, LapHolders, BusHolders, CompletionHolders, RequestHolders, ControlHolders DEF Next

-----------------------------------------------------------------------------
(* What lies in the mapped ring.                                            *)

LEMMA RingFrame ==
  ASSUME RingInv, UNCHANGED <<mdl, mapped, next, current, oneShot, pumpRing>>,
         \A i \in Idx : bus'[i] # "none" => bus[i] # "none",
         \A i \in Idx : bus'[i] \notin {"none", "held"} => bus[i] \notin {"none", "held"},
         \A i \in Idx : fs'[i] = "delivered" => fs[i] = "delivered",
         LapHolds' => LapHolds /\ lapIdx' = lapIdx,
         \A i \in Idx, c \in Cpu : Carries(c, i)' => Carries(c, i)
  PROVE  RingInv'
  BY DEF RingInv

LEMMA LapRing ==
  ASSUME RingIInv, Lap
  PROVE  RingInv'
  <1> USE DEF RingIInv
  <1>1. /\ UNCHANGED <<mdl, mapped, current, oneShot, pumpRing>>
        /\ \A i \in Idx, c \in Cpu : Carries(c, i)' <=> Carries(c, i)
    BY DEF Lap, LapBegin, LapClaim, LapAcquire, LapPublish, LapHandBack, LapEnd, OutsideLap, dpcVars,
           frameVars, slotVars, Carries
  <1>2. lapIdx \in Idx /\ mapped \in 0 .. Ring
    BY DEF Types, PumpTypes, FrameTypes
  <1>3. CASE LapBegin \/ LapClaim \/ LapEnd
    <2>1. UNCHANGED <<fs, next, bus>> /\ ~LapHolds'
      BY <1>3 DEF LapBegin, LapClaim, LapEnd, LapStep, LapHolds, engVars
    <2> QED
      BY <1>1, <2>1, RingFrame
  <1>4. CASE LapAcquire
    <2>1. CASE UNCHANGED <<fs, next, bus>> /\ ~LapHolds'
      BY <1>1, <2>1, RingFrame
    <2>2. ASSUME NEW i \in Idx, Acquire(i), lapIdx' = i, bus' = bus, next' = (i + 1) % mapped,
                 fs' = [fs EXCEPT ![i] = "inflight"]
          PROVE  RingInv'
      <3>1. mapped \in 1 .. Ring /\ i < mapped
        BY <1>2, <2>2, RingAssumption DEF Acquire, RingInv
      <3>2. next' < mapped
        BY <2>2, <3>1, NextIdx
      <3>3. \A j \in Idx : fs'[j] = "delivered" => fs[j] = "delivered"
        BY <2>2 DEF Types, TurnTypes
      <3> QED
        BY <1>1, <2>2, <3>1, <3>2, <3>3 DEF RingInv
    <2> QED
      BY <1>4, <2>1, <2>2 DEF LapAcquire, LapStep, LapHolds, engVars
  <1>5. CASE LapPublish
    <2>1. LapHolds /\ UNCHANGED <<fs, next>>
      BY <1>5 DEF LapPublish, LapStep, LapHolds
    <2>2. CASE draining
      <3>1. UNCHANGED <<bus, lapIdx>> /\ LapHolds'
        BY <1>5, <2>2 DEF LapPublish, LapStep, LapHolds, engVars
      <3> QED
        BY <1>1, <2>1, <3>1, RingFrame
    <2>3. CASE ~draining
      <3>1. ~LapHolds' /\ bus' = [bus EXCEPT ![lapIdx] = "attaching"]
        BY <1>5, <2>3 DEF LapPublish, LapStep, LapHolds
      <3>2. lapIdx < mapped /\ mdl[lapIdx]
        BY <1>2, <2>1 DEF RingInv
      <3>3. \A i \in Idx : i = lapIdx \/ bus'[i] = bus[i]
        BY <3>1 DEF Types, EngineTypes
      <3> QED
        BY <1>1, <2>1, <3>1, <3>2, <3>3 DEF RingInv
    <2> QED
      BY <2>2, <2>3
  <1>6. CASE LapHandBack
    <2>1. ~LapHolds' /\ UNCHANGED <<bus, next>> /\ fs' = [fs EXCEPT ![lapIdx] = "queued"]
      BY <1>6 DEF LapHandBack, LapStep, LapHolds, engVars
    <2>2. \A i \in Idx : fs'[i] = "delivered" => fs[i] = "delivered"
      BY <2>1 DEF Types, TurnTypes
    <2> QED
      BY <1>1, <2>1, <2>2, RingFrame
  <1> QED
    BY <1>3, <1>4, <1>5, <1>6 DEF Lap

LEMMA BusRing ==
  ASSUME RingIInv, Bus
  PROVE  RingInv'
  <1> USE DEF RingIInv
  <1>1. /\ UNCHANGED <<mdl, mapped, next, current, oneShot, pumpRing, fs, lapIdx>>
        /\ LapHolds' = LapHolds
    BY DEF Bus, Frame, TriggerUnheard, AttachDone, AttachFailed, DetachDone, DetachFailed, Interrupt,
           OutsideBus, slotVars, ringVars, frameVars, pumpVars, LapHolds
  <1>2. ASSUME UNCHANGED <<dpc, dpcIdx>>,
               \A i \in Idx : bus'[i] = bus[i] \/ bus[i] \notin {"none", "held"}
        PROVE  RingInv'
    <2>1. \A i \in Idx, c \in Cpu : Carries(c, i)' <=> Carries(c, i)
      BY <1>2 DEF Carries
    <2> QED
      BY <1>1, <1>2, <2>1, RingFrame
  <1>3. CASE Frame
    <2>1. Head(line) \in Idx /\ bus[Head(line)] \in {"attaching", "attached"}
      BY <1>3, FirstAtBus DEF Frame
    <2>2. UNCHANGED <<dpc, dpcIdx>> /\ \A i \in Idx : bus'[i] = bus[i] \/ bus[i] \notin {"none", "held"}
      BY <1>3, <2>1 DEF Frame, dpcVars, Types, EngineTypes
    <2> QED
      BY <1>2, <2>2
  <1>4. CASE TriggerUnheard
    BY <1>2, <1>4 DEF TriggerUnheard, engVars, dpcVars
  <1>5. ASSUME NEW i \in Idx, AttachDone(i) \/ DetachFailed(i) PROVE RingInv'
    <2>1. UNCHANGED <<dpc, dpcIdx>> /\ \A j \in Idx : bus'[j] = bus[j] \/ bus[j] \notin {"none", "held"}
      BY <1>5 DEF AttachDone, DetachFailed, Detaching, dpcVars, Types, EngineTypes
    <2> QED
      BY <1>2, <2>1
  <1>6. ASSUME NEW i \in Idx, NEW c \in Cpu, AttachFailed(c, i) \/ DetachDone(c, i) PROVE RingInv'
    <2>1. /\ bus[i] \notin {"none", "held"} /\ bus' = [bus EXCEPT ![i] = "none"] /\ dpcIdx'[c] = i
          /\ \A b \in Cpu \ {c} : dpc'[b] = dpc[b] /\ dpcIdx'[b] = dpcIdx[b]
      BY <1>6 DEF AttachFailed, DetachDone, Interrupt, Detaching, Types, DpcTypes
    <2>2. \A j \in Idx, b \in Cpu : Carries(b, j)' => Carries(b, j) \/ j = i
      BY <2>1 DEF Carries
    <2>3. \A j \in Idx : bus'[j] = bus[j] \/ bus'[j] = "none"
      BY <2>1 DEF Types, EngineTypes
    <2>4. i < mapped
      BY <2>1 DEF RingInv
    <2> QED
      BY <1>1, <2>2, <2>3, <2>4 DEF RingInv
  <1> QED
    BY <1>3, <1>4, <1>5, <1>6 DEF Bus

LEMMA CompletionRing ==
  ASSUME RingIInv, Completion
  PROVE  RingInv'
  <1> USE DEF RingIInv
  <1> PICK c \in Cpu : DpcDeliver(c) \/ DpcSignal(c) \/ DpcPump(c) \/ DpcDone(c)
    BY DEF Completion
  <1>1. UNCHANGED <<mdl, mapped, next, oneShot, pumpRing, bus, lapIdx>> /\ LapHolds' = LapHolds
    <2>1. LapHolds' = LapHolds
      BY DEF DpcDeliver, DpcSignal, DpcPump, DpcDone, PumpCall, pumpVars, LapHolds, PumpInv
    <2> QED
      BY <2>1 DEF DpcDeliver, DpcSignal, DpcPump, DpcDone, OutsideDpc, frameVars, slotVars, engVars,
                  pumpVars, PumpCall
  <1>2. CASE DpcDeliver(c)
    <2> DEFINE i == dpcIdx[c]
    <2>1. /\ i \in Idx /\ Carries(c, i) /\ fs' = [fs EXCEPT ![i] = SettledAs(dpc[c] = "delivered")]
          /\ SettledAs(dpc[c] = "delivered") = "delivered" => oneShot
          /\ current' \in {i, current}
      BY <1>2 DEF DpcDeliver, Carries, SettledAs, Types, DpcTypes
    <2> HIDE DEF i
    <2>2. i < mapped
      BY <2>1 DEF RingInv
    <2>3. \A j \in Idx : fs'[j] = fs[j] \/ (j = i /\ (fs'[j] = "delivered" => oneShot))
      BY <2>1 DEF Types, TurnTypes
    <2>4. \A b \in Cpu : (dpc'[b] = dpc[b] /\ dpcIdx'[b] = dpcIdx[b]) \/ b = c
      BY <1>2 DEF DpcDeliver, Types, DpcTypes
    <2>5. dpc'[c] \in {"signal", "pump", "done"}
      BY <1>2 DEF DpcDeliver, Types, DpcTypes
    <2>6. \A j \in Idx, b \in Cpu : Carries(b, j)' => Carries(b, j)
      BY <2>4, <2>5 DEF Carries
    <2> QED
      BY <1>1, <2>1, <2>2, <2>3, <2>6 DEF RingInv
  <1>3. CASE DpcSignal(c) \/ DpcPump(c) \/ DpcDone(c)
    <2>1. /\ UNCHANGED <<fs, current, dpcIdx>>
          /\ dpc'[c] \in {"idle", "pump", "done"} /\ \A b \in Cpu \ {c} : dpc'[b] = dpc[b]
      BY <1>3 DEF DpcSignal, DpcPump, DpcDone, Types, DpcTypes
    <2>2. \A j \in Idx, b \in Cpu : Carries(b, j)' => Carries(b, j)
      BY <2>1 DEF Carries
    <2> QED
      BY <1>1, <2>1, <2>2, RingFrame
  <1> QED
    BY <1>2, <1>3

(* An unmap while the engine is still leaves the quarantined frames locked. *)
LEMMA UnmapLeaves ==
  ASSUME RingIInv, QuietBus, ~LapHolds, NEW force \in BOOLEAN, Unmap(force),
         UNCHANGED <<dpc, dpcIdx, lap, lapIdx>>,
         \A i \in Idx : bus'[i] = IF force THEN "none" ELSE bus[i]
  PROVE  RingInv'
  <1> USE DEF RingIInv
  <1>1. mapped' = 0 /\ next' = 0 /\ current' < 0
    BY IdxFacts DEF Unmap
  <1>2. ~LapHolds' /\ \A c \in Cpu, i \in Idx : ~Carries(c, i)'
    BY DEF LapHolds, Carries, QuietBus
  <1>3. \A i \in Idx : bus'[i] \in {"none", "held"} /\ (bus'[i] # "none" => mdl'[i])
    BY DEF QuietBus, Unmap, Held, RingInv
  <1>4. \A i \in Idx : fs'[i] # "delivered"
    BY DEF Unmap, HoldersInv, Held
  <1> QED
    BY <1>1, <1>2, <1>3, <1>4, RingAssumption DEF RingInv, Idx

LEMMA RequestRing ==
  ASSUME RingIInv, NEW h \in Handle, Request(h)
  PROVE  RingInv'
  <1> USE DEF RingIInv
  <1>1. /\ bus' = bus /\ UNCHANGED <<dpc, dpcIdx, lap, lapIdx>> /\ LapHolds' = LapHolds
        /\ \A i \in Idx, c \in Cpu : Carries(c, i)' <=> Carries(c, i)
    BY DEF Request, Prepare, Unprepare, Stop, UnmapFrames, Cleanup, SwTrigger, Start, Map, Carries,
           RegisterEvent, UnregisterEvent, engVars, OutsideCtl, dpcVars, pumpVars, LapHolds
  <1>2. CASE UNCHANGED slotVars /\ UNCHANGED ringVars
    BY <1>1, <1>2, RingFrame DEF slotVars, ringVars, frameVars
  <1>3. Requeue => \A i \in Idx : fs'[i] # "delivered"
    BY DEF Requeue, RingInv
  <1>4. CASE SwTrigger(h)
    <2>1. UNCHANGED <<mdl, mapped, next, current, oneShot, pumpRing>> /\ (Requeue \/ fs' = fs)
      BY <1>4 DEF SwTrigger, slotVars, frameVars
    <2> QED
      BY <1>1, <1>3, <2>1, RingFrame
  <1>5. ASSUME NEW shot \in BOOLEAN, NEW ring \in BOOLEAN, Start(h, shot, ring) PROVE RingInv'
    <2>1. /\ UNCHANGED <<mdl, mapped, next, current>> /\ pumpRing' = ring
          /\ IF ring THEN Requeue ELSE fs' = fs
      BY <1>5 DEF Start, frameVars
    <2> QED
      BY <1>1, <1>3, <2>1 DEF RingInv
  <1>6. ASSUME NEW n \in 0 .. Ring + 1, Map(h, n) PROVE RingInv'
    <2>1. mapped = 0 /\ Unmap(FALSE)
      BY <1>6 DEF Map, Leftover
    <2>2. QuietBus /\ ~LapHolds
      BY <2>1 DEF PlacesInv, Settled
    <2> QED
      BY <1>1, <2>1, <2>2, UnmapLeaves
  <1> QED
    BY <1>2, <1>4, <1>5, <1>6 DEF Request, Prepare, Unprepare, Stop, UnmapFrames, Cleanup,
       RegisterEvent, UnregisterEvent

(* The lock loop has locked the frames up to the next in turn. *)
LEMMA LockedSoFar ==
  ASSUME RingIInv, ctl = "lock", NEW n, n = Cardinality({i \in Idx : mdl[i]})
  PROVE  /\ want \in 1 .. Ring /\ n \in 0 .. want /\ \A i \in Idx : mdl[i] <=> i < n
         /\ mapped = 0 /\ next = 0 /\ current = NoFrame
         /\ \A i \in Idx : bus[i] = "none" /\ fs[i] = "queued"
         /\ ~LapHolds /\ \A c \in Cpu : dpc[c] = "idle"
  <1> USE DEF RingIInv
  <1>1. /\ want \in 1 .. Ring /\ mapped = 0 /\ next = 0 /\ current = NoFrame /\ Held = {}
        /\ \E m \in 0 .. want : \A i \in Idx : mdl[i] <=> i < m
    BY DEF ChargeInv
  <1>2. PICK m \in 0 .. want : \A i \in Idx : mdl[i] <=> i < m
    BY <1>1
  <1>3. m \in 0 .. Ring /\ {i \in Idx : mdl[i]} = {i \in Idx : i < m}
    BY <1>1, <1>2, RingAssumption
  <1>4. n = m
    BY <1>3, FirstFrames
  <1>5. QuietBus /\ lap = "none"
    BY DEF PlacesInv, Still, PumpInv
  <1>6. \A i \in Idx : bus[i] = "none"
    BY <1>1, <1>5 DEF QuietBus, Held
  <1>7. ~LapHolds /\ \A i \in Idx, c \in Cpu : ~Carries(c, i)
    BY <1>5 DEF QuietBus, Carries, LapHolds
  <1>8. \A i \in Idx : fs[i] # "delivered"
    BY <1>1, IdxFacts DEF RingInv, Idx
  <1>9. \A i \in Idx : fs[i] = "queued"
    BY <1>6, <1>7, <1>8 DEF HoldersInv, Types, TurnTypes
  <1> QED
    BY <1>1, <1>2, <1>4, <1>5, <1>6, <1>7, <1>9 DEF QuietBus

LEMMA ControlRing ==
  ASSUME RingIInv, Control
  PROVE  RingInv'
  <1> USE DEF RingIInv
  <1>1. UNCHANGED <<dpc, dpcIdx, lapIdx>> /\ LapHolds' = LapHolds
    <2>1. CASE CtlPump
      BY <2>1 DEF CtlPump, PumpCall, LapHolds, PumpInv
    <2> QED
      BY <2>1 DEF Control, SurpriseRemoval, Uninitialize, Create, StopBegin, Quiesce, IsochStop,
         ClaimAttached, Drained, PumpIdle, ReleaseSession, UnmapRing, Release, EngineStart, Enable, Arm,
         LockFrame, PublishRing, MapDone, OutsideCtl, dpcVars, pumpVars, LapHolds
  <1>2. \A i \in Idx, c \in Cpu : Carries(c, i)' <=> Carries(c, i)
    BY <1>1 DEF Carries
  <1>3. CASE UNCHANGED <<oneShot, pumpRing>> /\ UNCHANGED ringVars /\ UNCHANGED bus
    BY <1>1, <1>2, <1>3, RingFrame DEF ringVars, frameVars
  <1>4. CASE ClaimAttached
    <2>1. \A i \in Idx : bus'[i] = bus[i] \/ bus[i] = "attached"
      BY <1>4 DEF ClaimAttached, Types, EngineTypes
    <2>2. UNCHANGED <<oneShot, pumpRing>> /\ UNCHANGED ringVars
      BY <1>4 DEF ClaimAttached, slotVars
    <2> QED
      BY <1>1, <1>2, <2>1, <2>2, RingFrame DEF ringVars, frameVars
  <1>5. CASE ReleaseSession \/ EngineStart
    <2>1. \A i \in Idx : bus'[i] \in {bus[i], "none"} /\ fs'[i] \in {fs[i], "queued"}
      BY <1>5 DEF ReleaseSession, FlushHeld, EngineStart, engVars
    <2>2. UNCHANGED <<oneShot, pumpRing, mdl, mapped, next, current>>
      BY <1>5 DEF ReleaseSession, FlushHeld, EngineStart, slotVars, frameVars
    <2> QED
      BY <1>1, <1>2, <2>1, <2>2, RingFrame
  <1>6. ctl \in Still => QuietBus /\ ~LapHolds
    BY DEF PlacesInv, PumpInv, LapHolds
  <1>7. CASE UnmapRing
    <2>1. UNCHANGED <<dpc, dpcIdx, lap, lapIdx, bus>> /\ Unmap(FALSE) /\ ctl \in Still
      BY <1>7 DEF UnmapRing, OutsideCtl, dpcVars, pumpVars, engVars, Still
    <2> QED
      BY <1>6, <2>1, UnmapLeaves
  <1>8. CASE Release
    <2>1. UNCHANGED <<dpc, dpcIdx, lap, lapIdx>> /\ Unmap(Forced) /\ ctl \in Still /\ Forced \in BOOLEAN
      BY <1>8 DEF Release, OutsideCtl, dpcVars, pumpVars, Still, Forced
    <2>2. \A i \in Idx : bus'[i] = IF Forced THEN "none" ELSE bus[i]
      BY <1>6, <1>8, <2>1 DEF Release, Forced, QuietBus, Held
    <2> QED
      BY <1>6, <2>1, <2>2, UnmapLeaves
  <1>9. CASE LockFrame \/ PublishRing
    <2> DEFINE n == Cardinality({i \in Idx : mdl[i]})
    <2>1. /\ want \in 1 .. Ring /\ n \in 0 .. want /\ \A i \in Idx : mdl[i] <=> i < n
          /\ mapped = 0 /\ next = 0 /\ current = NoFrame
          /\ \A i \in Idx : bus[i] = "none" /\ fs[i] = "queued"
          /\ ~LapHolds /\ \A c \in Cpu : dpc[c] = "idle"
      BY <1>9, LockedSoFar DEF LockFrame, PublishRing
    <2>2. /\ UNCHANGED <<oneShot, pumpRing, bus>> /\ next' = 0 /\ current' = NoFrame
          /\ \A c \in Cpu, i \in Idx : ~Carries(c, i)'
      BY <1>2, <1>9, <2>1 DEF LockFrame, PublishRing, slotVars, engVars, Carries
    <2>3. CASE PublishRing
      <3>1. mapped' = want /\ n = want /\ UNCHANGED <<mdl, fs>>
        BY <2>3 DEF PublishRing
      <3> HIDE DEF n
      <3> QED
        BY <1>1, <2>1, <2>2, <3>1, RingAssumption DEF RingInv, NoFrame
    <2>4. CASE LockFrame
      <3>1. \/ mapped' = n /\ UNCHANGED <<mdl, fs>>
            \/ /\ mdl' = [mdl EXCEPT ![n] = TRUE] /\ fs' = [fs EXCEPT ![n] = "queued"]
               /\ UNCHANGED mapped
        BY <2>4 DEF LockFrame
      <3> HIDE DEF n
      <3>2. \A i \in Idx : fs'[i] = "queued"
        BY <2>1, <3>1 DEF Types, TurnTypes
      <3>3. \A i \in Idx : mdl[i] => mdl'[i]
        BY <3>1 DEF Types, FrameTypes
      <3> QED
        BY <1>1, <2>1, <2>2, <3>1, <3>2, <3>3, RingAssumption DEF RingInv, NoFrame, Idx
    <2> QED
      BY <1>9, <2>3, <2>4
  <1> QED
    BY <1>3, <1>4, <1>5, <1>7, <1>8, <1>9
    DEF Control, SurpriseRemoval, Uninitialize, Create, StopBegin, Quiesce, IsochStop, Drained,
        PumpIdle, CtlPump, Enable, Arm, MapDone, engVars, slotVars

LEMMA NextRing ==
  ASSUME RingIInv, [Next]_vars
  PROVE  RingInv'
  <1>1. CASE UNCHANGED vars
    BY <1>1 DEF vars, RingIInv, RingInv, Carries, LapHolds, slotVars, ringVars, frameVars, engVars,
       pumpVars, dpcVars
  <1> QED
    BY <1>1, LapRing, BusRing, CompletionRing, RequestRing, ControlRing DEF Next

-----------------------------------------------------------------------------
(* What is locked and charged.                                              *)

LEMMA ChargeFrame ==
  ASSUME ChargeInv, UNCHANGED <<mdl, pins, mapped>>,
         owner' = NoHandle => owner = NoHandle /\ \A e \in Event : countdown'[e] = 0,
         ctl' = "lock" => ctl = "lock" /\ UNCHANGED <<want, next, current>> /\ Held' = {}
  PROVE  ChargeInv'
  <1>1. Locked' = Locked
    BY DEF Locked
  <1> QED
    BY <1>1 DEF ChargeInv

LEMMA LapCharge ==
  ASSUME RingIInv, Lap
  PROVE  ChargeInv'
  <1> USE DEF RingIInv
  <1>1. UNCHANGED <<mdl, pins, mapped, owner, countdown, ctl>>
    BY DEF Lap, LapBegin, LapClaim, LapAcquire, LapPublish, LapHandBack, LapEnd, OutsideLap, frameVars,
           slotVars, ctlVars
  <1>2. lap # "none"
    BY DEF Lap, LapBegin, LapClaim, LapAcquire, LapPublish, LapHandBack, LapEnd, LapStep
  <1>3. ctl # "lock"
    BY <1>2 DEF PumpInv, PlacesInv, Still
  <1> QED
    BY <1>1, <1>3, ChargeFrame DEF ChargeInv

LEMMA BusCharge ==
  ASSUME RingIInv, Bus
  PROVE  ChargeInv'
  <1> USE DEF RingIInv
  <1>1. UNCHANGED <<mdl, pins, mapped, next, current, owner, countdown, ctl, want>>
    BY DEF Bus, Frame, TriggerUnheard, AttachDone, AttachFailed, DetachDone, DetachFailed, Interrupt,
           OutsideBus, slotVars, ringVars, frameVars, ctlVars
  <1>2. ASSUME ctl = "lock" PROVE Held' = {}
    <2>1. \A i \in Idx : bus[i] = "none"
      BY <1>2, LockedSoFar
    <2>2. line = <<>>
      BY <2>1, FirstAtBus
    <2>3. bus' = bus
      BY <2>1, <2>2 DEF Bus, Frame, TriggerUnheard, AttachDone, AttachFailed, DetachDone, DetachFailed,
                        Detaching, engVars
    <2> QED
      BY <2>1, <2>3 DEF Held
  <1> QED
    BY <1>1, <1>2, ChargeFrame DEF ChargeInv

LEMMA CompletionCharge ==
  ASSUME RingIInv, Completion
  PROVE  ChargeInv'
  <1> USE DEF RingIInv
  <1> PICK c \in Cpu : DpcDeliver(c) \/ DpcSignal(c) \/ DpcPump(c) \/ DpcDone(c)
    BY DEF Completion
  <1>1. UNCHANGED <<mdl, pins, mapped, owner, ctl>>
    BY DEF DpcDeliver, DpcSignal, DpcPump, DpcDone, OutsideDpc, slotVars, frameVars, ctlVars
  <1>2. \A e \in Event : countdown[e] = 0 => countdown'[e] = 0
    BY DEF DpcDeliver, DpcSignal, DpcPump, DpcDone, Countdown
  <1>3. dpc[c] # "idle"
    BY DEF DpcDeliver, DpcSignal, DpcPump, DpcDone
  <1>4. ctl # "lock"
    BY <1>3 DEF PlacesInv, Still, QuietBus
  <1> QED
    BY <1>1, <1>2, <1>4, ChargeFrame DEF ChargeInv

(* An unmap releases exactly the charge of what it unlocks. *)
LEMMA UnmapCharges ==
  ASSUME RingIInv, NEW force \in BOOLEAN, Unmap(force)
  PROVE  /\ pins' = Cardinality(Locked') /\ mapped' = 0 /\ next' = 0 /\ current' = NoFrame
         /\ force \/ Held = {} => Locked' = {}
  <1> USE DEF RingIInv
  <1> DEFINE kept == IF force THEN {} ELSE {i \in Held : mdl[i]}
  <1>1. kept \subseteq Locked /\ Locked \subseteq Idx /\ Locked' = kept /\ Locked = {i \in Idx : mdl[i]}
    BY DEF Unmap, Locked, Held
  <1>2. pins = Cardinality(Locked) /\ pins' = pins - Cardinality(Locked \ kept)
    BY <1>1 DEF Unmap, ChargeInv
  <1>3. mapped' = 0 /\ next' = 0 /\ current' = NoFrame
    BY DEF Unmap
  <1>4. force \/ Held = {} => kept = {}
    OBVIOUS
  <1> HIDE DEF kept
  <1>5. IsFiniteSet(Locked) /\ IsFiniteSet(kept) /\ Locked \cap kept = kept
    BY <1>1, SetOfIdx
  <1>6. Cardinality(Locked \ kept) = Cardinality(Locked) - Cardinality(kept)
    BY <1>5, FS_Difference
  <1>7. Cardinality(Locked) \in Nat /\ Cardinality(kept) \in Nat
    BY <1>5, FS_CardinalityType
  <1>8. pins' = Cardinality(kept)
    BY <1>2, <1>6, <1>7
  <1> QED
    BY <1>1, <1>3, <1>4, <1>8

LEMMA RequestCharge ==
  ASSUME RingIInv, NEW h \in Handle, Request(h)
  PROVE  ChargeInv'
  <1> USE DEF RingIInv
  <1>1. UNCHANGED owner /\ ctl = "idle"
    BY DEF Request, Prepare, Unprepare, Stop, UnmapFrames, Cleanup, SwTrigger, Start, Map, Enter,
           RegisterEvent, UnregisterEvent, slotVars
  <1>2. ASSUME NEW n \in 0 .. Ring + 1, Map(h, n) PROVE ChargeInv'
    <2>1. Held = {} /\ Unmap(FALSE) /\ owner # NoHandle /\ UNCHANGED bus
      BY <1>2 DEF Map, Leftover, Owner, engVars
    <2>2. pins' = Cardinality(Locked') /\ mapped' = 0 /\ next' = 0 /\ current' = NoFrame /\ Locked' = {}
      BY <2>1, UnmapCharges
    <2>3. ctl' = "lock" => want' \in 1 .. Ring
      BY <1>2 DEF Map, Enter
    <2>4. ctl' = "lock" => \E m \in 0 .. want' : \A i \in Idx : mdl'[i] <=> i < m
      <3>1. \A i \in Idx : ~mdl'[i] /\ ~(i < 0)
        BY <2>2, RingAssumption DEF Locked, Idx
      <3> QED
        BY <2>3, <3>1, RingAssumption
    <2>5. Held' = {}
      BY <2>1 DEF Held
    <2> QED
      BY <1>1, <2>1, <2>2, <2>3, <2>4, <2>5 DEF ChargeInv
  <1>3. CASE UNCHANGED <<mdl, pins, mapped>> /\ ctl' # "lock"
             /\ (UNCHANGED countdown \/ owner # NoHandle)
    BY <1>1, <1>3, ChargeFrame DEF ChargeInv
  <1> QED
    BY <1>1, <1>2, <1>3 DEF Request, Prepare, Unprepare, Stop, UnmapFrames, Cleanup, SwTrigger, Start,
       Enter, RegisterEvent, UnregisterEvent, ringVars, frameVars, ctlVars, Owner

LEMMA ControlCharge ==
  ASSUME RingIInv, Control
  PROVE  ChargeInv'
  <1> USE DEF RingIInv
  <1>1. CASE Draining
    <2>1. UNCHANGED <<mdl, pins, mapped, owner, countdown>>
      BY <1>1 DEF Draining, SurpriseRemoval, Uninitialize, StopBegin, Quiesce, IsochStop, ClaimAttached,
         Drained, PumpIdle, MapDone, slotVars, ringVars, frameVars
    <2>2. ctl' # "lock"
      BY <1>1 DEF Draining, SurpriseRemoval, Uninitialize, StopBegin, Quiesce, IsochStop, ClaimAttached,
         Drained, PumpIdle, MapDone, Enter, Goto, GoIdle, ctlVars
    <2> QED
      BY <2>1, <2>2, ChargeFrame DEF ChargeInv
  <1>2. CASE Create
    <2>1. UNCHANGED <<mdl, pins, mapped, countdown>> /\ ctl' = "idle" /\ owner = NoHandle
      BY <1>2 DEF Create, GoIdle, ringVars, frameVars, PlacesInv
    <2> QED
      BY <2>1, ChargeFrame DEF ChargeInv
  <1>3. CASE ReleaseSession \/ EngineStart \/ Enable \/ Arm \/ CtlPump
    <2>1. UNCHANGED <<mdl, pins, mapped, owner, countdown>>
      BY <1>3 DEF ReleaseSession, FlushHeld, EngineStart, Enable, Arm, CtlPump, slotVars, ringVars,
         frameVars
    <2>2. CtlPump => ctl' \in {"engineStart", "arm", "enable", "mapped"}
      BY DEF CtlPump, AfterPump, Goto
    <2>3. ReleaseSession \/ Enable \/ Arm => ctl' # "lock"
      BY DEF ReleaseSession, Enable, Arm, Goto, GoIdle
    <2>4. EngineStart => ctl' # "lock"
      BY DEF EngineStart, Goto, GoIdle
    <2> QED
      BY <1>3, <2>1, <2>2, <2>3, <2>4, ChargeFrame DEF ChargeInv
  <1>4. CASE UnmapRing
    <2>1. ctl = "unmap" /\ ctl' = "idle" /\ UNCHANGED owner /\ Unmap(FALSE)
      BY <1>4 DEF UnmapRing, GoIdle, slotVars
    <2>2. owner # NoHandle
      BY <2>1 DEF PlacesInv
    <2> QED
      BY <2>1, <2>2, UnmapCharges DEF ChargeInv
  <1>5. CASE Release
    <2>1. /\ Unmap(Forced) /\ Forced \in BOOLEAN /\ ctl' # "lock"
          /\ \A e \in Event : countdown'[e] = 0
      BY <1>5 DEF Release, Goto, GoIdle, FlushEvents, Forced
    <2>2. pins' = Cardinality(Locked') /\ mapped' = 0 /\ Locked' = {}
      BY <2>1, UnmapCharges DEF Forced
    <2> QED
      BY <2>1, <2>2 DEF ChargeInv
  <1>6. CASE PublishRing
    <2>1. /\ ctl = "lock" /\ ctl' # "lock" /\ UNCHANGED <<mdl, pins, owner>>
      BY <1>6 DEF PublishRing, Goto, slotVars
    <2>2. owner # NoHandle /\ Locked' = Locked
      BY <2>1 DEF PlacesInv, Locked
    <2> QED
      BY <2>1, <2>2 DEF ChargeInv
  <1>7. CASE LockFrame
    <2> DEFINE n == Cardinality({i \in Idx : mdl[i]})
    <2>1. ctl = "lock" /\ owner # NoHandle /\ UNCHANGED <<owner, bus, next, current>> /\ n < want
      BY <1>7 DEF LockFrame, PlacesInv, slotVars, engVars
    <2>2. /\ want \in 1 .. Ring /\ n \in 0 .. want /\ \A i \in Idx : mdl[i] <=> i < n
          /\ mapped = 0 /\ next = 0 /\ current = NoFrame /\ Held = {} /\ pins = n
      BY <2>1, LockedSoFar DEF ChargeInv, Locked
    <2>3. \/ ctl' = "unmap" /\ UNCHANGED <<mdl, pins>>
          \/ /\ mdl' = [mdl EXCEPT ![n] = TRUE] /\ pins' = pins + 1
             /\ UNCHANGED <<mapped, ctl, want>>
      BY <1>7 DEF LockFrame, Goto, ctlVars
    <2>4. n \in Idx /\ n + 1 \in 0 .. want
      BY <2>1, <2>2, RingAssumption DEF Idx
    <2> HIDE DEF n
    <2>5. CASE ctl' = "unmap" /\ UNCHANGED <<mdl, pins>>
      <3>1. Locked' = Locked
        BY <2>5 DEF Locked
      <3> QED
        BY <2>1, <2>5, <3>1 DEF ChargeInv
    <2>6. CASE mdl' = [mdl EXCEPT ![n] = TRUE] /\ pins' = pins + 1 /\ UNCHANGED <<mapped, ctl, want>>
      <3>1. \A i \in Idx : mdl'[i] <=> i < n \/ i = n
        BY <2>2, <2>6 DEF Types, FrameTypes
      <3>2. \A i \in Idx : mdl'[i] <=> i < n + 1
        BY <2>2, <3>1, RingAssumption DEF Idx
      <3>3. n \notin Locked /\ Locked \in SUBSET Idx /\ Locked' = Locked \cup {n}
        <4>1. ~(n < n) /\ ~mdl[n]
          BY <2>2, <2>4, RingAssumption DEF Idx
        <4>2. Locked' = Locked \cup {n}
          BY <2>2, <2>4, <3>1 DEF Locked
        <4> QED
          BY <4>1, <4>2 DEF Locked
      <3>4. pins' = Cardinality(Locked')
        BY <2>4, <2>6, <3>3, SetWith DEF ChargeInv
      <3>5. Held' = {}
        BY <2>1, <2>2 DEF Held
      <3> QED
        BY <2>1, <2>2, <2>4, <2>6, <3>2, <3>4, <3>5 DEF ChargeInv
    <2> QED
      BY <2>3, <2>5, <2>6
  <1> QED
    BY <1>1, <1>2, <1>3, <1>4, <1>5, <1>6, <1>7 DEF Control, Draining

LEMMA NextCharge ==
  ASSUME RingIInv, [Next]_vars
  PROVE  ChargeInv'
  <1>1. CASE UNCHANGED vars
    BY <1>1 DEF vars, RingIInv, ChargeInv, Locked, Held, slotVars, ringVars, frameVars, engVars, ctlVars
  <1> QED
    BY <1>1, LapCharge, BusCharge, CompletionCharge, RequestCharge, ControlCharge DEF Next

-----------------------------------------------------------------------------
(* The pump election.                                                       *)

LEMMA BusyCount ==
  /\ Cardinality(Busy) \in Nat /\ Descs \in Nat \ {0} /\ Claimed \in {0, 1}
  /\ FreeDescs = Descs - Cardinality(Busy) - Claimed
  <1>1. Busy \in SUBSET Idx
    BY DEF Busy
  <1> QED
    BY <1>1, SetOfIdx, RingAssumption DEF FreeDescs, Busy, Claimed

(* What brings no pump and takes none away. *)
LEMMA PumpFrame ==
  ASSUME PumpInv, UNCHANGED <<runner, again, lap, lapCount>>, Busy' = Busy, Stirred => Stirred',
         Fed' \/ (UNCHANGED <<fs, next, mapped, pumpRing>> /\ ctl # "unmap")
  PROVE  PumpInv'
  <1>1. Cardinality(Busy)' = Cardinality(Busy) /\ Claimed' = Claimed
    BY DEF Claimed
  <1>2. FreeDescs' = FreeDescs
    BY <1>1 DEF FreeDescs, Busy
  <1>3. UNCHANGED <<fs, next, mapped, pumpRing>> => (Fed => Fed')
    BY <1>2 DEF Fed, Acquire
  <1> QED
    BY <1>1, <1>3 DEF PumpInv, Asked

(* Where another pump is to come, descriptors may only come free. *)
LEMMA PumpStirred ==
  ASSUME PumpInv, UNCHANGED <<runner, lap>>, Busy' \subseteq Busy, Stirred'
  PROVE  PumpInv'
  <1>1. Busy \in SUBSET Idx /\ Claimed' = Claimed
    BY DEF Busy, Claimed
  <1>2. Cardinality(Busy') \in Nat /\ Cardinality(Busy') <= Cardinality(Busy)
    BY <1>1, SetOfIdx, FS_Subset, FS_CardinalityType
  <1>3. Cardinality(Busy)' + Claimed' <= Descs
    BY <1>1, <1>2, BusyCount DEF PumpInv
  <1> QED
    BY <1>3 DEF PumpInv, Asked

LEMMA PumpCalled ==
  ASSUME PumpInv, NEW t \in Thread, PumpCall(t), bus' = bus
  PROVE  PumpInv'
  <1>1. t # NoThread
    BY RingAssumption DEF Thread
  <1>2. Busy' = Busy
    BY DEF Busy
  <1>3. Cardinality(Busy)' = Cardinality(Busy) /\ Claimed' = Claimed
    BY <1>2 DEF Claimed, PumpCall, PumpInv
  <1> QED
    BY <1>1, <1>3 DEF PumpInv, PumpCall, Asked

LEMMA LapPump ==
  ASSUME RingIInv, Lap
  PROVE  PumpInv'
  <1> USE DEF RingIInv
  <1>1. UNCHANGED <<mapped, pumpRing, stalled, dpc, ctl, draining>>
    BY DEF Lap, LapBegin, LapClaim, LapAcquire, LapPublish, LapHandBack, LapEnd, OutsideLap, dpcVars,
           frameVars, slotVars, ctlVars, engVars
  <1>2. Stirred' <=> Stirred
    BY <1>1 DEF Stirred, Coming
  <1>3. lapCount \in Nat
    BY RingAssumption DEF Types, PumpTypes
  <1>4. CASE LapBegin
    <2>1. /\ lap' = "claim" /\ lapCount' = 0 /\ Busy' = Busy /\ Claimed' = 0 /\ Claimed = 0
          /\ runner' = runner /\ runner # NoThread
      BY <1>4 DEF LapBegin, LapStep, Busy, Claimed, engVars, PumpInv
    <2>2. Cardinality(Busy)' = Cardinality(Busy)
      BY <2>1
    <2> QED
      BY <2>1, <2>2, BusyCount DEF PumpInv
  <1>5. CASE LapClaim
    <2>1. /\ Busy' = Busy /\ Claimed = 0 /\ runner' = runner /\ runner # NoThread /\ again' = again
          /\ UNCHANGED <<fs, next>> /\ lap = "claim"
      BY <1>5 DEF LapClaim, LapStep, Busy, Claimed, engVars, PumpInv
    <2>2. Cardinality(Busy)' = Cardinality(Busy)
      BY <2>1
    <2>3. CASE lap' = "acquire"
      <3>1. lapCount' = lapCount + 1 /\ FreeDescs # 0 /\ Claimed' = 1
        BY <1>5, <2>3 DEF LapClaim, LapStep, Claimed
      <3> QED
        BY <1>2, <1>3, <2>1, <2>2, <2>3, <3>1, BusyCount DEF PumpInv, Asked
    <2>4. CASE lap' = "end"
      <3>1. lapCount' = lapCount /\ (draining \/ FreeDescs = 0 \/ lapCount = Descs) /\ Claimed' = 0
        BY <1>5, <2>4 DEF LapClaim, LapStep, Claimed
      <3>2. FreeDescs' = FreeDescs
        BY <2>1, <2>4 DEF FreeDescs, Busy
      <3>3. ~Asked => FreeDescs = 0
        BY <1>3, <2>1, <3>1, BusyCount DEF PumpInv, Asked, Stirred
      <3> QED
        BY <1>2, <2>1, <2>2, <2>4, <3>1, <3>2, <3>3 DEF PumpInv, Asked, Fed
    <2> QED
      BY <1>5, <2>3, <2>4 DEF LapClaim, LapStep
  <1>6. CASE LapAcquire
    <2>1. /\ Busy' = Busy /\ Claimed = 1 /\ runner' = runner /\ runner # NoThread /\ again' = again
          /\ lapCount' = lapCount /\ lap = "acquire"
      BY <1>6 DEF LapAcquire, LapStep, Busy, Claimed, engVars, PumpInv
    <2>2. Cardinality(Busy)' = Cardinality(Busy)
      BY <2>1
    <2>3. CASE lap' = "publish"
      <3>1. Claimed' = 1
        BY <2>3 DEF Claimed
      <3> QED
        BY <1>2, <1>3, <2>1, <2>2, <2>3, <3>1, BusyCount DEF PumpInv, Asked
    <2>4. CASE lap' = "end" /\ UNCHANGED <<fs, next>> /\ \A i \in Idx : ~Acquire(i)
      <3>1. Claimed' = 0
        BY <2>4 DEF Claimed
      <3>2. Fed'
        BY <1>1, <2>4 DEF Fed, Acquire
      <3> QED
        BY <2>1, <2>2, <2>4, <3>1, <3>2, BusyCount DEF PumpInv
    <2> QED
      BY <1>6, <2>3, <2>4 DEF LapAcquire, LapStep
  <1>7. CASE LapPublish /\ draining
    <2>1. /\ Busy' = Busy /\ Claimed = 1 /\ Claimed' = 0 /\ runner' = runner /\ runner # NoThread
          /\ lap' = "handBack"
      BY <1>7 DEF LapPublish, LapStep, Busy, Claimed, engVars, PumpInv
    <2>2. Cardinality(Busy)' = Cardinality(Busy)
      BY <2>1
    <2> QED
      BY <2>1, <2>2, BusyCount DEF PumpInv
  <1>8. CASE LapPublish /\ ~draining
    <2>1. /\ bus' = [bus EXCEPT ![lapIdx] = "attaching"] /\ Claimed = 1 /\ Claimed' = 0
          /\ runner' = runner /\ runner # NoThread /\ lap' = "claim" /\ lap = "publish"
          /\ lapCount' = lapCount /\ again' = again
      BY <1>8 DEF LapPublish, LapStep, Claimed, PumpInv
    <2>2. lapIdx \in Idx /\ lapIdx \notin Busy /\ Busy \in SUBSET Idx
      BY <2>1 DEF Types, PumpTypes, HoldersInv, LapHolds, Busy
    <2>3. Busy' = Busy \cup {lapIdx}
      BY <2>1, <2>2 DEF Busy, Types, EngineTypes
    <2>4. Cardinality(Busy)' = Cardinality(Busy) + 1
      BY <2>2, <2>3, SetWith
    <2> QED
      BY <1>2, <1>3, <2>1, <2>4, BusyCount DEF PumpInv, Asked
  <1>9. CASE LapHandBack
    <2>1. /\ Busy' = Busy /\ Claimed' = Claimed /\ runner' = runner /\ runner # NoThread
          /\ lap' = "end" /\ draining
      BY <1>9 DEF LapHandBack, LapStep, Busy, Claimed, engVars, PumpInv, PlacesInv
    <2>2. Cardinality(Busy)' = Cardinality(Busy)
      BY <2>1
    <2> QED
      BY <1>2, <2>1, <2>2 DEF PumpInv, Asked, Stirred
  <1>10. CASE LapEnd
    <2>1. /\ Busy' = Busy /\ Claimed' = Claimed /\ lap = "end"
          /\ \/ again /\ lap' = "begin" /\ runner' = runner /\ runner # NoThread
             \/ ~again /\ lap' = "none" /\ runner' = NoThread
          /\ UNCHANGED <<fs, next>>
      BY <1>10 DEF LapEnd, LapStep, Busy, Claimed, engVars, PumpInv
    <2>2. Cardinality(Busy)' = Cardinality(Busy)
      BY <2>1
    <2>3. FreeDescs' = FreeDescs
      BY <2>1 DEF FreeDescs, Busy
    <2>4. Fed => Fed'
      BY <1>1, <2>1, <2>3 DEF Fed, Acquire
    <2> QED
      BY <1>2, <2>1, <2>2, <2>4 DEF PumpInv, Asked
  <1> QED
    BY <1>4, <1>5, <1>6, <1>7, <1>8, <1>9, <1>10 DEF Lap

LEMMA BusPump ==
  ASSUME RingIInv, Bus
  PROVE  PumpInv'
  <1> USE DEF RingIInv
  <1>1. UNCHANGED <<runner, again, lap, lapCount, fs, next, mapped, pumpRing, ctl, draining>>
    BY DEF Bus, Frame, TriggerUnheard, AttachDone, AttachFailed, DetachDone, DetachFailed, Interrupt,
           OutsideBus, slotVars, ringVars, frameVars, pumpVars, ctlVars, engVars
  <1>2. ASSUME UNCHANGED <<dpc, stalled>>, \A i \in Idx : (bus'[i] = "none") <=> (bus[i] = "none"),
               ctl # "unmap"
        PROVE  PumpInv'
    <2>1. Busy' = Busy
      BY <1>2 DEF Busy
    <2>2. Stirred => Stirred'
      BY <1>1, <1>2 DEF Stirred, Coming
    <2> QED
      BY <1>1, <1>2, <2>1, <2>2, PumpFrame
  <1>3. CASE Frame
    <2>1. Head(line) \in Idx /\ bus[Head(line)] \in {"attaching", "attached"}
      BY <1>3, FirstAtBus DEF Frame
    <2>2. ctl # "unmap"
      BY <2>1 DEF PlacesInv, Still, QuietBus
    <2>3. UNCHANGED <<dpc, stalled>> /\ \A i \in Idx : (bus'[i] = "none") <=> (bus[i] = "none")
      BY <1>3, <2>1 DEF Frame, dpcVars, Types, EngineTypes
    <2> QED
      BY <1>2, <2>2, <2>3
  <1>4. CASE TriggerUnheard
    <2>1. UNCHANGED <<bus, dpc, stalled>>
      BY <1>4 DEF TriggerUnheard, engVars, dpcVars
    <2>2. Busy' = Busy /\ Stirred' = Stirred /\ Claimed' = Claimed /\ FreeDescs' = FreeDescs
      BY <1>1, <2>1 DEF Busy, Stirred, Coming, Claimed, FreeDescs
    <2>3. Cardinality(Busy)' = Cardinality(Busy)
      BY <2>2
    <2>4. Fed' = Fed /\ Asked' = Asked
      BY <1>1, <2>2 DEF Fed, Acquire, Asked
    <2> QED
      BY <1>1, <2>2, <2>3, <2>4 DEF PumpInv
  <1>5. ASSUME NEW i \in Idx, AttachDone(i) \/ DetachFailed(i) PROVE PumpInv'
    <2>1. ctl # "unmap"
      BY <1>5 DEF AttachDone, DetachFailed, Detaching, PlacesInv, Still, QuietBus
    <2>2. UNCHANGED <<dpc, stalled>> /\ \A j \in Idx : (bus'[j] = "none") <=> (bus[j] = "none")
      BY <1>5 DEF AttachDone, DetachFailed, Detaching, dpcVars, Types, EngineTypes
    <2> QED
      BY <1>2, <2>1, <2>2
  <1>6. ASSUME NEW i \in Idx, NEW c \in Cpu, AttachFailed(c, i) \/ DetachDone(c, i) PROVE PumpInv'
    <2>1. /\ bus' = [bus EXCEPT ![i] = "none"]
          /\ dpc'[c] \in {"delivered", "cancelled"} \/ stalled'
      BY <1>6 DEF AttachFailed, DetachDone, Interrupt, Types, DpcTypes
    <2>2. Busy' \subseteq Busy
      BY <2>1 DEF Busy, Types, EngineTypes
    <2>3. Stirred'
      BY <2>1 DEF Stirred, Coming
    <2> QED
      BY <1>1, <2>2, <2>3, PumpStirred
  <1> QED
    BY <1>3, <1>4, <1>5, <1>6 DEF Bus

LEMMA CompletionPump ==
  ASSUME RingIInv, Completion
  PROVE  PumpInv'
  <1> USE DEF RingIInv
  <1> PICK c \in Cpu : DpcDeliver(c) \/ DpcSignal(c) \/ DpcPump(c) \/ DpcDone(c)
    BY DEF Completion
  <1>1. UNCHANGED <<mapped, pumpRing, next, bus, ctl, draining>> /\ Busy' = Busy
    BY DEF DpcDeliver, DpcSignal, DpcPump, DpcDone, OutsideDpc, slotVars, frameVars, ctlVars, engVars,
           Busy
  <1>2. CASE DpcDeliver(c) \/ DpcSignal(c)
    <2>1. dpc'[c] \in {"signal", "pump"} \/ stalled'
      BY <1>2 DEF DpcDeliver, DpcSignal, Types, DpcTypes
    <2>2. Stirred' /\ UNCHANGED <<runner, lap>>
      BY <1>2, <2>1 DEF Stirred, Coming, DpcDeliver, DpcSignal, pumpVars
    <2> QED
      BY <1>1, <2>2, PumpStirred
  <1>3. CASE DpcPump(c)
    BY <1>1, <1>3, PumpCalled DEF DpcPump, Thread
  <1>4. CASE DpcDone(c)
    <2>1. /\ UNCHANGED <<runner, again, lap, lapCount, fs, stalled>> /\ dpc[c] = "done"
          /\ \A b \in Cpu \ {c} : dpc'[b] = dpc[b]
      BY <1>4 DEF DpcDone, pumpVars, Types, DpcTypes
    <2>2. Stirred => Stirred'
      BY <1>1, <2>1 DEF Stirred, Coming
    <2>3. ctl # "unmap"
      BY <2>1 DEF PlacesInv, Still, QuietBus
    <2> QED
      BY <1>1, <2>1, <2>2, <2>3, PumpFrame
  <1> QED
    BY <1>2, <1>3, <1>4

LEMMA RequestPump ==
  ASSUME RingIInv, NEW h \in Handle, Request(h)
  PROVE  PumpInv'
  <1> USE DEF RingIInv
  <1>1. /\ UNCHANGED <<runner, again, lap, lapCount, bus, dpc, stalled, draining>> /\ ctl = "idle"
        /\ Busy' = Busy
    BY DEF Request, Prepare, Unprepare, Stop, UnmapFrames, Cleanup, SwTrigger, Start, Map, Enter,
           RegisterEvent, UnregisterEvent, engVars, OutsideCtl, dpcVars, pumpVars, Busy
  <1>2. Stirred => Stirred'
    BY <1>1 DEF Stirred, Coming, Calls
  <1>3. CASE UNCHANGED slotVars /\ UNCHANGED ringVars
    BY <1>1, <1>2, <1>3, PumpFrame DEF slotVars, ringVars, frameVars
  <1>4. CASE ctl' = "pumpRequeued"
    BY <1>1, <1>4, PumpStirred DEF Stirred, Coming, Calls
  <1>5. CASE ~pumpRing' \/ mapped' = 0
    <2>1. Fed'
      BY <1>5 DEF Fed, Acquire
    <2> QED
      BY <1>1, <1>2, <2>1, PumpFrame
  <1>6. CASE SwTrigger(h)
    BY <1>3, <1>4, <1>6 DEF SwTrigger, Enter, ringVars
  <1>7. ASSUME NEW shot \in BOOLEAN, NEW ring \in BOOLEAN, Start(h, shot, ring) PROVE PumpInv'
    BY <1>4, <1>5, <1>7 DEF Start, Enter
  <1>8. ASSUME NEW n \in 0 .. Ring + 1, Map(h, n) PROVE PumpInv'
    BY <1>5, <1>8 DEF Map, Leftover, Unmap
  <1> QED
    BY <1>3, <1>6, <1>7, <1>8 DEF Request, Prepare, Unprepare, Stop, UnmapFrames, Cleanup,
       RegisterEvent, UnregisterEvent

LEMMA ControlPump ==
  ASSUME RingIInv, Control
  PROVE  PumpInv'
  <1> USE DEF RingIInv
  <1>1. CASE CtlPump
    BY <1>1, PumpCalled DEF CtlPump, Thread, engVars
  <1>2. ASSUME ~CtlPump PROVE UNCHANGED <<runner, again, lap, lapCount, dpc, stalled>>
    BY <1>2 DEF Control, SurpriseRemoval, Uninitialize, Create, StopBegin, Quiesce, IsochStop,
       ClaimAttached, Drained, PumpIdle, ReleaseSession, UnmapRing, Release, EngineStart, Enable, Arm,
       LockFrame, PublishRing, MapDone, OutsideCtl, dpcVars, pumpVars
  <1>3. CASE Draining \/ Create \/ Enable \/ Arm
    <2>1. UNCHANGED <<fs, next, mapped, pumpRing>> /\ (draining => draining')
      <3>1. UNCHANGED pumpRing /\ UNCHANGED ringVars
        BY <1>3 DEF Draining, SurpriseRemoval, Uninitialize, StopBegin, Quiesce, IsochStop, ClaimAttached,
           Drained, PumpIdle, MapDone, Create, Enable, Arm, slotVars
      <3>2. draining => draining'
        BY <1>3 DEF Draining, SurpriseRemoval, Uninitialize, StopBegin, Quiesce, IsochStop, ClaimAttached,
           Drained, PumpIdle, MapDone, Create, Enable, Arm, engVars
      <3> QED
        BY <3>1, <3>2 DEF ringVars, frameVars
    <2>2. ctl \notin Calls /\ ctl # "unmap"
      BY <1>3 DEF Draining, SurpriseRemoval, Uninitialize, StopBegin, Quiesce, IsochStop, ClaimAttached,
         Drained, PumpIdle, MapDone, Create, Enable, Arm, Enter, At, Calls
    <2>3. \A i \in Idx : bus'[i] # "none" <=> bus[i] # "none"
      <3>1. CASE ClaimAttached
        BY <3>1 DEF ClaimAttached, Types, EngineTypes
      <3> QED
        BY <1>3, <3>1 DEF Draining, SurpriseRemoval, Uninitialize, StopBegin, Quiesce, IsochStop, Drained,
           PumpIdle, MapDone, Create, Enable, Arm, engVars
    <2>4. Busy' = Busy
      BY <2>3 DEF Busy
    <2>5. UNCHANGED <<runner, again, lap, lapCount, dpc, stalled>>
      BY <1>2, <2>2 DEF CtlPump, AfterPump, Calls
    <2>6. Stirred => Stirred'
      BY <2>1, <2>2, <2>5 DEF Stirred, Coming
    <2> QED
      BY <2>1, <2>2, <2>4, <2>5, <2>6, PumpFrame
  <1>4. CASE ReleaseSession \/ Release
    <2>1. ctl \in {"free", "release"} /\ UNCHANGED <<draining, runner, lap>>
      BY <1>4 DEF ReleaseSession, FlushHeld, Release, OutsideCtl, pumpVars
    <2>2. Stirred'
      BY <2>1 DEF Stirred, PlacesInv
    <2>3. Busy' \subseteq Busy
      BY <1>4 DEF ReleaseSession, FlushHeld, Release, Busy
    <2> QED
      BY <2>1, <2>2, <2>3, PumpStirred
  <1>5. CASE UnmapRing
    <2>1. /\ ctl = "unmap" /\ UNCHANGED <<runner, again, lap, lapCount, dpc, stalled, draining, bus>>
          /\ mapped' = 0
      BY <1>5 DEF UnmapRing, Unmap, OutsideCtl, pumpVars, dpcVars, engVars
    <2>2. Busy' = Busy /\ Fed' /\ (Stirred => Stirred')
      BY <2>1 DEF Busy, Fed, Acquire, Stirred, Coming, Calls
    <2> QED
      BY <2>1, <2>2, PumpFrame
  <1>6. CASE EngineStart
    <2>1. UNCHANGED <<runner, again, lap, lapCount, dpc, stalled, next, mapped, pumpRing>>
      BY <1>6 DEF EngineStart, OutsideCtl, pumpVars, dpcVars, frameVars
    <2>2. CASE ~draining
      <3>1. UNCHANGED <<fs, bus, draining>> /\ ctl = "engineStart"
        BY <1>6, <2>2 DEF EngineStart, At, engVars
      <3>2. Busy' = Busy /\ (Stirred => Stirred')
        BY <2>1, <3>1 DEF Busy, Stirred, Coming, Calls
      <3> QED
        BY <2>1, <3>1, <3>2, PumpFrame
    <2>3. CASE draining
      <3>1. Busy' \subseteq Busy
        BY <1>6, <2>3 DEF EngineStart, Busy
      <3>2. draining' \/ ctl' = "pumpStarted"
        BY <1>6, <2>3 DEF EngineStart, Goto
      <3> QED
        BY <2>1, <3>1, <3>2, PumpStirred DEF Stirred, Coming, Calls
    <2> QED
      BY <2>2, <2>3
  <1>7. CASE LockFrame
    <2>1. /\ ctl = "lock" /\ UNCHANGED <<runner, again, lap, lapCount, dpc, stalled, draining, bus>>
          /\ ctl' = "unmap" \/ mapped' = mapped
      BY <1>7 DEF LockFrame, OutsideCtl, pumpVars, dpcVars, engVars, Goto
    <2>2. Busy' = Busy /\ lap = "none" /\ mapped = 0 /\ (Stirred => Stirred')
      BY <2>1 DEF Busy, Stirred, Coming, Calls, PlacesInv, Still, PumpInv, ChargeInv
    <2>3. CASE mapped' = mapped
      <3>1. Fed'
        BY <2>2, <2>3 DEF Fed, Acquire
      <3> QED
        BY <2>1, <2>2, <3>1, PumpFrame
    <2>4. CASE ctl' = "unmap"
      <3>1. Cardinality(Busy)' = Cardinality(Busy) /\ Claimed' = Claimed
        BY <2>1, <2>2 DEF Claimed
      <3> QED
        BY <2>1, <2>2, <2>4, <3>1 DEF PumpInv
    <2> QED
      BY <2>1, <2>3, <2>4
  <1>8. CASE PublishRing
    <2>1. /\ ctl = "lock" /\ UNCHANGED <<runner, lap, draining, bus>>
          /\ running => ctl' = "pumpMapped"
      BY <1>8 DEF PublishRing, OutsideCtl, pumpVars, engVars, Goto
    <2>2. running \/ draining
      BY <2>1 DEF PlacesInv
    <2>3. Stirred' /\ Busy' = Busy
      BY <2>1, <2>2 DEF Stirred, Coming, Calls, Busy
    <2> QED
      BY <2>1, <2>3, PumpStirred
  <1> QED
    BY <1>1, <1>3, <1>4, <1>5, <1>6, <1>7, <1>8 DEF Control, Draining

LEMMA NextPump ==
  ASSUME RingIInv, [Next]_vars
  PROVE  PumpInv'
  <1>1. CASE UNCHANGED vars
    <2>1. /\ UNCHANGED <<runner, again, lap, lapCount, bus, draining, dpc, stalled, fs, next>>
          /\ UNCHANGED <<mapped, pumpRing, ctl>>
      BY <1>1 DEF vars, slotVars, ringVars, frameVars, engVars, pumpVars, dpcVars, ctlVars
    <2>2. Busy' = Busy /\ Stirred' = Stirred /\ Claimed' = Claimed /\ FreeDescs' = FreeDescs
      BY <2>1 DEF Busy, Stirred, Coming, Claimed, FreeDescs
    <2>3. Cardinality(Busy)' = Cardinality(Busy) /\ Fed' = Fed /\ Asked' = Asked
      BY <2>1, <2>2 DEF Fed, Acquire, Asked
    <2> QED
      BY <2>1, <2>2, <2>3 DEF PumpInv, RingIInv
  <1> QED
    BY <1>1, LapPump, BusPump, CompletionPump, RequestPump, ControlPump DEF Next

-----------------------------------------------------------------------------
(* The invariant of the ring, and what follows from it.                     *)

LEMMA InitRing == Init => RingIInv
  <1> SUFFICES ASSUME Init PROVE RingIInv
    OBVIOUS
  <1>1. Types /\ PlacesInv
    BY InitTypes, InitPlaces
  <1>2. LineInv
    <2>1. Len(line) = 0 /\ AtBus = {}
      BY EmptySeq DEF Init, AtBus
    <2> QED
      BY <2>1 DEF LineInv
  <1>3. HoldersInv
    BY DEF Init, HoldersInv, LapHolds, Carries
  <1>4. RingInv
    BY RingAssumption DEF Init, RingInv, LapHolds, Carries, NoFrame, Idx
  <1>5. Locked = {} /\ Busy = {} /\ Cardinality({}) = 0
    BY FS_EmptySet DEF Init, Locked, Busy
  <1>6. ChargeInv
    BY <1>5 DEF Init, ChargeInv
  <1>7. PumpInv
    <2>1. Claimed = 0 /\ Cardinality(Busy) = 0 /\ Descs \in Nat
      BY <1>5, RingAssumption DEF Init, Claimed
    <2> QED
      BY <2>1 DEF Init, PumpInv, Stirred
  <1> QED
    BY <1>1, <1>2, <1>3, <1>4, <1>6, <1>7 DEF RingIInv

(* The parts of the invariant hold together in every reachable state of the *)
(* capture slot, its ring and the engine under it.                          *)
THEOREM RingIInvAlways == Spec => []RingIInv
  <1>1. RingIInv /\ [Next]_vars => RingIInv'
    <2> SUFFICES ASSUME RingIInv, [Next]_vars PROVE RingIInv'
      OBVIOUS
    <2>1. Types' /\ PlacesInv' /\ LineInv' /\ HoldersInv' /\ RingInv' /\ ChargeInv' /\ PumpInv'
      BY NextTypes, NextPlaces, NextLine, NextHolders, NextRing, NextCharge, NextPump
    <2> QED
      BY <2>1 DEF RingIInv
  <1> QED
    BY <1>1, InitRing, PTL DEF Spec

(* The slot, the ring and the engine stay in their types; the order at the  *)
(* bus lists what is there, and the descriptors never run below none.       *)
THEOREM RingTypes == Spec => []TypeOK
  <1>1. RingIInv => TypeOK
    <2> SUFFICES ASSUME RingIInv PROVE TypeOK
      OBVIOUS
    <2> USE DEF RingIInv, Types
    <2>1. ToSet(line) = AtBus
      <3>1. line \in Seq(Idx) /\ DOMAIN line = 1 .. Len(line) /\ \A k \in 1 .. Len(line) : line[k] \in Idx
        BY LenProperties, ElementOfSeq DEF EngineTypes
      <3> QED
        BY <3>1 DEF LineInv, ToSet, AtBus
    <2>2. FreeDescs \in 0 .. Descs
      BY BusyCount DEF PumpInv
    <2>3. runner = NoThread <=> lap = "none"
      BY DEF PumpInv
    <2>4. /\ owner \in Handle \cup {NoHandle} /\ {oneShot, pumpRing, running} \subseteq BOOLEAN
          /\ {stalled, armed, iso, removed, gone} \subseteq BOOLEAN
      BY DEF SlotTypes, DpcTypes, CamTypes, DevTypes
    <2> QED
      BY <2>1, <2>2, <2>3, <2>4 DEF TypeOK, FrameTypes, TurnTypes, EventTypes, EngineTypes, PumpTypes,
         DpcTypes, CtlTypes
  <1> QED
    BY <1>1, RingIInvAlways, PTL

(* PhotonicIoctlFramesUnmap, the lock loop of a map and every failed detach *)
(* or free between them: whatever the bus driver, the quarantine or a lap   *)
(* holds, and the whole mapped ring, is locked, and the indices that the    *)
(* acquire and the delivery use without a check lie in it.                  *)
THEOREM HeldPagesAreLocked == Spec => []LockedWhileInUse
  <1>1. RingIInv => LockedWhileInUse
    BY DEF RingIInv, RingInv, LockedWhileInUse, Types, PumpTypes
  <1> QED
    BY <1>1, RingIInvAlways, PTL

(* The pages charged are the pages locked across unmaps that skip frames in *)
(* quarantine, failed maps and remaps; and a slot that is gone has left no  *)
(* page, no event, no frame and no activity of its engine behind.           *)
THEOREM SlotLeavesNothing == Spec => []SlotAccounted
  <1>1. RingIInv => SlotAccounted
    <2> SUFFICES ASSUME RingIInv PROVE SlotAccounted
      OBVIOUS
    <2> USE DEF RingIInv
    <2>1. pins = Cardinality({i \in Idx : mdl[i]})
      BY DEF ChargeInv, Locked
    <2>2. owner = NoHandle => pins = 0
      BY FS_EmptySet DEF ChargeInv
    <2>3. ASSUME owner = NoHandle, ctl = "idle"
          PROVE  /\ \A e \in Event : countdown[e] = 0
                 /\ AtBus = {} /\ ~InFlight /\ runner = NoThread /\ ~iso
      <3>1. draining /\ mapped = 0 /\ \A e \in Event : countdown[e] = 0
        BY <2>3 DEF PlacesInv, ChargeInv
      <3>2. QuietBus /\ ~iso /\ runner \notin Cpu /\ runner # Ctl
        BY <2>3, <3>1 DEF PlacesInv, Settled, Returns
      <3>3. runner = NoThread
        BY <3>2 DEF Types, PumpTypes, Thread
      <3>4. AtBus = {} /\ ~InFlight
        BY <3>2 DEF QuietBus, AtBus, InFlight, Detaching
      <3> QED
        BY <3>1, <3>2, <3>3, <3>4
    <2> QED
      BY <2>1, <2>2, <2>3 DEF SlotAccounted
  <1> QED
    BY <1>1, RingIInvAlways, PTL

(* A frame's state is "in flight" exactly while the bus, the quarantine,    *)
(* the pump's lap or one completion has it, and only one of them does: no   *)
(* frame the client reads is written, and none is lost to the rotation.     *)
THEOREM FramesHaveOneHolder == Spec => []FrameAccounted
  <1>1. RingIInv => FrameAccounted
    <2> SUFFICES ASSUME RingIInv, NEW i \in Idx
                 PROVE  Holders(i) = IF fs[i] = "inflight" THEN 1 ELSE 0
      BY DEF FrameAccounted
    <2> DEFINE Cs == {c \in Cpu : dpc[c] \in {"delivered", "cancelled", "dropped"} /\ dpcIdx[c] = i}
    <2>1. \A c \in Cpu : c \in Cs <=> Carries(c, i)
      BY DEF Carries
    <2>2. (\E c \in Cpu : Carries(c, i)) => \E c \in Cpu : Cs = {c}
      BY <2>1 DEF RingIInv, HoldersInv
    <2>3. Cardinality(Cs) = IF \E c \in Cpu : Carries(c, i) THEN 1 ELSE 0
      <3>1. CASE \E c \in Cpu : Carries(c, i)
        BY <2>2, <3>1, FS_Singleton
      <3>2. CASE ~\E c \in Cpu : Carries(c, i)
        <4>1. Cs = {}
          BY <2>1, <3>2
        <4> QED
          BY <3>2, <4>1, FS_EmptySet
      <3> QED
        BY <3>1, <3>2
    <2>4. Holders(i) = (IF bus[i] # "none" THEN 1 ELSE 0) + (IF LapHolds /\ lapIdx = i THEN 1 ELSE 0)
                         + Cardinality(Cs)
      BY DEF Holders
    <2> HIDE DEF Cs
    <2>5. fs[i] = "inflight" <=>
            bus[i] # "none" \/ (LapHolds /\ lapIdx = i) \/ \E c \in Cpu : Carries(c, i)
      BY DEF RingIInv, HoldersInv
    <2>6. /\ ~(bus[i] # "none" /\ LapHolds /\ lapIdx = i)
          /\ (\E c \in Cpu : Carries(c, i)) => bus[i] = "none" /\ ~(LapHolds /\ lapIdx = i)
      BY DEF RingIInv, HoldersInv
    <2> QED
      BY <2>3, <2>4, <2>5, <2>6
  <1> QED
    BY <1>1, RingIInvAlways, PTL

(* PhotonicIoctlCaptureStart fixes the mode of a running session and writes *)
(* ISO_EN to suit it: a free-running camera never fills a ring whose frames *)
(* wait for a trigger to hand them back.                                    *)
THEOREM ModeIsTheCameras == Spec => []DeliveryMatchesCamera
  <1>1. RingIInv => DeliveryMatchesCamera
    <2> SUFFICES ASSUME RingIInv PROVE DeliveryMatchesCamera
      OBVIOUS
    <2>1. running => (iso <=> ~oneShot) /\ iso \in BOOLEAN /\ oneShot \in BOOLEAN
      BY DEF RingIInv, PlacesInv, Types, CamTypes, SlotTypes
    <2>2. ~oneShot /\ pumpRing => \A i \in Idx : fs[i] # "delivered"
      BY DEF RingIInv, RingInv
    <2> QED
      BY <2>1, <2>2 DEF DeliveryMatchesCamera
  <1> QED
    BY <1>1, RingIInvAlways, PTL

(* PhotonicCapturePump's election, over every order of maps, starts, arms   *)
(* and deliveries: a frame the engine could attach is never left without a  *)
(* pump on its way, but for the failed attach that brings none.             *)
THEOREM RingIsAlwaysFed == Spec => []RingIsFed
  <1>1. RingIInv => RingIsFed
    <2> SUFFICES ASSUME RingIInv, ~draining, ~stalled, ctl # "unmap", FreeDescs > 0,
                        \E i \in Idx : Acquire(i), runner = NoThread
                 PROVE  \/ ctl \in DOMAIN AfterPump
                        \/ \E c \in Cpu : dpc[c] \in {"delivered", "cancelled", "signal", "pump"}
      BY DEF RingIsFed, PumpComing
    <2>1. FreeDescs # 0
      BY BusyCount
    <2>2. lap = "none" /\ ~Fed
      BY <2>1 DEF RingIInv, PumpInv, Fed
    <2>3. Coming
      BY <2>2 DEF RingIInv, PumpInv, Stirred
    <2>4. DOMAIN AfterPump = Calls
      BY DEF AfterPump, Calls
    <2> QED
      BY <2>3, <2>4 DEF Coming
  <1> QED
    BY <1>1, RingIInvAlways, PTL
=============================================================================
