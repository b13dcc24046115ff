---------------------------- MODULE DcamSession -----------------------------
(***************************************************************************)
(* The camera and its driver from plug to unplug: the bring-up, the format *)
(* and rate selections of the IOCTL client, the two ways to claim the      *)
(* camera (the DirectShow open with a negotiated format, the IOCTL prepare *)
(* of the live selection), the start that configures the camera, the stop, *)
(* the software trigger, and what the camera's transmit context does by    *)
(* itself.  Every handler runs under InterfaceMutex and is one action; the *)
(* writes that can fail inside it are in DcamRoutines.                     *)
(***************************************************************************)
EXTENDS DcamRoutines, ChunkGeometry

CONSTANTS
  Speeds,     \* speed codes a bring-up may find: 0, 1, 2 for S100, S200, S400
  Channels,   \* channels the bus driver may allocate
  Kernels,    \* what the camera's kernel may grant: [open, map, start]
  Sizes,      \* sizes a peer asks the pin for
  Intervals,  \* frame intervals it asks for; 0 for none
  Limits      \* largest DMA buffers a host may report; 0 for a failed query

ASSUME SessionAssumption ==
  /\ Speeds \subseteq 0..2 /\ Channels \subseteq 0..63
  /\ Kernels \subseteq [open : BOOLEAN, map : Nat, start : BOOLEAN]
  /\ Sizes \subseteq Nat \X Nat /\ Intervals \subseteq Nat
  /\ Limits \subseteq Nat

VARIABLES
  cam,        \* the camera's registers and its transmit context
  dev,        \* the device: "none", "up" or "removed"
  speed,      \* speed code of this bring-up
  modes,      \* Extension->Modes
  s,          \* the capture session, owner "none" when there is none
  sure,       \* the last write of a selection went through
  asked,      \* interval ENUM_FRAME_RATE gave for the index last set, or 0
  nak         \* a chosen packet was refused, or no packet found

vars == <<cam, dev, speed, modes, s, sure, asked, nak>>

NoSession == [owner |-> "none", mode |-> 0, w |-> 0, h |-> 0, image |-> 0, interval |-> 0,
              run |-> FALSE, oneshot |-> FALSE, ring |-> FALSE, enable |-> "off",
              pkt |-> NoStream, channel |-> 0, clean |-> FALSE, rate |-> 0]

Ranges == FormatBuild(modes)
Active == s.owner # "none"

Init ==
  /\ cam = PowerUp /\ dev = "none" /\ speed = 0 /\ modes = <<>>
  /\ s = NoSession /\ sure = FALSE /\ asked = 0 /\ nak = FALSE

----------------------------------------------------------------------------
(* Plug and unplug.                                                         *)

(* PhotonicInitializeDevice succeeds whatever became of the bring-up.        *)
InitializeDevice ==
  /\ dev = "none"
  /\ dev' = "up" /\ speed' \in Speeds
  /\ \E o \in BringUpDevice(cam) :
       cam' = o.cam /\ modes' = o.modes /\ sure' = o.sure
  /\ asked' = 0
  /\ UNCHANGED <<s, nak>>

(* PhotonicCaptureStop and what it leaves: the camera is told only when the  *)
(* driver enabled it and it is still there.                                 *)
Stopped(x) == [x EXCEPT !.run = FALSE, !.enable = "off"]
Silenced(o) ==
  IF s.run /\ s.enable = "on" /\ dev = "up" THEN {cam, WriteIsoEn(cam, FALSE, o)} ELSE {cam}

(* PhotonicSurpriseRemoval; the session stays published.                     *)
SurpriseRemoval ==
  /\ dev = "up"
  /\ dev' = "removed" /\ s' = Stopped(s)
  /\ UNCHANGED <<cam, speed, modes, sure, asked, nak>>

(* SRB_UNINITIALIZE_DEVICE, when the pin is closed; it releases the slot.    *)
UninitializeDevice ==
  /\ dev # "none" /\ s.owner # "stream"
  /\ \E o \in Kernels : cam' \in Silenced(o)
  /\ dev' = "none" /\ modes' = <<>> /\ s' = NoSession /\ sure' = FALSE /\ asked' = 0
  /\ UNCHANGED <<speed, nak>>

(* The camera loses its power while the host does not hold it.               *)
PowerCycle ==
  /\ dev = "none" /\ cam' = PowerUp
  /\ UNCHANGED <<dev, speed, modes, s, sure, asked, nak>>

----------------------------------------------------------------------------
(* The IOCTL client's selections, rejected under a session.                  *)

SelectableUnopened == dev = "up" /\ s.owner # "stream"  \* mutant: the slot unchecked
Selectable == dev = "up" /\ ~Active
SetPixelFormat(pix) ==
  /\ Selectable
  /\ \E o \in SelectPixelFormat(cam, modes, pix) : cam' = o.cam /\ sure' = o.ok
  /\ asked' = 0
  /\ UNCHANGED <<dev, speed, modes, s, nak>>

SetRate(index) ==
  /\ Selectable
  /\ \E i \in CurrentModes(cam, modes) \ {0} :
       \E o \in SetFrameRate(cam, modes[i], index) :
         /\ cam' = o.cam
         /\ asked' = IF o.ok /\ ~modes[i].f7 THEN EnumFrameRate(modes[i], index) ELSE 0
  /\ UNCHANGED <<dev, speed, modes, s, sure, nak>>

----------------------------------------------------------------------------
(* Claiming the camera.                                                     *)

(* The connection formats the pin offers for what peers ask: any window it   *)
(* advertises, or none, around any size and interval.                       *)
Requests ==
  {[media |-> r.media, video |-> v, w |-> z[1], h |-> z[2], interval |-> t,
    least |-> r.least, most |-> r.most] :
     r \in {Ranges[n] : n \in DOMAIN Ranges}, v \in BOOLEAN, z \in Sizes, t \in Intervals}
Offers == {Intersection(Ranges, q) : q \in Requests}

(* SRB_OPEN_STREAM with a format the pin offered.                            *)
Opened(f) ==
  [NoSession EXCEPT
     !.owner = "stream", !.mode = FindNegotiatedMode(Ranges, f),
     !.w = f.w, !.h = f.h, !.image = ImageBytes(f.w, f.h, f.media[1]),
     !.interval = IF f.interval = 0 THEN DefaultFrameTime ELSE f.interval]
OpenStream ==
  /\ dev = "up" /\ ~Active
  /\ s' \in {Opened(f) : f \in Offers \ {NoFormat}}
  /\ UNCHANGED <<cam, dev, speed, modes, sure, asked, nak>>

(* ... and without a video format: a stream that will never run.             *)
OpenIdle ==
  /\ dev = "up" /\ ~Active
  /\ s' = [NoSession EXCEPT !.owner = "stream"]
  /\ UNCHANGED <<cam, dev, speed, modes, sure, asked, nak>>

(* PhotonicIoctlCapturePrepare on the live selection.  With "again" the      *)
(* client owns a stopped slot, which the video prepare releases first.      *)
Prepared(i, t) ==
  LET e == modes[i]
  IN  [NoSession EXCEPT
         !.owner = "ioctl", !.mode = i, !.w = e.defw, !.h = e.defh,
         !.image = ImageBytes(e.defw, e.defh, HostBits(e.pix)),
         !.interval = IF t = 0 THEN e.min ELSE t,
         !.rate = IF t = 0 \/ e.f7 THEN 0 ELSE asked]
Prepare ==
  /\ dev = "up" /\ s.owner # "stream" /\ ~s.run
  /\ \E i \in CurrentModes(cam, modes), t \in FrameRates(cam, modes) :
       s' = IF i = 0 \/ HostBits(modes[i].pix) = 0 THEN NoSession ELSE Prepared(i, t)
  /\ UNCHANGED <<cam, dev, speed, modes, sure, asked, nak>>

----------------------------------------------------------------------------
(* PhotonicCaptureStart: the configuration, the host's resources, the        *)
(* channel, then the enable, at once or left to the first attach.           *)

Starting(oneshot, ring) ==
  /\ dev = "up" /\ Active /\ ~s.run /\ s.mode # 0
  /\ s.owner = "stream" => ring /\ ~oneshot

(* The session with the mode of this start, which a failed one keeps too;    *)
(* a start whose chunks are refused fails after the configuration.          *)
Chosen(oneshot, ring) == [s EXCEPT !.oneshot = oneshot, !.ring = ring]

StartFails(oneshot, ring) ==
  /\ Starting(oneshot, ring)
  /\ \E g \in ConfigureStream(cam, modes[s.mode], s, speed) :
       /\ nak' = (nak \/ g.nak)
       /\ sure' = (sure /\ g.ok)
       /\ cam' \in IF g.ok
                     THEN {g.cam} \cup {WriteChannel(g.cam, ch, speed) : ch \in Channels \cap 0..15}
                     ELSE {g.cam}
  /\ s' = Chosen(oneshot, ring)
  /\ asked' = 0
  /\ UNCHANGED <<dev, speed, modes>>

(* A start that enables the camera writes ISO_EN; one that does not leaves   *)
(* the enable wanted (a receiving session that does not listen yet) or has  *)
(* none (single frames).                                                    *)
Start(oneshot, ring) ==
  /\ Starting(oneshot, ring)
  /\ \E g \in {x \in ConfigureStream(cam, modes[s.mode], s, speed) : x.ok},
        ch \in Channels \cap 0..15, o \in Kernels, listening \in BOOLEAN :
       LET c == WriteChannel(g.cam, ch, speed)
           t == [Chosen(oneshot, ring) EXCEPT !.run = TRUE, !.pkt = g.pkt, !.channel = ch,
                                               !.clean = ~c.iso.created]
       IN  \/ /\ oneshot
              /\ cam' = c /\ s' = t
           \/ /\ ~oneshot /\ ring /\ ~listening
              /\ cam' = c /\ s' = [t EXCEPT !.enable = "wanted"]
           \/ /\ ~oneshot /\ (ring => listening)
              /\ \/ cam' = WriteIsoEn(c, TRUE, o) /\ s' = [t EXCEPT !.enable = "on"]
                 \/ cam' \in {c, WriteIsoEn(c, TRUE, o)} /\ s' = Stopped(t)
  /\ sure' = TRUE /\ asked' = 0
  /\ UNCHANGED <<dev, speed, modes, nak>>

(* The control work item completes a deferred enable, again if it must.      *)
EnableLater ==
  /\ dev = "up" /\ s.run /\ s.enable = "wanted"
  /\ \E o \in Kernels :
       \/ cam' = WriteIsoEn(cam, TRUE, o) /\ s' = [s EXCEPT !.enable = "on"]
       \/ cam' = WriteIsoEn(cam, TRUE, o) /\ UNCHANGED s
  /\ UNCHANGED <<dev, speed, modes, sure, asked, nak>>

(* A stop of the session, and its end: SRB_CLOSE_STREAM or the unprepare.    *)
Stop ==
  /\ Active /\ s.run
  /\ \E o \in Kernels : cam' \in Silenced(o)
  /\ s' = Stopped(s)
  /\ UNCHANGED <<dev, speed, modes, sure, asked, nak>>

Close ==
  /\ Active
  /\ \E o \in Kernels : cam' \in Silenced(o)
  /\ s' = NoSession
  /\ UNCHANGED <<dev, speed, modes, sure, asked, nak>>

(* PhotonicIoctlSwTrigger, whatever the state of the slot.                   *)
SwTrigger ==
  /\ dev = "up" /\ s.owner = "ioctl"
  /\ \E o \in Kernels : cam' = WriteOneShot(cam, TRUE, o)
  /\ UNCHANGED <<dev, speed, modes, s, sure, asked, nak>>

----------------------------------------------------------------------------
(* The camera by itself.                                                    *)

(* The frame of a one-shot context has gone out, or the context died.        *)
ContextEnds ==
  /\ cam.iso.created
  /\ cam' = IsoStop(cam)
  /\ UNCHANGED <<dev, speed, modes, s, sure, asked, nak>>

----------------------------------------------------------------------------
Next ==
  \/ InitializeDevice \/ SurpriseRemoval \/ UninitializeDevice \/ PowerCycle
  \/ \E pix \in Codings : SetPixelFormat(pix)
  \/ \E index \in Rates : SetRate(index)
  \/ OpenStream \/ OpenIdle \/ Prepare
  \/ \E oneshot, ring \in BOOLEAN : StartFails(oneshot, ring) \/ Start(oneshot, ring)
  \/ EnableLater \/ Stop \/ Close \/ SwTrigger \/ ContextEnds

Spec == Init /\ [][Next]_vars

----------------------------------------------------------------------------
(* Properties.                                                              *)

(* Every variable keeps its kind, the session a mode of the table.           *)
TypeOK ==
  /\ dev \in {"none", "up", "removed"} /\ speed \in 0..2
  /\ sure \in BOOLEAN /\ nak \in BOOLEAN /\ asked \in Nat
  /\ Len(modes) <= MaxModes /\ s.mode \in 0..Len(modes)
  /\ s.owner \in {"none", "stream", "ioctl"} /\ s.enable \in {"off", "wanted", "on"}
  /\ s.run => Active /\ s.mode # 0 /\ dev = "up"

(* Host and camera stream the same thing: a running session's channel and    *)
(* speed are the camera's, and a context the camera started in it uses the  *)
(* session's packet, its frame being the image the session's buffers are    *)
(* made for.  (A context already there when the start wrote the registers   *)
(* ignores them: such a session is not "clean".)                            *)
ChannelAgrees == s.run /\ s.clean => cam.channel = s.channel /\ cam.speed = speed
StreamAgrees ==
  /\ ChannelAgrees
  /\ s.run /\ s.clean /\ cam.iso.running =>
       /\ [bpp |-> cam.iso.bpp, ppf |-> cam.iso.ppf] = s.pkt
       /\ cam.iso.bytes = s.image

(* The camera never refuses the packet the driver chose, and there is one    *)
(* for every geometry the bus has room for.                                 *)
PacketNeverRefused == ~nak

(* What a session streams fits the bus and the host: a packet no larger than *)
(* the speed carries, whole packets that make exactly one image, and a chain *)
(* of chunks that covers it, whatever limit the host reports.               *)
PacketsFit ==
  s.run =>
    /\ s.pkt.bpp \in 1..MaxIsochPayload(speed) /\ s.pkt.bpp * s.pkt.ppf = s.image
    /\ \A dma \in Limits : ChainWhole(s.pkt.bpp * s.pkt.ppf, s.pkt.bpp, dma)

(* A brought-up camera whose selection writes went through is selected on a  *)
(* mode the driver enumerated, however far the Format 7 probe got.          *)
SelectionUsable ==
  dev = "up" /\ sure /\ modes # <<>> => Selected(cam, modes) # {}

(* The rate an IOCTL client set by its ENUM_FRAME_RATE index is the rate its *)
(* session streams at, when that rate's packet fits the bus.                *)
RateAsSet ==
  s.run /\ s.rate # 0 =>
    LET e == modes[s.mode]
        r == CHOOSE n \in Rates : RateInterval[n] = s.rate
        bytes == HostBytesPerPacket(e.fmt, e.mode, r)
    IN  bytes <= MaxIsochPayload(speed) => s.pkt.bpp = bytes

(* What GET_PIXEL_FORMAT and SUBWINDOW_GET read from the camera under a      *)
(* running session is what the session streams: its coding, and its window  *)
(* in the units of the widest mode, whichever entry the lookup settles on.  *)
ReadBackAgrees ==
  s.run =>
    /\ CurrentPixelFormat(cam, modes) = modes[s.mode].pix
    /\ \A i \in CurrentModes(cam, modes) \ {0} :
         LET v == Subwindow(cam, modes, i)
         IN  v.w = s.w * v.scale /\ v.h = s.h * v.scale

(* A stream opened with an offered format has a mode of the table, one whose *)
(* rates cover the negotiated interval, whose sizes cover the negotiated     *)
(* size and whose coding fills the image the buffers are made for.  (A       *)
(* stream opened without a format has no interval.)                          *)
SizeCovered(x, unit, size, f7) == IF f7 THEN unit <= x /\ x <= size ELSE x = size
NegotiatedHeld ==
  s.owner = "stream" /\ s.interval # 0 =>
    /\ s.mode # 0
    /\ LET e == modes[s.mode]
       IN  /\ e.min <= s.interval /\ s.interval <= e.max
           /\ SizeCovered(s.w, e.uw, e.w, e.f7) /\ SizeCovered(s.h, e.uh, e.h, e.f7)
           /\ s.image = ImageBytes(s.w, s.h, HostBits(e.pix))

(* The mode of a stream opened with an offered format is one whose unit the  *)
(* negotiated size is a multiple of: "aligned down to the output            *)
(* granularity" (intersect.c), "the negotiated (unit-aligned) geometry"     *)
(* (dcam.c).                                                                *)
NegotiatedAligned ==
  s.owner = "stream" /\ s.mode # 0 =>
    LET e == modes[s.mode] IN e.f7 => s.w % e.uw = 0 /\ s.h % e.uh = 0
=============================================================================
