-------------------------- MODULE CameraRegisters --------------------------
(***************************************************************************)
(* The register file of the emulated camera (src/fake-fw-dev/dcam.c,       *)
(* format7.c, video.c) and what its isochronous registers do to the        *)
(* transmit context (iso.c), as operators on one record.  A module that    *)
(* uses it keeps the record in a variable and decides in which steps the   *)
(* operators are applied.                                                  *)
(*                                                                         *)
(* The latched packet, frame and ring sizes are kept only while the        *)
(* context runs; the code leaves the old ones, and computes them anew      *)
(* before it reads them.                                                   *)
(***************************************************************************)
EXTENDS PacketGeometry

CONSTANTS
  Std,        \* standard slots <<format, mode>> advertised; {} by default
  NumF7,      \* scalable modes exposed
  RingMax     \* ISO_RING_FRAMES_MAX

F7Format == 7
F7Modes == 0..3
MaxPacketsPerFrame == 4096        \* ISO_MAX_PACKETS_PER_FRAME

ASSUME RegistersAssumption ==
  /\ Std \subseteq {s \in (0..2) \X (0..7) : s[2] \in VideoModeInq(s[1])}
  /\ NumF7 \in 1..4
  /\ RingMax \in Nat \ {0}

(* Largest window, its step, the power-up window and the codings of each    *)
(* scalable mode.                                                           *)
F7Table ==
  LET mode(mw, mh, u, w, h, k) ==
        [maxw |-> mw, maxh |-> mh, unit |-> u, defw |-> w, defh |-> h, codings |-> k]
  IN  [m \in F7Modes |->
         CASE m = 0 -> mode(1575, 1053, 4, 1388, 1032, {0, 5})
           [] m = 1 -> mode(1280, 960, 8, 1280, 960, {0, 5, 7})
           [] m = 2 -> mode(640, 480, 8, 640, 480, {0, 2, 5, 7})
           [] m = 3 -> mode(320, 240, 4, 320, 240, {0, 2, 5, 7})]

----------------------------------------------------------------------------
(* Inquiries.                                                               *)

VideoFormatInq == {F7Format} \cup {s[1] : s \in Std}
StdModes(f) == {m \in VideoModeInq(f) : <<f, m>> \in Std}
VideoModeInq7 == 0..(NumF7 - 1)

CamFrameBytes(c, m) ==
  ImageBytes(c.f7[m].w, c.f7[m].h, CamBits(c.f7[m].coding))
CamUnit(c, m) == PacketUnit(c.f7[m].w, CamBits(c.f7[m].coding))
CsrRead(c, m) ==
  LET t == F7Table[m]
      v == c.f7[m]
  IN  [maxw |-> t.maxw, maxh |-> t.maxh, unit |-> t.unit, codings |-> t.codings,
       w |-> v.w, h |-> v.h, x |-> v.x, y |-> v.y, coding |-> v.coding,
       punit |-> CamUnit(c, m), pmax |-> PacketMax(CamUnit(c, m)),
       packet |-> CamUnit(c, m), bytes |-> CamFrameBytes(c, m),
       ppf |-> InquiredPacketsPerFrame(CamFrameBytes(c, m), CamUnit(c, m))]

----------------------------------------------------------------------------
(* Power-up and the video registers.                                        *)

F7Reset ==
  [m \in F7Modes |-> [w |-> F7Table[m].defw, h |-> F7Table[m].defh, x |-> 0, y |-> 0,
                      coding |-> 0, bpp |-> PacketUnit(F7Table[m].defw, CamBits(0))]]
NoIso == [created |-> FALSE, running |-> FALSE, oneshot |-> FALSE, buffer |-> 0,
          bpp |-> 0, ppf |-> 0, bytes |-> 0, ring |-> 0]
PowerUp == [fmt |-> 0, mode |-> 5, rate |-> 4, f7 |-> F7Reset,
            channel |-> 0, speed |-> 2, iso |-> NoIso]

(* INITIALIZE: the video state only; the transmit context goes on.          *)
WriteInitialize(c) == [c EXCEPT !.fmt = 0, !.mode = 5, !.rate = 4, !.f7 = F7Reset]
WriteFormat(c, f) == [c EXCEPT !.fmt = f]
WriteMode(c, m) == [c EXCEPT !.mode = m]
WriteRate(c, r) == [c EXCEPT !.rate = r]

(* The channel and speed of a context are fixed when it is created.         *)
WriteChannel(c, ch, sp) ==
  IF c.iso.created THEN c ELSE [c EXCEPT !.channel = ch, !.speed = sp]

Redefaulted(c, m) == [c EXCEPT !.f7[m].bpp = CamUnit(c, m)]
WriteSize(c, m, w, h) == Redefaulted([c EXCEPT !.f7[m].w = w, !.f7[m].h = h], m)
WriteCoding(c, m, k) == Redefaulted([c EXCEPT !.f7[m].coding = k], m)
Naks(c, m, p) == ~PacketLegal(p, CamUnit(c, m))
WritePacket(c, m, p) == IF Naks(c, m, p) THEN c ELSE [c EXCEPT !.f7[m].bpp = p]

----------------------------------------------------------------------------
(* The transmit context.                                                    *)

NoGeometry == [bpp |-> 0, ppf |-> 0, bytes |-> 0]
Streamable(g) == g.bpp # 0 /\ g.ppf \in 1..MaxPacketsPerFrame

GeometryF7(c) ==
  IF c.mode \notin F7Modes THEN NoGeometry
  ELSE LET v == c.f7[c.mode]
           image == CamFrameBytes(c, c.mode)
       IN  IF CamBits(v.coding) = 0 \/ 0 \in {v.bpp, v.w, v.h} THEN NoGeometry
           ELSE [bpp |-> v.bpp, ppf |-> image \div v.bpp, bytes |-> image]

Geometry(c) ==
  IF c.fmt = F7Format THEN GeometryF7(c)
  ELSE IF c.fmt \notin 0..2 \/ c.rate \notin Rates THEN NoGeometry
  ELSE LET b == CamBytesPerPacket(c.fmt, c.mode, c.rate)
           n == CamPacketsPerFrame(c.fmt, c.mode, c.rate)
       IN  IF b = 0 THEN NoGeometry ELSE [bpp |-> b, ppf |-> n, bytes |-> b * n]

RingDepth(buffer, bytes) ==
  LET d == buffer \div bytes IN IF d > RingMax THEN RingMax ELSE d

(* dcam_iso_start.  The kernel decides "o": whether the context is created,  *)
(* how many bytes it maps for the ring (0 for none) and whether it starts.  *)
Buffer(c, o) == IF c.iso.buffer # 0 THEN c.iso.buffer ELSE o.map
ContextReady(c, o) ==
  LET g == Geometry(c)
  IN  /\ ~c.iso.running /\ Streamable(g)
      /\ c.iso.created \/ o.open
      /\ RingDepth(Buffer(c, o), g.bytes) > 0
IsoStart(c, o) ==
  LET g == Geometry(c)
      mapped == [c.iso EXCEPT !.created = TRUE, !.buffer = Buffer(c, o)]
      filled == [mapped EXCEPT !.ring = RingDepth(Buffer(c, o), g.bytes), !.running = TRUE,
                               !.bpp = g.bpp, !.ppf = g.ppf, !.bytes = g.bytes]
  IN  IF c.iso.running \/ ~Streamable(g) \/ (~c.iso.created /\ ~o.open) THEN c
      ELSE [c EXCEPT !.iso = IF ContextReady(c, o) /\ o.start THEN filled ELSE mapped]

(* dcam_iso_stop                                                            *)
IsoStop(c) == IF c.iso.created \/ c.iso.running THEN [c EXCEPT !.iso = NoIso] ELSE c

WriteIsoEn(c, on, o) ==
  IF on THEN IsoStart([c EXCEPT !.iso.oneshot = FALSE], o) ELSE IsoStop(c)

(* ONE_SHOT with bit 31 set; a cleared word does nothing.                   *)
WriteOneShot(c, on, o) ==
  IF on THEN IsoStart([IsoStop(c) EXCEPT !.iso.oneshot = TRUE], o) ELSE c
=============================================================================
