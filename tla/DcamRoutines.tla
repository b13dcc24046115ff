---------------------------- MODULE DcamRoutines ----------------------------
(***************************************************************************)
(* The driver's routines over the camera's registers                       *)
(* (src/photonic/dcam.c): the reset, the enumeration of the modes, the     *)
(* lookups of the current selection, the selections and the configuration  *)
(* of a stream.  Each is an operator that returns the set of its outcomes, *)
(* records [ok, cam, ...]: "cam" is the camera it leaves.  A routine stops *)
(* at its first failing transaction, and a write that is reported failed   *)
(* may have reached the camera, its answer lost.                           *)
(***************************************************************************)
EXTENDS CameraRegisters, FormatNegotiation

CONSTANT MaxModes                \* PHOTONIC_MAX_VIDEO_MODES

ASSUME RoutinesAssumption == MaxModes \in Nat

(* The outcomes of a run of writes that takes the camera through cs.         *)
Writes(cs) ==
  {[ok |-> TRUE, cam |-> cs[Len(cs)]]}
    \cup {[ok |-> FALSE, cam |-> cs[n]] : n \in DOMAIN cs}

----------------------------------------------------------------------------
(* Bring-up.                                                                *)

(* PhotonicDcamReset: the write, then the polls of the self-clearing bit.    *)
Reset(c) == Writes(<<c, WriteInitialize(c)>>)

StdEntry(f, m) ==
  LET b == RateBounds(FrameRateInq(f, m))
      g == HostSlot[f + 1][m + 1]
  IN  [fmt |-> f, mode |-> m, pix |-> g[1], w |-> g[2], h |-> g[3],
       defw |-> g[2], defh |-> g[3], f7 |-> FALSE, uw |-> 0, uh |-> 0,
       rates |-> FrameRateInq(f, m), min |-> b[1], max |-> b[2]]

(* The standard pass of PhotonicDcamEnumerateModes: advertised slots with a  *)
(* geometry and a rate, in order, as many as the table holds.               *)
StdPass ==
  LET entry(k) == StdEntry(k \div 8, k % 8)
      kept(k) == /\ <<k \div 8, k % 8>> \in Std
                 /\ HostBits(entry(k).pix) # 0 /\ entry(k).min # 0
  IN  Joined([n \in 1..24 |-> IF kept(n - 1) THEN <<entry(n - 1)>> ELSE <<>>], 24)
Held(table) == SubSeq(table, 1, IF Len(table) > MaxModes THEN MaxModes ELSE Len(table))

(* What the driver makes of a scalable mode's registers: the window on the   *)
(* unit grid, the default size held to it.                                  *)
Aligned(x, unit) == (x \div unit) * unit
F7Window(v) ==
  LET uw == IF v.unit = 0 THEN v.maxw ELSE v.unit
      uh == IF v.unit = 0 THEN v.maxh ELSE v.unit
      mw == Aligned(v.maxw, uw)
      mh == Aligned(v.maxh, uh)
      cw == IF Aligned(v.w, uw) > mw THEN mw ELSE Aligned(v.w, uw)
      ch == IF Aligned(v.h, uh) > mh THEN mh ELSE Aligned(v.h, uh)
  IN  [uw |-> uw, uh |-> uh, w |-> mw, h |-> mh,
       defw |-> IF 0 \in {cw, ch} THEN mw ELSE cw,
       defh |-> IF 0 \in {cw, ch} THEN mh ELSE ch]
F7Usable(v) ==
  /\ 0 \notin {v.maxw, v.maxh}
  /\ 0 \notin {F7Window(v).w, F7Window(v).h}
  /\ 0 \notin {v.punit, v.pmax, v.packet}
  /\ HostBits(v.coding) # 0

(* One entry for each coding the driver knows, by ascending coding.          *)
F7Entries(c, m) ==
  LET v == CsrRead(c, m)
      g == F7Window(v)
      bytes(k) == ImageBytes(g.defw, g.defh, HostBits(k))
      entry(k) ==
        [fmt |-> F7Format, mode |-> m, pix |-> k, w |-> g.w, h |-> g.h,
         defw |-> g.defw, defh |-> g.defh, f7 |-> TRUE, uw |-> g.uw, uh |-> g.uh,
         rates |-> {}, min |-> Format7Interval(bytes(k), v.pmax),
         max |-> Format7Interval(bytes(k), v.punit)]
      kept(k) == k \in v.codings /\ HostBits(k) # 0
  IN  IF ~F7Usable(v) THEN <<>>
      ELSE Joined([n \in 1..32 |-> IF kept(n - 1) THEN <<entry(n - 1)>> ELSE <<>>], 32)

(* PhotonicDcamEnumerateFormat7.  "d" says how far the pass gets with each   *)
(* exposed mode: passed over, selected but not read, or read.  The pass     *)
(* ends at the mode whose entries no longer fit.                            *)
F7Tables(c, table, d) ==                \* [n -> the table before mode n - 1]
  LET read == [n \in 1..NumF7 |-> IF d[n - 1] = "read" THEN F7Entries(c, n - 1) ELSE <<>>]
  IN  [n \in 1..(NumF7 + 1) |-> table \o Joined(read, n - 1)]
F7Pass(c, table) ==
  LET probing == WriteFormat(c, F7Format)
      walk(d) ==
        LET t == F7Tables(probing, table, d)
            selected == {m \in VideoModeInq7 : d[m] # "passed" /\ Len(t[m + 1]) <= MaxModes}
        IN  [cam |-> IF selected = {} THEN probing ELSE WriteMode(probing, Most(selected)),
             modes |-> Held(t[NumF7 + 1])]
  IN  {[cam |-> x, modes |-> table] : x \in {c, probing}}
        \cup {walk(d) : d \in [VideoModeInq7 -> {"passed", "selected", "read"}]}

(* PhotonicDcamNormalizeSelection: back to the saved selection when it was   *)
(* read and is enumerated, else onto the first enumerated mode.             *)
Normalized(saved, modes) ==
  IF \E i \in DOMAIN modes : saved = <<modes[i].fmt, modes[i].mode>> THEN saved
  ELSE <<modes[1].fmt, modes[1].mode>>
SelectionLeft(c, saved, modes) == {[ok |-> TRUE, cam |-> c]}   \* mutant: where the probe ended
NormalizeSelection(c, saved, modes) ==
  LET s == Normalized(saved, modes)
  IN  Writes(<<c, WriteFormat(c, s[1]), WriteMode(WriteFormat(c, s[1]), s[2])>>)

(* PhotonicDcamEnumerateModes on a camera just reset; NoSelection when the   *)
(* saved selection could not be read.                                       *)
NoSelection == <<NoRate, 0>>
EnumerateModes(c) ==
  LET full == Len(StdPass) > MaxModes
      walks == IF full THEN {[cam |-> c, modes |-> Held(StdPass)]} ELSE F7Pass(c, StdPass)
      listed(w, saved) ==
        {[ok |-> TRUE, sure |-> o.ok, cam |-> o.cam, modes |-> w.modes] :
           o \in NormalizeSelection(w.cam, saved, w.modes)}
      unread(x) == [ok |-> FALSE, sure |-> FALSE, cam |-> x, modes |-> <<>>]
  IN  {unread(c)}
        \cup {unread(w.cam) : w \in {v \in walks : v.modes = <<>>}}
        \cup UNION {listed(w, s) : w \in {v \in walks : v.modes # <<>>},
                                   s \in {NoSelection, <<c.fmt, c.mode>>}}

(* PhotonicBringUpDevice: the bus and the CSR base first; any failure leaves *)
(* an empty table.                                                          *)
BringUpDevice(c) ==
  LET failed(x) == [ok |-> FALSE, sure |-> FALSE, cam |-> x, modes |-> <<>>]
  IN  {failed(c)} \cup {failed(o.cam) : o \in Reset(c)}
        \cup UNION {EnumerateModes(o.cam) : o \in {r \in Reset(c) : r.ok}}

----------------------------------------------------------------------------
(* The current selection.  Each lookup returns the set of answers it may     *)
(* give; 0 is a failure.                                                    *)

Selected(c, modes) == {i \in DOMAIN modes : modes[i].fmt = c.fmt /\ modes[i].mode = c.mode}

(* PhotonicDcamGetCurrentMode: the first entry of the selection or, when the *)
(* coding of a scalable mode can be read and is listed, the one with it.    *)
CurrentModes(c, modes) ==
  LET at == Selected(c, modes)
      coded == {i \in at : modes[i].f7 /\ modes[i].pix = c.f7[c.mode].coding}
  IN  IF at = {} THEN {0}
      ELSE {0, IF coded # {} THEN First(coded) ELSE First(at)}
             \cup {i \in {First(at)} : modes[i].f7}

(* PhotonicDcamGetCurrentPixelFormat when its reads succeed and the          *)
(* selection is enumerated                                                  *)
ListedPixelFormat(c, modes) == modes[First(Selected(c, modes))].pix  \* mutant: coding unread
CurrentPixelFormat(c, modes) ==
  LET e == modes[First(Selected(c, modes))]
  IN  IF e.f7 THEN c.f7[c.mode].coding ELSE e.pix

(* PhotonicDcamGetFrameRate                                                 *)
FrameIntervalFastest(c, modes, i) == modes[i].min    \* mutant: the register unread
FrameInterval(c, modes, i) == IF modes[i].f7 THEN modes[i].min ELSE RateInterval[c.rate]
FrameRates(c, modes) ==
  {0} \cup {FrameInterval(c, modes, i) : i \in CurrentModes(c, modes) \ {0}}

(* PhotonicDcamEnumFrameRate: the interval at an index, 0 past the last.     *)
EnumFrameRate(mode, index) ==
  IF mode.f7 THEN IF index = 0 THEN mode.min ELSE 0
  ELSE LET r == RateFromIndex(mode.rates, index)
       IN  IF r = NoRate THEN 0 ELSE RateInterval[r]

(* PhotonicDcamGetCurrentSubwindow for the mode the lookup found: the scale  *)
(* and, multiplied by it, the live window of a scalable mode or the frame   *)
(* of a fixed one.                                                          *)
Subwindow(c, modes, i) ==
  LET full == Most({modes[j].defw : j \in DOMAIN modes})
      scale == full \div modes[i].defw
      v == IF modes[i].f7 THEN c.f7[c.mode]
           ELSE [x |-> 0, y |-> 0, w |-> modes[i].defw, h |-> modes[i].defh]
  IN  [scale |-> scale, x |-> v.x * scale, y |-> v.y * scale,
       w |-> v.w * scale, h |-> v.h * scale]

(* PhotonicDcamSelectPixelFormat: the first entry with the coding.           *)
SelectPixelFormat(c, modes, pix) ==
  LET coded == {i \in DOMAIN modes : modes[i].pix = pix}
      e == modes[First(coded)]
      a == WriteFormat(c, e.fmt)
      b == WriteMode(a, e.mode)
  IN  IF coded = {} THEN {}
      ELSE Writes(IF e.f7 THEN <<c, a, b, WriteCoding(b, e.mode, pix)>> ELSE <<c, a, b>>)

(* PhotonicDcamSetFrameRate on the entry the lookup found; a scalable mode   *)
(* has one rate and no register for it.                                     *)
SetFrameRate(c, mode, index) ==
  LET r == RateFromIndex(mode.rates, index)
  IN  IF mode.f7 THEN {[ok |-> TRUE, cam |-> c] : n \in {0} \cap {index}}
      ELSE IF r = NoRate THEN {} ELSE Writes(<<c, WriteRate(c, r)>>)

----------------------------------------------------------------------------
(* The configuration of a stream [mode, w, h, image, interval] at a bus      *)
(* speed: what the host will stream and, under "nak", whether no packet or  *)
(* one the camera refuses was chosen for a geometry that has room for one.  *)

NoStream == [bpp |-> 0, ppf |-> 0]
Failed(os, nak) == {[ok |-> FALSE, cam |-> o.cam, pkt |-> NoStream, nak |-> nak] :
                      o \in {p \in os : ~p.ok}}

(* The standard modes of PhotonicDcamConfigureStream                        *)
ConfigureStd(c, e, s, speed) ==
  LET r == SelectRate(e.fmt, e.mode, e.rates, s.interval, MaxIsochPayload(speed))
      a == WriteFormat(c, e.fmt)
      b == WriteMode(a, e.mode)
      os == Writes(<<c, a, b, WriteRate(b, r)>>)
      pkt == [bpp |-> HostBytesPerPacket(e.fmt, e.mode, r),
              ppf |-> HostPacketsPerFrame(e.fmt, e.mode, r)]
  IN  IF r = NoRate THEN Failed({[ok |-> FALSE, cam |-> c]}, FALSE)
      ELSE Failed(os, FALSE)
             \cup {[ok |-> TRUE, cam |-> o.cam, pkt |-> pkt, nak |-> FALSE] :
                     o \in {p \in os : p.ok}}

(* PhotonicDcamConfigureFormat7: selection, size and coding, then the packet *)
(* parameters they leave, then the packet.                                  *)
InquiredTooEarly(before, after, m) == CamUnit(before, m)     \* mutant: read before the size
InquiredUnit(before, after, m) == CamUnit(after, m)
ConfigureFormat7(c, e, s, speed) ==
  LET a == WriteFormat(c, F7Format)
      b == WriteMode(a, e.mode)
      sized == WriteSize(b, e.mode, s.w, s.h)
      d == WriteCoding(sized, e.mode, e.pix)
      unit == InquiredUnit(b, d, e.mode)
      max == HostMax(unit, PacketMax(unit), MaxIsochPayload(speed))
      target == SnappedPacket(RawPacket(s.image, max, s.interval), unit, max)
      chosen == ChosenPackets(s.image, unit, max, target)
      refused(p) == Naks(d, e.mode, p)
      written(p) == Writes(<<d, WritePacket(d, e.mode, p)>>)
      none == {[ok |-> FALSE, cam |-> d]}
      good(p) == {[ok |-> TRUE, cam |-> o.cam, nak |-> FALSE,
                   pkt |-> [bpp |-> p, ppf |-> s.image \div p]] : o \in {q \in written(p) : q.ok}}
  IN  IF s.image = 0 THEN Failed({[ok |-> FALSE, cam |-> c]}, FALSE)
      ELSE Failed(Writes(<<c, a, b, sized, d>>), FALSE)
             \cup IF max = 0 THEN Failed(none, FALSE)
                  ELSE IF chosen = {} THEN Failed(none, TRUE)
                  ELSE UNION {IF refused(p) THEN Failed(none, TRUE)
                              ELSE Failed(written(p), FALSE) \cup good(p) : p \in chosen}

ConfigureStream(c, e, s, speed) ==
  IF e.f7 THEN ConfigureFormat7(c, e, s, speed) ELSE ConfigureStd(c, e, s, speed)
=============================================================================
