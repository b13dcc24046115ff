-------------------------- MODULE FormatNegotiation ------------------------
(***************************************************************************)
(* How the capture pin turns the enumerated modes into data ranges         *)
(* (src/photonic/stream/formats.c), answers a peer's data range with one   *)
(* connection format (stream/intersect.c) and, when the pin is opened with *)
(* a format, finds the mode behind it again (stream/lifecycle.c).          *)
(*                                                                         *)
(* A mode is an entry of the driver's table:                               *)
(*   [fmt, mode, pix, w, h, defw, defh, f7, uw, uh, rates, min, max].      *)
(* A subtype is its pair <<bit count, compression>>, which names it.       *)
(***************************************************************************)
EXTENDS PacketGeometry

CONSTANT DefaultFrameTime        \* PHOTONIC_DEFAULT_FRAME_TIME

ASSUME NegotiationAssumption == DefaultFrameTime \in Nat \ {0}

NoMedia == <<0, "none">>
NoFormat == [media |-> NoMedia, w |-> 0, h |-> 0, interval |-> 0]

(* PhotonicStreamFormatPixelToMedia *)
PixelToMedia(pix) ==
  CASE pix \in {3, 4} -> <<24, "rgb">> [] pix = 2 -> <<16, "uyvy">>
    [] pix = 0 -> <<8, "rgb">>         [] pix = 5 -> <<16, "y16">>
    [] pix = 1 -> <<12, "y411">>       [] pix = 7 -> <<8, "rggb">>
    [] OTHER -> NoMedia

(* PhotonicStreamFormatFillRange: the window of output sizes, the size the   *)
(* range connects at by default and the window of intervals.                *)
FillRange(modes, i) ==
  LET m == modes[i]
      min == IF m.min = 0 THEN DefaultFrameTime ELSE m.min
      max == IF m.max = 0 THEN min ELSE m.max
      step == IF m.f7 THEN <<m.uw, m.uh>> ELSE <<m.w, m.h>>
  IN  [from |-> i, media |-> PixelToMedia(m.pix), least |-> step, most |-> <<m.w, m.h>>,
       gran |-> step, size |-> <<m.defw, m.defh>>, min |-> min, max |-> max]

(* PhotonicStreamFormatBuild: one range for each mode with a subtype.        *)
FormatBuild(modes) ==
  Joined([i \in DOMAIN modes |->
            IF PixelToMedia(modes[i].pix) = NoMedia THEN <<>> ELSE <<FillRange(modes, i)>>],
         Len(modes))

RangeIntervalOk(r, t) == t = 0 \/ (r.min <= t /\ t <= r.max)
RangeDefaultSizeIs(r, w, h) == r.size = <<w, h>>
First(S) == IF S = {} THEN 0 ELSE Least(S)

----------------------------------------------------------------------------
(* The intersection.  A request is [media, video, w, h, interval, least,     *)
(* most]; media NoMedia stands for the wildcard subtype, video FALSE for a  *)
(* bare data range.                                                         *)

(* PhotonicStreamIntersectFindRange: the number of the best range, or 0.     *)
FindRange(ranges, q) ==
  LET typed == {i \in DOMAIN ranges : q.media \in {NoMedia, ranges[i].media}}
      windowed == {i \in typed : ranges[i].least = q.least /\ ranges[i].most = q.most}
      timely == {i \in typed : RangeIntervalOk(ranges[i], q.interval)}
      preferred == {i \in timely \ windowed :
                      q.w > 0 /\ q.h > 0 /\ RangeDefaultSizeIs(ranges[i], q.w, q.h)}
      fits(i) == /\ q.most[1] # 0 => /\ ranges[i].size[1] <= q.most[1]
                                     /\ ranges[i].size[2] <= q.most[2]
                 /\ q.least[1] # 0 => /\ ranges[i].size[1] >= q.least[1]
                                      /\ ranges[i].size[2] >= q.least[2]
      fallback == {i \in typed \ windowed : fits(i)}
  IN  IF ~q.video THEN First(typed)
      ELSE IF windowed \cap timely # {} THEN First(windowed \cap timely)
      ELSE IF preferred # {} THEN First(preferred)
      ELSE IF windowed # {} THEN First(windowed) ELSE First(fallback)

ClampedNot(x, least, most) == x                      \* mutant: window ignored
Clamped(x, least, most) == IF x > most THEN most ELSE IF x < least THEN least ELSE x

(* PhotonicStreamGetDataIntersection: the connection format.                *)
Intersection(ranges, q) ==
  LET i == FindRange(ranges, q)
      r == ranges[i]
      sized == q.video /\ r.most # r.least /\ q.w > 0 /\ q.h > 0
      length(k, x) == (Clamped(x, r.least[k], r.most[k]) \div r.gran[k]) * r.gran[k]
  IN  IF i = 0 THEN NoFormat
      ELSE [media |-> r.media,
            w |-> IF sized THEN length(1, q.w) ELSE r.size[1],
            h |-> IF sized THEN length(2, q.h) ELSE r.size[2],
            interval |-> IF q.video /\ q.interval # 0
                           THEN Clamped(q.interval, r.min, r.max) ELSE r.min]

----------------------------------------------------------------------------
(* The open.                                                                *)

(* PhotonicStreamFindNegotiatedMode: the mode behind a connection format, as *)
(* an index of the mode table, or 0.                                        *)
FindNegotiatedMode(ranges, f) ==
  LET covering == {i \in DOMAIN ranges :
                     /\ ranges[i].media = f.media
                     /\ f.w \in ranges[i].least[1]..ranges[i].most[1]
                     /\ f.h \in ranges[i].least[2]..ranges[i].most[2]}
      timely == {i \in covering : RangeIntervalOk(ranges[i], f.interval)}
      exact == {i \in timely : RangeDefaultSizeIs(ranges[i], f.w, f.h)}
      choice == IF exact # {} THEN First(exact)
                ELSE IF timely # {} THEN First(timely) ELSE First(covering)
  IN  IF choice = 0 THEN 0 ELSE ranges[choice].from
=============================================================================
