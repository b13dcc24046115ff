-------------------------- MODULE PacketGeometry ---------------------------
(***************************************************************************)
(* The arithmetic the driver and the camera must agree on: the standard    *)
(* modes and their packets, the bytes of an image, the packet sizes a      *)
(* camera accepts in a scalable (Format 7) mode, the packet size and the   *)
(* rate the driver picks (src/photonic/dcam.c), and the camera's own side  *)
(* of each (src/fake-fw-dev/video.c, format7.c).                           *)
(*                                                                         *)
(* Times are in microseconds where the code counts 100 ns, so that the     *)
(* products stay within TLC's integers: Cycle is 125 and RateInterval is a *)
(* tenth of g_DcamRateInterval.                                            *)
(***************************************************************************)
EXTENDS Integers, Sequences, FiniteSets

CONSTANTS
  Cycle,          \* length of one isochronous cycle
  RateInterval,   \* [0..5 -> frame interval], slowest rate first
  MaxInterval     \* MAXULONG, where a computed interval saturates

Rates == 0..5
NoRate == 6                       \* DCAM_NUM_RATES, "no such rate"
Codings == 0..8                   \* colour coding ids; 9 and up are unknown

ASSUME GeometryAssumption ==
  /\ Cycle \in Nat \ {0}
  /\ MaxInterval \in Nat \ {0}
  /\ RateInterval \in [Rates -> Nat \ {0}]
  /\ \A q, r \in Rates : q < r => RateInterval[r] < RateInterval[q]

Least(S) == CHOOSE x \in S : \A y \in S : x <= y
Most(S) == CHOOSE x \in S : \A y \in S : y <= x

(* What a loop over 1..n lists, one part after the other.                    *)
Joined(part, n) ==
  LET upto[i \in 0..n] == IF i = 0 THEN <<>> ELSE upto[i - 1] \o part[i]
  IN  upto[n]

----------------------------------------------------------------------------
(* The driver's tables.                                                     *)

(* Coding, width and height of each standard slot; <<9, 0, 0>> is the slot   *)
(* the standard leaves undefined.                                           *)
HostSlot ==
  << << <<3,160,120>>, <<2,320,240>>, <<1,640,480>>, <<2,640,480>>,
        <<4,640,480>>, <<0,640,480>>, <<5,640,480>>, <<9,0,0>> >>,
     << <<2,800,600>>, <<4,800,600>>, <<0,800,600>>, <<2,1024,768>>,
        <<4,1024,768>>, <<0,1024,768>>, <<5,800,600>>, <<5,1024,768>> >>,
     << <<2,1280,960>>, <<4,1280,960>>, <<0,1280,960>>, <<2,1600,1200>>,
        <<4,1600,1200>>, <<0,1600,1200>>, <<5,1280,960>>, <<5,1600,1200>> >> >>

(* Packets of a frame at rate 0, halved by each faster rate, then the bytes  *)
(* of a packet at each rate; 0 marks a rate the mode does not have.         *)
HostPackets ==
  << << <<3840, 0,0,60,120,240,0>>, <<3840, 0,80,160,320,640,0>>,
        <<3840, 0,240,480,960,1920,0>>, <<3840, 0,320,640,1280,2560,0>>,
        <<3840, 0,480,960,1920,3840,0>>, <<3840, 0,160,320,640,1280,2560>>,
        <<3840, 0,320,640,1280,2560,0>>, <<0, 0,0,0,0,0,0>> >>,
     << <<3840, 0,500,1000,2000,4000,0>>, <<3840, 0,0,1500,3000,0,0>>,
        <<3840, 0,0,500,1000,2000,4000>>, <<4096, 384,768,1536,3072,0,0>>,
        <<4096, 576,1152,2304,0,0,0>>, <<4096, 192,384,768,1536,3072,0>>,
        <<3840, 0,500,1000,2000,4000,0>>, <<4096, 384,768,1536,3072,0,0>> >>,
     << <<3840, 640,1280,2560,0,0,0>>, <<3840, 960,1920,3840,0,0,0>>,
        <<3840, 320,640,1280,2560,0,0>>, <<3840, 1000,2000,4000,0,0,0>>,
        <<3840, 1500,3000,0,0,0,0>>, <<3840, 500,1000,2000,4000,0,0>>,
        <<3840, 640,1280,2560,0,0,0>>, <<3840, 1000,2000,4000,0,0,0>> >> >>

(* Bits of a pixel as the driver knows them; it does not stream RGB16 nor   *)
(* the second Bayer order.                                                  *)
HostBits(c) == CASE c \in {0, 7} -> 8 [] c = 1 -> 12 [] c \in {2, 5} -> 16
                 [] c \in {3, 4} -> 24 [] OTHER -> 0

(* PhotonicImageBytes *)
ImageBytes(w, h, bits) == (w * h * bits) \div 8

HostBytesPerPacket(f, m, r) == HostPackets[f + 1][m + 1][r + 2]
HostPacketsPerFrame(f, m, r) == HostPackets[f + 1][m + 1][1] \div (2 ^ r)

(* Photonic1394MaxIsochPayload: speed 0, 1, 2 is S100, S200, S400 *)
MaxIsochPayload(speed) == 1024 * (2 ^ speed)

(* PhotonicDcamRateBounds: fastest and slowest interval of a set of rates,   *)
(* 0 and 0 for a set without a rate the driver streams.                     *)
RateBounds(rates) ==
  LET times == {RateInterval[r] : r \in rates \cap Rates}
  IN  IF times = {} THEN <<0, 0>> ELSE <<Least(times), Most(times)>>

(* PhotonicDcamFormat7Interval *)
Format7Interval(bytes, packet) ==
  IF packet = 0 THEN 0
  ELSE LET t == (bytes * Cycle) \div packet
       IN  IF t > MaxInterval THEN MaxInterval ELSE t

(* PhotonicDcamSelectRate: the advertised rate with a packet that fits whose *)
(* interval is nearest, the slower of two as near; NoRate when none fits.    *)
SelectRate(f, m, rates, interval, payload) ==
  LET fits == {r \in rates \cap Rates : HostBytesPerPacket(f, m, r) \in 1..payload}
      away(r) == IF RateInterval[r] > interval THEN RateInterval[r] - interval
                                               ELSE interval - RateInterval[r]
      nearest == {r \in fits : \A q \in fits : away(r) <= away(q)}
  IN  IF fits = {} THEN NoRate ELSE Least(nearest)

(* PhotonicDcamRateFromIndex *)
RateFromIndex(rates, index) ==
  LET at == {r \in rates \cap Rates : Cardinality({q \in rates : q < r}) = index}
  IN  IF at = {} THEN NoRate ELSE Least(at)

----------------------------------------------------------------------------
(* The driver's packet for a scalable mode (PhotonicDcamConfigureFormat7).  *)

(* The camera's largest packet, held to what the bus speed carries; 0 when   *)
(* not even one unit fits.                                                  *)
HostMaxUncapped(unit, max, payload) == max           \* mutant: bus speed ignored
HostMax(unit, max, payload) ==
  IF max > payload THEN (payload \div unit) * unit ELSE max

(* The size the negotiated rate asks for; no rate asks for the largest.      *)
RawPacket(frame, max, interval) ==
  IF interval = 0 THEN max
  ELSE LET t == (frame * Cycle) \div interval IN IF t > max THEN max ELSE t

(* Floored to a unit multiple, one unit at least and max at most.           *)
SnappedPacket(raw, unit, max) ==
  LET p == (raw \div unit) * unit
      q == IF p = 0 THEN unit ELSE p
  IN  IF q > max THEN max ELSE q

(* The whole-unit packets up to max that divide the frame: the largest not   *)
(* above the target or, when there is none, the smallest above it.  A set    *)
(* of at most one packet, empty when the geometry is rejected.              *)
ChosenPackets(frame, unit, max, target) ==
  LET dividing == {p \in unit..max : p % unit = 0 /\ frame % p = 0}
      below == {p \in dividing : p <= target}
  IN  IF below # {} THEN {p \in below : \A q \in below : q <= p}
                    ELSE {p \in dividing : \A q \in dividing : p <= q}

----------------------------------------------------------------------------
(* The camera's side.                                                       *)

CamPackets ==
  << << <<3840, 0,0,60,120,240,0>>, <<3840, 0,80,160,320,640,0>>,
        <<3840, 0,240,480,960,1920,0>>, <<3840, 0,320,640,1280,2560,0>>,
        <<3840, 0,480,960,1920,3840,0>>, <<3840, 0,160,320,640,1280,2560>>,
        <<3840, 0,320,640,1280,2560,0>>, <<0, 0,0,0,0,0,0>> >>,
     << <<3840, 0,500,1000,2000,4000,0>>, <<3840, 0,0,1500,3000,0,0>>,
        <<3840, 0,0,500,1000,2000,4000>>, <<4096, 384,768,1536,3072,0,0>>,
        <<4096, 576,1152,2304,0,0,0>>, <<4096, 192,384,768,1536,3072,0>>,
        <<3840, 0,500,1000,2000,4000,0>>, <<4096, 384,768,1536,3072,0,0>> >>,
     << <<3840, 640,1280,2560,0,0,0>>, <<3840, 960,1920,3840,0,0,0>>,
        <<3840, 320,640,1280,2560,0,0>>, <<3840, 1000,2000,4000,0,0,0>>,
        <<3840, 1500,3000,0,0,0,0>>, <<3840, 500,1000,2000,4000,0,0>>,
        <<3840, 640,1280,2560,0,0,0>>, <<3840, 1000,2000,4000,0,0,0>> >> >>

CamBytesPerPacket(f, m, r) == CamPackets[f + 1][m + 1][r + 2]
CamPacketsPerFrame(f, m, r) == CamPackets[f + 1][m + 1][1] \div (2 ^ r)

(* dcam_frame_rate_inq, dcam_video_mode_inq *)
FrameRateInq(f, m) == {r \in Rates : CamBytesPerPacket(f, m, r) # 0}
VideoModeInq(f) == {m \in 0..7 : FrameRateInq(f, m) # {}}

(* dcam_f7_bits_per_pixel *)
CamBits(c) == CASE c \in {0, 7, 8} -> 8 [] c = 1 -> 12 [] c \in {2, 5} -> 16
                [] c \in {3, 4} -> 24 [] c = 6 -> 48 [] OTHER -> 0

(* dcam_f7_packet_params: one image line, rounded up to a quadlet, is the    *)
(* unit; the largest packet is what S400 carries in whole units.            *)
BusMax == 4096
PacketUnit(w, bits) ==
  LET line == (w * bits + 7) \div 8
      quad == 4 * ((line + 3) \div 4)
  IN  IF quad = 0 THEN 4 ELSE quad
PacketMax(unit) ==
  LET m == (BusMax \div unit) * unit IN IF m < unit THEN unit ELSE m

(* dcam_f7_bpp_is_legal *)
PacketLegal(p, unit) == p >= unit /\ p <= PacketMax(unit) /\ p % unit = 0

(* dcam_f7_packets_per_frame: of unit packets, the last one counted whole.  *)
InquiredPacketsPerFrame(frame, unit) == (frame + unit - 1) \div unit
=============================================================================
