----------------------------- MODULE DcamProofs -----------------------------
(***************************************************************************)
(* Every invariant of the driver and the camera, from plug to unplug, for  *)
(* every set of modes, sizes, speeds, rates and kernels, and the packet    *)
(* and chunk arithmetic they rest on.  The one inductive invariant, IInv,  *)
(* says what the mode table can hold (Entries) and what the camera's       *)
(* registers can (Registers), that a selection the driver is sure of is in *)
(* the table (Placed), that a rate a client set is still in the register,  *)
(* of a mode that has it (Asked), that a session's size, image and         *)
(* interval suit its mode and a negotiated one has a mode (Fitted), and    *)
(* that a running session's camera is configured for it (Running).  A      *)
(* routine may fail after any of its writes: what it keeps then is Apart,  *)
(* Framed or Settled, according to what it writes.                         *)
(***************************************************************************)
EXTENDS DcamSession, SequenceTheorems, WellFoundedInduction, TLAPS

(* A finite set of numbers has a least and a greatest member.                *)
LEMMA LeastMember ==
  ASSUME NEW S \in SUBSET Nat, S # {}
  PROVE  Least(S) \in S /\ \A y \in S : Least(S) <= y
<1>1. \E x \in S : \A y \in S : ~(<<y, x>> \in OpToRel(<, Nat))
  BY NatLessThanWellFounded, WFMin, Zenon
<1>2. PICK x \in S : \A y \in S : ~(<<y, x>> \in OpToRel(<, Nat))
  BY <1>1
<1>3. \A y \in S : x <= y
  <2> SUFFICES ASSUME NEW y \in S, y < x PROVE FALSE
    OBVIOUS
  <2>1. <<y, x>> \in OpToRel(<, Nat)
    BY DEF OpToRel
  <2> QED
    BY <1>2, <2>1
<1> QED
  BY <1>3 DEF Least

(* A bounded set of numbers has a greatest member.                           *)
LEMMA MostMember ==
  ASSUME NEW S \in SUBSET Nat, NEW most \in Nat, \A x \in S : x <= most, S # {}
  PROVE  \E x \in S : \A y \in S : y <= x
<1> DEFINE T == {most - x : x \in S}
<1>1. T \in SUBSET Nat /\ T # {}
  <2>1. \A x \in S : most - x \in Nat
    OBVIOUS
  <2>2. PICK x \in S : TRUE
    OBVIOUS
  <2>3. most - x \in T
    OBVIOUS
  <2> QED
    BY <2>1, <2>3
<1> HIDE DEF T
<1>2. Least(T) \in T /\ \A y \in T : Least(T) <= y
  BY <1>1, LeastMember
<1>3. PICK x \in S : Least(T) = most - x
  BY <1>2 DEF T
<1>4. \A y \in S : most - x <= most - y
  BY <1>2, <1>3 DEF T
<1> QED
  BY <1>4

(* A loop lists what its parts hold.  The recursion has a solution, and its  *)
(* values are sequences, because no least turn is an exception.             *)
LEMMA JoinedMembers ==
  ASSUME NEW S, NEW n \in Nat, NEW part, \A i \in 1..n : part[i] \in Seq(S)
  PROVE  Joined(part, n) \in Seq(S)
<1> DEFINE next(g, i) == IF i = 0 THEN <<>> ELSE g[i - 1] \o part[i]
           Solves(g, k) == g = [i \in 0..k |-> next(g, i)]
           upto == CHOOSE g : Solves(g, n)
<1>1. Joined(part, n) = upto[n]
  BY DEF Joined
<1>2. \A k \in Nat : \E g : Solves(g, k)
  <2> DEFINE bad == {k \in Nat : ~\E g : Solves(g, k)}
  <2> SUFFICES ASSUME bad # {} PROVE FALSE
    OBVIOUS
  <2> DEFINE k == Least(bad)
  <2>1. k \in bad /\ \A y \in bad : k <= y
    <3>1. bad \in SUBSET Nat
      OBVIOUS
    <3> HIDE DEF bad
    <3> QED
      BY <3>1, LeastMember
  <2>2. k \in Nat /\ ~\E g : Solves(g, k)
    BY <2>1
  <2>3. k - 1 \in Nat => \E g : Solves(g, k - 1)
    <3> SUFFICES ASSUME k - 1 \in Nat, ~\E g : Solves(g, k - 1) PROVE FALSE
      OBVIOUS
    <3>1. k - 1 \in bad
      OBVIOUS
    <3> HIDE DEF bad
    <3> QED
      BY <2>1, <2>2, <3>1
  <2> HIDE DEF k, bad
  <2>4. CASE k = 0
    <3> DEFINE h == [i \in 0..0 |-> <<>>]
    <3>1. h = [i \in 0..0 |-> IF i = 0 THEN <<>> ELSE h[i - 1] \o part[i]]
      OBVIOUS
    <3> HIDE DEF h
    <3> QED
      BY <2>2, <2>4, <3>1
  <2>5. CASE k # 0
    <3>1. k - 1 \in Nat
      BY <2>2, <2>5
    <3>2. PICK g : g = [i \in 0..(k - 1) |-> next(g, i)]
      BY <2>3, <3>1
    <3> DEFINE h == [i \in 0..k |-> IF i < k THEN g[i] ELSE g[k - 1] \o part[k]]
    <3>3. \A i \in 0..k : h[i] = next(h, i)
      <4> TAKE i \in 0..k
      <4>1. CASE i = 0
        <5>1. h[i] = g[0]
          BY <2>2, <2>5, <4>1
        <5>2. g[0] = next(g, 0)
          BY <3>1, <3>2
        <5> QED
          BY <4>1, <5>1, <5>2
      <4>2. CASE i # 0 /\ i < k
        <5>1. i - 1 \in 0..k /\ i - 1 < k /\ i \in 0..(k - 1)
          BY <2>2, <4>2
        <5>2. h[i] = g[i] /\ h[i - 1] = g[i - 1]
          BY <4>2, <5>1
        <5> HIDE DEF h
        <5>3. g[i] = g[i - 1] \o part[i]
          BY <3>2, <4>2, <5>1
        <5> QED
          BY <4>2, <5>2, <5>3
      <4>3. CASE i = k
        <5>1. k - 1 \in 0..k /\ k - 1 < k /\ ~(i < k)
          BY <2>2, <3>1, <4>3
        <5>2. h[i] = g[k - 1] \o part[k] /\ h[i - 1] = g[k - 1]
          BY <4>3, <5>1
        <5> HIDE DEF h
        <5> QED
          BY <2>5, <4>3, <5>2
      <4> QED
        BY <2>2, <4>1, <4>2, <4>3
    <3>4. h = [i \in 0..k |-> h[i]]
      OBVIOUS
    <3> HIDE DEF h
    <3>5. h = [i \in 0..k |-> next(h, i)]
      <4> HIDE DEF next
      <4> QED
        BY <3>3, <3>4
    <3> QED
      BY <2>2, <3>5
  <2> QED
    BY <2>4, <2>5
<1>3. upto = [i \in 0..n |-> next(upto, i)]
  <2>1. Solves(upto, n)
    <3> HIDE DEF Solves
    <3> QED
      BY <1>2
  <2> HIDE DEF upto
  <2> QED
    BY <2>1
<1> HIDE DEF upto
<1>4. \A i \in 0..n : upto[i] \in Seq(S)
  <2> DEFINE bad == {i \in 0..n : upto[i] \notin Seq(S)}
  <2> SUFFICES ASSUME bad # {} PROVE FALSE
    OBVIOUS
  <2> DEFINE i == Least(bad)
  <2>1. i \in bad /\ \A y \in bad : i <= y
    <3>1. bad \in SUBSET Nat
      OBVIOUS
    <3> HIDE DEF bad
    <3> QED
      BY <3>1, LeastMember
  <2>2. i \in 0..n /\ upto[i] \notin Seq(S) /\ upto[i] = next(upto, i)
    BY <1>3, <2>1
  <2>3. i - 1 \in 0..n => upto[i - 1] \in Seq(S)
    <3> SUFFICES ASSUME i - 1 \in 0..n, upto[i - 1] \notin Seq(S) PROVE FALSE
      OBVIOUS
    <3>1. i - 1 \in bad
      OBVIOUS
    <3> HIDE DEF bad
    <3> QED
      BY <2>1, <2>2, <3>1
  <2> HIDE DEF i, bad
  <2>4. CASE i = 0
    BY <2>2, <2>4
  <2>5. CASE i # 0
    <3>1. i - 1 \in 0..n /\ i \in 1..n
      BY <2>2, <2>5
    <3>2. upto[i - 1] \o part[i] \in Seq(S)
      BY <2>3, <3>1
    <3> QED
      BY <2>2, <2>5, <3>2
  <2> QED
    BY <2>4, <2>5
<1> QED
  BY <1>1, <1>4

(* Division by a positive number, in the two forms the proofs use.           *)
LEMMA Quotient ==
  ASSUME NEW a \in Int, NEW b \in Nat \ {0}
  PROVE  /\ a \div b \in Int /\ a % b \in 0..(b - 1)
         /\ a = b * (a \div b) + (a % b)
  OBVIOUS

----------------------------------------------------------------------------
(* The tables of the standard modes.                                        *)
LEMMA Powers ==
  /\ 2 ^ 0 = 1 /\ 2 ^ 1 = 2 /\ 2 ^ 2 = 4 /\ 2 ^ 3 = 8 /\ 2 ^ 4 = 16 /\ 2 ^ 5 = 32
  OBVIOUS
Halves(r, x) ==
  \/ (r = 0 /\ x = 1) \/ (r = 1 /\ x = 2) \/ (r = 2 /\ x = 4)
  \/ (r = 3 /\ x = 8) \/ (r = 4 /\ x = 16) \/ (r = 5 /\ x = 32)
(* The six rates double at each step.                                        *)
LEMMA RatePower == ASSUME NEW r \in Rates PROVE Halves(r, 2 ^ r)
<1>1. r = 0 \/ r = 1 \/ r = 2 \/ r = 3 \/ r = 4 \/ r = 5
  BY DEF Rates
<1>2. CASE r = 0
  <2>1. 2 ^ r = 1
    BY <1>2, Powers, Zenon
  <2> QED
    BY <1>2, <2>1 DEF Halves
<1>3. CASE r = 1
  <2>1. 2 ^ r = 2
    BY <1>3, Powers, Zenon
  <2> QED
    BY <1>3, <2>1 DEF Halves
<1>4. CASE r = 2
  <2>1. 2 ^ r = 4
    BY <1>4, Powers, Zenon
  <2> QED
    BY <1>4, <2>1 DEF Halves
<1>5. CASE r = 3
  <2>1. 2 ^ r = 8
    BY <1>5, Powers, Zenon
  <2> QED
    BY <1>5, <2>1 DEF Halves
<1>6. CASE r = 4
  <2>1. 2 ^ r = 16
    BY <1>6, Powers, Zenon
  <2> QED
    BY <1>6, <2>1 DEF Halves
<1>7. CASE r = 5
  <2>1. 2 ^ r = 32
    BY <1>7, Powers, Zenon
  <2> QED
    BY <1>7, <2>1 DEF Halves
<1> QED
  BY <1>1, <1>2, <1>3, <1>4, <1>5, <1>6, <1>7
(* The driver's packets of a standard mode make its frame at every rate the  *)
(* mode has, and they are the camera's.                                      *)
LEMMA TablesAgree == CamPackets = HostPackets
  BY DEF CamPackets, HostPackets

Slot(f, m) == HostSlot[f + 1][m + 1]
(* A packet and a number of them that make the image.                        *)
Makes(bpp, ppf, image) == bpp \in 1..4096 /\ ppf \in 1..4096 /\ bpp * ppf = image

(* What both sides count for a slot the camera offers is the frame, in       *)
(* packets no larger than an image.                                          *)
LEMMA StandardFrame ==
  ASSUME NEW f \in 0..2, NEW m \in 0..7, NEW r \in Rates, CamBytesPerPacket(f, m, r) # 0
  PROVE  /\ Makes(HostBytesPerPacket(f, m, r), HostPacketsPerFrame(f, m, r),
                  ImageBytes(Slot(f, m)[2], Slot(f, m)[3], HostBits(Slot(f, m)[1])))
         /\ CamBytesPerPacket(f, m, r) = HostBytesPerPacket(f, m, r)
         /\ CamPacketsPerFrame(f, m, r) = HostPacketsPerFrame(f, m, r)
<1>1. f = 0 \/ f = 1 \/ f = 2
  OBVIOUS
<1>2. m = 0 \/ m = 1 \/ m = 2 \/ m = 3 \/ m = 4 \/ m = 5 \/ m = 6 \/ m = 7
  OBVIOUS
<1> DEFINE x == 2 ^ r
           bpp == HostPackets[f + 1][m + 1][r + 2]
           packets == HostPackets[f + 1][m + 1][1]
           ppf == packets \div x
<1>3. Halves(r, x)
  BY RatePower
<1> HIDE DEF x
<1>8. r = 0 \/ r = 1 \/ r = 2 \/ r = 3 \/ r = 4 \/ r = 5
  BY DEF Rates
<1>4. bpp # 0
  BY TablesAgree DEF CamBytesPerPacket
<1> DEFINE Whole == bpp * ppf = (Slot(f, m)[2] * Slot(f, m)[3] * HostBits(Slot(f, m)[1])) \div 8
<1>5. bpp \in 1..4096
  <2>1. bpp \in Nat
    BY <1>1, <1>2, <1>8 DEF HostPackets
  <2>2. bpp <= 4096
    BY <1>1, <1>2, <1>8 DEF HostPackets
  <2> HIDE DEF bpp
  <2> QED
    BY <1>4, <2>1, <2>2
<1>7. ppf \in 1..4096
  <2>1. packets \in {3840, 4096}
    BY <1>1, <1>2, <1>4, <1>8 DEF HostPackets
  <2> HIDE DEF packets
  <2>2. packets \div x \in 1..4096
    BY <1>3, <2>1 DEF Halves
  <2> QED
    BY <2>2
<1>6. Whole
  <2>1. CASE f = 0
    BY <1>2, <1>3, <1>4, <2>1 DEF HostPackets, Slot, HostSlot, HostBits, Halves
  <2>2. CASE f = 1
    BY <1>2, <1>3, <1>4, <2>2 DEF HostPackets, Slot, HostSlot, HostBits, Halves
  <2>3. CASE f = 2
    BY <1>2, <1>3, <1>4, <2>3 DEF HostPackets, Slot, HostSlot, HostBits, Halves
  <2> QED
    BY <1>1, <2>1, <2>2, <2>3
<1>9. /\ HostBytesPerPacket(f, m, r) = bpp /\ HostPacketsPerFrame(f, m, r) = ppf
      /\ CamBytesPerPacket(f, m, r) = bpp /\ CamPacketsPerFrame(f, m, r) = ppf
  BY TablesAgree DEF HostBytesPerPacket, HostPacketsPerFrame, CamBytesPerPacket,
                     CamPacketsPerFrame, x
<1> HIDE DEF bpp, ppf
<1> QED
  BY <1>5, <1>6, <1>7, <1>9 DEF ImageBytes, Makes

(* A slot with a coding has a size, of whole quadlets a line.                *)
LEMMA SlotSizes ==
  ASSUME NEW f \in 0..2, NEW m \in 0..7, HostBits(Slot(f, m)[1]) # 0
  PROVE  /\ Slot(f, m)[2] \in Nat \ {0} /\ Slot(f, m)[3] \in Nat \ {0} /\ Slot(f, m)[2] % 4 = 0
         /\ Slot(f, m)[1] \in 0..5
<1>1. f = 0 \/ f = 1 \/ f = 2
  OBVIOUS
<1>2. m = 0 \/ m = 1 \/ m = 2 \/ m = 3 \/ m = 4 \/ m = 5 \/ m = 6 \/ m = 7
  OBVIOUS
<1> QED
  BY <1>1, <1>2 DEF Slot, HostSlot, HostBits

(* The bounds of the rates a mode has.                                       *)
LEMMA Bounds ==
  ASSUME NEW rates \in SUBSET Rates, RateBounds(rates)[1] # 0
  PROVE  /\ RateBounds(rates)[1] \in Nat \ {0} /\ RateBounds(rates)[2] \in Nat
         /\ RateBounds(rates)[1] <= RateBounds(rates)[2]
<1> DEFINE times == {RateInterval[r] : r \in rates \cap Rates}
<1>1. times # {} /\ RateBounds(rates) = <<Least(times), Most(times)>>
  BY DEF RateBounds
<1>2. \A r \in Rates : RateInterval[r] \in Nat \ {0}
  BY GeometryAssumption
<1>3. \A r \in Rates : RateInterval[r] <= RateInterval[0]
  BY <1>2, GeometryAssumption DEF Rates
<1>4. times \in SUBSET Nat /\ 0 \notin times
  BY <1>2
<1>5. RateInterval[0] \in Nat /\ \A x \in times : x <= RateInterval[0]
  BY <1>2, <1>3 DEF Rates
<1> HIDE DEF times
<1>6. Least(times) \in times /\ \A y \in times : Least(times) <= y
  BY <1>1, <1>4, LeastMember
<1>7. \E x \in times : \A y \in times : y <= x
  BY <1>1, <1>4, <1>5, MostMember
<1>8. Most(times) \in times
  BY <1>7 DEF Most
<1>9. RateBounds(rates)[1] = Least(times) /\ RateBounds(rates)[2] = Most(times)
  BY <1>1
<1>10. Least(times) \in Nat \ {0} /\ Most(times) \in Nat /\ Least(times) <= Most(times)
  BY <1>4, <1>6, <1>8
<1> QED
  BY <1>9, <1>10

----------------------------------------------------------------------------
(* The mode table.                                                          *)

(* A standard entry is the camera's slot; a scalable one has a window on its *)
(* unit grid, a default size inside it, of whole quadlets a line, and a      *)
(* coding the driver and the camera count alike.                             *)
FixedEntries ==
  {e \in {StdEntry(k[1], k[2]) : k \in (0..2) \X (0..7)} : HostBits(e.pix) # 0 /\ e.min # 0}
ScalableEntries ==
  {e \in [fmt : {F7Format}, mode : F7Modes, pix : {0, 2, 5, 7}, w : Nat, h : Nat,
          defw : Nat, defh : Nat, f7 : {TRUE}, uw : {4, 8}, uh : {4, 8}, rates : {{}},
          min : Nat \ {0}, max : Nat] :
     /\ e.defw \in e.uw..e.w /\ e.defh \in e.uh..e.h /\ e.defw % 4 = 0
     /\ e.min <= e.max}
Entries == FixedEntries \cup ScalableEntries

(* A larger packet gives a shorter interval, and no interval is empty.       *)
LEMMA IntervalOrder ==
  ASSUME NEW bytes \in Nat, NEW p \in Nat \ {0}, NEW q \in Nat \ {0}, p <= q, q <= bytes
  PROVE  /\ Format7Interval(bytes, q) \in Nat \ {0} /\ Format7Interval(bytes, p) \in Nat
         /\ Format7Interval(bytes, q) <= Format7Interval(bytes, p)
<1> DEFINE a == bytes * Cycle
           x == a \div q
           y == a \div p
<1>1. a \in Nat /\ q <= a
  <2>1. Cycle \in Nat /\ 1 <= Cycle
    BY GeometryAssumption
  <2>2. bytes * 1 <= bytes * Cycle /\ bytes * Cycle \in Nat
    BY <2>1
  <2> QED
    BY <2>2
<1> HIDE DEF a
<1>2. /\ x \in Int /\ a % q \in 0..(q - 1) /\ a = q * x + (a % q)
      /\ y \in Int /\ a % p \in 0..(p - 1) /\ a = p * y + (a % p)
  BY <1>1, Quotient
<1> HIDE DEF x, y
<1>3. x >= 1
  <2>1. x <= 0 => q * x <= 0
    BY <1>2
  <2> QED
    BY <1>1, <1>2, <2>1
<1>4. x <= y
  <2>1. p * x <= q * x
    BY <1>2, <1>3
  <2>2. y + 1 <= x => p * (y + 1) <= p * x
    BY <1>2
  <2>3. p * (y + 1) = p * y + p
    BY <1>2
  <2>4. q * x <= a /\ a < p * y + p
    BY <1>1, <1>2
  <2>5. q * x \in Int /\ p * x \in Int /\ p * y \in Int
    BY <1>2
  <2> QED
    BY <1>1, <1>2, <2>1, <2>2, <2>3, <2>4, <2>5
<1>5. /\ Format7Interval(bytes, q) = IF x > MaxInterval THEN MaxInterval ELSE x
      /\ Format7Interval(bytes, p) = IF y > MaxInterval THEN MaxInterval ELSE y
  BY DEF Format7Interval, a, x, y
<1> QED
  BY <1>2, <1>3, <1>4, <1>5, GeometryAssumption

(* The standard pass lists the camera's slots (dcam.c                        *)
(* PhotonicDcamEnumerateModes).                                              *)
LEMMA StandardEntries == StdPass \in Seq(FixedEntries)
<1> DEFINE entry(k) == StdEntry(k \div 8, k % 8)
           kept(k) == /\ <<k \div 8, k % 8>> \in Std
                      /\ HostBits(entry(k).pix) # 0 /\ entry(k).min # 0
           part == [n \in 1..24 |-> IF kept(n - 1) THEN <<entry(n - 1)>> ELSE <<>>]
<1>1. \A k \in 0..23 : k \div 8 \in 0..2 /\ k % 8 \in 0..7
  OBVIOUS
<1>2. \A k \in 0..23 : kept(k) => entry(k) \in FixedEntries
  <2> SUFFICES ASSUME NEW k \in 0..23, kept(k) PROVE entry(k) \in FixedEntries
    OBVIOUS
  <2>1. <<k \div 8, k % 8>> \in (0..2) \X (0..7)
    BY <1>1
  <2>2. entry(k) = StdEntry(<<k \div 8, k % 8>>[1], <<k \div 8, k % 8>>[2])
    OBVIOUS
  <2>3. entry(k) \in {StdEntry(j[1], j[2]) : j \in (0..2) \X (0..7)}
    BY <2>1, <2>2
  <2>4. HostBits(entry(k).pix) # 0 /\ entry(k).min # 0
    OBVIOUS
  <2> HIDE DEF entry, kept
  <2> QED
    BY <2>3, <2>4 DEF FixedEntries
<1>3. StdPass = Joined(part, 24)
  BY DEF StdPass
<1> HIDE DEF entry, kept
<1>4. \A n \in 1..24 : part[n] \in Seq(FixedEntries)
  BY <1>2
<1> HIDE DEF part
<1> QED
  BY <1>3, <1>4, JoinedMembers

(* What the driver reads of each scalable mode after a reset.                *)
LEMMA ResetRegisters ==
  ASSUME NEW c, c.f7 = F7Reset, NEW m \in F7Modes
  PROVE  /\ c.f7[m].w = F7Table[m].defw /\ c.f7[m].h = F7Table[m].defh
         /\ c.f7[m].coding = 0
  BY DEF F7Reset

Modest(v, g) ==
  /\ g.uw \in {4, 8} /\ g.uh \in {4, 8} /\ g.w \in Nat /\ g.h \in Nat
  /\ g.defw \in g.uw..g.w /\ g.defh \in g.uh..g.h /\ g.defw % 4 = 0
  /\ v.punit \in Nat \ {0} /\ v.pmax \in Nat \ {0} /\ v.punit <= v.pmax
  /\ v.pmax <= g.defw * g.defh
  /\ \A k \in v.codings : k \in {0, 2, 5, 7}

(* The window a scalable mode inquires of a camera just initialized (dcam.c  *)
(* PhotonicDcamEnumerateFormat7).                                            *)
LEMMA Windows ==
  ASSUME NEW c, c.f7 = F7Reset, NEW m \in F7Modes
  PROVE  Modest(CsrRead(c, m), F7Window(CsrRead(c, m)))
<1>1. m = 0 \/ m = 1 \/ m = 2 \/ m = 3
  BY DEF F7Modes
<1> DEFINE t == F7Table[m]
           u == PacketUnit(t.defw, 8)
           v == CsrRead(c, m)
<1>2. CamBits(0) = 8
  BY DEF CamBits
<1>3. /\ v.maxw = t.maxw /\ v.maxh = t.maxh /\ v.unit = t.unit /\ v.codings = t.codings
      /\ v.w = t.defw /\ v.h = t.defh /\ v.punit = u /\ v.pmax = PacketMax(u)
  BY <1>2, ResetRegisters DEF CsrRead, CamUnit
<1> HIDE DEF v, u
<1> DEFINE g == F7Window(v)
<1>4. CASE m = 0
  <2>1. /\ t.maxw = 1575 /\ t.maxh = 1053 /\ t.unit = 4 /\ t.defw = 1388 /\ t.defh = 1032
        /\ t.codings = {0, 5}
    BY <1>4 DEF F7Table, F7Modes
  <2>2. u = 1388 /\ PacketMax(u) = 2776
    BY <2>1 DEF PacketUnit, PacketMax, BusMax, u
  <2>3. g = [uw |-> 4, uh |-> 4, w |-> 1572, h |-> 1052, defw |-> 1388, defh |-> 1032]
    BY <1>3, <2>1 DEF F7Window, Aligned
  <2> QED
    BY <1>3, <2>1, <2>2, <2>3 DEF Modest, v
<1>5. CASE m = 1
  <2>1. /\ t.maxw = 1280 /\ t.maxh = 960 /\ t.unit = 8 /\ t.defw = 1280 /\ t.defh = 960
        /\ t.codings = {0, 5, 7}
    BY <1>5 DEF F7Table, F7Modes
  <2>2. u = 1280 /\ PacketMax(u) = 3840
    BY <2>1 DEF PacketUnit, PacketMax, BusMax, u
  <2>3. g = [uw |-> 8, uh |-> 8, w |-> 1280, h |-> 960, defw |-> 1280, defh |-> 960]
    BY <1>3, <2>1 DEF F7Window, Aligned
  <2> QED
    BY <1>3, <2>1, <2>2, <2>3 DEF Modest, v
<1>6. CASE m = 2
  <2>1. /\ t.maxw = 640 /\ t.maxh = 480 /\ t.unit = 8 /\ t.defw = 640 /\ t.defh = 480
        /\ t.codings = {0, 2, 5, 7}
    BY <1>6 DEF F7Table, F7Modes
  <2>2. u = 640 /\ PacketMax(u) = 3840
    BY <2>1 DEF PacketUnit, PacketMax, BusMax, u
  <2>3. g = [uw |-> 8, uh |-> 8, w |-> 640, h |-> 480, defw |-> 640, defh |-> 480]
    BY <1>3, <2>1 DEF F7Window, Aligned
  <2> QED
    BY <1>3, <2>1, <2>2, <2>3 DEF Modest, v
<1>7. CASE m = 3
  <2>1. /\ t.maxw = 320 /\ t.maxh = 240 /\ t.unit = 4 /\ t.defw = 320 /\ t.defh = 240
        /\ t.codings = {0, 2, 5, 7}
    BY <1>7 DEF F7Table, F7Modes
  <2>2. u = 320 /\ PacketMax(u) = 3840
    BY <2>1 DEF PacketUnit, PacketMax, BusMax, u
  <2>3. g = [uw |-> 4, uh |-> 4, w |-> 320, h |-> 240, defw |-> 320, defh |-> 240]
    BY <1>3, <2>1 DEF F7Window, Aligned
  <2> QED
    BY <1>3, <2>1, <2>2, <2>3 DEF Modest, v
<1> QED
  BY <1>1, <1>4, <1>5, <1>6, <1>7

(* The entries of a scalable mode of such a camera.                          *)
LEMMA ResetEntries ==
  ASSUME NEW c, c.f7 = F7Reset, NEW m \in F7Modes
  PROVE  F7Entries(c, m) \in Seq(ScalableEntries)
<1> DEFINE v == CsrRead(c, m)
           g == F7Window(v)
           kept(k) == k \in v.codings /\ HostBits(k) # 0
           bytes(k) == ImageBytes(g.defw, g.defh, HostBits(k))
           entry(k) == [fmt |-> F7Format, mode |-> m, pix |-> k, w |-> g.w, h |-> g.h,
                        defw |-> g.defw, defh |-> g.defh, f7 |-> TRUE, uw |-> g.uw, uh |-> g.uh,
                        rates |-> {}, min |-> Format7Interval(bytes(k), v.pmax),
                        max |-> Format7Interval(bytes(k), v.punit)]
           part == [n \in 1..32 |-> IF kept(n - 1) THEN <<entry(n - 1)>> ELSE <<>>]
<1>1. Modest(v, g)
  BY Windows
<1>2. F7Entries(c, m) = IF ~F7Usable(v) THEN <<>> ELSE Joined(part, 32)
  BY DEF F7Entries
<1> HIDE DEF v, g
<1>3. \A k : kept(k) => entry(k) \in ScalableEntries
  <2> SUFFICES ASSUME NEW k, kept(k) PROVE entry(k) \in ScalableEntries
    OBVIOUS
  <2> DEFINE frame == g.defw * g.defh
  <2>1. k \in {0, 2, 5, 7} /\ (HostBits(k) = 8 \/ HostBits(k) = 16)
    BY <1>1 DEF Modest, HostBits
  <2>2. frame \in Nat /\ v.pmax <= frame
    BY <1>1 DEF Modest
  <2> HIDE DEF frame
  <2>3. bytes(k) \in Nat /\ frame <= bytes(k)
    <3>1. bytes(k) = (frame * HostBits(k)) \div 8
      BY DEF ImageBytes, frame
    <3>2. (frame * 8) \div 8 = frame /\ (frame * 16) \div 8 = 2 * frame
      BY <2>2
    <3> HIDE DEF bytes
    <3> QED
      BY <2>1, <2>2, <3>1, <3>2
  <2> HIDE DEF bytes
  <2>4. /\ Format7Interval(bytes(k), v.pmax) \in Nat \ {0}
        /\ Format7Interval(bytes(k), v.punit) \in Nat
        /\ Format7Interval(bytes(k), v.pmax) <= Format7Interval(bytes(k), v.punit)
    <3>1. v.punit \in Nat \ {0} /\ v.pmax \in Nat \ {0} /\ v.punit <= v.pmax
      BY <1>1 DEF Modest
    <3>2. v.pmax <= bytes(k)
      BY <2>2, <2>3, <3>1
    <3> QED
      BY <2>3, <3>1, <3>2, IntervalOrder
  <2>5. entry(k) \in [fmt : {F7Format}, mode : F7Modes, pix : {0, 2, 5, 7}, w : Nat, h : Nat,
          defw : Nat, defh : Nat, f7 : {TRUE}, uw : {4, 8}, uh : {4, 8}, rates : {{}},
          min : Nat \ {0}, max : Nat]
    BY <1>1, <2>1, <2>4 DEF Modest
  <2>6. /\ entry(k).defw \in entry(k).uw..entry(k).w /\ entry(k).defh \in entry(k).uh..entry(k).h
        /\ entry(k).defw % 4 = 0 /\ entry(k).min <= entry(k).max
    BY <1>1, <2>4 DEF Modest
  <2> HIDE DEF entry
  <2> QED
    BY <2>5, <2>6 DEF ScalableEntries
<1> HIDE DEF entry, kept
<1>4. \A n \in 1..32 : part[n] \in Seq(ScalableEntries)
  BY <1>3
<1> HIDE DEF part
<1>5. Joined(part, 32) \in Seq(ScalableEntries)
  BY <1>4, JoinedMembers
<1> QED
  BY <1>2, <1>5

(* The table before each mode of the pass, and the one a bring-up publishes. *)
LEMMA PassTables ==
  ASSUME NEW c, c.f7 = F7Reset, NEW table \in Seq(Entries), NEW d, NEW n \in 1..(NumF7 + 1)
  PROVE  F7Tables(c, table, d)[n] \in Seq(Entries)
<1> DEFINE read == [k \in 1..NumF7 |-> IF d[k - 1] = "read" THEN F7Entries(c, k - 1) ELSE <<>>]
<1>1. NumF7 \in 1..4
  BY RegistersAssumption
<1>2. F7Tables(c, table, d)[n] = table \o Joined(read, n - 1)
  BY DEF F7Tables
<1>3. \A k \in 1..(n - 1) : read[k] \in Seq(Entries)
  <2> TAKE k \in 1..(n - 1)
  <2>1. k \in 1..NumF7 /\ k - 1 \in F7Modes
    BY <1>1 DEF F7Modes
  <2>2. F7Entries(c, k - 1) \in Seq(ScalableEntries)
    BY <2>1, ResetEntries
  <2>3. F7Entries(c, k - 1) \in Seq(Entries)
    BY <2>2 DEF Entries
  <2> QED
    BY <2>1, <2>3
<1> HIDE DEF read
<1>4. n - 1 \in Nat
  BY <1>1
<1>5. Joined(read, n - 1) \in Seq(Entries)
  BY <1>3, <1>4, JoinedMembers
<1> QED
  BY <1>2, <1>5

(* The table holds no more than MaxModes entries, all of them the camera's.  *)
LEMMA HeldTable ==
  ASSUME NEW table \in Seq(Entries)
  PROVE  Held(table) \in Seq(Entries)
<1> DEFINE n == IF Len(table) > MaxModes THEN MaxModes ELSE Len(table)
<1>1. n \in Nat /\ n <= Len(table) /\ Len(table) \in Nat
  BY RoutinesAssumption
<1> HIDE DEF n
<1>2. \A i \in 1..n : table[i] \in Entries
  BY <1>1
<1>3. SubSeq(table, 1, n) \in Seq(Entries)
  BY <1>1, <1>2, SubSeqProperties
<1> QED
  BY <1>3 DEF Held, n

(* What every entry says.                                                    *)
Standard(e) ==
  /\ e.f7 = FALSE /\ e.fmt \in 0..2 /\ e.mode \in 0..7
  /\ e.pix = Slot(e.fmt, e.mode)[1] /\ e.w = Slot(e.fmt, e.mode)[2]
  /\ e.h = Slot(e.fmt, e.mode)[3]
  /\ e.defw = e.w /\ e.defh = e.h /\ e.w % 4 = 0
  /\ e.rates = FrameRateInq(e.fmt, e.mode)
Scalable(e) ==
  /\ e.f7 = TRUE /\ e.fmt = F7Format /\ e.mode \in F7Modes /\ e.pix \in {0, 2, 5, 7}
  /\ e.uw \in {4, 8} /\ e.uh \in {4, 8}
  /\ e.defw \in e.uw..e.w /\ e.defh \in e.uh..e.h
Common(e) ==
  /\ e.w \in Nat \ {0} /\ e.h \in Nat \ {0} /\ e.defw \in Nat \ {0} /\ e.defh \in Nat \ {0}
  /\ e.defw % 4 = 0 /\ HostBits(e.pix) \in {8, 12, 16, 24} /\ e.pix \in 0..7
  /\ e.min \in Nat \ {0} /\ e.max \in Nat /\ e.min <= e.max

(* What every entry of the table has, by its kind.                           *)
LEMMA EntryFacts ==
  ASSUME NEW e \in Entries
  PROVE  (Standard(e) \/ Scalable(e)) /\ Common(e)
<1>1. CASE e \in FixedEntries
  <2>1. PICK k \in (0..2) \X (0..7) : e = StdEntry(k[1], k[2])
    BY <1>1 DEF FixedEntries
  <2>2. HostBits(e.pix) # 0 /\ e.min # 0
    BY <1>1 DEF FixedEntries
  <2> DEFINE f == k[1]
             m == k[2]
             b == RateBounds(FrameRateInq(f, m))
  <2>3. f \in 0..2 /\ m \in 0..7
    OBVIOUS
  <2>4. /\ e.fmt = f /\ e.mode = m /\ e.pix = Slot(f, m)[1] /\ e.w = Slot(f, m)[2]
        /\ e.h = Slot(f, m)[3] /\ e.defw = Slot(f, m)[2] /\ e.defh = Slot(f, m)[3]
        /\ e.f7 = FALSE /\ e.rates = FrameRateInq(f, m) /\ e.min = b[1] /\ e.max = b[2]
    BY <2>1 DEF StdEntry, Slot
  <2> HIDE DEF f, m, b
  <2>5. /\ Slot(f, m)[2] \in Nat \ {0} /\ Slot(f, m)[3] \in Nat \ {0} /\ Slot(f, m)[2] % 4 = 0
        /\ Slot(f, m)[1] \in 0..5
    BY <2>2, <2>3, <2>4, SlotSizes
  <2>6. b[1] \in Nat \ {0} /\ b[2] \in Nat /\ b[1] <= b[2]
    <3>1. FrameRateInq(f, m) \in SUBSET Rates
      BY DEF FrameRateInq
    <3>2. RateBounds(FrameRateInq(f, m))[1] # 0
      BY <2>2, <2>4 DEF b
    <3> QED
      BY <3>1, <3>2, Bounds DEF b
  <2>7. HostBits(e.pix) \in {8, 12, 16, 24} /\ e.pix \in 0..7
    BY <2>2, <2>4, <2>5 DEF HostBits
  <2>8. Standard(e)
    BY <2>3, <2>4, <2>5 DEF Standard
  <2>9. Common(e)
    BY <2>4, <2>5, <2>6, <2>7 DEF Common
  <2> QED
    BY <2>8, <2>9
<1>2. CASE e \in ScalableEntries
  <2>1. /\ e \in [fmt : {F7Format}, mode : F7Modes, pix : {0, 2, 5, 7}, w : Nat, h : Nat,
                  defw : Nat, defh : Nat, f7 : {TRUE}, uw : {4, 8}, uh : {4, 8}, rates : {{}},
                  min : Nat \ {0}, max : Nat]
        /\ e.defw \in e.uw..e.w /\ e.defh \in e.uh..e.h /\ e.defw % 4 = 0 /\ e.min <= e.max
    BY <1>2 DEF ScalableEntries
  <2>2. Scalable(e)
    BY <2>1 DEF Scalable
  <2>3. HostBits(e.pix) \in {8, 12, 16, 24}
    BY <2>1 DEF HostBits
  <2>4. /\ e.uw \in {4, 8} /\ e.uh \in {4, 8} /\ e.w \in Nat /\ e.h \in Nat /\ e.defw \in Nat
        /\ e.defh \in Nat /\ e.pix \in 0..7 /\ e.min \in Nat \ {0} /\ e.max \in Nat
    BY <2>1
  <2>5. Common(e)
    BY <2>1, <2>3, <2>4 DEF Common
  <2> QED
    BY <2>2, <2>5
<1> QED
  BY <1>1, <1>2 DEF Entries

(* The format of an entry tells its kind.                                    *)
LEMMA Kinds ==
  ASSUME NEW e \in Entries
  PROVE  /\ e.f7 => Scalable(e)
         /\ ~e.f7 => Standard(e)
         /\ e.f7 = (e.fmt = F7Format)
         /\ e.f7 \in BOOLEAN
<1>1. CASE Standard(e)
  <2>1. e.f7 = FALSE /\ e.fmt \in 0..2
    BY <1>1 DEF Standard
  <2>2. e.fmt # F7Format
    BY <2>1 DEF F7Format
  <2> QED
    BY <1>1, <2>1, <2>2
<1>2. CASE Scalable(e)
  BY <1>2 DEF Scalable
<1> QED
  BY <1>1, <1>2, EntryFacts

(* Two entries of one selection are of one kind, and two fixed ones are the  *)
(* same mode.                                                               *)
LEMMA SameSelection ==
  ASSUME NEW d \in Entries, NEW e \in Entries, d.fmt = e.fmt, d.mode = e.mode
  PROVE  /\ d.f7 = e.f7
         /\ ~e.f7 => /\ d.pix = e.pix /\ d.w = e.w /\ d.h = e.h /\ d.defw = e.defw
                     /\ d.defh = e.defh /\ d.rates = e.rates
  BY Kinds DEF Standard

----------------------------------------------------------------------------
(* The registers.                                                           *)

(* A register write changes registers, never the set of them.                *)
Camera(c) == {"fmt", "mode", "rate", "f7", "channel", "speed", "iso"} = DOMAIN c

(* ... and a window is six of them; a context that runs was created.         *)
Windowed(f) ==
  /\ F7Modes = DOMAIN f
  /\ \A m \in F7Modes : {"w", "h", "x", "y", "coding", "bpp"} = DOMAIN f[m]
Context(i) ==
  /\ {"created", "running", "oneshot", "buffer", "bpp", "ppf", "bytes", "ring"} = DOMAIN i
  /\ i.running => i.created
Registers(c) == Camera(c) /\ c.rate \in Rates /\ Windowed(c.f7) /\ Context(c.iso)

(* A camera left alone but for its selection, its rate and its windows.      *)
LEMMA SelectionWrites ==
  ASSUME NEW c, Registers(c), NEW x
  PROVE  /\ Registers(WriteFormat(c, x)) /\ Registers(WriteMode(c, x))
         /\ x \in Rates => Registers(WriteRate(c, x))
         /\ WriteFormat(c, x).fmt = x /\ WriteFormat(c, x).mode = c.mode
         /\ WriteFormat(c, x).rate = c.rate /\ WriteFormat(c, x).f7 = c.f7
         /\ WriteFormat(c, x).iso = c.iso
         /\ WriteMode(c, x).fmt = c.fmt /\ WriteMode(c, x).mode = x
         /\ WriteMode(c, x).rate = c.rate /\ WriteMode(c, x).f7 = c.f7
         /\ WriteMode(c, x).iso = c.iso
         /\ WriteRate(c, x).fmt = c.fmt /\ WriteRate(c, x).mode = c.mode
         /\ WriteRate(c, x).rate = x /\ WriteRate(c, x).f7 = c.f7
         /\ WriteRate(c, x).iso = c.iso
  BY DEF Registers, Camera, WriteFormat, WriteMode, WriteRate

(* The channel and the speed are taken when no context exists.               *)
LEMMA ChannelWrite ==
  ASSUME NEW c, Registers(c), NEW x, NEW y
  PROVE  LET d == WriteChannel(c, x, y)
         IN  /\ Registers(d) /\ d.fmt = c.fmt /\ d.mode = c.mode /\ d.rate = c.rate
             /\ d.f7 = c.f7 /\ d.iso = c.iso
             /\ ~c.iso.created => d.channel = x /\ d.speed = y
  BY DEF Registers, Camera, WriteChannel

(* An initialize restores the scalable modes and leaves the context alone.   *)
LEMMA Initialized ==
  ASSUME NEW c, Registers(c)
  PROVE  LET d == WriteInitialize(c)
         IN  Registers(d) /\ d.f7 = F7Reset /\ d.iso = c.iso
  BY DEF Registers, Camera, Windowed, WriteInitialize, F7Reset, Rates

(* A write of a window sets what it names, puts the packet back to the unit  *)
(* of the window it leaves, and leaves the rest alone.                      *)
Framed(c, d) ==
  Registers(d) /\ d.fmt = c.fmt /\ d.mode = c.mode /\ d.rate = c.rate /\ d.iso = c.iso
SetWidth(c, m, x) == [c EXCEPT !.f7[m].w = x]
SetHeight(c, m, x) == [c EXCEPT !.f7[m].h = x]
SetCoding(c, m, x) == [c EXCEPT !.f7[m].coding = x]
SetPacket(c, m, x) == [c EXCEPT !.f7[m].bpp = x]
(* A write of the window, the coding or the packet of one scalable mode, and *)
(* what the camera resets with it (format7.c).                               *)
LEMMA WidthWrite ==
  ASSUME NEW c, Registers(c), NEW m \in F7Modes, NEW x
  PROVE  /\ Framed(c, SetWidth(c, m, x)) /\ SetWidth(c, m, x).f7[m].w = x
  BY DEF Framed, Registers, Camera, Windowed, SetWidth
LEMMA HeightWrite ==
  ASSUME NEW c, Registers(c), NEW m \in F7Modes, NEW x
  PROVE  /\ Framed(c, SetHeight(c, m, x)) /\ SetHeight(c, m, x).f7[m].h = x
         /\ SetHeight(c, m, x).f7[m].w = c.f7[m].w
  BY DEF Framed, Registers, Camera, Windowed, SetHeight
LEMMA CodingWrite ==
  ASSUME NEW c, Registers(c), NEW m \in F7Modes, NEW x
  PROVE  /\ Framed(c, SetCoding(c, m, x)) /\ SetCoding(c, m, x).f7[m].coding = x
         /\ SetCoding(c, m, x).f7[m].w = c.f7[m].w /\ SetCoding(c, m, x).f7[m].h = c.f7[m].h
  BY DEF Framed, Registers, Camera, Windowed, SetCoding
LEMMA PacketWrite ==
  ASSUME NEW c, Registers(c), NEW m \in F7Modes, NEW x
  PROVE  /\ Framed(c, SetPacket(c, m, x)) /\ SetPacket(c, m, x).f7[m].bpp = x
         /\ SetPacket(c, m, x).f7[m].w = c.f7[m].w /\ SetPacket(c, m, x).f7[m].h = c.f7[m].h
         /\ SetPacket(c, m, x).f7[m].coding = c.f7[m].coding
  BY DEF Framed, Registers, Camera, Windowed, SetPacket

LEMMA Defaulted ==
  ASSUME NEW c, Registers(c), NEW m \in F7Modes
  PROVE  /\ Framed(c, Redefaulted(c, m)) /\ Redefaulted(c, m).f7[m].w = c.f7[m].w
         /\ Redefaulted(c, m).f7[m].h = c.f7[m].h
         /\ Redefaulted(c, m).f7[m].coding = c.f7[m].coding
<1> DEFINE u == CamUnit(c, m)
<1>1. Redefaulted(c, m) = SetPacket(c, m, u)
  BY DEF Redefaulted, SetPacket
<1> HIDE DEF u
<1> QED
  BY <1>1, PacketWrite

(* The writes the camera answers with its own defaults: a window or a coding *)
(* restores the packet, a packet is taken when it is legal.                  *)
LEMMA SizeWrite ==
  ASSUME NEW c, Registers(c), NEW m \in F7Modes, NEW x, NEW y
  PROVE  /\ Framed(c, WriteSize(c, m, x, y)) /\ WriteSize(c, m, x, y).f7[m].w = x
         /\ WriteSize(c, m, x, y).f7[m].h = y
<1> DEFINE a == SetWidth(c, m, x)
           b == SetHeight(a, m, y)
<1>1. WriteSize(c, m, x, y) = Redefaulted(b, m)
  BY DEF WriteSize, SetWidth, SetHeight
<1>2. Framed(c, a) /\ a.f7[m].w = x
  BY WidthWrite
<1> HIDE DEF a
<1>3. Framed(a, b) /\ b.f7[m].h = y /\ b.f7[m].w = x
  BY <1>2, HeightWrite DEF Framed
<1> HIDE DEF b
<1>4. /\ Framed(b, Redefaulted(b, m)) /\ Redefaulted(b, m).f7[m].w = x
      /\ Redefaulted(b, m).f7[m].h = y
  BY <1>3, Defaulted DEF Framed
<1> QED
  BY <1>1, <1>2, <1>3, <1>4 DEF Framed

LEMMA RecodeWrite ==
  ASSUME NEW c, Registers(c), NEW m \in F7Modes, NEW x
  PROVE  /\ Framed(c, WriteCoding(c, m, x)) /\ WriteCoding(c, m, x).f7[m].coding = x
         /\ WriteCoding(c, m, x).f7[m].w = c.f7[m].w
         /\ WriteCoding(c, m, x).f7[m].h = c.f7[m].h
<1> DEFINE a == SetCoding(c, m, x)
<1>1. WriteCoding(c, m, x) = Redefaulted(a, m)
  BY DEF WriteCoding, SetCoding
<1>2. /\ Framed(c, a) /\ a.f7[m].coding = x /\ a.f7[m].w = c.f7[m].w
      /\ a.f7[m].h = c.f7[m].h
  BY CodingWrite
<1> HIDE DEF a
<1>3. /\ Framed(a, Redefaulted(a, m)) /\ Redefaulted(a, m).f7[m].w = a.f7[m].w
      /\ Redefaulted(a, m).f7[m].h = a.f7[m].h /\ Redefaulted(a, m).f7[m].coding = x
  BY <1>2, Defaulted DEF Framed
<1> QED
  BY <1>1, <1>2, <1>3 DEF Framed

LEMMA LegalWrite ==
  ASSUME NEW c, Registers(c), NEW m \in F7Modes, NEW x
  PROVE  /\ Framed(c, WritePacket(c, m, x))
         /\ WritePacket(c, m, x).f7[m].coding = c.f7[m].coding
         /\ WritePacket(c, m, x).f7[m].w = c.f7[m].w /\ WritePacket(c, m, x).f7[m].h = c.f7[m].h
         /\ ~Naks(c, m, x) => WritePacket(c, m, x).f7[m].bpp = x
<1>1. WritePacket(c, m, x) = IF Naks(c, m, x) THEN c ELSE SetPacket(c, m, x)
  BY DEF WritePacket, SetPacket
<1>2. Framed(c, c)
  BY DEF Framed
<1> QED
  BY <1>1, <1>2, PacketWrite

(* The outcomes of a run of writes are cameras it goes through, the last one *)
(* when it succeeds.                                                        *)
LEMMA OutcomesShape ==
  ASSUME NEW S, NEW cs \in Seq(S), cs # <<>>, NEW o \in Writes(cs)
  PROVE  o.cam \in S /\ o.ok \in BOOLEAN /\ (o.ok => o.cam = cs[Len(cs)])
<1>1. Len(cs) \in DOMAIN cs
  OBVIOUS
<1>2. \A n \in DOMAIN cs : cs[n] \in S
  OBVIOUS
<1>3. \/ o = [ok |-> TRUE, cam |-> cs[Len(cs)]]
      \/ \E n \in DOMAIN cs : o = [ok |-> FALSE, cam |-> cs[n]]
  BY DEF Writes
<1>4. CASE o = [ok |-> TRUE, cam |-> cs[Len(cs)]]
  BY <1>1, <1>2, <1>4
<1>5. ASSUME NEW n \in DOMAIN cs, o = [ok |-> FALSE, cam |-> cs[n]]
      PROVE  o.cam \in S /\ o.ok \in BOOLEAN /\ (o.ok => o.cam = cs[Len(cs)])
  BY <1>2, <1>5
<1> QED
  BY <1>3, <1>4, <1>5

(* Nothing a configuration writes reaches the transmit context.              *)
Apart(c, d) == Registers(d) /\ d.iso = c.iso

(* However far the reset gets, it writes no stream; one that ends has        *)
(* restored the scalable modes.                                              *)
LEMMA ResetShape ==
  ASSUME NEW c, Registers(c), NEW o \in Reset(c)
  PROVE  Apart(c, o.cam) /\ (o.ok => o.cam.f7 = F7Reset)
<1> DEFINE d == WriteInitialize(c)
           S == {c, d}
<1>1. Registers(d) /\ d.f7 = F7Reset /\ d.iso = c.iso
  BY Initialized
<1>2. o \in Writes(<<c, d>>)
  BY DEF Reset
<1> HIDE DEF d
<1>3. <<c, d>> \in Seq(S) /\ <<c, d>> # <<>> /\ Len(<<c, d>>) = 2 /\ <<c, d>>[2] = d
  OBVIOUS
<1>4. o.cam \in S /\ (o.ok => o.cam = d)
  BY <1>2, <1>3, OutcomesShape
<1> QED
  BY <1>1, <1>4 DEF Apart

(* A selection left on an enumerated mode when it is written through.        *)
On(c, table) == \E i \in DOMAIN table : table[i].fmt = c.fmt /\ table[i].mode = c.mode
(* The selection ends on an entry of the table, or the routine fails (dcam.c *)
(* PhotonicDcamNormalizeSelection).                                          *)
LEMMA NormalizeShape ==
  ASSUME NEW c, Registers(c), NEW saved, NEW table \in Seq(Entries), table # <<>>,
         NEW o \in NormalizeSelection(c, saved, table)
  PROVE  Apart(c, o.cam) /\ o.ok \in BOOLEAN /\ (o.ok => On(o.cam, table))
<1> DEFINE x == Normalized(saved, table)
           a == WriteFormat(c, x[1])
           b == WriteMode(a, x[2])
           S == {c, a, b}
<1>1. Registers(a) /\ a.iso = c.iso /\ a.fmt = x[1]
  BY SelectionWrites
<1>2. \E i \in DOMAIN table : table[i].fmt = x[1] /\ table[i].mode = x[2]
  <2>1. 1 \in DOMAIN table
    OBVIOUS
  <2> QED
    BY <2>1 DEF Normalized
<1>3. o \in Writes(<<c, a, b>>)
  BY DEF NormalizeSelection
<1> HIDE DEF x, a
<1>4. Registers(b) /\ b.iso = a.iso /\ b.fmt = a.fmt /\ b.mode = x[2]
  BY <1>1, SelectionWrites
<1> HIDE DEF b
<1>5. <<c, a, b>> \in Seq(S) /\ <<c, a, b>> # <<>> /\ Len(<<c, a, b>>) = 3 /\ <<c, a, b>>[3] = b
  OBVIOUS
<1>6. o.cam \in S /\ o.ok \in BOOLEAN /\ (o.ok => o.cam = b)
  BY <1>3, <1>5, OutcomesShape
<1> QED
  BY <1>1, <1>2, <1>4, <1>6 DEF Apart, On

(* However far the Format 7 pass gets, the table holds entries.              *)
LEMMA PassShape ==
  ASSUME NEW c, Registers(c), c.f7 = F7Reset, NEW table \in Seq(Entries),
         NEW w \in F7Pass(c, table)
  PROVE  Apart(c, w.cam) /\ w.modes \in Seq(Entries)
<1> DEFINE probing == WriteFormat(c, F7Format)
           read(d) == F7Tables(probing, table, d)
           selected(d) == {m \in VideoModeInq7 : d[m] # "passed" /\ Len(read(d)[m + 1]) <= MaxModes}
           reached(d) == IF selected(d) = {} THEN probing ELSE WriteMode(probing, Most(selected(d)))
           walk(d) == [cam |-> reached(d), modes |-> Held(read(d)[NumF7 + 1])]
<1>1. /\ Apart(c, probing) /\ probing.f7 = F7Reset /\ Apart(c, c)
      /\ \A m : Apart(c, WriteMode(probing, m))
  BY SelectionWrites DEF Apart
<1>2. NumF7 + 1 \in 1..(NumF7 + 1)
  BY RegistersAssumption
<1>3. \A d : read(d)[NumF7 + 1] \in Seq(Entries)
  <2> HIDE DEF probing
  <2> QED
    BY <1>1, <1>2, PassTables
<1>4. \A d : walk(d).cam = reached(d) /\ walk(d).modes = Held(read(d)[NumF7 + 1])
  OBVIOUS
<1>5. w \in {[cam |-> x, modes |-> table] : x \in {c, probing}}
          \cup {walk(d) : d \in [VideoModeInq7 -> {"passed", "selected", "read"}]}
  BY DEF F7Pass
<1> HIDE DEF probing
<1>6. \A d : Apart(c, reached(d))
  BY <1>1
<1> HIDE DEF reached, read, walk
<1>7. \A d : Apart(c, walk(d).cam) /\ walk(d).modes \in Seq(Entries)
  BY <1>3, <1>4, <1>6, HeldTable
<1> QED
  BY <1>1, <1>5, <1>7

(* The enumeration, with the failures of each of its writes.                 *)
LEMMA EnumerateShape ==
  ASSUME NEW c, Registers(c), c.f7 = F7Reset, NEW o \in EnumerateModes(c)
  PROVE  /\ Apart(c, o.cam) /\ o.modes \in Seq(Entries) /\ o.sure \in BOOLEAN
         /\ o.sure /\ o.modes # <<>> => On(o.cam, o.modes)
<1> DEFINE walks == IF Len(StdPass) > MaxModes THEN {[cam |-> c, modes |-> Held(StdPass)]}
                    ELSE F7Pass(c, StdPass)
           listed(w, saved) ==
             {[ok |-> TRUE, sure |-> n.ok, cam |-> n.cam, modes |-> w.modes] :
                n \in NormalizeSelection(w.cam, saved, w.modes)}
           unread(x) == [ok |-> FALSE, sure |-> FALSE, cam |-> x, modes |-> <<>>]
<1>1. StdPass \in Seq(Entries)
  BY StandardEntries DEF Entries
<1>2. \A w \in walks : Apart(c, w.cam) /\ w.modes \in Seq(Entries)
  <2>1. CASE Len(StdPass) > MaxModes
    BY <1>1, <2>1, HeldTable DEF Apart
  <2>2. CASE ~(Len(StdPass) > MaxModes)
    BY <1>1, <2>2, PassShape
  <2> QED
    BY <2>1, <2>2
<1>3. o \in {unread(c)}
           \cup {unread(w.cam) : w \in {v \in walks : v.modes = <<>>}}
           \cup UNION {listed(w, saved) : w \in {v \in walks : v.modes # <<>>},
                                          saved \in {NoSelection, <<c.fmt, c.mode>>}}
  BY DEF EnumerateModes
<1> HIDE DEF walks
<1>4. \A x : unread(x).cam = x /\ unread(x).sure = FALSE /\ unread(x).modes = <<>>
  OBVIOUS
<1>5. ASSUME NEW w \in walks, w.modes # <<>>, NEW saved, NEW l \in listed(w, saved)
      PROVE  /\ Apart(c, l.cam) /\ l.modes \in Seq(Entries) /\ l.sure \in BOOLEAN
             /\ l.sure => On(l.cam, l.modes)
  <2>1. PICK n \in NormalizeSelection(w.cam, saved, w.modes) :
          l = [ok |-> TRUE, sure |-> n.ok, cam |-> n.cam, modes |-> w.modes]
    OBVIOUS
  <2>2. Apart(w.cam, n.cam) /\ n.ok \in BOOLEAN /\ (n.ok => On(n.cam, w.modes))
    BY <1>2, <1>5, NormalizeShape DEF Apart
  <2> QED
    BY <1>2, <2>1, <2>2 DEF Apart
<1> HIDE DEF unread, listed
<1>6. CASE \E x : Apart(c, x) /\ o = unread(x)
  <2>1. PICK x : Apart(c, x) /\ o = unread(x)
    BY <1>6
  <2>2. o.cam = x /\ o.sure = FALSE /\ o.modes = <<>>
    BY <1>4, <2>1
  <2>3. o.modes \in Seq(Entries)
    BY <2>2
  <2> QED
    BY <2>1, <2>2, <2>3, Zenon
<1>7. CASE \E w \in walks : w.modes # <<>> /\ \E saved : o \in listed(w, saved)
  BY <1>5, <1>7
<1> QED
  BY <1>2, <1>3, <1>6, <1>7 DEF Apart

(* The whole bring-up.                                                       *)
LEMMA BringUpShape ==
  ASSUME NEW c, Registers(c), NEW o \in BringUpDevice(c)
  PROVE  /\ Apart(c, o.cam) /\ o.modes \in Seq(Entries) /\ o.sure \in BOOLEAN
         /\ o.sure /\ o.modes # <<>> => On(o.cam, o.modes)
<1> DEFINE failed(x) == [ok |-> FALSE, sure |-> FALSE, cam |-> x, modes |-> <<>>]
<1>1. o \in {failed(c)} \cup {failed(r.cam) : r \in Reset(c)}
           \cup UNION {EnumerateModes(r.cam) : r \in {q \in Reset(c) : q.ok}}
  BY DEF BringUpDevice
<1>2. \A x : failed(x).cam = x /\ failed(x).sure = FALSE /\ failed(x).modes = <<>>
  OBVIOUS
<1> HIDE DEF failed
<1>3. CASE \E x : Apart(c, x) /\ o = failed(x)
  <2>1. PICK x : Apart(c, x) /\ o = failed(x)
    BY <1>3
  <2>2. o.cam = x /\ o.sure = FALSE /\ o.modes = <<>>
    BY <1>2, <2>1
  <2>3. o.modes \in Seq(Entries)
    BY <2>2
  <2> QED
    BY <2>1, <2>2, <2>3, Zenon
<1>4. ASSUME NEW r \in Reset(c), r.ok, o \in EnumerateModes(r.cam)
      PROVE  /\ Apart(c, o.cam) /\ o.modes \in Seq(Entries) /\ o.sure \in BOOLEAN
             /\ o.sure /\ o.modes # <<>> => On(o.cam, o.modes)
  BY <1>4, ResetShape, EnumerateShape DEF Apart
<1> QED
  BY <1>1, <1>3, <1>4, ResetShape DEF Apart

----------------------------------------------------------------------------
(* The client's selections.                                                  *)
LEMMA FirstMember ==
  ASSUME NEW S \in SUBSET Nat
  PROVE  S # {} => First(S) \in S /\ First(S) = Least(S)
  BY LeastMember DEF First

(* A multiple leaves no remainder, and neither does a difference of          *)
(* multiples.                                                                *)
LEMMA Multiple ==
  ASSUME NEW q \in Int, NEW b \in Nat \ {0}
  PROVE  (q * b) % b = 0
<1>1. /\ (q * b) \div b \in Int /\ (q * b) % b \in 0..(b - 1)
      /\ q * b = b * ((q * b) \div b) + ((q * b) % b)
  <2> DEFINE a == q * b
  <2>1. a \in Int
    OBVIOUS
  <2> HIDE DEF a
  <2>2. a \div b \in Int /\ a % b \in 0..(b - 1) /\ a = b * (a \div b) + (a % b)
    BY <2>1, Quotient
  <2> QED
    BY <2>2 DEF a
<1> DEFINE d == q - (q * b) \div b
<1>2. d \in Int /\ (q * b) % b = b * d
  BY <1>1
<1> HIDE DEF d
<1>3. d <= 0
  <2>1. d >= 1 => b * d >= b
    BY <1>2
  <2> QED
    BY <1>1, <1>2, <2>1
<1>4. d >= 0
  <2>1. d <= -1 => b * d <= -b
    BY <1>2
  <2> QED
    BY <1>1, <1>2, <2>1
<1> QED
  BY <1>2, <1>3, <1>4

(* What leaves no remainder is a multiple.                                   *)
LEMMA Divided ==
  ASSUME NEW a \in Int, NEW b \in Nat \ {0}, a % b = 0
  PROVE  a = (a \div b) * b
  BY Quotient

LEMMA MultipleDifference ==
  ASSUME NEW a \in Int, NEW c \in Int, NEW b \in Nat \ {0}, a % b = 0, c % b = 0
  PROVE  (a - c) % b = 0
<1>1. a = (a \div b) * b /\ c = (c \div b) * b /\ a \div b \in Int /\ c \div b \in Int
  BY Divided, Quotient
<1> DEFINE q == (a \div b) - (c \div b)
<1>2. q \in Int /\ a - c = q * b
  BY <1>1
<1> HIDE DEF q
<1> QED
  BY <1>2, Multiple

----------------------------------------------------------------------------
(* A limit is positive, and a frame over it is cut at whole packets.         *)
LEMMA ChunkIsWhole ==
  ASSUME NEW frame \in Nat, NEW packet \in Nat \ {0}, NEW dma \in Nat, frame % packet = 0
  PROVE  LET bytes == ChunkBytes(frame, packet, dma)
         IN  /\ bytes \in Nat /\ bytes <= BufferLimit(dma) /\ bytes % packet = 0
             /\ BufferLimit(dma) \in Nat \ {0}
<1> DEFINE limit == BufferLimit(dma)
<1>1. limit \in Nat \ {0}
  BY ChunkAssumption DEF BufferLimit
<1> HIDE DEF limit
<1>2. CASE frame > limit
  <2>1. /\ limit \div packet \in Int /\ limit % packet \in 0..(packet - 1)
        /\ limit = packet * (limit \div packet) + (limit % packet)
    BY <1>1, Quotient
  <2> DEFINE q == limit \div packet
  <2>2. q \in Nat
    BY <1>1, <2>1
  <2>3. q * packet <= limit /\ q * packet \in Nat
    BY <1>1, <2>1, <2>2
  <2>4. (q * packet) % packet = 0
    BY <2>2, Multiple
  <2> QED
    BY <1>1, <1>2, <2>3, <2>4 DEF ChunkBytes, limit
<1>3. CASE ~(frame > limit)
  BY <1>1, <1>3 DEF ChunkBytes, limit
<1> QED
  BY <1>2, <1>3

(* The chain covers the frame without gap or overlap, in chunks of whole     *)
(* packets within the host's limit (PhotonicCapturePoolSetupChunks,         *)
(* PhotonicCapturePumpPrime).                                               *)
THEOREM ChainIsWhole ==
  ASSUME NEW frame \in Nat, NEW packet \in Nat \ {0}, NEW dma \in Nat, frame % packet = 0
  PROVE  ChainWhole(frame, packet, dma)
<1> DEFINE bytes == ChunkBytes(frame, packet, dma)
           n == ChunkCount(frame, packet, dma)
<1>1. /\ bytes \in Nat /\ bytes <= BufferLimit(dma) /\ bytes % packet = 0
      /\ BufferLimit(dma) \in Nat \ {0}
  BY ChunkIsWhole
<1>2. bytes = 0 => n = 0
  BY DEF ChunkCount
<1>3. bytes # 0 => n \in {0, Covering(frame, bytes)}
  BY DEF ChunkCount
<1> HIDE DEF bytes, n
<1> SUFFICES ASSUME NEW k \in 0..(n - 1)
             PROVE  /\ ChunkLength(frame, bytes, k) \in 1..BufferLimit(dma)
                    /\ ChunkLength(frame, bytes, k) % packet = 0
                    /\ ChunkOffset(bytes, k) + ChunkLength(frame, bytes, k) =
                         IF k = n - 1 THEN frame ELSE ChunkOffset(bytes, k + 1)
  BY DEF ChainWhole, bytes, n
<1>4. bytes \in Nat \ {0} /\ n = (frame + bytes - 1) \div bytes
  <2>1. n # 0
    BY <1>1, <1>2, <1>3, ChunkAssumption DEF Covering
  <2> QED
    BY <1>1, <1>2, <1>3, <2>1 DEF Covering
<1> DEFINE rest == (frame + bytes - 1) % bytes
<1>5. n \in Int /\ rest \in 0..(bytes - 1) /\ frame + bytes - 1 = bytes * n + rest
  <2> DEFINE a == frame + bytes - 1
  <2>1. a \in Int
    BY <1>4
  <2> HIDE DEF a
  <2>2. /\ a \div bytes \in Int /\ a % bytes \in 0..(bytes - 1)
        /\ a = bytes * (a \div bytes) + (a % bytes)
    BY <1>4, <2>1, Quotient
  <2> QED
    BY <1>4, <2>2 DEF a, rest
<1> HIDE DEF rest
<1>6. k \in Nat /\ k + 1 <= n
  BY <1>5
<1>7. bytes * n >= frame /\ bytes * n < frame + bytes
  BY <1>4, <1>5
<1>8. bytes * (k + 1) = k * bytes + bytes /\ k * bytes \in Nat
  BY <1>4, <1>6
<1>9. CASE k = n - 1
  <2>1. bytes * n = k * bytes + bytes
    BY <1>8, <1>9, <1>5
  <2>2. frame - k * bytes \in 1..bytes
    BY <1>7, <1>8, <2>1, <1>4
  <2>3. ChunkLength(frame, bytes, k) = frame - k * bytes
    BY <2>2, <1>4 DEF ChunkLength, ChunkOffset
  <2>4. (k * bytes) % packet = 0
    <3>1. bytes = (bytes \div packet) * packet /\ bytes \div packet \in Int
      BY <1>1, Divided, Quotient
    <3> DEFINE q == bytes \div packet
    <3>2. k * bytes = (k * q) * packet /\ k * q \in Int
      BY <3>1, <1>6
    <3> QED
      BY <3>2, Multiple
  <2>5. (frame - k * bytes) % packet = 0
    <3> DEFINE done == k * bytes
    <3>1. done \in Int /\ done % packet = 0
      BY <2>4, <1>8
    <3> HIDE DEF done
    <3>2. frame \in Int /\ frame % packet = 0 /\ packet \in Nat \ {0}
      OBVIOUS
    <3>3. (frame - done) % packet = 0
      BY <3>1, <3>2, MultipleDifference, Zenon
    <3> QED
      BY <3>3 DEF done
  <2> QED
    BY <1>1, <1>4, <1>8, <1>9, <2>2, <2>3, <2>5 DEF ChunkOffset
<1>10. CASE k # n - 1
  <2>1. k + 2 <= n
    BY <1>5, <1>6, <1>10
  <2>2. bytes * (k + 2) <= bytes * n
    BY <1>4, <1>5, <1>6, <2>1
  <2>3. frame - k * bytes > bytes
    BY <1>4, <1>6, <1>7, <1>8, <2>2
  <2>4. ChunkLength(frame, bytes, k) = bytes
    BY <2>3 DEF ChunkLength, ChunkOffset
  <2> QED
    BY <1>1, <1>4, <1>8, <1>10, <2>4 DEF ChunkOffset
<1> QED
  BY <1>9, <1>10

----------------------------------------------------------------------------
(* Division never exceeds what is divided.                                   *)
LEMMA FloorBound ==
  ASSUME NEW a \in Nat, NEW b \in Nat \ {0}
  PROVE  (a \div b) * b \in 0..a /\ ((a \div b) * b) % b = 0
<1>1. a \div b \in Int /\ a % b \in 0..(b - 1) /\ a = b * (a \div b) + (a % b)
  BY Quotient
<1> DEFINE q == a \div b
<1>2. q \in Nat
  BY <1>1
<1>3. (q * b) % b = 0
  BY <1>2, Multiple
<1> HIDE DEF q
<1>4. q * b \in 0..a
  <2>1. a = b * q + (a % b) /\ a % b \in Nat
    BY <1>1 DEF q
  <2> QED
    BY <1>2, <2>1
<1> QED
  BY <1>3, <1>4 DEF q

(* The packet the driver chooses is one the camera accepts at its unit, one  *)
(* the bus speed carries, and whole packets of it make exactly the frame, so *)
(* the chunks of that frame are whole as well (dcam.c                       *)
(* PhotonicDcamConfigureFormat7, format7.c dcam_f7_bpp_is_legal).           *)
THEOREM ChosenPacketFits ==
  ASSUME NEW frame \in Nat, NEW unit \in Nat \ {0}, NEW payload \in Nat, NEW target,
         NEW p \in ChosenPackets(frame, unit, HostMax(unit, PacketMax(unit), payload), target),
         NEW dma \in Nat
  PROVE  /\ PacketLegal(p, unit) /\ p \in 1..payload
         /\ p * (frame \div p) = frame
         /\ ChainWhole(p * (frame \div p), p, dma)
<1> DEFINE most == PacketMax(unit)
           max == HostMax(unit, most, payload)
<1>1. most \in Nat
  <2>1. (BusMax \div unit) * unit \in 0..BusMax
    BY FloorBound DEF BusMax
  <2> QED
    BY <2>1 DEF PacketMax, BusMax
<1>2. max \in Nat /\ max <= most /\ max <= payload
  <2>1. (payload \div unit) * unit \in 0..payload
    BY FloorBound
  <2> QED
    BY <1>1, <2>1 DEF HostMax
<1> HIDE DEF most, max
<1>3. p \in unit..max /\ p % unit = 0 /\ frame % p = 0
  BY DEF ChosenPackets, most, max
<1>4. p \in Nat \ {0}
  BY <1>2, <1>3
<1>5. PacketLegal(p, unit) /\ p \in 1..payload
  BY <1>1, <1>2, <1>3, <1>4 DEF PacketLegal, most
<1>6. p * (frame \div p) = frame
  BY <1>3, <1>4, Quotient
<1>7. ChainWhole(frame, p, dma)
  BY <1>3, <1>4, ChainIsWhole
<1> QED
  BY <1>5, <1>6, <1>7

----------------------------------------------------------------------------
(* A configuration.                                                         *)

(* What a session says of the entry it streams: its size, the bytes of its   *)
(* image and its interval.                                                  *)
Suited(x, e) ==
  /\ x.w \in Nat \ {0} /\ x.h \in Nat \ {0} /\ x.w % 4 = 0 /\ x.interval \in Nat
  /\ x.image = ImageBytes(x.w, x.h, HostBits(e.pix))
  /\ ~e.f7 => x.w = e.w /\ x.h = e.h

(* A packet of the bus that makes the image with others like it.             *)
Carried(pkt, x, v) ==
  /\ pkt = [bpp |-> pkt.bpp, ppf |-> pkt.ppf]
  /\ pkt.bpp \in 1..MaxIsochPayload(v) /\ pkt.ppf \in Nat
  /\ pkt.bpp * pkt.ppf = x.image

(* What the camera's registers hold when it is configured for it.            *)
Configured(d, pkt, e, x) ==
  /\ d.fmt = e.fmt /\ d.mode = e.mode
  /\ e.f7 =>
       /\ d.f7[e.mode].w = x.w /\ d.f7[e.mode].h = x.h /\ d.f7[e.mode].coding = e.pix
       /\ d.f7[e.mode].bpp = pkt.bpp /\ pkt.ppf = x.image \div pkt.bpp
  /\ ~e.f7 =>
       /\ d.rate \in e.rates /\ pkt.bpp = HostBytesPerPacket(e.fmt, e.mode, d.rate)
       /\ pkt.ppf = HostPacketsPerFrame(e.fmt, e.mode, d.rate)

(* The rate of the session's interval, when the bus carries its packet.      *)
Nominal(pkt, e, x, v) ==
  ~e.f7 => \A r \in e.rates :
             /\ RateInterval[r] = x.interval
             /\ HostBytesPerPacket(e.fmt, e.mode, r) <= MaxIsochPayload(v)
             => pkt.bpp = HostBytesPerPacket(e.fmt, e.mode, r)

(* The bus payload of a speed.                                               *)
LEMMA Payload ==
  ASSUME NEW v \in 0..2
  PROVE  MaxIsochPayload(v) \in Nat
<1>1. v = 0 \/ v = 1 \/ v = 2
  OBVIOUS
<1>2. CASE v = 0
  <2>1. 2 ^ v = 1
    BY <1>2, Powers, Zenon
  <2> QED
    BY <2>1 DEF MaxIsochPayload
<1>3. CASE v = 1
  <2>1. 2 ^ v = 2
    BY <1>3, Powers, Zenon
  <2> QED
    BY <2>1 DEF MaxIsochPayload
<1>4. CASE v = 2
  <2>1. 2 ^ v = 4
    BY <1>4, Powers, Zenon
  <2> QED
    BY <2>1 DEF MaxIsochPayload
<1> QED
  BY <1>1, <1>2, <1>3, <1>4

(* The rate a standard mode is given: one of its own, with a packet that     *)
(* fits, and the very one the interval names when that one fits.            *)
LEMMA RateChosen ==
  ASSUME NEW f, NEW m, NEW rates \in SUBSET Rates, NEW interval \in Nat, NEW payload,
         SelectRate(f, m, rates, interval, payload) # NoRate
  PROVE  LET r == SelectRate(f, m, rates, interval, payload)
         IN  /\ r \in rates /\ HostBytesPerPacket(f, m, r) \in 1..payload
             /\ \A q \in rates : /\ RateInterval[q] = interval
                                 /\ HostBytesPerPacket(f, m, q) \in 1..payload
                                 => q = r
<1> DEFINE fits == {r \in rates \cap Rates : HostBytesPerPacket(f, m, r) \in 1..payload}
           away(r) == IF RateInterval[r] > interval THEN RateInterval[r] - interval
                                                    ELSE interval - RateInterval[r]
           nearest == {r \in fits : \A q \in fits : away(r) <= away(q)}
           D == {away(r) : r \in fits}
<1>1. fits # {} /\ SelectRate(f, m, rates, interval, payload) = Least(nearest)
  BY DEF SelectRate
<1>2. \A r \in Rates : RateInterval[r] \in Nat
  BY GeometryAssumption
<1>3. fits \subseteq rates /\ fits \subseteq Rates
  OBVIOUS
<1>4. \A r \in fits : HostBytesPerPacket(f, m, r) \in 1..payload
  OBVIOUS
<1>5. \A q \in rates : HostBytesPerPacket(f, m, q) \in 1..payload => q \in fits
  OBVIOUS
<1> HIDE DEF fits
<1>6. \A r \in fits : away(r) \in Nat
  BY <1>2, <1>3
<1>7. \E r \in fits : \A q \in fits : away(r) <= away(q)
  <2>0. PICK r0 \in fits : TRUE
    BY <1>1
  <2>1. D \in SUBSET Nat /\ D # {}
    BY <1>1, <1>6
  <2>2. Least(D) \in D /\ \A y \in D : Least(D) <= y
    <3> HIDE DEF D
    <3> QED
      BY <2>1, LeastMember
  <2>3. PICK r \in fits : Least(D) = away(r)
    BY <2>2
  <2>4. \A q \in fits : away(q) \in D
    OBVIOUS
  <2> HIDE DEF away, D
  <2> QED
    BY <2>2, <2>3, <2>4
<1>8. nearest \in SUBSET Nat /\ nearest # {} /\ nearest \subseteq fits
  <2>1. Rates \subseteq Nat
    BY DEF Rates
  <2> HIDE DEF away
  <2> QED
    BY <1>3, <1>7, <2>1
<1> DEFINE r == Least(nearest)
<1>9. r \in nearest
  <2> HIDE DEF nearest
  <2> QED
    BY <1>8, LeastMember
<1>10. \A q \in rates : /\ RateInterval[q] = interval
                        /\ HostBytesPerPacket(f, m, q) \in 1..payload
                        => q = r
  <2> SUFFICES ASSUME NEW q \in rates, RateInterval[q] = interval,
                      HostBytesPerPacket(f, m, q) \in 1..payload
               PROVE  q = r
    OBVIOUS
  <2>1. q \in fits /\ away(q) = 0
    BY <1>2, <1>5
  <2>2. r \in fits /\ away(r) <= away(q)
    <3>1. r \in fits /\ \A p \in fits : away(r) <= away(p)
      <4> HIDE DEF away, r
      <4> QED
        BY <1>9
    <3> HIDE DEF away, r
    <3> QED
      BY <2>1, <3>1
  <2>3. RateInterval[r] = interval
    <3> HIDE DEF r
    <3>1. RateInterval[r] \in Nat
      BY <1>2, <1>3, <2>2
    <3>2. away(r) <= 0
      <4> HIDE DEF away
      <4> QED
        BY <2>1, <2>2
    <3> HIDE DEF nearest, D
    <3> QED
      BY <3>1, <3>2
  <2>4. q \in Int /\ r \in Int /\ q \in Rates /\ r \in Rates
    <3> HIDE DEF r, away
    <3> QED
      BY <1>3, <2>1, <2>2 DEF Rates
  <2> HIDE DEF r
  <2> QED
    BY <1>2, <2>3, <2>4, GeometryAssumption
<1> QED
  BY <1>1, <1>3, <1>4, <1>8, <1>9, <1>10

(* Every way a configuration ends: the context is left alone, no packet is   *)
(* refused, and a success is one of both sides.                             *)
Settled(c, g, e, x, v) ==
  /\ Apart(c, g.cam) /\ g.ok \in BOOLEAN /\ g.nak = FALSE
  /\ g.ok => Configured(g.cam, g.pkt, e, x) /\ Carried(g.pkt, x, v) /\ Nominal(g.pkt, e, x, v)

(* A configuration that fails before its last write is settled: it says      *)
(* nothing of the packet.                                                    *)
LEMMA FailedShape ==
  ASSUME NEW c, NEW os, \A o \in os : Apart(c, o.cam), NEW g \in Failed(os, FALSE),
         NEW e, NEW x, NEW v
  PROVE  Settled(c, g, e, x, v)
<1>1. PICK o \in os : g = [ok |-> FALSE, cam |-> o.cam, pkt |-> NoStream, nak |-> FALSE]
  BY DEF Failed
<1>2. g.ok = FALSE /\ g.cam = o.cam /\ g.nak = FALSE
  BY <1>1
<1> QED
  BY <1>2 DEF Settled

(* A standard mode: the camera counts the packet the driver was told (dcam.c *)
(* PhotonicDcamConfigureStd).                                                *)
LEMMA FixedConfigured ==
  ASSUME NEW e \in Entries, ~e.f7, NEW x, Suited(x, e), NEW c, Registers(c), NEW v \in 0..2,
         NEW g \in ConfigureStd(c, e, x, v)
  PROVE  Settled(c, g, e, x, v)
<1> DEFINE most == MaxIsochPayload(v)
           r == SelectRate(e.fmt, e.mode, e.rates, x.interval, most)
           a == WriteFormat(c, e.fmt)
           b == WriteMode(a, e.mode)
           d == WriteRate(b, r)
           os == Writes(<<c, a, b, d>>)
           pkt == [bpp |-> HostBytesPerPacket(e.fmt, e.mode, r),
                   ppf |-> HostPacketsPerFrame(e.fmt, e.mode, r)]
           good(o) == [ok |-> TRUE, cam |-> o.cam, pkt |-> pkt, nak |-> FALSE]
<1>1. \/ r = NoRate /\ g \in Failed({[ok |-> FALSE, cam |-> c]}, FALSE)
      \/ r # NoRate /\ g \in Failed(os, FALSE)
      \/ r # NoRate /\ \E o \in os : o.ok /\ g = good(o)
  BY DEF ConfigureStd
<1>2. Apart(c, c) /\ Apart(c, a)
  BY SelectionWrites DEF Apart
<1>3. Apart(c, b) /\ b.fmt = e.fmt /\ b.mode = e.mode
  <2>1. a.fmt = e.fmt /\ Registers(a)
    BY SelectionWrites
  <2> HIDE DEF a
  <2> QED
    BY <1>2, <2>1, SelectionWrites DEF Apart
<1> HIDE DEF b
<1>9. r # NoRate => r \in Rates
  <2>1. e.rates \in SUBSET Rates
    BY Kinds DEF Standard, FrameRateInq
  <2>2. x.interval \in Nat
    BY DEF Suited
  <2>3. r # NoRate => r \in e.rates
    BY <2>1, <2>2, RateChosen
  <2> HIDE DEF r
  <2> QED
    BY <2>1, <2>3
<1>4. r # NoRate => Apart(c, d) /\ d.fmt = e.fmt /\ d.mode = e.mode /\ d.rate = r
  <2> HIDE DEF r
  <2> QED
    BY <1>3, <1>9, SelectionWrites DEF Apart
<1> HIDE DEF a, d
<1>5. ASSUME r # NoRate PROVE \A o \in os : Apart(c, o.cam) /\ (o.ok => o.cam = d)
  <2> TAKE o \in os
  <2> HIDE DEF r
  <2> DEFINE S == {c, a, b, d}
  <2>1. /\ <<c, a, b, d>> \in Seq(S) /\ <<c, a, b, d>> # <<>> /\ Len(<<c, a, b, d>>) = 4
        /\ <<c, a, b, d>>[4] = d
    OBVIOUS
  <2>2. o.cam \in S /\ (o.ok => o.cam = d)
    BY <2>1, OutcomesShape
  <2> QED
    BY <1>2, <1>3, <1>4, <1>5, <2>2
<1> HIDE DEF os, r
<1>6. CASE g \in Failed({[ok |-> FALSE, cam |-> c]}, FALSE)
  <2> DEFINE none == {[ok |-> FALSE, cam |-> c]}
  <2>1. \A o \in none : Apart(c, o.cam)
    BY <1>2
  <2> HIDE DEF none
  <2>2. g \in Failed(none, FALSE)
    BY <1>6 DEF none
  <2> QED
    BY <2>1, <2>2, FailedShape
<1>7. CASE r # NoRate /\ g \in Failed(os, FALSE)
  BY <1>5, <1>7, FailedShape
<1>8. ASSUME r # NoRate, NEW o \in os, o.ok, g = good(o)
      PROVE  Settled(c, g, e, x, v)
  <2>1. g.ok = TRUE /\ g.cam = d /\ g.pkt = pkt /\ g.nak = FALSE
    BY <1>5, <1>8
  <2>2. /\ e.fmt \in 0..2 /\ e.mode \in 0..7 /\ e.rates = FrameRateInq(e.fmt, e.mode)
        /\ e.pix = Slot(e.fmt, e.mode)[1] /\ e.w = Slot(e.fmt, e.mode)[2]
        /\ e.h = Slot(e.fmt, e.mode)[3]
    BY Kinds DEF Standard
  <2>3. x.interval \in Nat /\ x.w = e.w /\ x.h = e.h
        /\ x.image = ImageBytes(x.w, x.h, HostBits(e.pix))
    BY DEF Suited
  <2>4. e.rates \in SUBSET Rates
    BY <2>2 DEF FrameRateInq
  <2>5. /\ r \in e.rates /\ HostBytesPerPacket(e.fmt, e.mode, r) \in 1..most
        /\ \A q \in e.rates : /\ RateInterval[q] = x.interval
                              /\ HostBytesPerPacket(e.fmt, e.mode, q) \in 1..most
                              => q = r
    BY <1>8, <2>3, <2>4, RateChosen DEF r
  <2>6. \A q \in e.rates :
          Makes(HostBytesPerPacket(e.fmt, e.mode, q), HostPacketsPerFrame(e.fmt, e.mode, q), x.image)
    <3> TAKE q \in e.rates
    <3>1. q \in Rates /\ CamBytesPerPacket(e.fmt, e.mode, q) # 0
      BY <2>2 DEF FrameRateInq
    <3>2. x.image = ImageBytes(Slot(e.fmt, e.mode)[2], Slot(e.fmt, e.mode)[3],
                               HostBits(Slot(e.fmt, e.mode)[1]))
      BY <2>2, <2>3
    <3> QED
      BY <2>2, <3>1, <3>2, StandardFrame
  <2>7. Configured(d, pkt, e, x)
    BY <1>4, <1>8, <2>5 DEF Configured
  <2>8. Carried(pkt, x, v)
    <3> DEFINE bpp == HostBytesPerPacket(e.fmt, e.mode, r)
               ppf == HostPacketsPerFrame(e.fmt, e.mode, r)
    <3>1. bpp \in 1..most /\ Makes(bpp, ppf, x.image)
      BY <2>5, <2>6
    <3>2. pkt.bpp = bpp /\ pkt.ppf = ppf /\ pkt = [bpp |-> bpp, ppf |-> ppf]
      OBVIOUS
    <3> HIDE DEF bpp, ppf, pkt, most
    <3>3. ppf \in Nat
      BY <3>1 DEF Makes
    <3>4. pkt.bpp * pkt.ppf = x.image
      BY <3>1, <3>2 DEF Makes
    <3> QED
      BY <3>1, <3>2, <3>3, <3>4 DEF Carried, most
  <2>9. Nominal(pkt, e, x, v)
    <3>1. most \in Nat
      BY Payload
    <3> HIDE DEF most
    <3>2. ASSUME NEW q \in e.rates, RateInterval[q] = x.interval,
                 HostBytesPerPacket(e.fmt, e.mode, q) <= most
          PROVE  q = r
      <4>1. HostBytesPerPacket(e.fmt, e.mode, q) \in 1..most
        <5> DEFINE y == HostBytesPerPacket(e.fmt, e.mode, q)
        <5> DEFINE n == HostPacketsPerFrame(e.fmt, e.mode, q)
        <5>1. Makes(y, n, x.image) /\ y <= most
          BY <2>6, <3>2
        <5> HIDE DEF y, n
        <5>2. y \in 1..most
          BY <3>1, <5>1 DEF Makes
        <5> QED
          BY <5>2 DEF y
      <4> QED
        BY <2>5, <3>2, <4>1
    <3>3. pkt.bpp = HostBytesPerPacket(e.fmt, e.mode, r)
      OBVIOUS
    <3> HIDE DEF pkt
    <3> QED
      BY <3>2, <3>3 DEF Nominal, most
  <2> QED
    BY <1>4, <1>8, <2>1, <2>7, <2>8, <2>9 DEF Settled
<1> QED
  BY <1>1, <1>6, <1>7, <1>8

(* A scalable image of whole quadlets is so many units, one a line.          *)
LEMMA UnitLine ==
  ASSUME NEW w \in Nat \ {0}, w % 4 = 0, NEW h \in Nat \ {0}, NEW bits \in {8, 16}
  PROVE  /\ PacketUnit(w, bits) \in Nat \ {0}
         /\ ImageBytes(w, h, bits) = PacketUnit(w, bits) * h
         /\ ImageBytes(w, h, bits) \in Nat \ {0}
<1> DEFINE a == w * h
           line(b) == (w * b + 7) \div 8
<1>1. a \in Nat \ {0}
  <2>1. a \in Nat /\ w * h >= h
    OBVIOUS
  <2> QED
    BY <2>1
<1>2. CASE bits = 8
  <2>1. line(bits) = w
    BY <1>2
  <2>2. 4 * ((w + 3) \div 4) = w
    OBVIOUS
  <2>3. PacketUnit(w, bits) = w
    <3> HIDE DEF line
    <3>1. PacketUnit(w, bits) = IF 4 * ((line(bits) + 3) \div 4) = 0 THEN 4
                                ELSE 4 * ((line(bits) + 3) \div 4)
      BY DEF PacketUnit, line
    <3> QED
      BY <2>1, <2>2, <3>1
  <2>4. ImageBytes(w, h, bits) = (a * 8) \div 8
    BY <1>2 DEF ImageBytes
  <2>5. a = w * h
    OBVIOUS
  <2> HIDE DEF a
  <2>6. ImageBytes(w, h, bits) = a
    BY <1>1, <2>4
  <2> QED
    BY <1>1, <2>3, <2>5, <2>6
<1>3. CASE bits = 16
  <2>1. line(bits) = 2 * w
    BY <1>3
  <2>2. 4 * ((2 * w + 3) \div 4) = 2 * w
    OBVIOUS
  <2>3. PacketUnit(w, bits) = 2 * w
    <3> HIDE DEF line
    <3>1. PacketUnit(w, bits) = IF 4 * ((line(bits) + 3) \div 4) = 0 THEN 4
                                ELSE 4 * ((line(bits) + 3) \div 4)
      BY DEF PacketUnit, line
    <3> QED
      BY <2>1, <2>2, <3>1
  <2>4. ImageBytes(w, h, bits) = (a * 16) \div 8
    BY <1>3 DEF ImageBytes
  <2>5. 2 * a = (2 * w) * h
    OBVIOUS
  <2> HIDE DEF a
  <2>6. ImageBytes(w, h, bits) = 2 * a
    BY <1>1, <2>4
  <2> QED
    BY <1>1, <2>3, <2>5, <2>6
<1> QED
  BY <1>2, <1>3

(* The camera's largest packet holds a unit; the host's holds one or none.   *)
LEMMA HostMost ==
  ASSUME NEW unit \in Nat \ {0}, NEW payload \in Nat
  PROVE  LET max == HostMax(unit, PacketMax(unit), payload)
         IN  max \in Nat /\ (max = 0 \/ unit <= max)
<1> DEFINE most == PacketMax(unit)
<1>1. most \in Nat /\ unit <= most
  <2>1. (BusMax \div unit) * unit \in 0..BusMax
    BY FloorBound DEF BusMax
  <2> QED
    BY <2>1 DEF PacketMax, BusMax
<1> HIDE DEF most
<1> DEFINE q == payload \div unit
<1>2. q * unit \in 0..payload /\ q \in Int
  BY FloorBound, Quotient
<1> HIDE DEF q
<1>3. q * unit = 0 \/ unit <= q * unit
  <2>1. q >= 1 => unit <= q * unit
    BY <1>2
  <2>2. q <= -1 => q * unit <= -unit
    BY <1>2
  <2>3. q = 0 => q * unit = 0
    OBVIOUS
  <2> QED
    BY <1>2, <2>1, <2>2, <2>3
<1>4. HostMax(unit, most, payload) = IF most > payload THEN q * unit ELSE most
  BY DEF HostMax, q
<1> QED
  BY <1>1, <1>2, <1>3, <1>4 DEF most

(* There is a packet for every image of whole units the bus has room for.    *)
LEMMA PacketFound ==
  ASSUME NEW frame \in Nat, NEW unit \in Nat \ {0}, frame % unit = 0, NEW max \in Nat,
         unit <= max, NEW target
  PROVE  ChosenPackets(frame, unit, max, target) # {}
<1> DEFINE dividing == {p \in unit..max : p % unit = 0 /\ frame % p = 0}
           below == {p \in dividing : p <= target}
<1>1. ChosenPackets(frame, unit, max, target)
        = IF below # {} THEN {p \in below : \A q \in below : q <= p}
          ELSE {p \in dividing : \A q \in dividing : p <= q}
  BY DEF ChosenPackets
<1>2. unit \in dividing
  <2>1. unit % unit = 0
    BY Multiple
  <2> QED
    BY <2>1
<1>3. dividing \in SUBSET Nat /\ \A p \in dividing : p <= max
  OBVIOUS
<1>4. below \subseteq dividing
  OBVIOUS
<1> HIDE DEF dividing, below
<1>5. CASE below # {}
  <2>1. \E x \in below : \A y \in below : y <= x
    BY <1>3, <1>4, <1>5, MostMember
  <2> QED
    BY <1>1, <1>5, <2>1
<1>6. CASE below = {}
  <2>1. Least(dividing) \in dividing /\ \A y \in dividing : Least(dividing) <= y
    BY <1>2, <1>3, LeastMember
  <2> QED
    BY <1>1, <1>6, <2>1
<1> QED
  BY <1>5, <1>6

(* Whole quotients are numbers.                                              *)
LEMMA NatQuotient ==
  ASSUME NEW a \in Nat, NEW b \in Nat \ {0}
  PROVE  a \div b \in Nat
  OBVIOUS

(* The driver and the camera count the same bits a pixel.                    *)
LEMMA ScalableBits ==
  ASSUME NEW k \in {0, 2, 5, 7}
  PROVE  HostBits(k) \in {8, 16} /\ CamBits(k) = HostBits(k)
<1>1. k = 0 \/ k = 2 \/ k = 5 \/ k = 7
  OBVIOUS
<1> QED
  BY <1>1 DEF HostBits, CamBits

(* A scalable mode: the packet the driver reads back is the one it chose,    *)
(* because the camera had no reason to refuse it.                            *)
LEMMA ScalableConfigured ==
  ASSUME NEW e \in Entries, e.f7, NEW x, Suited(x, e), NEW c, Registers(c), NEW v \in 0..2,
         NEW g \in ConfigureFormat7(c, e, x, v)
  PROVE  Settled(c, g, e, x, v)
<1> DEFINE m == e.mode
           a == WriteFormat(c, F7Format)
           b == WriteMode(a, m)
           sized == WriteSize(b, m, x.w, x.h)
           d == WriteCoding(sized, m, e.pix)
           unit == CamUnit(d, m)
           payload == MaxIsochPayload(v)
           max == HostMax(unit, PacketMax(unit), payload)
           target == SnappedPacket(RawPacket(x.image, max, x.interval), unit, max)
           chosen == ChosenPackets(x.image, unit, max, target)
           refused(p) == Naks(d, m, p)
           written(p) == Writes(<<d, WritePacket(d, m, p)>>)
           none == {[ok |-> FALSE, cam |-> d]}
           pkt(p) == [bpp |-> p, ppf |-> x.image \div p]
           good(p, o) == [ok |-> TRUE, cam |-> o.cam, nak |-> FALSE, pkt |-> pkt(p)]
           os == Writes(<<c, a, b, sized, d>>)
<1>1. /\ e.fmt = F7Format /\ m \in F7Modes /\ e.pix \in {0, 2, 5, 7}
  BY Kinds DEF Scalable
<1>2. /\ x.w \in Nat \ {0} /\ x.h \in Nat \ {0} /\ x.w % 4 = 0 /\ x.interval \in Nat
      /\ x.image = ImageBytes(x.w, x.h, HostBits(e.pix))
  BY DEF Suited
<1>3. HostBits(e.pix) \in {8, 16} /\ CamBits(e.pix) = HostBits(e.pix)
  BY <1>1, ScalableBits, Zenon
<1>4. x.image \in Nat \ {0}
  <2> DEFINE w == x.w
             h == x.h
             bits == HostBits(e.pix)
  <2>1. w \in Nat \ {0} /\ w % 4 = 0 /\ h \in Nat \ {0} /\ bits \in {8, 16}
    BY <1>2, <1>3
  <2>2. x.image = ImageBytes(w, h, bits)
    BY <1>2
  <2> HIDE DEF w, h, bits
  <2> QED
    BY <2>1, <2>2, UnitLine
<1>5. \/ g \in Failed(os, FALSE)
      \/ g \in Failed(none, FALSE)
      \/ max # 0 /\ chosen = {} /\ g \in Failed(none, TRUE)
      \/ \E p \in chosen : refused(p) /\ g \in Failed(none, TRUE)
      \/ \E p \in chosen : ~refused(p) /\ g \in Failed(written(p), FALSE)
      \/ \E p \in chosen : ~refused(p) /\ \E o \in written(p) : o.ok /\ g = good(p, o)
  <2> DEFINE all == Failed(os, FALSE)
                \cup IF max = 0 THEN Failed(none, FALSE)
                     ELSE IF chosen = {} THEN Failed(none, TRUE)
                     ELSE UNION {IF refused(p) THEN Failed(none, TRUE)
                                 ELSE Failed(written(p), FALSE)
                                        \cup {good(p, o) : o \in {q \in written(p) : q.ok}}
                                 : p \in chosen}
  <2>0. ConfigureFormat7(c, e, x, v)
          = IF x.image = 0 THEN Failed({[ok |-> FALSE, cam |-> c]}, FALSE) ELSE all
    BY DEF ConfigureFormat7, InquiredUnit
  <2> HIDE DEF max, chosen, refused, written, none, good, os
  <2>1. g \in all
    BY <1>4, <2>0
  <2>2. CASE g \in Failed(os, FALSE)
    BY <2>2
  <2>3. CASE max = 0 /\ g \in Failed(none, FALSE)
    BY <2>3
  <2>4. CASE max # 0 /\ chosen = {} /\ g \in Failed(none, TRUE)
    BY <2>4
  <2>5. ASSUME NEW p \in chosen,
               g \in IF refused(p) THEN Failed(none, TRUE)
                     ELSE Failed(written(p), FALSE)
                            \cup {good(p, o) : o \in {q \in written(p) : q.ok}}
        PROVE  \/ refused(p) /\ g \in Failed(none, TRUE)
               \/ ~refused(p) /\ g \in Failed(written(p), FALSE)
               \/ ~refused(p) /\ \E o \in written(p) : o.ok /\ g = good(p, o)
    BY <2>5
  <2> QED
    BY <2>1, <2>2, <2>3, <2>4, <2>5
<1>6. Apart(c, c) /\ Apart(c, a)
  BY SelectionWrites DEF Apart
<1>7. Apart(c, b) /\ b.fmt = F7Format /\ b.mode = m
  <2>1. a.fmt = F7Format /\ Registers(a)
    BY SelectionWrites
  <2> HIDE DEF a
  <2> QED
    BY <1>6, <2>1, SelectionWrites DEF Apart
<1> HIDE DEF a, b, m
<1>8. /\ Apart(c, sized) /\ sized.fmt = F7Format /\ sized.mode = m
      /\ sized.f7[m].w = x.w /\ sized.f7[m].h = x.h
  BY <1>1, <1>7, SizeWrite DEF Apart, Framed
<1> HIDE DEF sized
<1>9. /\ Apart(c, d) /\ d.fmt = F7Format /\ d.mode = m
      /\ d.f7[m].w = x.w /\ d.f7[m].h = x.h /\ d.f7[m].coding = e.pix
  BY <1>1, <1>8, RecodeWrite DEF Apart, Framed
<1> HIDE DEF d
<1>10. /\ unit = PacketUnit(x.w, HostBits(e.pix)) /\ unit \in Nat \ {0}
       /\ x.image % unit = 0
  <2>1. unit = PacketUnit(x.w, HostBits(e.pix))
    BY <1>3, <1>9 DEF CamUnit
  <2>2. unit \in Nat \ {0} /\ x.image = unit * x.h
    <3> DEFINE w == x.w
               h == x.h
               bits == HostBits(e.pix)
    <3>1. w \in Nat \ {0} /\ w % 4 = 0 /\ h \in Nat \ {0} /\ bits \in {8, 16}
      BY <1>2, <1>3
    <3>2. unit = PacketUnit(w, bits) /\ x.image = ImageBytes(w, h, bits)
      BY <1>2, <2>1
    <3> HIDE DEF w, h, bits, unit
    <3>3. unit \in Nat \ {0} /\ x.image = unit * h
      BY <3>1, <3>2, UnitLine
    <3> QED
      BY <3>3 DEF h
  <2> HIDE DEF unit
  <2>3. x.image = x.h * unit /\ x.h \in Int
    BY <1>2, <2>2
  <2>4. x.image % unit = 0
    BY <2>2, <2>3, Multiple
  <2> QED
    BY <2>1, <2>2, <2>4
<1>11. payload \in Nat
  BY Payload
<1> HIDE DEF unit, payload
<1>12. max \in Nat /\ (max = 0 \/ unit <= max)
  BY <1>10, <1>11, HostMost
<1> HIDE DEF target
<1>13. max # 0 => chosen # {}
  <2> HIDE DEF max
  <2> QED
    BY <1>4, <1>10, <1>12, PacketFound
<1>14. \A p \in chosen : ~refused(p) /\ p \in 1..payload /\ p * (x.image \div p) = x.image
  <2> TAKE p \in chosen
  <2>1. PacketLegal(p, unit) /\ p \in 1..payload /\ p * (x.image \div p) = x.image
    BY <1>4, <1>10, <1>11, ChosenPacketFits
  <2> QED
    BY <2>1 DEF Naks, unit
<1> HIDE DEF max, chosen
<1>15. ASSUME NEW p \in chosen
       PROVE  LET w == WritePacket(d, m, p)
              IN  Apart(c, w) /\ Configured(w, pkt(p), e, x)
  <2> DEFINE w == WritePacket(d, m, p)
  <2>1. ~Naks(d, m, p)
    BY <1>14
  <2>2. /\ Framed(d, w) /\ w.f7[m].coding = e.pix /\ w.f7[m].w = x.w /\ w.f7[m].h = x.h
        /\ w.f7[m].bpp = p
    BY <1>1, <1>9, <2>1, LegalWrite DEF Apart
  <2> HIDE DEF w
  <2>3. Apart(c, w) /\ w.fmt = e.fmt /\ w.mode = e.mode
    BY <1>1, <1>9, <2>2 DEF Apart, Framed, m
  <2>4. pkt(p).bpp = p /\ pkt(p).ppf = x.image \div p
    OBVIOUS
  <2> HIDE DEF pkt
  <2>5. Configured(w, pkt(p), e, x)
    BY <2>2, <2>3, <2>4 DEF Configured, m
  <2> QED
    BY <2>3, <2>5 DEF w
<1>16. \A o \in os : Apart(c, o.cam)
  <2> TAKE o \in os
  <2> DEFINE S == {c, a, b, sized, d}
  <2>1. /\ <<c, a, b, sized, d>> \in Seq(S) /\ <<c, a, b, sized, d>> # <<>>
    OBVIOUS
  <2>2. o.cam \in S
    BY <2>1, OutcomesShape
  <2> QED
    BY <1>6, <1>7, <1>8, <1>9, <2>2
<1>17. \A p \in chosen : \A o \in written(p) :
         Apart(c, o.cam) /\ (o.ok => o.cam = WritePacket(d, m, p))
  <2> TAKE p \in chosen
  <2> TAKE o \in written(p)
  <2> DEFINE w == WritePacket(d, m, p)
             S == {d, w}
  <2>1. Apart(c, w)
    BY <1>15
  <2>2. o \in Writes(<<d, w>>)
    OBVIOUS
  <2> HIDE DEF w
  <2>3. /\ <<d, w>> \in Seq(S) /\ <<d, w>> # <<>> /\ Len(<<d, w>>) = 2 /\ <<d, w>>[2] = w
    OBVIOUS
  <2>4. o.cam \in S /\ (o.ok => o.cam = w)
    BY <2>2, <2>3, OutcomesShape
  <2> QED
    BY <1>9, <2>1, <2>4 DEF w
<1>18. \A o \in none : Apart(c, o.cam)
  BY <1>9
<1> HIDE DEF os, none, written
<1>19. CASE g \in Failed(os, FALSE)
  BY <1>16, <1>19, FailedShape
<1>20. CASE g \in Failed(none, FALSE)
  BY <1>18, <1>20, FailedShape
<1>21. ASSUME NEW p \in chosen, g \in Failed(written(p), FALSE)
       PROVE  Settled(c, g, e, x, v)
  <2>1. \A o \in written(p) : Apart(c, o.cam)
    BY <1>17
  <2> QED
    BY <1>21, <2>1, FailedShape
<1>22. ASSUME NEW p \in chosen, NEW o \in written(p), o.ok, g = good(p, o)
       PROVE  Settled(c, g, e, x, v)
  <2>1. g.ok = TRUE /\ g.cam = o.cam /\ g.pkt = pkt(p) /\ g.nak = FALSE
    BY <1>22
  <2>2. Apart(c, o.cam) /\ Configured(o.cam, pkt(p), e, x)
    BY <1>15, <1>17, <1>22
  <2>3. Carried(pkt(p), x, v)
    <3> DEFINE n == x.image \div p
    <3>1. p \in 1..payload /\ p * n = x.image
      BY <1>14
    <3>2. n \in Nat
      BY <1>4, <1>11, <3>1, NatQuotient
    <3>3. pkt(p) = [bpp |-> p, ppf |-> n] /\ pkt(p).bpp = p /\ pkt(p).ppf = n
      OBVIOUS
    <3> HIDE DEF n, pkt
    <3> QED
      BY <3>1, <3>2, <3>3 DEF Carried, payload
  <2>4. Nominal(pkt(p), e, x, v)
    BY DEF Nominal
  <2> QED
    BY <2>1, <2>2, <2>3, <2>4 DEF Settled
<1> HIDE DEF refused, good
<1>23. \A p \in chosen : ~refused(p)
  BY <1>14
<1> QED
  BY <1>5, <1>13, <1>19, <1>20, <1>21, <1>22, <1>23

(* Either kind (dcam.c PhotonicDcamConfigureStream).                         *)
LEMMA StreamConfigured ==
  ASSUME NEW e \in Entries, NEW x, Suited(x, e), NEW c, Registers(c), NEW v \in 0..2,
         NEW g \in ConfigureStream(c, e, x, v)
  PROVE  Settled(c, g, e, x, v)
<1>1. CASE e.f7
  BY <1>1, ScalableConfigured DEF ConfigureStream
<1>2. CASE ~e.f7
  BY <1>2, FixedConfigured DEF ConfigureStream
<1> QED
  BY <1>1, <1>2

(* The camera makes of its registers what the driver wrote them for.         *)
LEMMA SameGeometry ==
  ASSUME NEW e \in Entries, NEW x, Suited(x, e), NEW c, Registers(c), NEW pkt, NEW v \in 0..2,
         Configured(c, pkt, e, x), Carried(pkt, x, v)
  PROVE  Geometry(c) = [bpp |-> pkt.bpp, ppf |-> pkt.ppf, bytes |-> x.image]
<1> DEFINE bpp == pkt.bpp
           ppf == pkt.ppf
<1>1. bpp # 0 /\ bpp * ppf = x.image
  <2>1. bpp \in 1..MaxIsochPayload(v) /\ MaxIsochPayload(v) \in Nat /\ bpp * ppf = x.image
    BY Payload DEF Carried
  <2> DEFINE n == MaxIsochPayload(v)
  <2> HIDE DEF bpp, n
  <2>2. bpp \in 1..n /\ n \in Nat
    BY <2>1 DEF n
  <2>3. bpp # 0
    BY <2>2
  <2> QED
    BY <2>1, <2>3
<1>2. c.fmt = e.fmt /\ c.mode = e.mode
  BY DEF Configured
<1>3. CASE e.f7
  <2> DEFINE w == c.f7[c.mode]
             image == CamFrameBytes(c, c.mode)
  <2>1. e.fmt = F7Format /\ e.mode \in F7Modes /\ e.pix \in {0, 2, 5, 7}
    BY <1>3, Kinds DEF Scalable
  <2>2. HostBits(e.pix) \in {8, 16} /\ CamBits(e.pix) = HostBits(e.pix)
    BY <2>1, ScalableBits, Zenon
  <2>3. w.w = x.w /\ w.h = x.h /\ w.coding = e.pix /\ w.bpp = bpp /\ ppf = x.image \div bpp
    BY <1>2, <1>3 DEF Configured
  <2>4. /\ x.w # 0 /\ x.h # 0 /\ x.image = ImageBytes(x.w, x.h, HostBits(e.pix))
    BY DEF Suited
  <2>5. image = x.image
    BY <2>2, <2>3, <2>4 DEF CamFrameBytes
  <2>6. CamBits(w.coding) # 0
    BY <2>2, <2>3
  <2> HIDE DEF w, image, bpp, ppf
  <2>7. GeometryF7(c) = [bpp |-> w.bpp, ppf |-> image \div w.bpp, bytes |-> image]
    BY <1>1, <1>2, <2>1, <2>3, <2>4, <2>6 DEF GeometryF7, w, image
  <2>8. Geometry(c) = GeometryF7(c)
    BY <1>2, <2>1 DEF Geometry
  <2> QED
    BY <2>3, <2>5, <2>7, <2>8 DEF bpp, ppf
<1>4. CASE ~e.f7
  <2>1. e.fmt \in 0..2 /\ e.mode \in 0..7 /\ e.rates = FrameRateInq(e.fmt, e.mode)
    BY <1>4, Kinds DEF Standard
  <2>2. /\ c.rate \in e.rates /\ bpp = HostBytesPerPacket(e.fmt, e.mode, c.rate)
        /\ ppf = HostPacketsPerFrame(e.fmt, e.mode, c.rate)
    BY <1>4 DEF Configured
  <2>3. c.rate \in Rates /\ CamBytesPerPacket(e.fmt, e.mode, c.rate) # 0
    BY <2>1, <2>2 DEF FrameRateInq
  <2> DEFINE b == CamBytesPerPacket(c.fmt, c.mode, c.rate)
             n == CamPacketsPerFrame(c.fmt, c.mode, c.rate)
  <2>4. b = bpp /\ n = ppf
    BY <1>2, <2>1, <2>2, <2>3, StandardFrame
  <2>5. c.fmt # F7Format /\ c.fmt \in 0..2
    BY <1>2, <2>1 DEF F7Format
  <2> HIDE DEF bpp, ppf
  <2>6. Geometry(c) = IF b = 0 THEN NoGeometry ELSE [bpp |-> b, ppf |-> n, bytes |-> b * n]
    BY <2>3, <2>5 DEF Geometry
  <2> HIDE DEF b, n
  <2> QED
    BY <1>1, <2>4, <2>6 DEF bpp, ppf
<1> QED
  BY <1>3, <1>4, Kinds

----------------------------------------------------------------------------
(* The transmit context.                                                    *)

(* A context that runs uses the geometry of the registers it was started     *)
(* from, as long as they stay.                                              *)
Latched(c) ==
  c.iso.running => [bpp |-> c.iso.bpp, ppf |-> c.iso.ppf, bytes |-> c.iso.bytes] = Geometry(c)

(* What touches the context only.                                            *)
Still(c, d) ==
  /\ Registers(d) /\ d.fmt = c.fmt /\ d.mode = c.mode /\ d.rate = c.rate /\ d.f7 = c.f7
  /\ d.channel = c.channel /\ d.speed = c.speed
  /\ Latched(c) => Latched(d)
SetIso(c, i) == [c EXCEPT !.iso = i]

(* The geometry is read off the selection and the scalable modes.            *)
LEMMA SameRegisters ==
  ASSUME NEW c, NEW d, d.fmt = c.fmt, d.mode = c.mode, d.rate = c.rate, d.f7 = c.f7
  PROVE  Geometry(d) = Geometry(c)
  BY DEF Geometry, GeometryF7, CamFrameBytes

(* A write of the context leaves the rest of the registers alone.            *)
LEMMA IsoWrite ==
  ASSUME NEW c, Registers(c), NEW i, Context(i)
  PROVE  LET d == SetIso(c, i)
         IN  /\ Registers(d) /\ d.fmt = c.fmt /\ d.mode = c.mode /\ d.rate = c.rate
             /\ d.f7 = c.f7 /\ d.channel = c.channel /\ d.speed = c.speed
             /\ d.iso = i /\ Geometry(d) = Geometry(c)
<1> DEFINE d == SetIso(c, i)
<1>1. /\ Registers(d) /\ d.fmt = c.fmt /\ d.mode = c.mode /\ d.rate = c.rate
      /\ d.f7 = c.f7 /\ d.channel = c.channel /\ d.speed = c.speed /\ d.iso = i
  BY DEF SetIso, Registers, Camera
<1> HIDE DEF d
<1>2. Geometry(d) = Geometry(c)
  BY <1>1, SameRegisters
<1> QED
  BY <1>1, <1>2 DEF d

(* The start, the stop and the one-shot change no latched geometry.          *)
LEMMA StopStill ==
  ASSUME NEW c, Registers(c)
  PROVE  Still(c, IsoStop(c)) /\ ~IsoStop(c).iso.running
<1>1. Context(NoIso) /\ ~NoIso.running
  BY DEF Context, NoIso
<1>2. IsoStop(c) = IF c.iso.created \/ c.iso.running THEN SetIso(c, NoIso) ELSE c
  BY DEF IsoStop, SetIso
<1>3. CASE c.iso.created \/ c.iso.running
  BY <1>1, <1>2, <1>3, IsoWrite DEF Still, Latched
<1>4. CASE ~(c.iso.created \/ c.iso.running)
  BY <1>2, <1>4 DEF Still
<1> QED
  BY <1>3, <1>4

LEMMA StartStill ==
  ASSUME NEW c, Registers(c), NEW o
  PROVE  Still(c, IsoStart(c, o))
<1> DEFINE g == Geometry(c)
           mapped == [c.iso EXCEPT !.created = TRUE, !.buffer = Buffer(c, o)]
           filled == [mapped EXCEPT !.ring = RingDepth(Buffer(c, o), g.bytes), !.running = TRUE,
                                    !.bpp = g.bpp, !.ppf = g.ppf, !.bytes = g.bytes]
<1>1. \/ IsoStart(c, o) = c
      \/ ~c.iso.running /\ Streamable(g) /\ IsoStart(c, o) = SetIso(c, mapped)
      \/ ~c.iso.running /\ Streamable(g) /\ IsoStart(c, o) = SetIso(c, filled)
  BY DEF IsoStart, SetIso
<1>2. CASE IsoStart(c, o) = c
  BY <1>2 DEF Still
<1>3. Context(mapped) /\ mapped.running = c.iso.running /\ mapped.created
  BY DEF Registers, Context
<1>4. Context(filled) /\ filled.bpp = g.bpp /\ filled.ppf = g.ppf /\ filled.bytes = g.bytes
  <2> HIDE DEF mapped, g
  <2> QED
    BY <1>3 DEF Context
<1>5. g = [bpp |-> g.bpp, ppf |-> g.ppf, bytes |-> g.bytes]
  <2>1. \E p, q, n : g = [bpp |-> p, ppf |-> q, bytes |-> n]
    <3>1. GeometryF7(c) = NoGeometry
          \/ \E p, q, n : GeometryF7(c) = [bpp |-> p, ppf |-> q, bytes |-> n]
      BY DEF GeometryF7
    <3>2. \E p, q, n : NoGeometry = [bpp |-> p, ppf |-> q, bytes |-> n]
      BY DEF NoGeometry
    <3>3. \E p, q, n : GeometryF7(c) = [bpp |-> p, ppf |-> q, bytes |-> n]
      BY <3>1, <3>2
    <3> HIDE DEF g
    <3>4. \/ g = GeometryF7(c) \/ g = NoGeometry
          \/ \E p, q, n : g = [bpp |-> p, ppf |-> q, bytes |-> n]
      BY DEF Geometry, g
    <3> QED
      BY <3>2, <3>3, <3>4
  <2> HIDE DEF g
  <2> QED
    BY <2>1
<1> HIDE DEF mapped, filled, g
<1>6. CASE ~c.iso.running /\ IsoStart(c, o) = SetIso(c, mapped)
  <2>1. ~mapped.running
    BY <1>3, <1>6
  <2> QED
    BY <1>3, <1>6, <2>1, IsoWrite DEF Still, Latched
<1>7. CASE IsoStart(c, o) = SetIso(c, filled)
  BY <1>4, <1>5, <1>7, IsoWrite DEF Still, Latched, g
<1> QED
  BY <1>1, <1>2, <1>6, <1>7

LEMMA OneShotStill ==
  ASSUME NEW c, Registers(c), NEW x
  PROVE  Still(c, [c EXCEPT !.iso.oneshot = x])
<1> DEFINE i == [c.iso EXCEPT !.oneshot = x]
           d == [c EXCEPT !.iso.oneshot = x]
<1>1. /\ Context(i) /\ i.running = c.iso.running /\ i.bpp = c.iso.bpp /\ i.ppf = c.iso.ppf
      /\ i.bytes = c.iso.bytes
  BY DEF Registers, Context
<1>2. d = SetIso(c, i)
  BY DEF SetIso
<1> HIDE DEF i, d
<1>3. /\ Registers(d) /\ d.fmt = c.fmt /\ d.mode = c.mode /\ d.rate = c.rate
      /\ d.f7 = c.f7 /\ d.channel = c.channel /\ d.speed = c.speed
      /\ d.iso = i /\ Geometry(d) = Geometry(c)
  BY <1>1, <1>2, IsoWrite
<1>4. Still(c, d)
  BY <1>1, <1>3 DEF Still, Latched
<1> QED
  BY <1>4 DEF d

LEMMA StillTwice ==
  ASSUME NEW c, NEW d, NEW e, Still(c, d), Still(d, e)
  PROVE  Still(c, e)
  BY DEF Still

LEMMA EnableStill ==
  ASSUME NEW c, Registers(c), NEW on \in BOOLEAN, NEW o
  PROVE  Still(c, WriteIsoEn(c, on, o)) /\ Still(c, WriteOneShot(c, on, o))
<1>1. Still(c, IsoStart([c EXCEPT !.iso.oneshot = FALSE], o))
  <2> DEFINE d == [c EXCEPT !.iso.oneshot = FALSE]
  <2>1. Still(c, d)
    BY OneShotStill
  <2> HIDE DEF d
  <2>2. Still(d, IsoStart(d, o))
    BY <2>1, StartStill DEF Still
  <2>3. Still(c, IsoStart(d, o))
    BY <2>1, <2>2, StillTwice
  <2> QED
    BY <2>3 DEF d
<1>2. Still(c, IsoStart([IsoStop(c) EXCEPT !.iso.oneshot = TRUE], o))
  <2> DEFINE d == IsoStop(c)
             e == [d EXCEPT !.iso.oneshot = TRUE]
  <2>1. Still(c, d)
    BY StopStill
  <2> HIDE DEF d
  <2>2. Still(d, e)
    BY <2>1, OneShotStill DEF Still
  <2>3. Still(c, e)
    BY <2>1, <2>2, StillTwice
  <2> HIDE DEF e
  <2>4. Still(e, IsoStart(e, o))
    BY <2>3, StartStill DEF Still
  <2>5. Still(c, IsoStart(e, o))
    BY <2>3, <2>4, StillTwice
  <2> QED
    BY <2>5 DEF e, d
<1>3. Still(c, IsoStop(c)) /\ Still(c, c)
  BY StopStill DEF Still
<1> QED
  BY <1>1, <1>2, <1>3 DEF WriteIsoEn, WriteOneShot

(* The disables of a removal and of a stop, each of which may fail.          *)
LEMMA SilencedStill ==
  ASSUME Registers(cam), NEW o, NEW c \in Silenced(o)
  PROVE  Still(cam, c)
<1>1. c = cam \/ c = WriteIsoEn(cam, FALSE, o)
  BY DEF Silenced
<1>2. Still(cam, cam)
  BY DEF Still
<1> QED
  BY <1>1, <1>2, EnableStill

(* A configuration stays one under what touches only the context, the        *)
(* channel or the rest of the session.                                      *)
LEMMA StillConfigured ==
  ASSUME NEW c, NEW d, d.fmt = c.fmt, d.mode = c.mode, d.rate = c.rate, d.f7 = c.f7,
         NEW pkt, NEW e, NEW x, NEW y, y.w = x.w, y.h = x.h, y.image = x.image,
         y.interval = x.interval
  PROVE  /\ Configured(c, pkt, e, x) => Configured(d, pkt, e, y)
         /\ \A v : Carried(pkt, x, v) => Carried(pkt, y, v)
         /\ \A v : Nominal(pkt, e, x, v) => Nominal(pkt, e, y, v)
         /\ Suited(x, e) => Suited(y, e)
<1>1. Configured(c, pkt, e, x) => Configured(d, pkt, e, y)
  BY DEF Configured
<1>2. \A v : Carried(pkt, x, v) => Carried(pkt, y, v)
  BY DEF Carried
<1>3. \A v : Nominal(pkt, e, x, v) => Nominal(pkt, e, y, v)
  BY DEF Nominal
<1>4. Suited(x, e) => Suited(y, e)
  BY DEF Suited
<1> QED
  BY <1>1, <1>2, <1>3, <1>4

----------------------------------------------------------------------------
(* The inductive invariant.                                                 *)

Fields(x) ==
  {"owner", "mode", "w", "h", "image", "interval", "run", "oneshot", "ring", "enable",
   "pkt", "channel", "clean", "rate"} = DOMAIN x

(* What an entry admits of a negotiated stream.                              *)
Admits(e, x) ==
  /\ e.min <= x.interval /\ x.interval <= e.max
  /\ SizeCovered(x.w, e.uw, e.w, e.f7) /\ SizeCovered(x.h, e.uh, e.h, e.f7)

(* A session's mode is an entry it suits, with the size and the interval     *)
(* negotiated or the rate asked for ones the entry has.                     *)
Fit(x, e) ==
  /\ Suited(x, e)
  /\ x.owner = "stream" => Admits(e, x)
  /\ x.rate # 0 => ~e.f7 /\ \E r \in e.rates : RateInterval[r] = x.rate /\ x.interval = x.rate

(* A running session's camera is configured for it.                          *)
Set(c, x, e, v) ==
  /\ Configured(c, x.pkt, e, x) /\ Carried(x.pkt, x, v) /\ Nominal(x.pkt, e, x, v)
  /\ x.clean => Latched(c) /\ c.channel = x.channel /\ c.speed = v

Ready == speed \in 0..2 /\ Registers(cam) /\ modes \in Seq(Entries) /\ nak = FALSE
Placed == dev = "up" /\ sure /\ modes # <<>> => On(cam, modes)
Unclaimed == dev = "none" => ~Active /\ asked = 0
Rated(c, t, table) ==
  t # 0 => /\ t = RateInterval[c.rate]
           /\ \A i \in Selected(c, table) : ~table[i].f7 /\ c.rate \in table[i].rates
Asked == Rated(cam, asked, modes)
Fitted ==
  /\ s.owner = "stream" /\ s.interval # 0 => s.mode # 0
  /\ Active /\ s.mode # 0 => s.mode \in DOMAIN modes /\ Fit(s, modes[s.mode])
Running ==
  s.run => dev = "up" /\ Active /\ s.mode # 0 /\ Set(cam, s, modes[s.mode], speed)
IInv == Ready /\ Fields(s) /\ Placed /\ Unclaimed /\ Asked /\ Fitted /\ Running

----------------------------------------------------------------------------
(* The negotiation.                                                         *)

(* What a range says of the entry behind it.                                 *)
Lists(r, e) ==
  /\ r.media = PixelToMedia(e.pix) /\ r.media[1] = HostBits(e.pix)
  /\ r.min = e.min /\ r.max = e.max
  /\ r.size[1] = e.defw /\ r.size[2] = e.defh /\ r.most[1] = e.w /\ r.most[2] = e.h
  /\ e.f7 => /\ r.least[1] = e.uw /\ r.least[2] = e.uh /\ r.gran[1] = e.uw /\ r.gran[2] = e.uh
  /\ ~e.f7 => r.least[1] = e.w /\ r.least[2] = e.h /\ r.least = r.most

(* A range lists the entry it was built from.                                *)
LEMMA FilledRange ==
  ASSUME NEW table \in Seq(Entries), NEW i \in DOMAIN table
  PROVE  FillRange(table, i).from = i /\ Lists(FillRange(table, i), table[i])
<1> DEFINE e == table[i]
           r == FillRange(table, i)
           step == IF e.f7 THEN <<e.uw, e.uh>> ELSE <<e.w, e.h>>
<1>1. e \in Entries
  OBVIOUS
<1> HIDE DEF e
<1>2. Common(e)
  BY <1>1, EntryFacts
<1>3. PixelToMedia(e.pix)[1] = HostBits(e.pix)
  <2>1. \/ e.pix = 0 \/ e.pix = 1 \/ e.pix = 2 \/ e.pix = 3 \/ e.pix = 4 \/ e.pix = 5
        \/ e.pix = 6 \/ e.pix = 7
    BY <1>2 DEF Common
  <2> QED
    BY <2>1 DEF PixelToMedia, HostBits, NoMedia
<1>4. e.min # 0 /\ e.max # 0
  BY <1>2 DEF Common
<1>5. r = [from |-> i, media |-> PixelToMedia(e.pix), least |-> step, most |-> <<e.w, e.h>>,
           gran |-> step, size |-> <<e.defw, e.defh>>, min |-> e.min, max |-> e.max]
  BY <1>4 DEF FillRange, e
<1>6. /\ r.from = i /\ r.media = PixelToMedia(e.pix) /\ r.least = step /\ r.most = <<e.w, e.h>>
      /\ r.gran = step /\ r.size = <<e.defw, e.defh>> /\ r.min = e.min /\ r.max = e.max
  BY <1>5
<1> HIDE DEF r
<1>7. Lists(r, e)
  BY <1>3, <1>6 DEF Lists
<1> QED
  BY <1>6, <1>7 DEF r, e

(* Every range stands for an entry of the table.                             *)
LEMMA BuiltRanges ==
  ASSUME NEW table \in Seq(Entries), NEW n \in DOMAIN FormatBuild(table)
  PROVE  /\ n \in Nat \ {0} /\ FormatBuild(table)[n].from \in DOMAIN table
         /\ Lists(FormatBuild(table)[n], table[FormatBuild(table)[n].from])
<1> DEFINE made == {FillRange(table, i) : i \in DOMAIN table}
           part == [i \in DOMAIN table |->
                      IF PixelToMedia(table[i].pix) = NoMedia THEN <<>> ELSE <<FillRange(table, i)>>]
<1>1. FormatBuild(table) = Joined(part, Len(table))
  BY DEF FormatBuild
<1>2. DOMAIN table = 1..Len(table) /\ Len(table) \in Nat
  OBVIOUS
<1>3. \A i \in 1..Len(table) : part[i] \in Seq(made)
  <2> TAKE i \in 1..Len(table)
  <2> DEFINE r == FillRange(table, i)
  <2>1. r \in made
    BY <1>2
  <2>2. part[i] = IF PixelToMedia(table[i].pix) = NoMedia THEN <<>> ELSE <<r>>
    BY <1>2
  <2> HIDE DEF r, made, part
  <2> QED
    BY <2>1, <2>2
<1> HIDE DEF part, made
<1>4. FormatBuild(table) \in Seq(made)
  BY <1>1, <1>2, <1>3, JoinedMembers
<1>5. n \in Nat \ {0} /\ FormatBuild(table)[n] \in made
  BY <1>4
<1>6. PICK i \in DOMAIN table : FormatBuild(table)[n] = FillRange(table, i)
  BY <1>5 DEF made
<1> QED
  BY <1>5, <1>6, FilledRange

(* The first member, or none.                                                *)
LEMMA FirstOf ==
  ASSUME NEW S, S \subseteq Nat \ {0}
  PROVE  IF S = {} THEN First(S) = 0 ELSE First(S) \in S
<1>1. CASE S = {}
  BY <1>1 DEF First
<1>2. CASE S # {}
  <2>1. S \in SUBSET Nat
    OBVIOUS
  <2> QED
    BY <1>2, <2>1, LeastMember DEF First
<1> QED
  BY <1>1, <1>2

(* A lookup that succeeds names a range.                                     *)
LEMMA RangeFound ==
  ASSUME NEW ranges, DOMAIN ranges \subseteq Nat \ {0}, NEW q, FindRange(ranges, q) # 0
  PROVE  FindRange(ranges, q) \in DOMAIN ranges
<1>1. \E S \in SUBSET (DOMAIN ranges) : FindRange(ranges, q) = First(S)
  <2> DEFINE typed == {i \in DOMAIN ranges : q.media \in {NoMedia, ranges[i].media}}
             windowed == {i \in typed : ranges[i].least = q.least /\ ranges[i].most = q.most}
             timely == {i \in typed : RangeIntervalOk(ranges[i], q.interval)}
             preferred == {i \in timely \ windowed :
                             q.w > 0 /\ q.h > 0 /\ RangeDefaultSizeIs(ranges[i], q.w, q.h)}
             fits(i) == /\ q.most[1] # 0 => /\ ranges[i].size[1] <= q.most[1]
                                            /\ ranges[i].size[2] <= q.most[2]
                        /\ q.least[1] # 0 => /\ ranges[i].size[1] >= q.least[1]
                                             /\ ranges[i].size[2] >= q.least[2]
             fallback == {i \in typed \ windowed : fits(i)}
  <2>1. FindRange(ranges, q) =
          IF ~q.video THEN First(typed)
          ELSE IF windowed \cap timely # {} THEN First(windowed \cap timely)
          ELSE IF preferred # {} THEN First(preferred)
          ELSE IF windowed # {} THEN First(windowed) ELSE First(fallback)
    BY DEF FindRange
  <2>2. typed \subseteq DOMAIN ranges
    OBVIOUS
  <2>3. windowed \subseteq typed /\ timely \subseteq typed /\ fallback \subseteq typed
    <3> HIDE DEF typed, fits
    <3> QED
      OBVIOUS
  <2>4. preferred \subseteq timely
    <3> HIDE DEF timely, windowed
    <3> QED
      OBVIOUS
  <2> HIDE DEF typed, windowed, timely, preferred, fits, fallback
  <2>5. /\ typed \in SUBSET (DOMAIN ranges) /\ windowed \cap timely \in SUBSET (DOMAIN ranges)
        /\ preferred \in SUBSET (DOMAIN ranges) /\ windowed \in SUBSET (DOMAIN ranges)
        /\ fallback \in SUBSET (DOMAIN ranges)
    BY <2>2, <2>3, <2>4
  <2> QED
    BY <2>1, <2>5
<1>2. PICK S \in SUBSET (DOMAIN ranges) : FindRange(ranges, q) = First(S)
  BY <1>1
<1> QED
  BY <1>2, FirstOf

(* A size of the peer's, held to the window and floored to its step, stays   *)
(* in the window and keeps whole quadlets.                                  *)
LEMMA SteppedSize ==
  ASSUME NEW x \in Nat, NEW u \in {4, 8}, NEW most \in Nat, u <= most
  PROVE  LET l == (Clamped(x, u, most) \div u) * u
         IN  l \in u..most /\ l % 4 = 0
<1> DEFINE y == Clamped(x, u, most)
           q == y \div u
<1>1. y \in u..most
  BY DEF Clamped
<1> HIDE DEF y
<1>2. y \in Nat /\ u \in Nat \ {0}
  BY <1>1
<1>3. q \in Int /\ y % u \in 0..(u - 1) /\ y = u * q + (y % u)
  BY <1>2, Quotient
<1> HIDE DEF q
<1>4. CASE u = 4
  <2>1. q * 4 \in 4..most
    BY <1>1, <1>3, <1>4
  <2>2. (q * 4) % 4 = 0
    BY <1>3
  <2> QED
    BY <1>4, <2>1, <2>2 DEF q, y
<1>5. CASE u = 8
  <2>1. q * 8 \in 8..most
    BY <1>1, <1>3, <1>5
  <2>2. (q * 8) % 4 = 0
    BY <1>3
  <2> QED
    BY <1>5, <2>1, <2>2 DEF q, y
<1> QED
  BY <1>4, <1>5

(* A format the range answers with.                                          *)
Answers(f, r) ==
  /\ f.media = r.media
  /\ f.w \in r.least[1]..r.most[1] /\ f.h \in r.least[2]..r.most[2]
  /\ f.w \in Nat \ {0} /\ f.h \in Nat \ {0} /\ f.w % 4 = 0
  /\ f.interval \in Nat \ {0} /\ r.min <= f.interval /\ f.interval <= r.max

(* An interval is clamped into the range.                                    *)
LEMMA IntervalAnswer ==
  ASSUME NEW min \in Nat \ {0}, NEW max \in Nat, min <= max, NEW t \in Nat
  PROVE  Clamped(t, min, max) \in Nat \ {0} /\ min <= Clamped(t, min, max)
         /\ Clamped(t, min, max) <= max
  BY DEF Clamped

(* The sizes of an entry, of either kind.                                    *)
LEMMA WindowFacts ==
  ASSUME NEW e \in Entries
  PROVE  /\ e.w \in Nat \ {0} /\ e.h \in Nat \ {0} /\ e.defw \in Nat \ {0} /\ e.defh \in Nat \ {0}
         /\ e.defw % 4 = 0
         /\ e.f7 => /\ e.uw \in {4, 8} /\ e.uh \in {4, 8}
                    /\ e.defw \in e.uw..e.w /\ e.defh \in e.uh..e.h
                    /\ e.uw <= e.w /\ e.uh <= e.h
         /\ ~e.f7 => e.defw = e.w /\ e.defh = e.h
<1>1. Common(e)
  BY EntryFacts
<1>2. CASE e.f7
  <2>1. e.uw \in {4, 8} /\ e.uh \in {4, 8} /\ e.defw \in e.uw..e.w /\ e.defh \in e.uh..e.h
    BY <1>2, Kinds DEF Scalable
  <2>2. e.w \in Nat /\ e.h \in Nat
    BY <1>1 DEF Common
  <2>3. e.uw <= e.w /\ e.uh <= e.h
    BY <2>1, <2>2
  <2> QED
    BY <1>1, <1>2, <2>1, <2>3 DEF Common
<1>3. CASE ~e.f7
  <2>1. e.defw = e.w /\ e.defh = e.h
    BY <1>3, Kinds DEF Standard
  <2> QED
    BY <1>1, <1>3, <2>1 DEF Common
<1> QED
  BY <1>2, <1>3

(* The size an intersection answers suits the entry it worked on.            *)
LEMMA AnswerSize ==
  ASSUME NEW e \in Entries, NEW r, Lists(r, e), NEW x \in Nat, NEW y \in Nat, NEW sized \in BOOLEAN,
         sized => r.most # r.least
  PROVE  LET length(k, z) == (Clamped(z, r.least[k], r.most[k]) \div r.gran[k]) * r.gran[k]
             w == IF sized THEN length(1, x) ELSE r.size[1]
             h == IF sized THEN length(2, y) ELSE r.size[2]
         IN  /\ w \in r.least[1]..r.most[1] /\ h \in r.least[2]..r.most[2]
             /\ w \in Nat \ {0} /\ h \in Nat \ {0} /\ w % 4 = 0
<1> DEFINE length(k, z) == (Clamped(z, r.least[k], r.most[k]) \div r.gran[k]) * r.gran[k]
           w == IF sized THEN length(1, x) ELSE r.size[1]
           h == IF sized THEN length(2, y) ELSE r.size[2]
           Goal == /\ w \in r.least[1]..r.most[1] /\ h \in r.least[2]..r.most[2]
                   /\ w \in Nat \ {0} /\ h \in Nat \ {0} /\ w % 4 = 0
<1> SUFFICES Goal
  OBVIOUS
<1>1. CASE sized
  <2>1. e.f7
    BY <1>1 DEF Lists
  <2>2. /\ r.least[1] = e.uw /\ r.least[2] = e.uh /\ r.gran[1] = e.uw /\ r.gran[2] = e.uh
        /\ r.most[1] = e.w /\ r.most[2] = e.h
    BY <2>1 DEF Lists
  <2>3. e.uw \in {4, 8} /\ e.uh \in {4, 8} /\ e.uw <= e.w /\ e.uh <= e.h /\ e.w \in Nat /\ e.h \in Nat
    BY <2>1, WindowFacts
  <2> DEFINE uw == e.uw
             uh == e.uh
             mw == e.w
             mh == e.h
             lw == (Clamped(x, uw, mw) \div uw) * uw
             lh == (Clamped(y, uh, mh) \div uh) * uh
  <2>4. w = lw /\ h = lh
    BY <1>1, <2>2
  <2>5. uw \in {4, 8} /\ uh \in {4, 8} /\ uw <= mw /\ uh <= mh /\ mw \in Nat /\ mh \in Nat
    BY <2>3
  <2>6. r.least[1] = uw /\ r.least[2] = uh /\ r.most[1] = mw /\ r.most[2] = mh
    BY <2>2
  <2> HIDE DEF uw, uh, mw, mh, w, h
  <2>7. lw \in uw..mw /\ lw % 4 = 0 /\ lh \in uh..mh
    BY <2>5, SteppedSize
  <2> HIDE DEF lw, lh
  <2>8. lw \in Nat \ {0} /\ lh \in Nat \ {0}
    BY <2>5, <2>7
  <2> QED
    BY <2>4, <2>6, <2>7, <2>8
<1>2. CASE ~sized
  <2>1. w = e.defw /\ h = e.defh
    BY <1>2 DEF Lists
  <2> HIDE DEF w, h
  <2> DEFINE dw == e.defw
             dh == e.defh
             mw == e.w
             mh == e.h
  <2>2. dw \in Nat \ {0} /\ dh \in Nat \ {0} /\ dw % 4 = 0 /\ mw \in Nat /\ mh \in Nat
    BY WindowFacts
  <2>3. CASE e.f7
    <3> DEFINE uw == e.uw
               uh == e.uh
    <3>1. dw \in uw..mw /\ dh \in uh..mh
      BY <2>3, WindowFacts
    <3>2. r.least[1] = uw /\ r.least[2] = uh /\ r.most[1] = mw /\ r.most[2] = mh
      BY <2>3 DEF Lists
    <3> HIDE DEF uw, uh, mw, mh
    <3> QED
      BY <2>1, <2>2, <3>1, <3>2
  <2>4. CASE ~e.f7
    <3>1. dw = mw /\ dh = mh
      BY <2>4, WindowFacts
    <3>2. r.least[1] = mw /\ r.least[2] = mh /\ r.most[1] = mw /\ r.most[2] = mh
      BY <2>4 DEF Lists
    <3>3. dw \in mw..mw /\ dh \in mh..mh
      <4> HIDE DEF dw, dh, mw, mh
      <4> QED
        BY <2>2, <3>1
    <3> HIDE DEF mw, mh
    <3> QED
      BY <2>1, <2>2, <3>2, <3>3
  <2> QED
    BY <2>3, <2>4
<1> QED
  BY <1>1, <1>2

(* The format an intersection answers, and the range it worked on.           *)
LEMMA OfferAnswers ==
  ASSUME NEW ranges, NEW q, q.w \in Nat, q.h \in Nat, q.interval \in Nat, q.video \in BOOLEAN,
         NEW e \in Entries, Lists(ranges[FindRange(ranges, q)], e), FindRange(ranges, q) # 0
  PROVE  Answers(Intersection(ranges, q), ranges[FindRange(ranges, q)])
<1> DEFINE r == ranges[FindRange(ranges, q)]
           f == Intersection(ranges, q)
           sized == q.video /\ r.most # r.least /\ q.w > 0 /\ q.h > 0
           length(k, x) == (Clamped(x, r.least[k], r.most[k]) \div r.gran[k]) * r.gran[k]
           w == IF sized THEN length(1, q.w) ELSE r.size[1]
           h == IF sized THEN length(2, q.h) ELSE r.size[2]
           t == IF q.video /\ q.interval # 0 THEN Clamped(q.interval, r.min, r.max) ELSE r.min
<1>1. f = [media |-> r.media, w |-> w, h |-> h, interval |-> t]
  BY DEF Intersection
<1>2. f.media = r.media /\ f.w = w /\ f.h = h /\ f.interval = t
  BY <1>1
<1> HIDE DEF f, r
<1>3. Lists(r, e)
  BY DEF r
<1>4. sized \in BOOLEAN /\ (sized => r.most # r.least)
  OBVIOUS
<1> HIDE DEF sized
<1>5. /\ w \in r.least[1]..r.most[1] /\ h \in r.least[2]..r.most[2]
      /\ w \in Nat \ {0} /\ h \in Nat \ {0} /\ w % 4 = 0
  BY <1>3, <1>4, AnswerSize
<1> HIDE DEF w, h
<1>6. t \in Nat \ {0} /\ r.min <= t /\ t <= r.max
  <2>1. r.min \in Nat \ {0} /\ r.max \in Nat /\ r.min <= r.max
    BY <1>3, EntryFacts DEF Lists, Common
  <2>2. CASE q.video /\ q.interval # 0
    <3> DEFINE a == q.interval
               lo == r.min
               hi == r.max
    <3>1. a \in Nat /\ lo \in Nat \ {0} /\ hi \in Nat /\ lo <= hi /\ t = Clamped(a, lo, hi)
      BY <2>1, <2>2
    <3> HIDE DEF a, lo, hi, t
    <3>2. t \in Nat \ {0} /\ lo <= t /\ t <= hi
      BY <3>1, IntervalAnswer
    <3> QED
      BY <3>2 DEF lo, hi
  <2>3. CASE ~(q.video /\ q.interval # 0)
    BY <2>1, <2>3
  <2> QED
    BY <2>2, <2>3
<1> HIDE DEF t
<1>7. Answers(f, r)
  BY <1>2, <1>5, <1>6 DEF Answers
<1> QED
  BY <1>7 DEF f, r

LEMMA OfferRange ==
  ASSUME modes \in Seq(Entries), NEW f \in Offers \ {NoFormat}
  PROVE  \E i \in DOMAIN Ranges : Answers(f, Ranges[i])
<1>1. PICK q \in Requests : f = Intersection(Ranges, q)
  BY DEF Offers
<1>2. q.w \in Nat /\ q.h \in Nat /\ q.interval \in Nat /\ q.video \in BOOLEAN
  <2>1. PICK r \in {Ranges[n] : n \in DOMAIN Ranges}, v \in BOOLEAN, z \in Sizes, t \in Intervals :
          q = [media |-> r.media, video |-> v, w |-> z[1], h |-> z[2], interval |-> t,
               least |-> r.least, most |-> r.most]
    BY DEF Requests
  <2>2. q.w = z[1] /\ q.h = z[2] /\ q.interval = t /\ q.video = v
    BY <2>1
  <2>3. z \in Nat \X Nat /\ t \in Nat
    BY SessionAssumption
  <2> QED
    BY <2>2, <2>3
<1> DEFINE i == FindRange(Ranges, q)
<1>3. i # 0
  BY <1>1 DEF Intersection
<1>4. DOMAIN Ranges \subseteq Nat \ {0}
  BY BuiltRanges DEF Ranges
<1>5. i \in DOMAIN Ranges
  BY <1>3, <1>4, RangeFound
<1>6. Ranges[i].from \in DOMAIN modes /\ Lists(Ranges[i], modes[Ranges[i].from])
  <2> HIDE DEF i
  <2> QED
    BY <1>5, BuiltRanges DEF Ranges
<1>7. modes[Ranges[i].from] \in Entries
  <2> HIDE DEF i
  <2> QED
    BY <1>6
<1>8. Answers(f, Ranges[i])
  BY <1>1, <1>2, <1>3, <1>6, <1>7, OfferAnswers
<1> QED
  BY <1>5, <1>8

(* The mode behind an offered format has its size and its interval.          *)
LEMMA OpenFits ==
  ASSUME modes \in Seq(Entries), NEW f \in Offers \ {NoFormat}, NEW x,
         x.mode = FindNegotiatedMode(Ranges, f), x.w = f.w, x.h = f.h,
         x.image = ImageBytes(f.w, f.h, f.media[1]),
         x.interval = IF f.interval = 0 THEN DefaultFrameTime ELSE f.interval, x.rate = 0
  PROVE  x.mode # 0 /\ x.mode \in DOMAIN modes /\ Fit(x, modes[x.mode])
<1> DEFINE covering == {i \in DOMAIN Ranges :
                          /\ Ranges[i].media = f.media
                          /\ f.w \in Ranges[i].least[1]..Ranges[i].most[1]
                          /\ f.h \in Ranges[i].least[2]..Ranges[i].most[2]}
           timely == {i \in covering : RangeIntervalOk(Ranges[i], f.interval)}
           exact == {i \in timely : RangeDefaultSizeIs(Ranges[i], f.w, f.h)}
           choice == IF exact # {} THEN First(exact)
                     ELSE IF timely # {} THEN First(timely) ELSE First(covering)
<1>1. FindNegotiatedMode(Ranges, f) = IF choice = 0 THEN 0 ELSE Ranges[choice].from
  BY DEF FindNegotiatedMode
<1>2. PICK n \in DOMAIN Ranges : Answers(f, Ranges[n])
  BY OfferRange
<1>3. n \in timely
  BY <1>2 DEF Answers, RangeIntervalOk
<1>4. exact \subseteq timely /\ timely \subseteq covering /\ covering \subseteq DOMAIN Ranges
  <2>1. covering \subseteq DOMAIN Ranges
    OBVIOUS
  <2> HIDE DEF covering
  <2>2. timely \subseteq covering
    OBVIOUS
  <2> HIDE DEF timely
  <2> QED
    BY <2>1, <2>2
<1>5. DOMAIN Ranges \subseteq Nat \ {0}
  BY BuiltRanges DEF Ranges
<1>6. choice \in timely /\ choice # 0
  <2> HIDE DEF covering, timely, exact
  <2>1. exact \subseteq Nat \ {0} /\ timely \subseteq Nat \ {0}
    BY <1>4, <1>5
  <2>2. CASE exact # {}
    <3>1. First(exact) \in exact
      BY <2>1, <2>2, FirstOf
    <3> QED
      BY <1>4, <2>1, <2>2, <3>1
  <2>3. CASE exact = {}
    <3>1. First(timely) \in timely
      BY <1>3, <2>1, FirstOf
    <3> QED
      BY <1>3, <2>1, <2>3, <3>1
  <2> QED
    BY <2>2, <2>3
<1> DEFINE r == Ranges[choice]
           e == modes[r.from]
<1>7. choice \in covering /\ choice \in DOMAIN Ranges
  <2> HIDE DEF covering, timely, exact, choice
  <2> QED
    BY <1>4, <1>6
<1>8. /\ r.media = f.media /\ f.w \in r.least[1]..r.most[1] /\ f.h \in r.least[2]..r.most[2]
      /\ RangeIntervalOk(r, f.interval)
  <2> HIDE DEF choice, exact
  <2>1. choice \in timely
    BY <1>6
  <2> QED
    BY <1>7, <2>1
<1> HIDE DEF covering, timely, exact, choice
<1>9. r.from \in DOMAIN modes /\ Lists(r, e) /\ e \in Entries
  BY <1>7, BuiltRanges DEF Ranges
<1>10. x.mode = r.from
  BY <1>1, <1>6
<1>11. /\ x.w \in Nat \ {0} /\ x.h \in Nat \ {0} /\ x.w % 4 = 0
       /\ f.interval \in Nat \ {0} /\ x.interval = f.interval
  BY <1>2 DEF Answers
<1> HIDE DEF r, e
<1>12. Suited(x, e)
  <2>1. x.image = ImageBytes(x.w, x.h, HostBits(e.pix))
    BY <1>8, <1>9 DEF Lists
  <2>2. ~e.f7 => x.w = e.w /\ x.h = e.h
    <3> SUFFICES ASSUME ~e.f7 PROVE x.w = e.w /\ x.h = e.h
      OBVIOUS
    <3>1. r.least[1] = e.w /\ r.least[2] = e.h /\ r.most[1] = e.w /\ r.most[2] = e.h
      BY <1>9 DEF Lists
    <3>2. x.w \in e.w..e.w /\ x.h \in e.h..e.h /\ e.w \in Nat /\ e.h \in Nat
      BY <1>8, <1>9, <3>1, WindowFacts
    <3> DEFINE mw == e.w
               mh == e.h
    <3>3. x.w \in mw..mw /\ x.h \in mh..mh /\ mw \in Nat /\ mh \in Nat
      BY <3>2
    <3> HIDE DEF mw, mh
    <3>4. x.w = mw /\ x.h = mh
      BY <3>3
    <3> QED
      BY <3>4 DEF mw, mh
  <2> QED
    BY <1>11, <2>1, <2>2 DEF Suited
<1>13. e.min <= x.interval /\ x.interval <= e.max
  <2>1. r.min <= f.interval /\ f.interval <= r.max
    BY <1>8, <1>11 DEF RangeIntervalOk
  <2> QED
    BY <1>9, <1>11, <2>1 DEF Lists
<1>14. SizeCovered(x.w, e.uw, e.w, e.f7) /\ SizeCovered(x.h, e.uh, e.h, e.f7)
  <2>1. CASE e.f7
    <3>1. r.least[1] = e.uw /\ r.least[2] = e.uh /\ r.most[1] = e.w /\ r.most[2] = e.h
      BY <1>9, <2>1 DEF Lists
    <3>2. x.w \in e.uw..e.w /\ x.h \in e.uh..e.h
      BY <1>8, <3>1
    <3>3. e.uw \in {4, 8} /\ e.uh \in {4, 8} /\ e.w \in Nat /\ e.h \in Nat
      BY <1>9, <2>1, WindowFacts
    <3> DEFINE uw == e.uw
               uh == e.uh
               mw == e.w
               mh == e.h
    <3>4. /\ x.w \in uw..mw /\ x.h \in uh..mh
          /\ uw \in Nat /\ uh \in Nat /\ mw \in Nat /\ mh \in Nat
      BY <3>2, <3>3
    <3> HIDE DEF uw, uh, mw, mh
    <3>5. uw <= x.w /\ x.w <= mw /\ uh <= x.h /\ x.h <= mh
      BY <3>4
    <3> QED
      BY <2>1, <3>5 DEF SizeCovered, uw, uh, mw, mh
  <2>2. CASE ~e.f7
    BY <1>12, <2>2 DEF Suited, SizeCovered
  <2> QED
    BY <2>1, <2>2
<1>15. Fit(x, e)
  BY <1>11, <1>12, <1>13, <1>14 DEF Fit, Admits
<1>16. x.mode # 0
  BY <1>5, <1>9, <1>10
<1> QED
  BY <1>9, <1>10, <1>15, <1>16 DEF e

----------------------------------------------------------------------------
(* The selections of the IOCTL client.                                      *)

(* The current mode is one the selection names.                              *)
LEMMA CurrentSelected ==
  ASSUME NEW table \in Seq(Entries), NEW c, NEW i \in CurrentModes(c, table) \ {0}
  PROVE  i \in Selected(c, table) /\ i \in DOMAIN table
<1> DEFINE at == Selected(c, table)
           coded == {j \in at : table[j].f7 /\ table[j].pix = c.f7[c.mode].coding}
<1>1. at \subseteq DOMAIN table /\ DOMAIN table \subseteq Nat \ {0}
  BY DEF Selected
<1>2. coded \subseteq at
  <2> HIDE DEF at
  <2> QED
    OBVIOUS
<1>3. (i = First(coded) /\ coded # {}) \/ i = First(at)
  BY DEF CurrentModes
<1> HIDE DEF at, coded
<1>4. i \in at
  <2>1. CASE i = First(coded) /\ coded # {}
    BY <1>1, <1>2, <2>1, FirstOf
  <2>2. CASE i = First(at)
    BY <1>1, <2>2, FirstOf
  <2> QED
    BY <1>3, <2>1, <2>2
<1> QED
  BY <1>1, <1>4 DEF at

(* Setting a pixel format ends on an entry of the table, or fails.           *)
LEMMA FormatPicked ==
  ASSUME NEW table \in Seq(Entries), NEW c, Registers(c), NEW pix,
         NEW o \in SelectPixelFormat(c, table, pix)
  PROVE  Registers(o.cam) /\ o.ok \in BOOLEAN /\ (o.ok => On(o.cam, table))
<1> DEFINE coded == {i \in DOMAIN table : table[i].pix = pix}
           j == First(coded)
           e == table[j]
           a == WriteFormat(c, e.fmt)
           b == WriteMode(a, e.mode)
           d == WriteCoding(b, e.mode, pix)
           S == {c, a, b, d}
<1>1. coded # {} /\ o \in Writes(IF e.f7 THEN <<c, a, b, d>> ELSE <<c, a, b>>)
  BY DEF SelectPixelFormat
<1>2. j \in DOMAIN table /\ e \in Entries
  <2>1. coded \subseteq DOMAIN table /\ DOMAIN table \subseteq Nat \ {0}
    OBVIOUS
  <2> HIDE DEF coded
  <2>2. j \in coded
    BY <1>1, <2>1, FirstOf
  <2> HIDE DEF j
  <2> QED
    BY <2>1, <2>2
<1> HIDE DEF coded, j
<1>3. Registers(a) /\ a.fmt = e.fmt
  BY SelectionWrites
<1> HIDE DEF a
<1>4. Registers(b) /\ b.fmt = e.fmt /\ b.mode = e.mode
  BY <1>3, SelectionWrites
<1> HIDE DEF b
<1>5. On(b, table)
  BY <1>2, <1>4 DEF On
<1>6. CASE e.f7
  <2>1. e.mode \in F7Modes
    BY <1>2, <1>6, Kinds DEF Scalable
  <2>2. Registers(d) /\ d.fmt = b.fmt /\ d.mode = b.mode
    <3> DEFINE m == e.mode
    <3>1. m \in F7Modes
      BY <2>1
    <3> HIDE DEF m, e
    <3>2. Framed(b, WriteCoding(b, m, pix))
      BY <1>4, <3>1, RecodeWrite
    <3> QED
      BY <3>2 DEF Framed, m
  <2> HIDE DEF d, e
  <2>3. On(d, table)
    BY <1>5, <2>2 DEF On
  <2>4. /\ <<c, a, b, d>> \in Seq(S) /\ <<c, a, b, d>> # <<>> /\ Len(<<c, a, b, d>>) = 4
        /\ <<c, a, b, d>>[4] = d
    OBVIOUS
  <2>5. o.cam \in S /\ o.ok \in BOOLEAN /\ (o.ok => o.cam = d)
    BY <1>1, <1>6, <2>4, OutcomesShape
  <2> QED
    BY <1>3, <1>4, <2>2, <2>3, <2>5
<1>7. CASE ~e.f7
  <2> DEFINE T == {c, a, b}
  <2>1. /\ <<c, a, b>> \in Seq(T) /\ <<c, a, b>> # <<>> /\ Len(<<c, a, b>>) = 3
        /\ <<c, a, b>>[3] = b
    OBVIOUS
  <2>2. o \in Writes(<<c, a, b>>)
    BY <1>1, <1>7
  <2>3. o.cam \in T /\ o.ok \in BOOLEAN /\ (o.ok => o.cam = b)
    BY <2>1, <2>2, OutcomesShape
  <2> QED
    BY <1>3, <1>4, <1>5, <2>3
<1> QED
  BY <1>6, <1>7

(* An index names a rate of the set.                                         *)
LEMMA IndexedRate ==
  ASSUME NEW rates, NEW index, RateFromIndex(rates, index) # NoRate
  PROVE  RateFromIndex(rates, index) \in rates /\ RateFromIndex(rates, index) \in Rates
<1> DEFINE at == {r \in rates \cap Rates : Cardinality({q \in rates : q < r}) = index}
<1>1. at # {} /\ RateFromIndex(rates, index) = Least(at)
  BY DEF RateFromIndex
<1>2. at \subseteq rates /\ at \subseteq Rates /\ at \in SUBSET Nat
  BY DEF Rates
<1> HIDE DEF at
<1>3. Least(at) \in at
  BY <1>1, <1>2, LeastMember
<1> QED
  BY <1>1, <1>2, <1>3

(* The rate reported to the client is the one in the register, of a mode     *)
(* that has it.                                                              *)
LEMMA RateSet ==
  ASSUME NEW table \in Seq(Entries), NEW c, Registers(c),
         NEW i \in CurrentModes(c, table) \ {0}, NEW index,
         NEW o \in SetFrameRate(c, table[i], index)
  PROVE  LET t == IF o.ok /\ ~table[i].f7 THEN EnumFrameRate(table[i], index) ELSE 0
         IN  /\ Registers(o.cam) /\ o.cam.fmt = c.fmt /\ o.cam.mode = c.mode
             /\ Rated(o.cam, t, table)
<1> DEFINE e == table[i]
           r == RateFromIndex(e.rates, index)
           d == WriteRate(c, r)
           t == IF o.ok /\ ~e.f7 THEN EnumFrameRate(e, index) ELSE 0
<1>1. i \in Selected(c, table) /\ i \in DOMAIN table /\ e \in Entries
  <2>1. i \in Selected(c, table) /\ i \in DOMAIN table
    BY CurrentSelected
  <2> QED
    BY <2>1
<1>2. e.fmt = c.fmt /\ e.mode = c.mode
  BY <1>1 DEF Selected
<1> SUFFICES Registers(o.cam) /\ o.cam.fmt = c.fmt /\ o.cam.mode = c.mode /\ Rated(o.cam, t, table)
  OBVIOUS
<1>3. CASE e.f7
  <2>1. o.cam = c
    BY <1>3 DEF SetFrameRate
  <2>2. t = 0
    BY <1>3
  <2> QED
    BY <2>1, <2>2 DEF Rated
<1>4. CASE ~e.f7
  <2>1. r # NoRate /\ o \in Writes(<<c, d>>)
    BY <1>4 DEF SetFrameRate
  <2>2. r \in e.rates /\ r \in Rates
    <3> HIDE DEF e
    <3> QED
      BY <2>1, IndexedRate
  <2>3. Registers(d) /\ d.fmt = c.fmt /\ d.mode = c.mode /\ d.rate = r
    <3> HIDE DEF r
    <3> QED
      BY <2>2, SelectionWrites
  <2>4. EnumFrameRate(e, index) = RateInterval[r]
    BY <1>4, <2>1 DEF EnumFrameRate
  <2> HIDE DEF r, d
  <2>5. o.cam \in {c, d} /\ (o.ok => o.cam = d)
    <3> DEFINE T == {c, d}
    <3>1. /\ <<c, d>> \in Seq(T) /\ <<c, d>> # <<>> /\ Len(<<c, d>>) = 2 /\ <<c, d>>[2] = d
      OBVIOUS
    <3> QED
      BY <2>1, <3>1, OutcomesShape
  <2>6. Registers(o.cam) /\ o.cam.fmt = c.fmt /\ o.cam.mode = c.mode
    BY <2>3, <2>5
  <2>7. CASE o.ok
    <3>1. o.cam.rate = r /\ t = RateInterval[r]
      BY <1>4, <2>3, <2>4, <2>5, <2>7
    <3>2. ASSUME NEW k \in Selected(o.cam, table)
          PROVE  ~table[k].f7 /\ o.cam.rate \in table[k].rates
      <4>1. k \in DOMAIN table /\ table[k].fmt = e.fmt /\ table[k].mode = e.mode
        BY <1>2, <2>6, <3>2 DEF Selected
      <4>2. table[k] \in Entries
        BY <4>1
      <4>3. table[k].f7 = e.f7 /\ table[k].rates = e.rates
        <5> HIDE DEF e
        <5> QED
          BY <1>1, <1>4, <4>1, <4>2, SameSelection
      <4> QED
        BY <1>4, <2>2, <3>1, <4>3
    <3> HIDE DEF t
    <3> QED
      BY <2>6, <3>1, <3>2 DEF Rated
  <2>8. CASE ~o.ok
    <3>1. t = 0
      BY <2>8
    <3> QED
      BY <2>6, <3>1 DEF Rated
  <2> QED
    BY <2>7, <2>8
<1> QED
  BY <1>3, <1>4

(* A prepared session suits the current mode.                                *)
LEMMA PreparedFits ==
  ASSUME Ready, Asked, NEW i \in CurrentModes(cam, modes) \ {0}, HostBits(modes[i].pix) # 0,
         NEW t \in FrameRates(cam, modes)
  PROVE  /\ Fields(Prepared(i, t)) /\ Prepared(i, t).owner = "ioctl" /\ Prepared(i, t).mode = i
         /\ ~Prepared(i, t).run /\ i \in DOMAIN modes /\ Fit(Prepared(i, t), modes[i])
<1> DEFINE e == modes[i]
           x == Prepared(i, t)
           interval == IF t = 0 THEN e.min ELSE t
           rate == IF t = 0 \/ e.f7 THEN 0 ELSE asked
           image == ImageBytes(e.defw, e.defh, HostBits(e.pix))
<1>1. modes \in Seq(Entries) /\ cam.rate \in Rates
  BY DEF Ready, Registers
<1>2. i \in Selected(cam, modes) /\ i \in DOMAIN modes /\ e \in Entries
  <2>1. i \in Selected(cam, modes) /\ i \in DOMAIN modes
    BY <1>1, CurrentSelected
  <2> QED
    BY <1>1, <2>1
<1> HIDE DEF e
<1>3. /\ Fields(x) /\ x.owner = "ioctl" /\ x.mode = i /\ x.run = FALSE /\ x.w = e.defw
      /\ x.h = e.defh /\ x.image = image /\ x.interval = interval /\ x.rate = rate
  BY DEF Prepared, NoSession, Fields, e
<1> HIDE DEF x
<1>4. RateInterval[cam.rate] \in Nat \ {0}
  BY <1>1, GeometryAssumption
<1>5. e.min \in Nat
  BY <1>2, EntryFacts DEF Common
<1>6. t = 0 \/ \E j \in CurrentModes(cam, modes) \ {0} : t = FrameInterval(cam, modes, j)
  BY DEF FrameRates
<1>7. t = 0 \/ (t \in Nat /\ (~e.f7 => t = RateInterval[cam.rate]))
  <2> SUFFICES ASSUME NEW j \in CurrentModes(cam, modes) \ {0}, t = FrameInterval(cam, modes, j)
               PROVE  t \in Nat /\ (~e.f7 => t = RateInterval[cam.rate])
    BY <1>6
  <2> DEFINE d == modes[j]
  <2>1. j \in Selected(cam, modes) /\ j \in DOMAIN modes
    BY <1>1, CurrentSelected
  <2>2. d \in Entries /\ d.fmt = e.fmt /\ d.mode = e.mode
    BY <1>1, <1>2, <2>1 DEF Selected, e
  <2>3. t = IF d.f7 THEN d.min ELSE RateInterval[cam.rate]
    BY DEF FrameInterval
  <2> HIDE DEF d
  <2>4. d.f7 = e.f7 /\ d.min \in Nat
    BY <1>2, <2>2, SameSelection, EntryFacts DEF Common
  <2> QED
    BY <1>4, <2>3, <2>4
<1>8. interval \in Nat
  BY <1>5, <1>7
<1>9. rate # 0 => ~e.f7 /\ \E r \in e.rates : RateInterval[r] = rate /\ interval = rate
  <2> SUFFICES ASSUME rate # 0
               PROVE  ~e.f7 /\ \E r \in e.rates : RateInterval[r] = rate /\ interval = rate
    OBVIOUS
  <2>1. t # 0 /\ ~e.f7 /\ rate = asked /\ interval = t
    OBVIOUS
  <2>2. asked = RateInterval[cam.rate] /\ cam.rate \in e.rates
    BY <1>2, <2>1 DEF Asked, Rated, e
  <2> QED
    BY <1>7, <2>1, <2>2
<1> HIDE DEF interval, rate, image
<1>10. Suited(x, e)
  <2>1. e.defw \in Nat \ {0} /\ e.defh \in Nat \ {0} /\ e.defw % 4 = 0
        /\ (~e.f7 => e.defw = e.w /\ e.defh = e.h)
    BY <1>2, WindowFacts
  <2> QED
    BY <1>3, <1>8, <2>1 DEF Suited, image
<1>11. Fit(x, e)
  BY <1>3, <1>9, <1>10 DEF Fit
<1> QED
  BY <1>2, <1>3, <1>11 DEF x, e

(* A selection survives what leaves the selection registers alone.           *)
LEMMA SameSelected ==
  ASSUME NEW c, NEW d, d.fmt = c.fmt, d.mode = c.mode, NEW table
  PROVE  /\ Selected(d, table) = Selected(c, table) /\ On(d, table) = On(c, table)
         /\ \A t : d.rate = c.rate => Rated(d, t, table) = Rated(c, t, table)
  BY DEF Selected, On, Rated

(* The sessions the actions write.                                           *)
LEMMA NoSessionFields == Fields(NoSession) /\ NoSession.owner = "none" /\ ~NoSession.run
  BY DEF Fields, NoSession

LEMMA StoppedFields ==
  ASSUME NEW x, Fields(x)
  PROVE  /\ Fields(Stopped(x)) /\ ~Stopped(x).run /\ Stopped(x).owner = x.owner
         /\ Stopped(x).mode = x.mode /\ Stopped(x).interval = x.interval
         /\ \A e : Fit(x, e) => Fit(Stopped(x), e)
<1> DEFINE y == Stopped(x)
<1>1. /\ Fields(y) /\ ~y.run /\ y.owner = x.owner /\ y.mode = x.mode /\ y.w = x.w /\ y.h = x.h
      /\ y.image = x.image /\ y.interval = x.interval /\ y.rate = x.rate
  BY DEF Stopped, Fields
<1> HIDE DEF y
<1>2. \A e : Fit(x, e) => Fit(y, e)
  BY <1>1 DEF Fit, Admits, Suited
<1> QED
  BY <1>1, <1>2 DEF y

(* While the camera is touched only in its context, and the session goes on  *)
(* or only stops, nothing is lost.                                          *)
LEMMA ContextStep ==
  ASSUME IInv, Still(cam, cam'), UNCHANGED <<dev, speed, modes, sure, asked, nak>>,
         \/ s' = s
         \/ s' = Stopped(s)
         \/ s' = NoSession
         \/ /\ Fields(s') /\ s'.run = s.run /\ s'.owner = s.owner /\ s'.mode = s.mode
            /\ s'.w = s.w /\ s'.h = s.h /\ s'.image = s.image /\ s'.interval = s.interval
            /\ s'.rate = s.rate /\ s'.pkt = s.pkt /\ s'.clean = s.clean /\ s'.channel = s.channel
  PROVE  IInv'
<1> DEFINE kept == /\ Fields(s') /\ s'.run = s.run /\ s'.owner = s.owner /\ s'.mode = s.mode
                   /\ s'.w = s.w /\ s'.h = s.h /\ s'.image = s.image /\ s'.interval = s.interval
                   /\ s'.rate = s.rate /\ s'.pkt = s.pkt /\ s'.clean = s.clean /\ s'.channel = s.channel
<1>1. /\ Registers(cam') /\ cam'.fmt = cam.fmt /\ cam'.mode = cam.mode /\ cam'.rate = cam.rate
      /\ cam'.f7 = cam.f7 /\ cam'.channel = cam.channel /\ cam'.speed = cam.speed
      /\ (Latched(cam) => Latched(cam'))
  BY DEF Still
<1>2. Ready'
  BY <1>1 DEF IInv, Ready
<1>3. Placed' /\ Asked'
  BY <1>1, SameSelected DEF IInv, Placed, Asked
<1>4. kept \/ (s' = Stopped(s)) \/ (s' = NoSession)
  <2>1. CASE s' = s
    BY <2>1 DEF IInv
  <2> QED
    BY <2>1
<1>5. CASE kept
  <2>1. Unclaimed' /\ Fields(s')
    BY <1>5 DEF IInv, Unclaimed, Active
  <2>2. Fitted'
    <3>1. \A e : Fit(s, e) => Fit(s', e)
      BY <1>5 DEF Fit, Admits, Suited
    <3> QED
      BY <1>5, <3>1 DEF IInv, Fitted, Active
  <2>3. Running'
    <3> SUFFICES ASSUME s'.run PROVE dev' = "up" /\ Active' /\ s'.mode # 0
                                     /\ Set(cam', s', modes'[s'.mode], speed')
      BY DEF Running
    <3>1. s.run
      BY <1>5
    <3>2. dev = "up" /\ Active /\ s.mode # 0 /\ Set(cam, s, modes[s.mode], speed)
      BY <3>1 DEF IInv, Running
    <3> DEFINE e == modes[s.mode]
               pkt == s.pkt
    <3>3. /\ Configured(cam, pkt, e, s) => Configured(cam', pkt, e, s')
          /\ Carried(pkt, s, speed) => Carried(pkt, s', speed)
          /\ Nominal(pkt, e, s, speed) => Nominal(pkt, e, s', speed)
      <4> HIDE DEF e, pkt
      <4> QED
        BY <1>1, <1>5, StillConfigured
    <3>4. Set(cam', s', e, speed)
      BY <1>1, <1>5, <3>2, <3>3 DEF Set
    <3> QED
      BY <1>5, <3>2, <3>4 DEF Active
  <2> QED
    BY <1>2, <1>3, <2>1, <2>2, <2>3 DEF IInv
<1>6. CASE s' = Stopped(s)
  <2>1. /\ Fields(s') /\ ~s'.run /\ s'.owner = s.owner /\ s'.mode = s.mode
        /\ s'.interval = s.interval /\ \A e : Fit(s, e) => Fit(s', e)
    BY <1>6, StoppedFields DEF IInv
  <2>2. Unclaimed' /\ Fitted' /\ Running'
    BY <2>1 DEF IInv, Unclaimed, Active, Fitted, Running
  <2> QED
    BY <1>2, <1>3, <2>1, <2>2 DEF IInv
<1>7. CASE s' = NoSession
  <2>1. Unclaimed' /\ Fitted' /\ Running' /\ Fields(s')
    BY <1>7, NoSessionFields DEF IInv, Unclaimed, Active, Fitted, Running
  <2> QED
    BY <1>2, <1>3, <2>1 DEF IInv
<1> QED
  BY <1>4, <1>5, <1>6, <1>7

----------------------------------------------------------------------------
(* The invariant holds initially and through every action.                   *)

(* A camera just powered has the registers of its reset.                     *)
LEMMA PoweredUp == Registers(PowerUp)
<1>1. PowerUp.f7 = F7Reset /\ PowerUp.iso = NoIso /\ PowerUp.rate \in Rates /\ Camera(PowerUp)
  BY DEF PowerUp, Rates, Camera
<1>2. Windowed(F7Reset) /\ Context(NoIso)
  BY DEF F7Reset, Windowed, Context, NoIso
<1> QED
  BY <1>1, <1>2 DEF Registers

(* Initially there is no device and no session.                              *)
LEMMA InitIInv == Init => IInv
<1> SUFFICES ASSUME Init PROVE IInv
  OBVIOUS
<1>1. Ready
  BY PoweredUp DEF Init, Ready
<1>2. Fields(s) /\ s.owner = "none" /\ ~Active /\ ~s.run /\ asked = 0 /\ dev = "none"
  BY NoSessionFields DEF Init, Active
<1> QED
  BY <1>1, <1>2 DEF IInv, Placed, Unclaimed, Asked, Rated, Fitted, Running

(* One lemma for each action, from here to EnableLater.                      *)
LEMMA InitializeStep == IInv /\ InitializeDevice => IInv'
<1> SUFFICES ASSUME IInv, InitializeDevice PROVE IInv'
  OBVIOUS
<1>1. PICK o \in BringUpDevice(cam) : cam' = o.cam /\ modes' = o.modes /\ sure' = o.sure
  BY DEF InitializeDevice
<1>2. /\ dev = "none" /\ dev' = "up" /\ speed' \in 0..2 /\ asked' = 0 /\ s' = s /\ nak' = nak
  BY SessionAssumption DEF InitializeDevice
<1>3. ~Active /\ ~s.run
  BY <1>2 DEF IInv, Unclaimed, Running
<1>4. /\ Registers(cam') /\ modes' \in Seq(Entries)
      /\ sure' /\ modes' # <<>> => On(cam', modes')
  BY <1>1, BringUpShape DEF IInv, Ready, Apart
<1>5. Ready' /\ Placed'
  BY <1>2, <1>4 DEF IInv, Ready, Placed
<1>6. Fields(s') /\ Unclaimed' /\ Asked' /\ Fitted' /\ Running'
  BY <1>2, <1>3 DEF IInv, Unclaimed, Asked, Rated, Fitted, Running, Active
<1> QED
  BY <1>5, <1>6 DEF IInv

LEMMA SurpriseStep == IInv /\ SurpriseRemoval => IInv'
<1> SUFFICES ASSUME IInv, SurpriseRemoval PROVE IInv'
  OBVIOUS
<1>1. /\ dev' = "removed" /\ s' = Stopped(s) /\ cam' = cam /\ speed' = speed /\ modes' = modes
      /\ asked' = asked /\ nak' = nak
  BY DEF SurpriseRemoval
<1>2. /\ Fields(s') /\ ~s'.run /\ s'.owner = s.owner /\ s'.mode = s.mode
      /\ s'.interval = s.interval /\ \A e : Fit(s, e) => Fit(s', e)
  BY <1>1, StoppedFields DEF IInv
<1> QED
  BY <1>1, <1>2 DEF IInv, Ready, Placed, Unclaimed, Asked, Fitted, Running, Active

LEMMA UninitializeStep == IInv /\ UninitializeDevice => IInv'
<1> SUFFICES ASSUME IInv, UninitializeDevice PROVE IInv'
  OBVIOUS
<1>1. PICK o \in Kernels : cam' \in Silenced(o)
  BY DEF UninitializeDevice
<1>2. /\ dev' = "none" /\ modes' = <<>> /\ s' = NoSession /\ asked' = 0 /\ speed' = speed
      /\ nak' = nak
  BY DEF UninitializeDevice
<1>3. Registers(cam')
  BY <1>1, SilencedStill DEF IInv, Ready, Still
<1>4. Ready'
  BY <1>2, <1>3 DEF IInv, Ready
<1> QED
  BY <1>2, <1>4, NoSessionFields
  DEF IInv, Placed, Unclaimed, Asked, Rated, Fitted, Running, Active

LEMMA PowerStep == IInv /\ PowerCycle => IInv'
<1> SUFFICES ASSUME IInv, PowerCycle PROVE IInv'
  OBVIOUS
<1>1. /\ dev = "none" /\ cam' = PowerUp /\ dev' = dev /\ speed' = speed /\ modes' = modes /\ s' = s
      /\ asked' = asked /\ nak' = nak
  BY DEF PowerCycle
<1>2. ~Active /\ ~s.run /\ asked = 0
  BY <1>1 DEF IInv, Unclaimed, Running
<1>3. Ready'
  BY <1>1, PoweredUp DEF IInv, Ready
<1> QED
  BY <1>1, <1>2, <1>3 DEF IInv, Placed, Unclaimed, Asked, Rated, Fitted, Running, Active

LEMMA PixelStep == ASSUME NEW pix PROVE IInv /\ SetPixelFormat(pix) => IInv'
<1> SUFFICES ASSUME IInv, SetPixelFormat(pix) PROVE IInv'
  OBVIOUS
<1>1. PICK o \in SelectPixelFormat(cam, modes, pix) : cam' = o.cam /\ sure' = o.ok
  BY DEF SetPixelFormat
<1>2. /\ dev = "up" /\ ~Active /\ asked' = 0 /\ dev' = dev /\ speed' = speed /\ modes' = modes
      /\ s' = s /\ nak' = nak
  BY DEF SetPixelFormat, Selectable
<1>3. Registers(cam') /\ (sure' => On(cam', modes))
  BY <1>1, FormatPicked DEF IInv, Ready
<1>4. Ready' /\ Placed'
  BY <1>2, <1>3 DEF IInv, Ready, Placed
<1>5. Fields(s') /\ Unclaimed' /\ Asked' /\ Fitted' /\ Running'
  BY <1>2 DEF IInv, Unclaimed, Asked, Rated, Fitted, Running, Active
<1> QED
  BY <1>4, <1>5 DEF IInv

LEMMA RateStep == ASSUME NEW index PROVE IInv /\ SetRate(index) => IInv'
<1> SUFFICES ASSUME IInv, SetRate(index) PROVE IInv'
  OBVIOUS
<1>0. PICK i \in CurrentModes(cam, modes) \ {0} :
        \E o \in SetFrameRate(cam, modes[i], index) :
          /\ cam' = o.cam
          /\ asked' = IF o.ok /\ ~modes[i].f7 THEN EnumFrameRate(modes[i], index) ELSE 0
  BY DEF SetRate
<1>1. PICK o \in SetFrameRate(cam, modes[i], index) :
        /\ cam' = o.cam
        /\ asked' = IF o.ok /\ ~modes[i].f7 THEN EnumFrameRate(modes[i], index) ELSE 0
  BY <1>0
<1>2. /\ dev = "up" /\ ~Active /\ dev' = dev /\ speed' = speed /\ modes' = modes
      /\ s' = s /\ nak' = nak /\ sure' = sure
  BY DEF SetRate, Selectable
<1>3. modes \in Seq(Entries) /\ Registers(cam)
  BY DEF IInv, Ready
<1>4. /\ Registers(cam') /\ cam'.fmt = cam.fmt /\ cam'.mode = cam.mode
      /\ Rated(cam', asked', modes)
  BY <1>1, <1>3, RateSet
<1>5. Ready' /\ Placed' /\ Asked'
  BY <1>2, <1>4, SameSelected DEF IInv, Ready, Placed, Asked
<1>6. Fields(s') /\ Unclaimed' /\ Fitted' /\ Running'
  BY <1>2 DEF IInv, Unclaimed, Fitted, Running, Active
<1> QED
  BY <1>5, <1>6 DEF IInv

(* A claim of the camera writes nothing.                                     *)
LEMMA ClaimStep ==
  ASSUME IInv, dev = "up", UNCHANGED <<cam, dev, speed, modes, sure, asked, nak>>,
         Fields(s'), ~s'.run, Fitted'
  PROVE  IInv'
  BY DEF IInv, Ready, Placed, Unclaimed, Asked, Running

LEMMA OpenStep == IInv /\ OpenStream => IInv'
<1> SUFFICES ASSUME IInv, OpenStream PROVE IInv'
  OBVIOUS
<1>1. dev = "up" /\ UNCHANGED <<cam, dev, speed, modes, sure, asked, nak>>
  BY DEF OpenStream
<1>2. PICK f \in Offers \ {NoFormat} : s' = Opened(f)
  BY DEF OpenStream
<1>3. /\ Fields(s') /\ ~s'.run /\ s'.mode = FindNegotiatedMode(Ranges, f) /\ s'.w = f.w
      /\ s'.h = f.h /\ s'.image = ImageBytes(f.w, f.h, f.media[1])
      /\ s'.interval = (IF f.interval = 0 THEN DefaultFrameTime ELSE f.interval) /\ s'.rate = 0
  BY <1>2 DEF Opened, NoSession, Fields
<1>4. s'.mode # 0 /\ s'.mode \in DOMAIN modes /\ Fit(s', modes[s'.mode])
  BY <1>3, OpenFits DEF IInv, Ready
<1>5. Fitted'
  BY <1>1, <1>4 DEF Fitted
<1> QED
  BY <1>1, <1>3, <1>5, ClaimStep

LEMMA IdleStep == IInv /\ OpenIdle => IInv'
<1> SUFFICES ASSUME IInv, OpenIdle PROVE IInv'
  OBVIOUS
<1>1. dev = "up" /\ UNCHANGED <<cam, dev, speed, modes, sure, asked, nak>>
  BY DEF OpenIdle
<1>2. Fields(s') /\ ~s'.run /\ s'.mode = 0 /\ s'.interval = 0
  BY DEF OpenIdle, NoSession, Fields
<1> QED
  BY <1>1, <1>2, ClaimStep DEF Fitted

LEMMA PrepareStep == IInv /\ Prepare => IInv'
<1> SUFFICES ASSUME IInv, Prepare PROVE IInv'
  OBVIOUS
<1>1. dev = "up" /\ UNCHANGED <<cam, dev, speed, modes, sure, asked, nak>>
  BY DEF Prepare
<1>2. PICK i \in CurrentModes(cam, modes), t \in FrameRates(cam, modes) :
        s' = IF i = 0 \/ HostBits(modes[i].pix) = 0 THEN NoSession ELSE Prepared(i, t)
  BY DEF Prepare
<1>3. CASE s' = NoSession
  BY <1>1, <1>3, NoSessionFields, ClaimStep DEF Fitted, Active
<1>4. CASE i # 0 /\ HostBits(modes[i].pix) # 0 /\ s' = Prepared(i, t)
  <2>1. /\ Fields(s') /\ s'.owner = "ioctl" /\ s'.mode = i /\ ~s'.run
        /\ i \in DOMAIN modes /\ Fit(s', modes[i])
    BY <1>4, PreparedFits DEF IInv
  <2>2. Fitted'
    BY <1>1, <2>1 DEF Fitted
  <2> QED
    BY <1>1, <2>1, <2>2, ClaimStep
<1> QED
  BY <1>2, <1>3, <1>4

(* Every configuration a start tries.                                        *)
LEMMA StartSettled ==
  ASSUME IInv, Active, s.mode # 0, NEW g \in ConfigureStream(cam, modes[s.mode], s, speed)
  PROVE  /\ s.mode \in DOMAIN modes /\ modes[s.mode] \in Entries /\ Fit(s, modes[s.mode])
         /\ Settled(cam, g, modes[s.mode], s, speed)
         /\ g.ok => On(g.cam, modes)
<1> DEFINE e == modes[s.mode]
<1>1. s.mode \in DOMAIN modes /\ e \in Entries /\ Fit(s, e)
  BY DEF IInv, Ready, Fitted
<1>2. Settled(cam, g, e, s, speed)
  <2> HIDE DEF e
  <2>1. g \in ConfigureStream(cam, e, s, speed)
    BY DEF e
  <2> QED
    BY <1>1, <2>1, StreamConfigured DEF IInv, Ready, Fit
<1>3. g.ok => On(g.cam, modes)
  BY <1>1, <1>2 DEF Settled, Configured, On
<1> QED
  BY <1>1, <1>2, <1>3

(* The fields a start writes, before and after the configuration.            *)
LEMMA ChosenFields ==
  ASSUME NEW oneshot, NEW ring, Fields(s)
  PROVE  LET x == Chosen(oneshot, ring)
         IN  /\ Fields(x) /\ x.owner = s.owner /\ x.mode = s.mode /\ x.run = s.run /\ x.w = s.w
             /\ x.h = s.h /\ x.image = s.image /\ x.interval = s.interval /\ x.rate = s.rate
  BY DEF Chosen, Fields

LEMMA FailsStep ==
  ASSUME NEW oneshot \in BOOLEAN, NEW ring \in BOOLEAN
  PROVE  IInv /\ StartFails(oneshot, ring) => IInv'
<1> SUFFICES ASSUME IInv, StartFails(oneshot, ring) PROVE IInv'
  OBVIOUS
<1>1. PICK g \in ConfigureStream(cam, modes[s.mode], s, speed) :
        /\ nak' = (nak \/ g.nak)
        /\ sure' = (sure /\ g.ok)
        /\ cam' \in IF g.ok
                      THEN {g.cam} \cup {WriteChannel(g.cam, ch, speed) : ch \in Channels \cap 0..15}
                      ELSE {g.cam}
  BY DEF StartFails
<1>2. /\ dev = "up" /\ Active /\ ~s.run /\ s.mode # 0 /\ s' = Chosen(oneshot, ring) /\ asked' = 0
      /\ dev' = dev /\ speed' = speed /\ modes' = modes
  BY DEF StartFails, Starting
<1>3. /\ Settled(cam, g, modes[s.mode], s, speed) /\ (g.ok => On(g.cam, modes))
  BY <1>2, StartSettled
<1>4. Registers(g.cam) /\ g.nak = FALSE
  BY <1>3 DEF Settled, Apart
<1>5. Registers(cam') /\ cam'.fmt = g.cam.fmt /\ cam'.mode = g.cam.mode
  <2>1. cam' = g.cam \/ \E ch : cam' = WriteChannel(g.cam, ch, speed)
    BY <1>1
  <2> QED
    BY <1>4, <2>1, ChannelWrite
<1>6. Ready'
  BY <1>1, <1>2, <1>4, <1>5 DEF IInv, Ready
<1>7. Placed'
  <2>1. sure' => g.ok
    BY <1>1
  <2>2. g.ok => On(cam', modes)
    BY <1>3, <1>5, SameSelected
  <2> QED
    BY <1>2, <2>1, <2>2 DEF Placed
<1>8. /\ Fields(s') /\ s'.owner = s.owner /\ s'.mode = s.mode /\ s'.run = s.run /\ s'.w = s.w
      /\ s'.h = s.h /\ s'.image = s.image /\ s'.interval = s.interval /\ s'.rate = s.rate
  BY <1>2, ChosenFields DEF IInv
<1>9. Fitted'
  <2>1. \A e : Fit(s, e) => Fit(s', e)
    BY <1>8 DEF Fit, Admits, Suited
  <2> QED
    BY <1>2, <1>8, <2>1 DEF IInv, Fitted, Active
<1>10. Unclaimed' /\ Asked' /\ Running'
  BY <1>2, <1>8 DEF IInv, Unclaimed, Asked, Rated, Running
<1> QED
  BY <1>6, <1>7, <1>8, <1>9, <1>10 DEF IInv

(* The session of a start that goes through.                                 *)
Begun(x, g, c, ch, run) ==
  /\ Fields(x) /\ x.owner = s.owner /\ x.mode = s.mode /\ x.run = run /\ x.w = s.w
  /\ x.h = s.h /\ x.image = s.image /\ x.interval = s.interval /\ x.rate = s.rate
  /\ x.pkt = g.pkt /\ x.channel = ch /\ x.clean = ~c.iso.created

Run(oneshot, ring, pkt, ch, clean) ==
  [Chosen(oneshot, ring) EXCEPT !.run = TRUE, !.pkt = pkt, !.channel = ch, !.clean = clean]
Outcome(x, t) ==
  \/ x = t
  \/ x = [t EXCEPT !.enable = "wanted"]
  \/ x = [t EXCEPT !.enable = "on"]
  \/ x = Stopped(t)

(* The session a start leaves.                                               *)
LEMMA BegunFields ==
  ASSUME NEW oneshot, NEW ring, Fields(s), NEW g, NEW c, NEW ch, NEW x,
         Outcome(x, Run(oneshot, ring, g.pkt, ch, ~c.iso.created))
  PROVE  \E run \in BOOLEAN : Begun(x, g, c, ch, run)
<1> DEFINE clean == ~c.iso.created
           t == Run(oneshot, ring, g.pkt, ch, clean)
<1>1. Begun(t, g, c, ch, TRUE)
  <2> DEFINE y == Chosen(oneshot, ring)
             pkt == g.pkt
  <2>1. /\ Fields(y) /\ y.owner = s.owner /\ y.mode = s.mode /\ y.run = s.run /\ y.w = s.w
        /\ y.h = s.h /\ y.image = s.image /\ y.interval = s.interval /\ y.rate = s.rate
    BY ChosenFields
  <2>2. t = [y EXCEPT !.run = TRUE, !.pkt = pkt, !.channel = ch, !.clean = clean]
    BY DEF Run
  <2> HIDE DEF y, t, pkt, clean
  <2>3. /\ Fields(t) /\ t.owner = s.owner /\ t.mode = s.mode /\ t.w = s.w
        /\ t.h = s.h /\ t.image = s.image /\ t.interval = s.interval /\ t.rate = s.rate
    BY <2>1, <2>2 DEF Fields
  <2>4. t.run = TRUE /\ t.pkt = pkt /\ t.channel = ch /\ t.clean = clean
    BY <2>1, <2>2 DEF Fields
  <2> QED
    BY <2>3, <2>4 DEF Begun, pkt, clean
<1> HIDE DEF t
<1>2. CASE x = t
  BY <1>1, <1>2
<1>3. CASE x = [t EXCEPT !.enable = "wanted"]
  BY <1>1, <1>3 DEF Begun, Fields
<1>4. CASE x = [t EXCEPT !.enable = "on"]
  BY <1>1, <1>4 DEF Begun, Fields
<1>5. CASE x = Stopped(t)
  BY <1>1, <1>5 DEF Begun, Fields, Stopped
<1> QED
  BY <1>2, <1>3, <1>4, <1>5 DEF t, Outcome

(* The writes and the session of a start that goes through.                  *)
LEMMA StartOutcome ==
  ASSUME NEW oneshot, NEW ring, Start(oneshot, ring)
  PROVE  \E g \in {x \in ConfigureStream(cam, modes[s.mode], s, speed) : x.ok},
            ch \in Channels \cap 0..15, o \in Kernels :
           LET c == WriteChannel(g.cam, ch, speed)
               t == Run(oneshot, ring, g.pkt, ch, ~c.iso.created)
           IN  (cam' = c \/ cam' = WriteIsoEn(c, TRUE, o)) /\ Outcome(s', t)
<1>1. PICK g \in {x \in ConfigureStream(cam, modes[s.mode], s, speed) : x.ok},
           ch \in Channels \cap 0..15, o \in Kernels, listening \in BOOLEAN :
        LET c == WriteChannel(g.cam, ch, speed)
            t == [Chosen(oneshot, ring) EXCEPT !.run = TRUE, !.pkt = g.pkt, !.channel = ch,
                                                !.clean = ~c.iso.created]
        IN  \/ /\ oneshot
               /\ cam' = c /\ s' = t
            \/ /\ ~oneshot /\ ring /\ ~listening
               /\ cam' = c /\ s' = [t EXCEPT !.enable = "wanted"]
            \/ /\ ~oneshot /\ (ring => listening)
               /\ \/ cam' = WriteIsoEn(c, TRUE, o) /\ s' = [t EXCEPT !.enable = "on"]
                  \/ cam' \in {c, WriteIsoEn(c, TRUE, o)} /\ s' = Stopped(t)
  BY DEF Start
<1> QED
  BY <1>1 DEF Run, Outcome

LEMMA StartStep ==
  ASSUME NEW oneshot \in BOOLEAN, NEW ring \in BOOLEAN
  PROVE  IInv /\ Start(oneshot, ring) => IInv'
<1> SUFFICES ASSUME IInv, Start(oneshot, ring) PROVE IInv'
  OBVIOUS
<1>1. PICK g \in {x \in ConfigureStream(cam, modes[s.mode], s, speed) : x.ok},
           ch \in Channels \cap 0..15, o \in Kernels :
        LET c == WriteChannel(g.cam, ch, speed)
            t == Run(oneshot, ring, g.pkt, ch, ~c.iso.created)
        IN  (cam' = c \/ cam' = WriteIsoEn(c, TRUE, o)) /\ Outcome(s', t)
  BY StartOutcome
<1> DEFINE c == WriteChannel(g.cam, ch, speed)
           e == modes[s.mode]
<1>2. /\ dev = "up" /\ Active /\ ~s.run /\ s.mode # 0 /\ asked' = 0
      /\ dev' = dev /\ speed' = speed /\ modes' = modes /\ nak' = nak
  BY DEF Start, Starting
<1>3. PICK run \in BOOLEAN : Begun(s', g, c, ch, run)
  BY <1>1, BegunFields DEF IInv
<1>4. cam' = c \/ cam' = WriteIsoEn(c, TRUE, o)
  BY <1>1
<1>5. g \in ConfigureStream(cam, modes[s.mode], s, speed) /\ g.ok
  OBVIOUS
<1>6. /\ s.mode \in DOMAIN modes /\ Fit(s, e) /\ Settled(cam, g, e, s, speed) /\ On(g.cam, modes)
  BY <1>2, <1>5, StartSettled
<1>7. /\ Registers(g.cam) /\ Configured(g.cam, g.pkt, e, s) /\ Carried(g.pkt, s, speed)
      /\ Nominal(g.pkt, e, s, speed)
  BY <1>5, <1>6 DEF Settled, Apart
<1>8. /\ Registers(c) /\ c.fmt = g.cam.fmt /\ c.mode = g.cam.mode /\ c.rate = g.cam.rate
      /\ c.f7 = g.cam.f7 /\ c.iso = g.cam.iso
      /\ ~g.cam.iso.created => c.channel = ch /\ c.speed = speed
  BY <1>7, ChannelWrite
<1> HIDE DEF c, e
<1>9. ~c.iso.created => Latched(c) /\ c.channel = ch /\ c.speed = speed
  BY <1>8 DEF Registers, Context, Latched
<1>10. Still(c, cam')
  <2>1. Still(c, c)
    BY <1>8 DEF Still
  <2> QED
    BY <1>4, <1>8, <2>1, EnableStill
<1>11. /\ Registers(cam') /\ cam'.fmt = g.cam.fmt /\ cam'.mode = g.cam.mode
       /\ cam'.rate = g.cam.rate /\ cam'.f7 = g.cam.f7
  BY <1>8, <1>10 DEF Still
<1>12. Ready' /\ Placed'
  BY <1>2, <1>6, <1>11, SameSelected DEF IInv, Ready, Placed
<1>13. /\ Fields(s') /\ s'.owner = s.owner /\ s'.mode = s.mode /\ s'.w = s.w
       /\ s'.h = s.h /\ s'.image = s.image /\ s'.interval = s.interval /\ s'.rate = s.rate
       /\ s'.pkt = g.pkt /\ s'.channel = ch /\ s'.clean = ~c.iso.created
  BY <1>3 DEF Begun
<1>14. Fitted'
  <2>1. \A d : Fit(s, d) => Fit(s', d)
    BY <1>13 DEF Fit, Admits, Suited
  <2> QED
    BY <1>2, <1>13, <2>1 DEF IInv, Fitted, Active
<1>15. Set(cam', s', e, speed)
  <2> DEFINE pkt == g.pkt
  <2>1. /\ Configured(g.cam, pkt, e, s) => Configured(cam', pkt, e, s')
        /\ Carried(pkt, s, speed) => Carried(pkt, s', speed)
        /\ Nominal(pkt, e, s, speed) => Nominal(pkt, e, s', speed)
    <3> HIDE DEF pkt
    <3> QED
      BY <1>11, <1>13, StillConfigured
  <2>2. s'.clean => Latched(cam') /\ cam'.channel = s'.channel /\ cam'.speed = speed
    BY <1>9, <1>10, <1>13 DEF Still
  <2> QED
    BY <1>7, <1>13, <2>1, <2>2 DEF Set
<1>16. Running'
  BY <1>2, <1>13, <1>15 DEF Running, Active, e
<1>17. Unclaimed' /\ Asked'
  BY <1>2 DEF Unclaimed, Asked, Rated
<1> QED
  BY <1>12, <1>13, <1>14, <1>16, <1>17 DEF IInv

LEMMA LaterStep == IInv /\ EnableLater => IInv'
<1> SUFFICES ASSUME IInv, EnableLater PROVE IInv'
  OBVIOUS
<1>1. PICK o \in Kernels : cam' = WriteIsoEn(cam, TRUE, o)
  BY DEF EnableLater
<1>2. /\ s' = [s EXCEPT !.enable = "on"] \/ s' = s
      /\ UNCHANGED <<dev, speed, modes, sure, asked, nak>>
  BY DEF EnableLater
<1>3. Still(cam, cam')
  BY <1>1, EnableStill DEF IInv, Ready
<1>4. CASE s' = [s EXCEPT !.enable = "on"]
  <2>1. /\ Fields(s') /\ s'.run = s.run /\ s'.owner = s.owner /\ s'.mode = s.mode
        /\ s'.w = s.w /\ s'.h = s.h /\ s'.image = s.image /\ s'.interval = s.interval
        /\ s'.rate = s.rate /\ s'.pkt = s.pkt /\ s'.clean = s.clean /\ s'.channel = s.channel
    BY <1>4 DEF IInv, Fields
  <2> QED
    BY <1>2, <1>3, <2>1, ContextStep
<1>5. CASE s' = s
  BY <1>2, <1>3, <1>5, ContextStep
<1> QED
  BY <1>2, <1>4, <1>5

(* The steps that touch only the run and the session.                        *)
LEMMA QuietStep == IInv /\ (Stop \/ Close \/ SwTrigger \/ ContextEnds) => IInv'
<1> SUFFICES ASSUME IInv, Stop \/ Close \/ SwTrigger \/ ContextEnds PROVE IInv'
  OBVIOUS
<1>1. Registers(cam)
  BY DEF IInv, Ready
<1>2. Still(cam, cam')
  <2>1. CASE Stop \/ Close
    BY <1>1, <2>1, SilencedStill DEF Stop, Close
  <2>2. CASE SwTrigger
    BY <1>1, <2>2, EnableStill DEF SwTrigger
  <2>3. CASE ContextEnds
    BY <1>1, <2>3, StopStill DEF ContextEnds
  <2> QED
    BY <2>1, <2>2, <2>3
<1>3. /\ UNCHANGED <<dev, speed, modes, sure, asked, nak>>
      /\ s' = s \/ s' = Stopped(s) \/ s' = NoSession
  BY DEF Stop, Close, SwTrigger, ContextEnds
<1> QED
  BY <1>2, <1>3, ContextStep

(* Every step.                                                               *)
LEMMA NextIInv == IInv /\ [Next]_vars => IInv'
<1> SUFFICES ASSUME IInv, [Next]_vars PROVE IInv'
  OBVIOUS
<1>1. CASE InitializeDevice \/ SurpriseRemoval \/ UninitializeDevice \/ PowerCycle
  BY <1>1, InitializeStep, SurpriseStep, UninitializeStep, PowerStep
<1>2. CASE \E pix \in Codings : SetPixelFormat(pix)
  BY <1>2, PixelStep
<1>3. CASE \E index \in Rates : SetRate(index)
  BY <1>3, RateStep
<1>4. CASE OpenStream
  BY <1>4, OpenStep
<1>5. CASE OpenIdle \/ Prepare
  BY <1>5, IdleStep, PrepareStep
<1>6. CASE \E oneshot, ring \in BOOLEAN : StartFails(oneshot, ring) \/ Start(oneshot, ring)
  BY <1>6, FailsStep, StartStep
<1>7. CASE EnableLater
  BY <1>7, LaterStep
<1>8. CASE Stop \/ Close \/ SwTrigger \/ ContextEnds
  BY <1>8, QuietStep
<1>9. CASE UNCHANGED vars
  <2>1. Still(cam, cam') /\ s' = s /\ UNCHANGED <<dev, speed, modes, sure, asked, nak>>
    BY <1>9 DEF vars, Still, IInv, Ready
  <2> QED
    BY <2>1, ContextStep
<1> QED
  BY <1>1, <1>2, <1>3, <1>4, <1>5, <1>6, <1>7, <1>8, <1>9 DEF Next

----------------------------------------------------------------------------
(* What follows from the invariant.                                         *)

(* The invariant holds in every reachable state.                             *)
LEMMA Inductive == Spec => []IInv
  BY InitIInv, NextIInv, PTL DEF Spec

(* What a running session has.                                               *)
LEMMA RunningFacts ==
  ASSUME IInv, s.run
  PROVE  /\ speed \in 0..2 /\ modes \in Seq(Entries) /\ Registers(cam)
         /\ s.mode \in DOMAIN modes /\ modes[s.mode] \in Entries
         /\ Fit(s, modes[s.mode]) /\ Set(cam, s, modes[s.mode], speed)
  BY DEF IInv, Ready, Running, Fitted

(* The camera never refuses a packet the driver chose, and there is one for  *)
(* every geometry the bus has room for (dcam.c PhotonicDcamConfigureFormat7, *)
(* format7.c dcam_f7_bpp_is_legal).                                         *)
THEOREM PacketNeverRefusedAlways == Spec => []PacketNeverRefused
<1>1. IInv => PacketNeverRefused
  BY DEF IInv, Ready, PacketNeverRefused
<1> QED
  BY Inductive, <1>1, PTL

(* A camera brought up through to the end is left on a mode of the table     *)
(* (dcam.c PhotonicDcamNormalizeSelection).                                 *)
THEOREM SelectionUsableAlways == Spec => []SelectionUsable
<1>1. IInv => SelectionUsable
  BY DEF IInv, Placed, SelectionUsable, On, Selected
<1> QED
  BY Inductive, <1>1, PTL

(* A stream opened with an offered format has a mode, one whose sizes,       *)
(* intervals and coding cover what was negotiated (stream/intersect.c,      *)
(* lifecycle.c PhotonicStreamFindNegotiatedMode).                           *)
THEOREM NegotiatedHeldAlways == Spec => []NegotiatedHeld
<1>1. IInv => NegotiatedHeld
  BY DEF IInv, Fitted, Fit, Suited, Admits, Active, NegotiatedHeld
<1> QED
  BY Inductive, <1>1, PTL

(* Host and camera stream the same thing: the channel, the speed, the packet *)
(* and the bytes of a frame (capture.c PhotonicCaptureStart, iso.c           *)
(* dcam_iso_start).                                                         *)
THEOREM StreamAgreesAlways == Spec => []StreamAgrees
<1>1. ASSUME IInv PROVE StreamAgrees
  <2> SUFFICES ASSUME s.run, s.clean
               PROVE  /\ cam.channel = s.channel /\ cam.speed = speed
                      /\ cam.iso.running =>
                           /\ [bpp |-> cam.iso.bpp, ppf |-> cam.iso.ppf] = s.pkt
                           /\ cam.iso.bytes = s.image
    BY DEF StreamAgrees, ChannelAgrees
  <2> DEFINE e == modes[s.mode]
             pkt == s.pkt
  <2>1. /\ speed \in 0..2 /\ Registers(cam) /\ e \in Entries /\ Suited(s, e)
        /\ Configured(cam, pkt, e, s) /\ Carried(pkt, s, speed)
        /\ Latched(cam) /\ cam.channel = s.channel /\ cam.speed = speed
    BY <1>1, RunningFacts DEF Fit, Set
  <2> HIDE DEF e, pkt
  <2>2. Geometry(cam) = [bpp |-> pkt.bpp, ppf |-> pkt.ppf, bytes |-> s.image]
    BY <2>1, SameGeometry
  <2>3. pkt = [bpp |-> pkt.bpp, ppf |-> pkt.ppf]
    BY <2>1 DEF Carried
  <2>4. ASSUME cam.iso.running
        PROVE  [bpp |-> cam.iso.bpp, ppf |-> cam.iso.ppf] = pkt /\ cam.iso.bytes = s.image
    <3>1. [bpp |-> cam.iso.bpp, ppf |-> cam.iso.ppf, bytes |-> cam.iso.bytes]
            = [bpp |-> pkt.bpp, ppf |-> pkt.ppf, bytes |-> s.image]
      BY <2>1, <2>2, <2>4 DEF Latched
    <3>2. cam.iso.bpp = pkt.bpp /\ cam.iso.ppf = pkt.ppf /\ cam.iso.bytes = s.image
      BY <3>1
    <3> QED
      BY <2>3, <3>2
  <2> QED
    BY <2>1, <2>4 DEF pkt
<1> QED
  BY Inductive, <1>1, PTL

(* The channel and the speed of a running session are those the camera sends *)
(* on, whatever failed on the way (capture.c PhotonicCaptureStart, dcam.c   *)
(* PhotonicDcamConfigureStream).                                            *)
THEOREM ChannelAgreesAlways == Spec => []ChannelAgrees
<1>1. StreamAgrees => ChannelAgrees
  BY DEF StreamAgrees
<1> QED
  BY StreamAgreesAlways, <1>1, PTL

(* What a session streams fits the bus and the host's buffers, whatever the  *)
(* limit a host reports (capture/pool.c PhotonicCapturePoolSetupChunks).     *)
THEOREM PacketsFitAlways == Spec => []PacketsFit
<1>1. ASSUME IInv PROVE PacketsFit
  <2> DEFINE bpp == s.pkt.bpp
             ppf == s.pkt.ppf
             most == MaxIsochPayload(speed)
  <2> SUFFICES ASSUME s.run
               PROVE  /\ bpp \in 1..most /\ bpp * ppf = s.image
                      /\ \A dma \in Limits : ChainWhole(bpp * ppf, bpp, dma)
    BY DEF PacketsFit
  <2>1. bpp \in 1..most /\ ppf \in Nat /\ bpp * ppf = s.image
    BY <1>1, RunningFacts DEF Set, Carried
  <2>2. most \in Nat
    BY <1>1, RunningFacts, Payload
  <2> HIDE DEF bpp, ppf, most
  <2>3. bpp \in Nat \ {0} /\ bpp * ppf \in Nat /\ (bpp * ppf) % bpp = 0
    <3>1. bpp \in Nat \ {0}
      BY <2>1, <2>2
    <3>2. (ppf * bpp) % bpp = 0
      BY <2>1, <3>1, Multiple
    <3> QED
      BY <2>1, <3>1, <3>2
  <2> DEFINE frame == bpp * ppf
  <2>4. frame \in Nat /\ frame % bpp = 0
    BY <2>3
  <2> HIDE DEF frame
  <2>5. \A dma \in Limits : ChainWhole(frame, bpp, dma)
    BY <2>3, <2>4, ChainIsWhole, SessionAssumption
  <2> QED
    BY <2>1, <2>5 DEF frame
<1> QED
  BY Inductive, <1>1, PTL

(* The rate set by its index is the rate streamed (dcam.c                    *)
(* PhotonicDcamSetFrameRate, PhotonicDcamSelectRate).                       *)
THEOREM RateAsSetAlways == Spec => []RateAsSet
<1>1. ASSUME IInv PROVE RateAsSet
  <2> DEFINE e == modes[s.mode]
             q == CHOOSE n \in Rates : RateInterval[n] = s.rate
             bytes == HostBytesPerPacket(e.fmt, e.mode, q)
  <2> SUFFICES ASSUME s.run, s.rate # 0, bytes <= MaxIsochPayload(speed)
               PROVE  s.pkt.bpp = bytes
    BY DEF RateAsSet
  <2>1. /\ e \in Entries /\ Fit(s, e) /\ Nominal(s.pkt, e, s, speed)
    BY <1>1, RunningFacts DEF Set
  <2>2. ~e.f7
    BY <2>1 DEF Fit
  <2>3. PICK r \in e.rates : RateInterval[r] = s.rate /\ s.interval = s.rate
    BY <2>1 DEF Fit
  <2>4. e.rates \subseteq Rates
    BY <2>1, <2>2, Kinds DEF Standard, FrameRateInq
  <2>5. q \in Rates /\ RateInterval[q] = s.rate
    BY <2>3, <2>4
  <2> HIDE DEF q, e
  <2>6. q = r
    <3>1. q \in Int /\ r \in Int /\ r \in Rates
      BY <2>3, <2>4, <2>5 DEF Rates
    <3>2. RateInterval[q] \in Nat /\ RateInterval[r] \in Nat
      BY <2>5, <3>1, GeometryAssumption
    <3> QED
      BY <2>3, <2>5, <3>1, <3>2, GeometryAssumption
  <2>7. s.pkt.bpp = HostBytesPerPacket(e.fmt, e.mode, r)
    BY <2>1, <2>2, <2>3, <2>6 DEF Nominal
  <2> QED
    BY <2>6, <2>7
<1> QED
  BY Inductive, <1>1, PTL

(* What the client reads back is what the session streams (dcam.c            *)
(* PhotonicDcamGetCurrentPixelFormat, PhotonicDcamGetCurrentSubwindow).      *)
THEOREM ReadBackAgreesAlways == Spec => []ReadBackAgrees
<1>1. ASSUME IInv PROVE ReadBackAgrees
  <2> DEFINE e == modes[s.mode]
  <2> SUFFICES ASSUME s.run
               PROVE  /\ CurrentPixelFormat(cam, modes) = e.pix
                      /\ \A i \in CurrentModes(cam, modes) \ {0} :
                           /\ Subwindow(cam, modes, i).w = s.w * Subwindow(cam, modes, i).scale
                           /\ Subwindow(cam, modes, i).h = s.h * Subwindow(cam, modes, i).scale
    BY DEF ReadBackAgrees
  <2>1. /\ modes \in Seq(Entries) /\ s.mode \in DOMAIN modes /\ e \in Entries /\ Suited(s, e)
        /\ Configured(cam, s.pkt, e, s)
    BY <1>1, RunningFacts DEF Fit, Set
  <2>2. cam.fmt = e.fmt /\ cam.mode = e.mode
    BY <2>1 DEF Configured
  <2>3. s.mode \in Selected(cam, modes)
    BY <2>1, <2>2 DEF Selected
  <2>4. ASSUME NEW i \in Selected(cam, modes)
        PROVE  /\ modes[i] \in Entries /\ modes[i].f7 = e.f7
               /\ ~e.f7 => /\ modes[i].pix = e.pix /\ modes[i].defw = s.w /\ modes[i].defh = s.h
    <3> DEFINE d == modes[i]
    <3>1. d \in Entries /\ d.fmt = e.fmt /\ d.mode = e.mode
      BY <2>1, <2>2 DEF Selected
    <3> HIDE DEF d, e
    <3>2. /\ d.f7 = e.f7
          /\ ~e.f7 => d.pix = e.pix /\ d.defw = e.defw /\ d.defh = e.defh
      BY <2>1, <3>1, SameSelection
    <3>3. ~e.f7 => e.defw = s.w /\ e.defh = s.h
      BY <2>1, WindowFacts DEF Suited
    <3> QED
      BY <3>1, <3>2, <3>3 DEF d
  <2>5. e.f7 => /\ cam.f7[cam.mode].coding = e.pix /\ cam.f7[cam.mode].w = s.w
                /\ cam.f7[cam.mode].h = s.h
    BY <2>1, <2>2 DEF Configured
  <2>6. CurrentPixelFormat(cam, modes) = e.pix
    <3> DEFINE at == Selected(cam, modes)
               j == First(at)
    <3>1. at \subseteq Nat \ {0} /\ at # {}
      BY <2>1, <2>3 DEF Selected
    <3> HIDE DEF at
    <3>2. j \in at
      BY <3>1, FirstOf
    <3> HIDE DEF j
    <3>3. /\ modes[j].f7 = e.f7 /\ modes[j].f7 \in BOOLEAN /\ (~e.f7 => modes[j].pix = e.pix)
      <4> HIDE DEF e
      <4> QED
        BY <2>1, <2>4, <3>2, Kinds DEF at
    <3>4. CurrentPixelFormat(cam, modes)
            = IF modes[j].f7 THEN cam.f7[cam.mode].coding ELSE modes[j].pix
      BY DEF CurrentPixelFormat, j, at
    <3> HIDE DEF e
    <3> QED
      BY <2>5, <3>3, <3>4
  <2>7. ASSUME NEW i \in CurrentModes(cam, modes) \ {0}
        PROVE  /\ Subwindow(cam, modes, i).w = s.w * Subwindow(cam, modes, i).scale
               /\ Subwindow(cam, modes, i).h = s.h * Subwindow(cam, modes, i).scale
    <3> DEFINE full == Most({modes[j].defw : j \in DOMAIN modes})
               scale == full \div modes[i].defw
               v == IF modes[i].f7 THEN cam.f7[cam.mode]
                    ELSE [x |-> 0, y |-> 0, w |-> modes[i].defw, h |-> modes[i].defh]
    <3>1. i \in Selected(cam, modes)
      BY <2>1, CurrentSelected
    <3>2. modes[i].f7 = e.f7 /\ (~e.f7 => modes[i].defw = s.w /\ modes[i].defh = s.h)
      <4> HIDE DEF e
      <4> QED
        BY <2>4, <3>1
    <3>3. v.w = s.w /\ v.h = s.h
      <4>1. CASE e.f7
        BY <2>5, <3>2, <4>1
      <4>2. CASE ~e.f7
        BY <3>2, <4>2
      <4> QED
        BY <4>1, <4>2
    <3>4. Subwindow(cam, modes, i) = [scale |-> scale, x |-> v.x * scale, y |-> v.y * scale,
                                      w |-> v.w * scale, h |-> v.h * scale]
      BY DEF Subwindow
    <3> HIDE DEF scale, v
    <3> QED
      BY <3>3, <3>4
  <2> QED
    BY <2>6, <2>7
<1> QED
  BY Inductive, <1>1, PTL

----------------------------------------------------------------------------
(* The type invariant.                                                      *)

(* What the types add to IInv: the table stays within its bound, and a slot  *)
(* nobody claimed has no mode.                                              *)
Typed(x) ==
  /\ x.owner \in {"none", "stream", "ioctl"} /\ x.enable \in {"off", "wanted", "on"}
  /\ x.owner = "none" => x.mode = 0
Kept ==
  /\ dev \in {"none", "up", "removed"} /\ sure \in BOOLEAN /\ asked \in Nat
  /\ Len(modes) <= MaxModes /\ Typed(s)

(* The table is cut at its bound.                                            *)
LEMMA HeldLength ==
  ASSUME NEW table \in Seq(Entries)
  PROVE  Len(Held(table)) <= MaxModes
<1> DEFINE k == IF Len(table) > MaxModes THEN MaxModes ELSE Len(table)
<1>1. k \in 0..Len(table) /\ k <= MaxModes
  BY RoutinesAssumption
<1>2. Held(table) = SubSeq(table, 1, k)
  BY DEF Held
<1> HIDE DEF k
<1>3. Len(SubSeq(table, 1, k)) = k
  BY <1>1
<1> QED
  BY <1>1, <1>2, <1>3

(* A bring-up lists no more modes than the table holds.                      *)
LEMMA PassLength ==
  ASSUME NEW c, c.f7 = F7Reset, NEW table \in Seq(Entries), Len(table) <= MaxModes,
         NEW w \in F7Pass(c, table)
  PROVE  Len(w.modes) <= MaxModes
<1> DEFINE probing == WriteFormat(c, F7Format)
           t(d) == F7Tables(probing, table, d)
           selected(d) == {m \in VideoModeInq7 : d[m] # "passed" /\ Len(t(d)[m + 1]) <= MaxModes}
           walk(d) == [cam |-> IF selected(d) = {} THEN probing
                               ELSE WriteMode(probing, Most(selected(d))),
                       modes |-> Held(t(d)[NumF7 + 1])]
<1>1. w \in {[cam |-> x, modes |-> table] : x \in {c, probing}}
             \cup {walk(d) : d \in [VideoModeInq7 -> {"passed", "selected", "read"}]}
  BY DEF F7Pass
<1>2. \A d : walk(d).modes = Held(t(d)[NumF7 + 1])
  OBVIOUS
<1>3. probing.f7 = F7Reset
  BY DEF WriteFormat
<1>4. \A d : t(d)[NumF7 + 1] \in Seq(Entries)
  BY <1>3, PassTables, RegistersAssumption
<1> HIDE DEF probing, t, walk
<1>5. CASE w.modes = table
  BY <1>5
<1>6. CASE \E d : w = walk(d)
  BY <1>2, <1>4, <1>6, HeldLength
<1> QED
  BY <1>1, <1>5, <1>6

LEMMA EnumeratedLength ==
  ASSUME NEW c, c.f7 = F7Reset, NEW o \in EnumerateModes(c)
  PROVE  Len(o.modes) <= MaxModes
<1> DEFINE walks == IF Len(StdPass) > MaxModes THEN {[cam |-> c, modes |-> Held(StdPass)]}
                    ELSE F7Pass(c, StdPass)
           listed(w, saved) ==
             {[ok |-> TRUE, sure |-> n.ok, cam |-> n.cam, modes |-> w.modes] :
                n \in NormalizeSelection(w.cam, saved, w.modes)}
           unread(x) == [ok |-> FALSE, sure |-> FALSE, cam |-> x, modes |-> <<>>]
<1>1. StdPass \in Seq(Entries)
  BY StandardEntries DEF Entries
<1>2. \A w \in walks : Len(w.modes) <= MaxModes
  <2>1. CASE Len(StdPass) > MaxModes
    BY <1>1, <2>1, HeldLength
  <2>2. CASE ~(Len(StdPass) > MaxModes)
    <3>1. Len(StdPass) <= MaxModes
      BY <1>1, <2>2, RoutinesAssumption
    <3> QED
      BY <1>1, <2>2, <3>1, PassLength
  <2> QED
    BY <2>1, <2>2
<1>3. o \in {unread(c)}
           \cup {unread(w.cam) : w \in {v \in walks : v.modes = <<>>}}
           \cup UNION {listed(w, saved) : w \in {v \in walks : v.modes # <<>>},
                                          saved \in {NoSelection, <<c.fmt, c.mode>>}}
  BY DEF EnumerateModes
<1> HIDE DEF walks
<1>4. \A x : unread(x).modes = <<>>
  OBVIOUS
<1>5. ASSUME NEW w, NEW saved, NEW l \in listed(w, saved) PROVE l.modes = w.modes
  OBVIOUS
<1> HIDE DEF unread, listed
<1>6. CASE o.modes = <<>>
  BY <1>6, RoutinesAssumption
<1>7. CASE \E w \in walks : \E saved : o \in listed(w, saved)
  BY <1>2, <1>5, <1>7
<1> QED
  BY <1>3, <1>4, <1>6, <1>7

LEMMA TableLength ==
  ASSUME NEW c, Registers(c), NEW o \in BringUpDevice(c)
  PROVE  Len(o.modes) <= MaxModes
<1> DEFINE failed(x) == [ok |-> FALSE, sure |-> FALSE, cam |-> x, modes |-> <<>>]
<1>1. o \in {failed(c)} \cup {failed(r.cam) : r \in Reset(c)}
           \cup UNION {EnumerateModes(r.cam) : r \in {q \in Reset(c) : q.ok}}
  BY DEF BringUpDevice
<1>2. \A x : failed(x).modes = <<>>
  OBVIOUS
<1> HIDE DEF failed
<1>3. CASE o.modes = <<>>
  BY <1>3, RoutinesAssumption
<1>4. ASSUME NEW r \in Reset(c), r.ok, o \in EnumerateModes(r.cam)
      PROVE  Len(o.modes) <= MaxModes
  BY <1>4, ResetShape, EnumeratedLength
<1> QED
  BY <1>1, <1>2, <1>3, <1>4

(* The sessions the actions write keep the kinds of their fields.            *)
LEMMA SessionsTyped ==
  /\ Typed(NoSession) /\ Typed([NoSession EXCEPT !.owner = "stream"])
  /\ \A i, t : Typed(Prepared(i, t))
  /\ \A f : Typed(Opened(f))
  BY DEF Typed, NoSession, Prepared, Opened

LEMMA WritesTyped ==
  ASSUME NEW x, Fields(x), Typed(x), NEW e \in {"off", "wanted", "on"}, NEW oneshot, NEW ring
  PROVE  /\ Typed(Stopped(x)) /\ Typed([x EXCEPT !.enable = e])
         /\ Typed([x EXCEPT !.oneshot = oneshot, !.ring = ring])
  BY DEF Typed, Stopped, Fields

LEMMA BegunTyped ==
  ASSUME Fields(s), Typed(s), NEW oneshot, NEW ring, NEW pkt, NEW ch, NEW clean, NEW x,
         Outcome(x, Run(oneshot, ring, pkt, ch, clean))
  PROVE  Typed(x)
<1> DEFINE y == Chosen(oneshot, ring)
           t == [y EXCEPT !.run = TRUE, !.pkt = pkt, !.channel = ch, !.clean = clean]
<1>1. Fields(y) /\ Typed(y)
  BY WritesTyped, ChosenFields DEF Chosen
<1>2. Run(oneshot, ring, pkt, ch, clean) = t
  BY DEF Run
<1> HIDE DEF y
<1>3. Fields(t) /\ Typed(t)
  BY <1>1 DEF Fields, Typed
<1> HIDE DEF t
<1> QED
  BY <1>2, <1>3, WritesTyped DEF Outcome

LEMMA KeptIsType == IInv /\ Kept => TypeOK
<1> SUFFICES ASSUME IInv, Kept PROVE TypeOK
  OBVIOUS
<1>1. modes \in Seq(Entries) /\ speed \in 0..2 /\ nak \in BOOLEAN
  BY DEF IInv, Ready
<1>2. s.mode \in 0..Len(modes)
  <2>1. CASE s.mode = 0
    BY <1>1, <2>1
  <2>2. CASE s.mode # 0
    BY <1>1, <2>2 DEF IInv, Fitted, Active, Kept, Typed
  <2> QED
    BY <2>1, <2>2
<1> QED
  BY <1>1, <1>2 DEF Kept, Typed, IInv, Running, TypeOK

(* The steps that leave the table and the device alone.                      *)
LEMMA SessionKept ==
  ASSUME Kept, UNCHANGED <<dev, modes>>, sure' \in BOOLEAN, asked' \in Nat, Typed(s')
  PROVE  Kept'
  BY DEF Kept

LEMMA RateKept == ASSUME NEW index PROVE IInv /\ Kept /\ SetRate(index) => Kept'
<1> SUFFICES ASSUME IInv, Kept, SetRate(index) PROVE Kept'
  OBVIOUS
<1>1. /\ \E i : asked' \in {0, EnumFrameRate(modes[i], index)} /\ i \in CurrentModes(cam, modes) \ {0}
      /\ UNCHANGED <<dev, speed, modes, s, sure, nak>>
  BY DEF SetRate
<1>2. PICK i \in CurrentModes(cam, modes) \ {0} : asked' \in {0, EnumFrameRate(modes[i], index)}
  BY <1>1
<1>3. modes[i] \in Entries
  BY CurrentSelected DEF IInv, Ready
<1>4. EnumFrameRate(modes[i], index) \in Nat
  <2>1. CASE modes[i].f7
    BY <1>3, <2>1, EntryFacts DEF EnumFrameRate, Common
  <2>2. CASE ~modes[i].f7
    <3> DEFINE r == RateFromIndex(modes[i].rates, index)
    <3>1. r # NoRate => r \in Rates
      BY IndexedRate
    <3>2. EnumFrameRate(modes[i], index) = IF r = NoRate THEN 0 ELSE RateInterval[r]
      BY <2>2 DEF EnumFrameRate
    <3> HIDE DEF r
    <3> QED
      BY <3>1, <3>2, GeometryAssumption
  <2> QED
    BY <2>1, <2>2
<1> QED
  BY <1>1, <1>2, <1>4, SessionKept DEF Kept

LEMMA StartKept ==
  ASSUME NEW oneshot \in BOOLEAN, NEW ring \in BOOLEAN
  PROVE  IInv /\ Kept /\ (StartFails(oneshot, ring) \/ Start(oneshot, ring)) => Kept'
<1> SUFFICES ASSUME IInv, Kept, StartFails(oneshot, ring) \/ Start(oneshot, ring) PROVE Kept'
  OBVIOUS
<1>1. Typed(s) /\ Fields(s)
  BY DEF IInv, Kept
<1>2. CASE StartFails(oneshot, ring)
  <2>1. PICK g : sure' = (sure /\ g.ok)
    BY <1>2 DEF StartFails
  <2>2. sure' \in BOOLEAN
    BY <2>1
  <2>3. UNCHANGED <<dev, modes>> /\ asked' = 0 /\ s' = Chosen(oneshot, ring)
    BY <1>2 DEF StartFails
  <2>4. Typed(s')
    BY <1>1, <2>3, WritesTyped DEF Chosen
  <2> QED
    BY <2>2, <2>3, <2>4, SessionKept
<1>3. CASE Start(oneshot, ring)
  <2>1. PICK g, ch, clean : Outcome(s', Run(oneshot, ring, g.pkt, ch, clean))
    BY <1>3, StartOutcome
  <2>2. Typed(s')
    BY <1>1, <2>1, BegunTyped
  <2>3. UNCHANGED <<dev, modes>> /\ asked' = 0 /\ sure' = TRUE
    BY <1>3 DEF Start
  <2> QED
    BY <2>2, <2>3, SessionKept
<1> QED
  BY <1>2, <1>3

LEMMA OtherKept ==
  IInv /\ Kept /\ (\/ OpenIdle \/ Prepare \/ EnableLater \/ Stop \/ Close \/ SwTrigger
                   \/ ContextEnds \/ PowerCycle \/ OpenStream)
    => Kept'
<1> SUFFICES ASSUME IInv, Kept,
                    \/ OpenIdle \/ Prepare \/ EnableLater \/ Stop \/ Close \/ SwTrigger
                    \/ ContextEnds \/ PowerCycle \/ OpenStream
             PROVE  Kept'
  OBVIOUS
<1>1. Typed(s) /\ Fields(s)
  BY DEF IInv, Kept
<1>2. UNCHANGED <<dev, modes, sure, asked>>
  BY DEF OpenIdle, Prepare, EnableLater, Stop, Close, SwTrigger, ContextEnds, PowerCycle, OpenStream
<1>3. Typed(s')
  <2>1. CASE OpenStream
    BY <2>1, SessionsTyped DEF OpenStream
  <2>2. CASE Prepare
    BY <2>2, SessionsTyped DEF Prepare
  <2>3. CASE OpenIdle \/ Close
    BY <2>3, SessionsTyped DEF OpenIdle, Close
  <2>4. CASE EnableLater \/ Stop
    BY <1>1, <2>4, WritesTyped DEF EnableLater, Stop
  <2>5. CASE SwTrigger \/ ContextEnds \/ PowerCycle
    BY <1>1, <2>5 DEF SwTrigger, ContextEnds, PowerCycle
  <2> QED
    BY <2>1, <2>2, <2>3, <2>4, <2>5
<1> QED
  BY <1>2, <1>3, SessionKept DEF Kept

LEMMA NextKept == IInv /\ Kept /\ [Next]_vars => Kept'
<1> SUFFICES ASSUME IInv, Kept, [Next]_vars PROVE Kept'
  OBVIOUS
<1>0. Typed(s) /\ Fields(s) /\ Registers(cam) /\ modes \in Seq(Entries)
  BY DEF IInv, Kept, Ready
<1>1. CASE UNCHANGED vars
  BY <1>1 DEF vars, Kept
<1>2. CASE InitializeDevice
  <2>1. PICK o \in BringUpDevice(cam) : modes' = o.modes /\ sure' = o.sure
    BY <1>2 DEF InitializeDevice
  <2>2. dev' = "up" /\ asked' = 0 /\ s' = s
    BY <1>2 DEF InitializeDevice
  <2> QED
    BY <1>0, <2>1, <2>2, BringUpShape, TableLength DEF Kept
<1>3. CASE SurpriseRemoval
  BY <1>0, <1>3, WritesTyped DEF SurpriseRemoval, Kept
<1>4. CASE UninitializeDevice
  <2>1. Len(<<>>) <= MaxModes
    BY RoutinesAssumption
  <2> QED
    BY <1>4, <2>1, SessionsTyped DEF UninitializeDevice, Kept
<1>5. ASSUME NEW pix, SetPixelFormat(pix) PROVE Kept'
  <2>1. PICK o \in SelectPixelFormat(cam, modes, pix) : sure' = o.ok
    BY <1>5 DEF SetPixelFormat
  <2>2. UNCHANGED <<dev, modes, s>> /\ asked' = 0
    BY <1>5 DEF SetPixelFormat
  <2> QED
    BY <1>0, <2>1, <2>2, FormatPicked, SessionKept
<1> QED
  BY <1>1, <1>2, <1>3, <1>4, <1>5, RateKept, StartKept, OtherKept DEF Next

(* The types of the session: a running one has an owner, a mode of the table *)
(* and a device that is up, and the table never outgrows Extension->Modes   *)
(* (dcam.c PhotonicDcamEnumerateModes).                                     *)
THEOREM TypeCorrect == Spec => []TypeOK
<1>1. Init => Kept
  <2>1. Len(<<>>) = 0 /\ 0 <= MaxModes
    BY RoutinesAssumption
  <2>2. Typed(NoSession)
    BY SessionsTyped
  <2> SUFFICES ASSUME Init PROVE Kept
    OBVIOUS
  <2>3. dev = "none" /\ sure = FALSE /\ asked = 0 /\ modes = <<>> /\ s = NoSession
    BY DEF Init
  <2> QED
    BY <2>1, <2>2, <2>3 DEF Kept
<1> QED
  BY <1>1, Inductive, NextKept, KeptIsType, PTL DEF Spec

=============================================================================
