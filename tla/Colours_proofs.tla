---------------------------- MODULE Colours_proofs ----------------------------
(***************************************************************************)
(* Proofs about Colours for any zones, number of universes, unit of the    *)
(* floats, curve that rises from 0 to 255, and history of field values.    *)
(***************************************************************************)
EXTENDS Colours, SacnLayout_proofs, WellFoundedInduction

-----------------------------------------------------------------------------
(* Arithmetic.                                                             *)

\* A non-empty set of numbers has a least one.
LEMMA Least ==
    ASSUME NEW T \in SUBSET Nat, T # {}
    PROVE  \E x \in T : \A y \in T : x <= y
<1> DEFINE R == OpToRel(<, Nat)
<1>1. IsWellFoundedOn(R, Nat)
  BY NatLessThanWellFounded
<1>2. PICK x \in T : \A y \in T : ~(<<y, x>> \in R)
  BY <1>1, WFMin
<1>3. \A m, p \in Nat : m < p => <<m, p>> \in R
  BY DEF OpToRel
<1> HIDE DEF R
<1>4. ASSUME NEW y \in T
      PROVE  x <= y
  <2>1. x \in Nat /\ y \in Nat /\ ~(y < x)
    BY <1>2, <1>3
  <2> QED
    BY <2>1
<1> QED
  BY <1>4

LEMMA ProductsGrow ==
    ASSUME NEW a \in Nat, NEW b \in Nat, NEW c \in Nat, NEW d \in Nat, a <= b, c <= d
    PROVE  a * c <= b * d
<1>1. a * c <= b * c
  BY Monotone
<1>2. c * b <= d * b
  BY Monotone
<1>3. a * c \in Nat /\ b * c \in Nat /\ b * d \in Nat /\ c * b = b * c /\ d * b = b * d
  OBVIOUS
<1> QED
  BY <1>1, <1>2, <1>3

LEMMA Units ==
    /\ ONE \in Nat \ {0} /\ FULL \in Nat /\ FULL = 10 * (ONE * ONE)
    /\ ONE * ONE \in Nat /\ INFINITY \in Nat /\ INFINITY > ONE
    /\ \A m \in Int : m # NaN
BY UnitAssumption, InfinityAssumption, NaNAssumption DEF FULL

\* A clamped number is between the bounds, and clamping keeps the order.
LEMMA ClampUnit ==
    ASSUME NEW v \in Int
    PROVE  /\ Clamp(v, 0, ONE) \in 0..ONE
           /\ \A w \in Int : v <= w => Clamp(v, 0, ONE) <= Clamp(w, 0, ONE)
           /\ v >= 0 /\ v <= ONE => Clamp(v, 0, ONE) = v
           /\ v <= 0 => Clamp(v, 0, ONE) = 0
           /\ v >= ONE => Clamp(v, 0, ONE) = ONE
BY Units DEF Clamp

\* Three floats that make a number are numbers.
LEMMA Numbers ==
    ASSUME NEW l \in Floats, NEW i \in Floats, NEW b \in Floats, ~NoNumber(l, i, b)
    PROVE  /\ l \in -INFINITY..INFINITY /\ i \in -INFINITY..INFINITY /\ b \in -INFINITY..INFINITY
           /\ l \in Int /\ i \in Int /\ b \in Int
           /\ l # NaN /\ i # NaN /\ b # NaN
           /\ l \in {-INFINITY, INFINITY} => i > 0
<1>1. l # NaN /\ i # NaN /\ b # NaN
  BY DEF NoNumber
<1>2. l \in -INFINITY..INFINITY /\ i \in -INFINITY..INFINITY /\ b \in -INFINITY..INFINITY
  BY <1>1 DEF Floats
<1>3. l \in Int /\ i \in Int /\ b \in Int
  BY <1>2, Units
<1>4. l \in {-INFINITY, INFINITY} => ~(i <= 0)
  BY DEF NoNumber
<1> QED
  BY <1>1, <1>2, <1>3, <1>4

\* A level times a clamped intensity has the level's sign, grows with both
\* and is no more than the level alone, up to 1.0.
LEMMA ScaledIs ==
    ASSUME NEW l \in Floats, NEW i \in Floats, NEW b \in Floats, ~NoNumber(l, i, b)
    PROVE  LET s == Scaled(l, Clamp(i, 0, ONE)) IN
           /\ s \in Int
           /\ l >= 0 => s >= 0
           /\ l <= 0 => s <= 0
           /\ l >= 0 /\ l <= ONE => s <= ONE * l
<1> DEFINE u == Clamp(i, 0, ONE)
<1>1. /\ l \in Int /\ i \in Int /\ l # NaN /\ ONE \in Nat \ {0} /\ INFINITY \in Nat /\ INFINITY > ONE
      /\ l \in {-INFINITY, INFINITY} => i > 0
  BY Numbers, Units
<1>2. u \in 0..ONE /\ u # NaN /\ (i > 0 => u > 0)
  BY <1>1, Units DEF Clamp
<1> HIDE DEF u
<1>3. NaN \notin {l, u}
  BY <1>1, <1>2
<1>4. CASE l \in {-INFINITY, INFINITY}
  <2>1. u # 0
    BY <1>1, <1>2, <1>4
  <2>2. Scaled(l, u) = l * ONE
    BY <1>3, <1>4, <2>1 DEF Scaled
  <2>3. l * ONE \in Int /\ (l >= 0 => l * ONE >= 0) /\ (l <= 0 => l * ONE <= 0) /\ l * ONE = ONE * l
    BY <1>1
  <2> QED
    BY <2>2, <2>3 DEF u
<1>5. CASE l \notin {-INFINITY, INFINITY}
  <2>1. Scaled(l, u) = l * u
    BY <1>3, <1>5 DEF Scaled
  <2>2. u \in Nat /\ ONE - u \in Nat /\ ONE \in Nat
    BY <1>1, <1>2
  <2>3. l * u \in Int /\ (l >= 0 => l * u >= 0) /\ (l <= 0 => l * u <= 0)
    BY <1>1, <2>2
  <2>4. l >= 0 => l * u <= ONE * l
    <3>1. l >= 0 => l * (ONE - u) >= 0
      BY <1>1, <2>2
    <3>2. l * (ONE - u) = ONE * l - l * u /\ ONE * l \in Int
      BY <1>1, <2>2
    <3> QED
      BY <2>3, <3>1, <3>2
  <2> QED
    BY <2>1, <2>3, <2>4 DEF u
<1> QED
  BY <1>4, <1>5

LEMMA ScaledGrows ==
    ASSUME NEW l \in Floats, NEW i \in Floats, NEW b \in Floats, ~NoNumber(l, i, b),
           NEW m \in Floats, NEW j \in Floats, NEW d \in Floats, ~NoNumber(m, j, d),
           l <= m, i <= j, m >= 0
    PROVE  Scaled(l, Clamp(i, 0, ONE)) <= Scaled(m, Clamp(j, 0, ONE))
<1> DEFINE u == Clamp(i, 0, ONE)
           v == Clamp(j, 0, ONE)
<1>1. /\ l \in -INFINITY..INFINITY /\ m \in -INFINITY..INFINITY /\ i \in Int /\ j \in Int
      /\ l \in Int /\ m \in Int /\ l # NaN /\ m # NaN
      /\ ONE \in Nat \ {0} /\ INFINITY \in Nat /\ INFINITY > ONE
      /\ l \in {-INFINITY, INFINITY} => i > 0
      /\ m \in {-INFINITY, INFINITY} => j > 0
  BY Numbers, Units
<1>2. /\ u \in 0..ONE /\ u # NaN /\ (i > 0 => u > 0)
      /\ v \in 0..ONE /\ v # NaN /\ (j > 0 => v > 0)
      /\ u <= v
  BY <1>1, Units DEF Clamp
<1>3. /\ Scaled(l, u) \in Int /\ (l <= 0 => Scaled(l, u) <= 0)
      /\ Scaled(m, v) \in Int /\ Scaled(m, v) >= 0
  <2>1. Scaled(l, u) \in Int /\ (l <= 0 => Scaled(l, u) <= 0)
    BY ScaledIs
  <2>2. Scaled(m, v) \in Int /\ (m >= 0 => Scaled(m, v) >= 0)
    BY ScaledIs
  <2> QED
    BY <2>1, <2>2
<1> HIDE DEF u, v
<1>4. CASE l <= 0
  <2>1. Scaled(l, u) <= Scaled(m, v)
    BY <1>3, <1>4
  <2> QED
    BY <2>1 DEF u, v
<1>5. CASE l > 0
  <2>1. l \in Nat /\ m \in Nat /\ u \in Nat /\ v \in Nat /\ m <= INFINITY
    BY <1>1, <1>2, <1>5
  <2>2. NaN \notin {l, u} /\ NaN \notin {m, v}
    BY <1>1, <1>2
  <2>3. CASE m = INFINITY
    <3>1. v # 0
      BY <1>1, <1>2, <2>3
    <3>2. Scaled(m, v) = INFINITY * ONE
      BY <2>2, <2>3, <3>1 DEF Scaled
    <3>3. Scaled(l, u) \in {l * ONE, l * u}
      <4>1. CASE l = INFINITY
        <5>1. u # 0
          BY <1>1, <1>2, <4>1
        <5> QED
          BY <2>2, <4>1, <5>1 DEF Scaled
      <4>2. CASE l # INFINITY
        <5>1. l \notin {-INFINITY, INFINITY}
          BY <1>1, <1>5, <4>2
        <5> QED
          BY <2>2, <5>1 DEF Scaled
      <4> QED
        BY <4>1, <4>2
    <3>4. l * ONE <= INFINITY * ONE /\ l * u <= INFINITY * ONE
      <4>1. l <= INFINITY /\ u <= ONE /\ ONE \in Nat
        BY <1>1, <1>2
      <4>2. l * ONE <= INFINITY * ONE
        BY <1>1, <2>1, <4>1, ProductsGrow
      <4>3. l * u <= INFINITY * ONE
        BY <1>1, <2>1, <4>1, ProductsGrow
      <4> QED
        BY <4>2, <4>3
    <3> QED
      BY <3>2, <3>3, <3>4 DEF u, v
  <2>4. CASE m # INFINITY
    <3>1. l \notin {-INFINITY, INFINITY} /\ m \notin {-INFINITY, INFINITY}
      BY <1>1, <1>5, <2>1, <2>4
    <3>2. Scaled(l, u) = l * u /\ Scaled(m, v) = m * v
      BY <2>2, <3>1 DEF Scaled
    <3>3. l * u <= m * v
      BY <1>2, <2>1, ProductsGrow
    <3> QED
      BY <3>2, <3>3 DEF u, v
  <2> QED
    BY <2>3, <2>4
<1> QED
  BY <1>1, <1>4, <1>5 DEF u, v

\* A channel of three floats that make a number, and of three that do not.
LEMMA ChannelIs ==
    ASSUME NEW l \in Floats, NEW i \in Floats, NEW b \in Floats
    PROVE  IF NoNumber(l, i, b) THEN Channel(l, i, b) = NaN
           ELSE /\ Clamp(b, 0, ONE) \in 0..ONE
                /\ Channel(l, i, b)
                      = Clamp(10 * Scaled(l, Clamp(i, 0, ONE))
                                 + 3 * (ONE * Clamp(b, 0, ONE)), 0, FULL)
<1>1. CASE NoNumber(l, i, b)
  <2>1. CASE l = NaN \/ i = NaN
    <3>1. NaN \in {l, Clamp(i, 0, ONE)}
      BY <2>1 DEF Clamp
    <3> QED
      BY <1>1, <3>1 DEF Channel, Scaled
  <2>2. CASE b = NaN
    BY <1>1, <2>2 DEF Channel, Clamp
  <2>3. CASE l # NaN /\ i # NaN /\ b # NaN
    <3>1. l \in {-INFINITY, INFINITY} /\ i <= 0
      BY <1>1, <2>3 DEF NoNumber
    <3>2. i \in Int
      BY <2>3, Units DEF Floats
    <3>3. Clamp(i, 0, ONE) = 0
      BY <3>1, <3>2, ClampUnit
    <3>4. Scaled(l, 0) = NaN
      BY <3>1 DEF Scaled
    <3> QED
      BY <1>1, <3>3, <3>4 DEF Channel
  <2> QED
    BY <2>1, <2>2, <2>3
<1>2. CASE ~NoNumber(l, i, b)
  <2> DEFINE s == Scaled(l, Clamp(i, 0, ONE))
             c == Clamp(b, 0, ONE)
  <2>1. s \in Int /\ c \in 0..ONE
    BY <1>2, Numbers, ScaledIs, ClampUnit
  <2>2. Channel(l, i, b) = IF NaN \in {s, c} THEN NaN ELSE Clamp(10 * s + 3 * ONE * c, 0, FULL)
    BY DEF Channel
  <2> HIDE DEF s, c
  <2>3. NaN \notin {s, c} /\ 3 * ONE * c = 3 * (ONE * c)
    BY <2>1, Units
  <2> QED
    BY <1>2, <2>1, <2>2, <2>3 DEF s, c
<1> QED
  BY <1>1, <1>2

\* A channel is a colour in range, or NaN, whatever the floats.
LEMMA ChannelType ==
    ASSUME NEW l \in Floats, NEW i \in Floats, NEW b \in Floats
    PROVE  Channel(l, i, b) \in 0..FULL \cup {NaN}
<1>1. CASE NoNumber(l, i, b)
  BY <1>1, ChannelIs
<1>2. CASE ~NoNumber(l, i, b)
  <2> DEFINE s == Scaled(l, Clamp(i, 0, ONE))
             c == Clamp(b, 0, ONE)
  <2>1. s \in Int /\ c \in 0..ONE /\ Channel(l, i, b) = Clamp(10 * s + 3 * (ONE * c), 0, FULL)
    BY <1>2, ScaledIs, ChannelIs
  <2> HIDE DEF s, c
  <2>2. 10 * s + 3 * (ONE * c) \in Int
    BY <2>1, Units
  <2>3. \A m \in Int : Clamp(m, 0, FULL) \in 0..FULL
    BY Units DEF Clamp
  <2> QED
    BY <2>1, <2>2, <2>3
<1> QED
  BY <1>1, <1>2

-----------------------------------------------------------------------------
(* The zones that are resolved.                                            *)

Strips(zs, id) == {j \in DOMAIN zs : IsStrip(zs[j]) /\ zs[j].id = id}
StripIds(zs) == {zs[i].id : i \in {j \in DOMAIN zs : IsStrip(zs[j])}}

LEMMA LastStripIsLast ==
    ASSUME NEW zs \in ZoneLists, NEW id \in StripIds(zs)
    PROVE  /\ LastStrip(zs, id) \in Strips(zs, id)
           /\ \A j \in Strips(zs, id) : j <= LastStrip(zs, id)
           /\ zs[LastStrip(zs, id)].size.count \in Nat
<1>1. Len(zs) \in Nat /\ DOMAIN zs = 1..Len(zs)
  BY ZonesAssumption
<1> DEFINE l == Len(zs)
           T == {l - j : j \in Strips(zs, id)}
<1> HIDE DEF l
<1>2. l \in Nat /\ \A j \in Strips(zs, id) : j \in Nat /\ j <= l
  BY <1>1 DEF l, Strips
<1>3. T \in SUBSET Nat
  BY <1>2
<1>4. T # {}
  BY DEF StripIds, Strips
<1>5. PICK x \in T : \A y \in T : x <= y
  BY <1>3, <1>4, Least
<1>6. PICK i \in Strips(zs, id) : x = l - i
  BY <1>5
<1>7. \A j \in Strips(zs, id) : j <= i
  <2> TAKE j \in Strips(zs, id)
  <2>1. l - i <= l - j
    BY <1>5, <1>6
  <2> QED
    BY <1>2, <2>1
<1>8. \E m \in DOMAIN zs :
          /\ IsStrip(zs[m]) /\ zs[m].id = id
          /\ \A j \in DOMAIN zs : IsStrip(zs[j]) /\ zs[j].id = id => j <= m
  BY <1>7 DEF Strips
<1>9. /\ LastStrip(zs, id) \in Strips(zs, id)
      /\ \A j \in Strips(zs, id) : j <= LastStrip(zs, id)
  BY <1>8 DEF LastStrip, Strips
<1>10. zs[LastStrip(zs, id)].size.count \in Nat
  BY <1>9, ZonesAssumption DEF Strips, IsStrip
<1> QED
  BY <1>9, <1>10

\* The number of pixels of a strip.
Count(zs, id) == zs[LastStrip(zs, id)].size.count

LEMMA MapResolves ==
    ASSUME NEW zs \in ZoneLists, NEW a, NEW r, r = map_m1(a, zs, 0)
    PROVE  /\ DOMAIN r.zones = StripIds(zs)
           /\ \A id \in StripIds(zs) :
                 /\ Count(zs, id) \in Nat
                 /\ r.zones[id] = [p \in 1..Count(zs, id) |-> Pixel(a)]
                 /\ Len(r.zones[id]) = Count(zs, id)
                 /\ DOMAIN r.zones[id] = 1..Count(zs, id)
<1>1. /\ DOMAIN r.zones = StripIds(zs)
      /\ \A id \in StripIds(zs) :
            r.zones[id] = [p \in 1..Count(zs, id) |-> Pixel(a)]
  BY DEF map_m1, StripIds, Count, build_strip_pixels
<1>2. \A id \in StripIds(zs) : Count(zs, id) \in Nat
  BY LastStripIsLast DEF Count
<1> QED
  BY <1>1, <1>2

-----------------------------------------------------------------------------
(* The frame is the mapping's, of the fields as they are.                  *)

Mapped ==
    /\ zones \in ZoneLists
    /\ k \in Nat \ {0}
    /\ audio \in [Inputs -> Floats]
    /\ \/ resolved.zones = [id \in {} |-> <<>>]
       \/ resolved = map_m1(audio, zones, 0)

LEMMA InitMapped == Init => Mapped
<1> SUFFICES ASSUME Init
             PROVE  Mapped
  OBVIOUS
<1>1. 0 \in Floats
  BY Units DEF Floats
<1> QED
  BY <1>1, UniversesAssumption DEF Init, Mapped

LEMMA NextMapped == Mapped /\ [Next]_vars => Mapped'
<1> SUFFICES ASSUME Mapped, [Next]_vars
             PROVE  Mapped'
  OBVIOUS
<1>1. CASE UNCHANGED vars
  BY <1>1 DEF Mapped, vars
<1>2. ASSUME NEW f \in Inputs, NEW v \in Values[f], Frame(f, v)
      PROVE  Mapped'
  BY <1>2, ValuesAssumption DEF Frame, Mapped
<1> QED
  BY <1>1, <1>2 DEF Next

LEMMA AlwaysMapped == Spec => []Mapped
BY InitMapped, NextMapped, PTL DEF Spec

\* What that says of the frame's pixels.
Coloured ==
    /\ zones \in ZoneLists /\ k \in Nat \ {0} /\ audio \in [Inputs -> Floats]
    /\ DOMAIN resolved.zones = {} \/ DOMAIN resolved.zones = StripIds(zones)
    /\ \A id \in DOMAIN resolved.zones :
          /\ Count(zones, id) \in Nat
          /\ Len(resolved.zones[id]) = Count(zones, id)
          /\ DOMAIN resolved.zones[id] = 1..Count(zones, id)
          /\ \A p \in 1..Count(zones, id) : resolved.zones[id][p] = Pixel(audio)

LEMMA MappedColoured == Mapped => Coloured
<1> SUFFICES ASSUME Mapped
             PROVE  Coloured
  OBVIOUS
<1>1. CASE resolved.zones = [id \in {} |-> <<>>]
  BY <1>1 DEF Mapped, Coloured
<1>2. CASE resolved = map_m1(audio, zones, 0)
  <2>1. /\ DOMAIN resolved.zones = StripIds(zones)
        /\ \A id \in StripIds(zones) :
              /\ Count(zones, id) \in Nat
              /\ resolved.zones[id] = [p \in 1..Count(zones, id) |-> Pixel(audio)]
              /\ Len(resolved.zones[id]) = Count(zones, id)
              /\ DOMAIN resolved.zones[id] = 1..Count(zones, id)
    BY <1>2, MapResolves DEF Mapped
  <2> QED
    BY <2>1 DEF Mapped, Coloured
<1> QED
  BY <1>1, <1>2 DEF Mapped

LEMMA AlwaysColoured == Spec => []Coloured
BY AlwaysMapped, MappedColoured, PTL

\* Every frame has exactly the strips, each at the length of the last zone
\* listed with its id (mapping.rs:37-53).
THEOREM StripsAreResolved == Spec => ZonesResolved
<1>1. ASSUME Mapped, Next
      PROVE  StripsResolved
  <2> DEFINE strips == {i \in DOMAIN zones :
                           zones[i].kind = "PixelStrip" /\ zones[i].size.shape = "Strip"}
  <2>1. resolved' = map_m1(audio', zones, 0) /\ zones \in ZoneLists
    BY <1>1 DEF Next, Frame, Mapped
  <2>2. /\ DOMAIN resolved'.zones = StripIds(zones)
        /\ \A id \in StripIds(zones) : Len(resolved'.zones[id]) = Count(zones, id)
    <3>1. PICK a, r : a = audio' /\ r = resolved' /\ r = map_m1(a, zones, 0)
      BY <2>1
    <3>2. zones \in ZoneLists /\ r = map_m1(a, zones, 0)
      BY <2>1, <3>1
    <3>3. /\ DOMAIN r.zones = StripIds(zones)
          /\ \A id \in StripIds(zones) :
                /\ Count(zones, id) \in Nat
                /\ r.zones[id] = [p \in 1..Count(zones, id) |-> Pixel(a)]
                /\ Len(r.zones[id]) = Count(zones, id)
                /\ DOMAIN r.zones[id] = 1..Count(zones, id)
      BY <3>2, MapResolves
    <3> QED
      BY <3>1, <3>3
  <2>3. {zones[i].id : i \in strips} = StripIds(zones)
    BY DEF StripIds, IsStrip
  <2>4. ASSUME NEW i \in strips,
               \A n \in strips : zones[n].id = zones[i].id => n <= i
        PROVE  Count(zones, zones[i].id) = zones[i].size.count
    <3> DEFINE id == zones[i].id
               j == LastStrip(zones, id)
    <3>1. id \in StripIds(zones)
      BY <2>3
    <3>2. j \in Strips(zones, id) /\ \A m \in Strips(zones, id) : m <= j
      BY <2>1, <3>1, LastStripIsLast
    <3>3. i \in Strips(zones, id) /\ j \in strips /\ zones[j].id = id
      BY <3>2 DEF Strips, IsStrip
    <3>4. i <= j /\ j <= i
      BY <2>4, <3>2, <3>3
    <3>5. i \in Nat /\ j \in Nat
      <4>1. DOMAIN zones = 1..Len(zones) /\ Len(zones) \in Nat
        BY <2>1, ZonesAssumption
      <4> QED
        BY <3>3, <4>1
    <3> HIDE DEF j
    <3>6. i = j
      BY <3>4, <3>5
    <3> QED
      BY <3>6 DEF Count, j
  <2> QED
    BY <2>2, <2>3, <2>4 DEF StripsResolved
<1>2. Mapped /\ [Next]_vars => [StripsResolved]_vars
  BY <1>1
<1>3. Spec => [][StripsResolved]_vars
  BY <1>2, AlwaysMapped, PTL DEF Spec
<1> QED
  BY <1>3 DEF ZonesResolved

\* What a channel is made of.
LEMMA ChannelInputs ==
    ASSUME NEW a \in [Inputs -> Floats], NEW c \in Channels
    PROVE  /\ a[Band(c)] \in Floats /\ a[Intensity] \in Floats /\ a[OnBeat] \in Floats
           /\ Pixel(a)[c] = Channel(a[Band(c)], a[Intensity], a[OnBeat])
<1>1. {Band(c), Intensity, OnBeat} \subseteq Inputs
  BY DEF Channels, Band, Inputs
<1> QED
  BY <1>1 DEF Pixel

\* Whatever the fields hold, a beat is seen and a colour is no brighter than
\* its band and the flash (mapping.rs:18-25, 64-74).
THEOREM FlashIsVisible == Spec => []FlashVisible
<1>1. Coloured => FlashVisible
  <2> SUFFICES ASSUME Coloured, NEW id \in DOMAIN resolved.zones,
                      NEW p \in DOMAIN resolved.zones[id], NEW c \in Channels
               PROVE  LET x == resolved.zones[id][p][c]
                          level == audio[Band(c)]
                          flash == 3 * ONE * Clamp(audio[OnBeat], 0, ONE)
                      IN  IF NoNumber(level, audio[Intensity], audio[OnBeat]) THEN x = NaN
                          ELSE /\ x \in 0..FULL
                               /\ level >= 0 => flash <= x
                               /\ x <= 10 * ONE * Clamp(level, 0, ONE) + flash
    BY DEF FlashVisible
  <2> DEFINE l == audio[Band(c)]
             i == audio[Intensity]
             b == audio[OnBeat]
             x == resolved.zones[id][p][c]
  <2>1. x = Channel(l, i, b) /\ l \in Floats /\ i \in Floats /\ b \in Floats
    <3>1. resolved.zones[id][p] = Pixel(audio) /\ audio \in [Inputs -> Floats]
      BY DEF Coloured
    <3> QED
      BY <3>1, ChannelInputs
  <2> HIDE DEF l, i, b, x
  <2>2. CASE NoNumber(l, i, b)
    BY <2>1, <2>2, ChannelIs DEF l, i, b, x
  <2>3. CASE ~NoNumber(l, i, b)
    <3> DEFINE s == Scaled(l, Clamp(i, 0, ONE))
               e == Clamp(b, 0, ONE)
               k1 == Clamp(l, 0, ONE)
    <3>1. /\ e \in 0..ONE /\ x = Clamp(10 * s + 3 * (ONE * e), 0, FULL)
          /\ s \in Int /\ (l >= 0 => s >= 0) /\ (l <= 0 => s <= 0)
          /\ l >= 0 /\ l <= ONE => s <= ONE * l
      BY <2>1, <2>3, ChannelIs, ScaledIs
    <3>2. /\ l \in Int /\ k1 \in 0..ONE /\ (l <= 0 => k1 = 0) /\ (l >= ONE => k1 = ONE)
          /\ l >= 0 /\ l <= ONE => k1 = l
      BY <2>1, <2>3, Numbers, ClampUnit
    <3> HIDE DEF s, e, k1
    <3> DEFINE oe == ONE * e
               ol == ONE * k1
               one == ONE * ONE
    <3>3. /\ oe \in Nat /\ oe <= one /\ ol \in Nat /\ one \in Nat /\ FULL = 10 * one
          /\ (k1 = ONE => ol = one) /\ (k1 = 0 => ol = 0)
          /\ ONE \in Nat
      <4>1. e \in Nat /\ e <= ONE /\ ONE \in Nat /\ ONE <= ONE /\ k1 \in Nat
        BY <3>1, <3>2, Units
      <4>2. oe <= one
        BY <4>1, ProductsGrow
      <4> QED
        BY <4>1, <4>2, Units
    <3>4. l >= 0 /\ l <= ONE => s <= ol
      <4>1. l >= 0 /\ l <= ONE => ol = ONE * l
        BY <3>2
      <4> QED
        BY <3>1, <4>1
    <3>5. 3 * ONE * e = 3 * oe /\ 10 * ONE * k1 = 10 * ol
      BY <3>1, <3>2, Units
    <3> HIDE DEF oe, ol, one
    <3>6. /\ l <= 0 => s <= ol
          /\ l > ONE => ol = one
      BY <3>1, <3>2, <3>3
    <3>7. 10 * s + 3 * oe \in Int /\ 10 * s + 3 * oe # NaN
      BY <3>1, <3>3, Units
    <3>8. x = Clamp(10 * s + 3 * oe, 0, FULL)
      BY <3>1 DEF oe
    <3>9. x \in 0..FULL
      BY <3>3, <3>7, <3>8 DEF Clamp
    <3>10. l >= 0 => 3 * oe <= x
      BY <3>1, <3>3, <3>7, <3>8 DEF Clamp
    <3>11. x <= 10 * ol + 3 * oe
      <4>1. CASE l > ONE
        BY <3>3, <3>6, <3>9, <4>1
      <4>2. CASE l <= ONE
        <5>1. s <= ol
          BY <3>2, <3>3, <3>4, <3>6, <4>2
        <5> QED
          BY <3>1, <3>3, <3>7, <3>8, <5>1 DEF Clamp
      <4> QED
        BY <3>2, <3>3, <4>1, <4>2
    <3> QED
      BY <2>3, <3>5, <3>9, <3>10, <3>11 DEF l, i, b, x, e, k1
  <2> QED
    BY <2>2, <2>3
<1> QED
  BY <1>1, AlwaysColoured, PTL

\* A channel does not fall when its level, intensity and beat do not.
LEMMA ChannelGrows ==
    ASSUME NEW l \in Floats, NEW i \in Floats, NEW b \in Floats, ~NoNumber(l, i, b),
           NEW m \in Floats, NEW j \in Floats, NEW d \in Floats, ~NoNumber(m, j, d),
           l <= m, i <= j, b <= d, m >= 0
    PROVE  Channel(l, i, b) <= Channel(m, j, d)
<1> DEFINE s == Scaled(l, Clamp(i, 0, ONE))
           t == Scaled(m, Clamp(j, 0, ONE))
           e == Clamp(b, 0, ONE)
           f == Clamp(d, 0, ONE)
<1>1. s \in Int /\ t \in Int /\ s <= t
  BY ScaledIs, ScaledGrows
<1>2. /\ e \in 0..ONE /\ Channel(l, i, b) = Clamp(10 * s + 3 * (ONE * e), 0, FULL)
      /\ f \in 0..ONE /\ Channel(m, j, d) = Clamp(10 * t + 3 * (ONE * f), 0, FULL)
  BY ChannelIs
<1>3. e <= f
  BY Numbers, ClampUnit
<1> HIDE DEF s, t, e, f
<1>4. ONE * e <= ONE * f /\ ONE * e \in Nat /\ ONE * f \in Nat
  <2>1. e \in Nat /\ f \in Nat /\ ONE \in Nat /\ ONE <= ONE
    BY <1>2, Units
  <2> QED
    BY <1>3, <2>1, ProductsGrow
<1>5. \A x, y \in Int : x <= y => Clamp(x, 0, FULL) <= Clamp(y, 0, FULL)
  BY Units DEF Clamp
<1> DEFINE oe == ONE * e
           of == ONE * f
<1> HIDE DEF oe, of
<1>6. oe <= of /\ oe \in Nat /\ of \in Nat
  BY <1>4 DEF oe, of
<1>7. 10 * s + 3 * oe \in Int /\ 10 * t + 3 * of \in Int /\ 10 * s + 3 * oe <= 10 * t + 3 * of
  BY <1>1, <1>6
<1>8. Clamp(10 * s + 3 * oe, 0, FULL) <= Clamp(10 * t + 3 * of, 0, FULL)
  BY <1>5, <1>7
<1> QED
  BY <1>2, <1>8 DEF oe, of

\* A channel that is a number before and after, whose band, intensity and
\* beat do not fall, does not get darker (mapping.rs:64-74).
THEOREM ColoursNeverDarker == Spec => NeverDarker
<1> DEFINE Kept ==
      \A id \in DOMAIN resolved.zones \cap DOMAIN resolved'.zones :
      \A p \in DOMAIN resolved.zones[id] \cap DOMAIN resolved'.zones[id] :
      \A c \in Channels :
         /\ ~NoNumber(audio[Band(c)], audio[Intensity], audio[OnBeat])
         /\ ~NoNumber(audio'[Band(c)], audio'[Intensity], audio'[OnBeat])
         /\ \A f \in {Band(c), Intensity, OnBeat} : audio[f] <= audio'[f]
         /\ audio'[Band(c)] >= 0
         => resolved.zones[id][p][c] <= resolved'.zones[id][p][c]
<1>1. ASSUME Coloured, Coloured',
             NEW id \in DOMAIN resolved.zones \cap DOMAIN resolved'.zones,
             NEW p \in DOMAIN resolved.zones[id] \cap DOMAIN resolved'.zones[id],
             NEW c \in Channels,
             ~NoNumber(audio[Band(c)], audio[Intensity], audio[OnBeat]),
             ~NoNumber(audio'[Band(c)], audio'[Intensity], audio'[OnBeat]),
             \A f \in {Band(c), Intensity, OnBeat} : audio[f] <= audio'[f],
             audio'[Band(c)] >= 0
      PROVE  resolved.zones[id][p][c] <= resolved'.zones[id][p][c]
  <2>1. resolved.zones[id][p] = Pixel(audio) /\ audio \in [Inputs -> Floats]
    BY <1>1 DEF Coloured
  <2>2. resolved'.zones[id][p] = Pixel(audio') /\ audio' \in [Inputs -> Floats]
    BY <1>1 DEF Coloured
  <2> DEFINE old == audio
             new == audio'
  <2>3. old \in [Inputs -> Floats] /\ new \in [Inputs -> Floats]
    BY <2>1, <2>2
  <2>4. /\ ~NoNumber(old[Band(c)], old[Intensity], old[OnBeat])
        /\ ~NoNumber(new[Band(c)], new[Intensity], new[OnBeat])
        /\ \A f \in {Band(c), Intensity, OnBeat} : old[f] <= new[f]
        /\ new[Band(c)] >= 0
    BY <1>1
  <2> HIDE DEF old, new
  <2>5. /\ old[Band(c)] \in Floats /\ old[Intensity] \in Floats /\ old[OnBeat] \in Floats
        /\ Pixel(old)[c] = Channel(old[Band(c)], old[Intensity], old[OnBeat])
    BY <2>3, ChannelInputs
  <2>6. /\ new[Band(c)] \in Floats /\ new[Intensity] \in Floats /\ new[OnBeat] \in Floats
        /\ Pixel(new)[c] = Channel(new[Band(c)], new[Intensity], new[OnBeat])
    BY <2>3, ChannelInputs
  <2>7. Pixel(old)[c] <= Pixel(new)[c]
    BY <2>4, <2>5, <2>6, ChannelGrows
  <2> QED
    BY <2>1, <2>2, <2>7 DEF old, new
<1>2. Coloured /\ Coloured' /\ [Next]_vars => [Kept]_vars
  BY <1>1
<1> HIDE DEF Kept
<1>3. Spec => [][Kept]_vars
  BY <1>2, AlwaysColoured, PTL DEF Spec
<1> QED
  BY <1>3 DEF Kept, NeverDarker

-----------------------------------------------------------------------------
(* What the receivers hold.                                                *)

\* The colour that belongs in a slot of the j-th universe.
SlotColour(pixels, j, s) ==
    pixels[SlotSource(j, s)[1] + 1][<<"r", "g", "b">>[SlotSource(j, s)[2] + 1]]

LEMMA SlotBytesAre ==
    ASSUME NEW pixels, Len(pixels) \in Nat, NEW n \in Nat, NEW j \in 1..n
    PROVE  LET slots == SlotBytes(pixels, n)[j]
               size == 3 * ChunkPixels(Len(pixels), n, j)
           IN  /\ size \in Nat /\ Len(slots) = size /\ DOMAIN slots = 1..size
               /\ \A s \in 1..size : slots[s] = gamma_encode(SlotColour(pixels, j, s))
<1> DEFINE size == 3 * ChunkPixels(Len(pixels), n, j)
<1>1. ChunkPixels(Len(pixels), n, j) \in Nat
  BY ChunkBounds, LimitTypes
<1>2. size \in Nat
  BY <1>1
<1>3. partition_rgb(Len(pixels), n)[j] = [s \in 1..size |-> SlotSource(j, s)]
  BY DEF partition_rgb
<1> HIDE DEF size
<1>4. SlotBytes(pixels, n)[j] = [s \in 1..size |-> gamma_encode(SlotColour(pixels, j, s))]
  <2>1. DOMAIN [s \in 1..size |-> SlotSource(j, s)] = 1..size
    OBVIOUS
  <2> QED
    BY <1>3, <2>1 DEF SlotBytes, SlotColour
<1> QED
  BY <1>2, <1>4 DEF size

LEMMA OverlayOf ==
    ASSUME NEW new, NEW old, Len(new) \in Nat, Len(old) \in Nat
    PROVE  LET both == Overlay(new, old)
               size == Greater(Len(new), Len(old))
           IN  /\ Len(both) = size /\ size \in Nat /\ DOMAIN both = 1..size
               /\ \A s \in 1..Len(new) : s \in 1..size /\ both[s] = new[s]
<1> DEFINE size == Greater(Len(new), Len(old))
<1>1. size \in Nat /\ Len(new) <= size
  BY DEF Greater
<1> HIDE DEF size
<1>2. Overlay(new, old) = [s \in 1..size |-> IF s <= Len(new) THEN new[s] ELSE old[s]]
  BY DEF Overlay, size
<1> QED
  BY <1>1, <1>2 DEF size

\* Slots that hold the bytes of a payload.
Shows(pixels, count) ==
    \A j \in 1..k : \A s \in 1..(3 * ChunkPixels(count, k, j)) :
        /\ s \in DOMAIN wire[j]
        /\ wire[j][s] = gamma_encode(SlotColour(pixels, j, s))

\* The strengthening: with one strip, no receiver holds more than its pixels.
Wired ==
    /\ DOMAIN wire = 1..k
    /\ \A j \in 1..k : Len(wire[j]) \in Nat /\ DOMAIN wire[j] = 1..Len(wire[j])
    /\ \A id \in StripIds(zones) :
          StripIds(zones) = {id} =>
             \A j \in 1..k : Len(wire[j]) <= 3 * ChunkPixels(Count(zones, id), k, j)
    /\ DOMAIN resolved.zones # {} =>
          \E id \in DOMAIN resolved.zones :
             Shows(resolved.zones[id], Count(zones, id))

LEMMA InitWired == Init => Wired
<1> SUFFICES ASSUME Init
             PROVE  Wired
  OBVIOUS
<1>1. DOMAIN wire = 1..k /\ \A j \in 1..k : wire[j] = <<>>
  BY DEF Init
<1>2. DOMAIN resolved.zones = {}
  BY DEF Init
<1>3. ASSUME NEW id \in StripIds(zones), NEW j \in 1..k
      PROVE  0 <= 3 * ChunkPixels(Count(zones, id), k, j)
  <2>1. Count(zones, id) \in Nat /\ k \in Nat
    BY <1>3, LastStripIsLast, UniversesAssumption DEF Init, Count
  <2>2. ChunkPixels(Count(zones, id), k, j) \in Nat
    BY <2>1, ChunkBounds, LimitTypes
  <2> QED
    BY <2>2
<1> QED
  BY <1>1, <1>2, <1>3 DEF Wired

LEMMA NextWired == Wired /\ Coloured /\ Coloured' /\ [Next]_vars => Wired'
<1> SUFFICES ASSUME Wired, Coloured, Coloured', [Next]_vars
             PROVE  Wired'
  OBVIOUS
<1>1. CASE UNCHANGED vars
  BY <1>1 DEF Wired, Shows, vars
<1>2. ASSUME NEW f \in Inputs, NEW v \in Values[f], Frame(f, v)
      PROVE  Wired'
  <2>1. zones' = zones /\ k' = k /\ wire' \in Rendered(resolved', wire)
    BY <1>2 DEF Frame
  <2>2. CASE DOMAIN resolved'.zones = {}
    BY <2>1, <2>2 DEF Rendered, Wired
  <2>3. CASE DOMAIN resolved'.zones # {}
    <3>1. PICK id \in DOMAIN resolved'.zones :
              wire' = [j \in 1..k |->
                          Overlay(SlotBytes(resolved'.zones[id], k)[j], wire[j])]
      BY <2>1, <2>3 DEF Rendered
    <3> DEFINE pixels == resolved'.zones[id]
               count == Count(zones, id)
               new(j) == SlotBytes(pixels, k)[j]
               size(j) == 3 * ChunkPixels(count, k, j)
    <3>2. /\ count \in Nat /\ Len(pixels) = count /\ k \in Nat
          /\ DOMAIN resolved'.zones = StripIds(zones)
      BY <2>1, <2>3 DEF Coloured
    <3>3. ASSUME NEW j \in 1..k
          PROVE  /\ size(j) \in Nat /\ Len(new(j)) = size(j)
                 /\ \A s \in 1..size(j) : new(j)[s] = gamma_encode(SlotColour(pixels, j, s))
      <4> HIDE DEF pixels, count
      <4> QED
        BY <3>2, <3>3, SlotBytesAre
    <3> HIDE DEF pixels, count, new, size
    <3>4. ASSUME NEW j \in 1..k
          PROVE  /\ wire'[j] = Overlay(new(j), wire[j])
                 /\ Len(wire'[j]) = Greater(size(j), Len(wire[j]))
                 /\ Len(wire'[j]) \in Nat
                 /\ DOMAIN wire'[j] = 1..Len(wire'[j])
                 /\ \A s \in 1..size(j) : s \in DOMAIN wire'[j] /\ wire'[j][s] = new(j)[s]
      <4>1. wire'[j] = Overlay(new(j), wire[j])
        BY <3>1, <3>4 DEF new, pixels
      <4>2. Len(new(j)) = size(j) /\ size(j) \in Nat /\ Len(wire[j]) \in Nat
        BY <3>3, <3>4 DEF Wired
      <4> QED
        BY <4>1, <4>2, OverlayOf
    <3>5. DOMAIN wire' = 1..k
      BY <3>1
    <3>6. ASSUME NEW d \in StripIds(zones), StripIds(zones) = {d}, NEW j \in 1..k
          PROVE  Len(wire'[j]) <= 3 * ChunkPixels(Count(zones, d), k, j)
      <4>1. d = id
        BY <3>2, <3>6
      <4>2. Len(wire[j]) <= size(j)
        BY <3>6, <4>1 DEF Wired, size, count
      <4>3. Len(wire'[j]) <= size(j)
        BY <3>3, <3>4, <3>6, <4>2 DEF Greater, Wired
      <4> QED
        BY <4>1, <4>3 DEF size, count
    <3>7. Shows(resolved.zones[id], Count(zones, id))'
      BY <2>1, <3>3, <3>4 DEF Shows, size, count, pixels
    <3> QED
      BY <2>1, <3>1, <3>4, <3>5, <3>6, <3>7 DEF Wired
  <2> QED
    BY <2>2, <2>3
<1> QED
  BY <1>1, <1>2 DEF Next

LEMMA AlwaysWired == Spec => []Wired
BY InitWired, NextWired, AlwaysColoured, PTL DEF Spec

\* The place a receiver counts a slot at is the one it was filled from.
LEMMA SlotAtPlace ==
    ASSUME NEW count \in Nat, NEW n \in Nat, NEW j \in 1..n,
           NEW s \in 1..(3 * ChunkPixels(count, n, j))
    PROVE  LET P == MAX_RGB_PIXELS_PER_UNIVERSE IN
           \E p \in {q \in 0..(count - 1) : q < n * P}, c \in 0..2 :
              <<p \div P + 1, 3 * (p % P) + c + 1>> = <<j, s>>
<1> DEFINE P == MAX_RGB_PIXELS_PER_UNIVERSE
           q == (s - 1) \div 3
           b == (s - 1) % 3
<1>1. P \in Nat \ {0} /\ ChunkPixels(count, n, j) \in 0..P
  BY LimitTypes, ChunkBounds
<1>2. q \in Nat /\ b \in 0..2 /\ s - 1 = 3 * q + b
  BY <1>1
<1>3. PICK p \in 0..(count - 1), c \in 0..2 :
          p < n * P /\ SlotSource(j, s) = <<p, c>>
  BY SlotComesFromPixel
<1>4. p = (j - 1) * P + q /\ c = b
  BY <1>3 DEF SlotSource
<1> HIDE DEF P, q, b
<1>5. q < P
  BY <1>1, <1>2
<1>6. p \div P = j - 1 /\ p % P = q
  <2> DEFINE d == p \div P
             r == p % P
             before == (j - 1) * P
  <2>1. d \in Nat /\ r \in 0..(P - 1) /\ p = P * d + r
    <3>1. p \in Nat
      OBVIOUS
    <3>2. P \in Nat \ {0}
      BY <1>1
    <3> QED
      BY <3>1, <3>2, DivMod
  <2> HIDE DEF d, r
  <2>2. j - 1 \in Nat
    OBVIOUS
  <2>3. d * P = P * d /\ (d + 1) * P = P * d + P /\ ((j - 1) + 1) * P = before + P
    BY <1>1, <2>1
  <2>4. CASE d < j - 1
    <3>1. (d + 1) * P <= (j - 1) * P
      BY <1>1, <2>1, <2>2, <2>4, Monotone
    <3> QED
      BY <1>1, <1>2, <1>4, <2>1, <2>3, <3>1
  <2>5. CASE d > j - 1
    <3>1. ((j - 1) + 1) * P <= d * P
      BY <1>1, <2>1, <2>2, <2>5, Monotone
    <3> QED
      BY <1>1, <1>2, <1>4, <1>5, <2>1, <2>3, <3>1
  <2>6. CASE d = j - 1
    BY <1>1, <1>2, <1>4, <2>1, <2>3, <2>6 DEF d, r
  <2> QED
    BY <2>1, <2>2, <2>4, <2>5, <2>6
<1>7. 3 * q + b + 1 = s
  BY <1>2
<1> QED
  BY <1>3, <1>4, <1>6, <1>7 DEF P

\* Each byte the receivers show is its pixel's, at its place, dark for NaN,
\* and with one strip nothing else is shown (adapter.rs:150-210,
\* packet.rs:287-307).
THEOREM ReceiversShowTheFrame == Spec => []ReceiversShowFrame
<1>1. Coloured /\ Wired => ReceiversShowFrame
  <2> SUFFICES ASSUME Coloured, Wired, DOMAIN resolved.zones # {}
               PROVE  ReceiversShowFrame
    BY DEF ReceiversShowFrame
  <2> DEFINE P == MAX_RGB_PIXELS_PER_UNIVERSE
             Place(p, c) == <<p \div P + 1, 3 * (p % P) + c + 1>>
  <2>1. PICK id \in DOMAIN resolved.zones : Shows(resolved.zones[id], Count(zones, id))
    BY DEF Wired
  <2> DEFINE pixels == resolved.zones[id]
             count == Count(zones, id)
             fits == {p \in 0..(Len(pixels) - 1) : p < k * P}
  <2>2. /\ count \in Nat /\ Len(pixels) = count /\ k \in Nat
        /\ \A p \in 1..count : pixels[p] = Pixel(audio)
        /\ id \in StripIds(zones) /\ DOMAIN resolved.zones = StripIds(zones)
        /\ audio \in [Inputs -> Floats]
    BY DEF Coloured
  <2> HIDE DEF pixels, count
  <2>3. ASSUME NEW p \in fits, NEW c \in 0..2
        PROVE  LET x == pixels[p + 1][<<"r", "g", "b">>[c + 1]]
                   j == Place(p, c)[1]
                   s == Place(p, c)[2]
               IN  /\ s \in DOMAIN wire[j]
                   /\ wire[j][s] = IF x = NaN THEN 0 ELSE Curve[x]
    <3> DEFINE x == pixels[p + 1][<<"r", "g", "b">>[c + 1]]
               j == p \div P + 1
               s == 3 * (p % P) + c + 1
    <3>1. p \in Nat /\ p < count /\ p < k * P
      BY <2>2
    <3>2. /\ j \in 1..k /\ s \in 1..(3 * ChunkPixels(count, k, j))
          /\ SlotSource(j, s) = <<p, c>>
      BY <2>2, <3>1, PixelLands
    <3> HIDE DEF j, s
    <3>3. s \in DOMAIN wire[j] /\ wire[j][s] = gamma_encode(x)
      BY <2>1, <3>2 DEF Shows, SlotColour, pixels, count
    <3>4. x \in 0..FULL \cup {NaN}
      <4> DEFINE d == <<"r", "g", "b">>[c + 1]
      <4>1. d \in Channels
        BY DEF Channels
      <4>2. x = Pixel(audio)[d]
        BY <2>2, <3>1
      <4> HIDE DEF d
      <4>3. {Band(d), Intensity, OnBeat} \subseteq Inputs
        BY <4>1 DEF Channels, Band, Inputs
      <4>4. x = Channel(audio[Band(d)], audio[Intensity], audio[OnBeat])
        BY <4>1, <4>2 DEF Pixel
      <4> QED
        BY <2>2, <4>3, <4>4, ChannelType
    <3> HIDE DEF x
    <3>5. gamma_encode(x) = IF x = NaN THEN 0 ELSE Curve[x]
      BY <3>4, CurveAssumption, Units DEF gamma_encode, Clamp
    <3> QED
      BY <3>3, <3>5 DEF j, s, x
  <2>4. ASSUME DOMAIN resolved.zones = {id}, NEW j \in 1..k, NEW s \in DOMAIN wire[j]
        PROVE  \E p \in fits, c \in 0..2 : Place(p, c) = <<j, s>>
    <3>1. s \in 1..Len(wire[j]) /\ Len(wire[j]) \in Nat
      BY <2>4 DEF Wired
    <3>2. Len(wire[j]) <= 3 * ChunkPixels(count, k, j)
      BY <2>2, <2>4 DEF Wired, count
    <3>3. ChunkPixels(count, k, j) \in Nat
      <4>1. ChunkPixels(count, k, j) \in 0..P
        BY <2>2, ChunkBounds
      <4> QED
        BY <4>1, LimitTypes
    <3>4. s \in 1..(3 * ChunkPixels(count, k, j))
      BY <3>1, <3>2, <3>3
    <3> QED
      BY <2>2, <2>4, <3>4, SlotAtPlace
  <2> QED
    BY <2>3, <2>4 DEF ReceiversShowFrame, pixels
<1> QED
  BY <1>1, AlwaysColoured, AlwaysWired, PTL
=============================================================================
