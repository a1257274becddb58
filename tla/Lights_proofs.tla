--------------------------- MODULE Lights_proofs ---------------------------
(***************************************************************************)
(* Proofs about Lights, for any datagrams, unit of the floats, strip and   *)
(* number of ticks: what OscIngress_proofs shows of the builder, carried   *)
(* through the mapping into the published frames.                          *)
(***************************************************************************)
EXTENDS Lights, OscIngress_proofs

-----------------------------------------------------------------------------
(* The loop uses the listener as ingress allows.                           *)

LEMMA StepIsIngress == [LightsNext]_lights_vars => [Next]_vars
  <1>1. Listen => Next
    BY DEF Listen, Next
  <1>2. Publish => Next
    BY DEF Publish, Next
  <1>3. UNCHANGED lights_vars => UNCHANGED vars
    BY DEF lights_vars, ingress_vars
  <1> QED BY <1>1, <1>2, <1>3 DEF LightsNext

\* Every run of the loop is one of ingress: what is proved of the builder
\* holds in it (main.rs:202-212).
THEOREM LoopRunsIngress == LightsSpec => Spec
  <1>1. LightsInit => Init
    BY DEF LightsInit
  <1> QED BY <1>1, StepIsIngress, PTL DEF LightsSpec, Spec

\* The builder of the loop, typed and in range.
LEMMA LoopBuilder == LightsSpec => [](TypeOK /\ FieldsInRange)
  <1>1. TypeOK /\ FieldsInRange /\ [Next]_vars => (TypeOK /\ FieldsInRange)'
    BY NextTypeOK, NextRange
  <1> QED BY InitRange, <1>1, LoopRunsIngress, PTL DEF Spec

-----------------------------------------------------------------------------
(* The colour of a channel.                                                *)

LEMMA ProductGrows ==
    ASSUME NEW x \in 0..ONE, NEW y \in 0..ONE
    PROVE  x * y \in Nat /\ x * y <= ONE * ONE
  <1>1. ONE \in Nat /\ x \in Nat /\ y \in Nat /\ ONE - x \in Nat /\ ONE - y \in Nat
    BY LimitOrder
  <1>2. x * y \in Nat /\ (ONE - x) * ONE \in Nat /\ x * (ONE - y) \in Nat
    BY <1>1
  <1>3. ONE * ONE - x * y = (ONE - x) * ONE + x * (ONE - y)
    BY <1>1
  <1> QED BY <1>1, <1>2, <1>3

\* Of a level, an intensity and a beat between 0.0 and 1.0 comes a channel
\* between them, at least as bright as the flash.
LEMMA ChannelLit ==
    ASSUME NEW l \in 0..ONE, NEW i \in 0..ONE, NEW b \in 0..ONE
    PROVE  Channel(l, i, b) \in 0..FULL /\ 3 * ONE * b <= Channel(l, i, b)
  <1> DEFINE x == l * i
             y == ONE * b
  <1>1. x \in Nat /\ x <= ONE * ONE /\ y \in Nat /\ y <= ONE * ONE
    <2>1. ONE \in 0..ONE
      BY LimitOrder
    <2> QED BY <2>1, ProductGrows
  <1>2. ONE \in Nat /\ ONE * ONE \in Nat /\ FULL = 10 * (ONE * ONE)
    BY LimitOrder DEF FULL
  <1>3. l # NaN /\ i # NaN /\ b # NaN /\ INFINITY > ONE /\ INFINITY \in Nat
    BY NaNAssumption, InfinityAssumption
  <1>4. Clamp(i, 0, ONE) = i /\ Clamp(b, 0, ONE) = b
    BY <1>2, <1>3 DEF Clamp
  <1>5. Scaled(l, i) = x
    BY <1>2, <1>3 DEF Scaled
  <1>6. 3 * ONE * b = 3 * y
    BY <1>2
  <1>7. x # NaN /\ NaN \notin {x, b}
    BY <1>1, <1>3, NaNAssumption
  <1>8. Channel(l, i, b) = Clamp(10 * x + 3 * y, 0, FULL)
    BY <1>4, <1>5, <1>6, <1>7 DEF Channel
  <1> HIDE DEF x, y
  <1>9. 10 * x + 3 * y \in Nat /\ 3 * y <= FULL /\ FULL \in Nat
    BY <1>1, <1>2
  <1>10. 10 * x + 3 * y # NaN
    BY <1>9, NaNAssumption
  <1>11. Clamp(10 * x + 3 * y, 0, FULL) \in 0..FULL /\ 3 * y <= Clamp(10 * x + 3 * y, 0, FULL)
    BY <1>1, <1>9, <1>10 DEF Clamp
  <1> QED BY <1>6, <1>8, <1>11

\* The fields a channel is made of are the builder's, each from 0.0 to 1.0.
LEMMA ChannelFields ==
    ASSUME NEW c \in Channels
    PROVE  \A f \in {Band(c), Intensity, OnBeat} : f \in Fields /\ RangeOf(f) = 0..ONE
  <1>1. {Bass, Mid, High, Intensity, OnBeat} \subseteq Fields
    BY DEF Bass, Mid, High, Intensity, OnBeat, Fields, Views, Bands, Scalars
  <1>2. Band(c) \in {Bass, Mid, High}
    BY DEF Band, Channels
  <1>3. \A f \in {Bass, Mid, High, Intensity, OnBeat} : f # T /\ f # BPM
    BY DEF Bass, Mid, High, Intensity, OnBeat, T, BPM
  <1>4. \A f \in {Band(c), Intensity, OnBeat} : f \in {Bass, Mid, High, Intensity, OnBeat}
    BY <1>2
  <1> QED BY <1>1, <1>3, <1>4 DEF RangeOf

\* The one zone of run is a strip: its pixels are all that is mapped.
LEMMA StripIsMapped ==
    ASSUME NEW audio, NEW n
    PROVE  map_m1(audio, zones, n).zones = [id \in {"strip"} |-> build_strip_pixels(audio, pixels)]
  <1>1. /\ DOMAIN zones = {1} /\ zones[1].id = "strip"
        /\ zones[1].size.count = pixels /\ IsStrip(zones[1])
    BY DEF zones, IsStrip, Strip
  <1>2. {zones[i].id : i \in {j \in DOMAIN zones : IsStrip(zones[j])}} = {"strip"}
    BY <1>1
  <1>3. LastStrip(zones, "strip") = 1
    BY <1>1 DEF LastStrip
  <1> QED BY <1>1, <1>2, <1>3 DEF map_m1

-----------------------------------------------------------------------------
(* What is published is the mapping of the last frame.                     *)

\* The pixels of the last frame, or none before the first.
Shown(zs) ==
    zs = [id \in {} |-> <<>>] \/ zs = [id \in {"strip"} |-> build_strip_pixels(frame, pixels)]

\* The strengthening: between two datagrams nothing gets into the builder
\* that the frame before does not have.
Lit ==
    /\ pixels \in Nat
    /\ pc = "receiving" => builder = frame
    /\ pc = "applying" => before = frame
    /\ Shown(bus.zones)

LEMMA InitLit == LightsInit => Lit
  BY PixelsAssumption DEF LightsInit, Init, Lit, Shown, EmptyFrame

LEMMA NextLit == Lit /\ [LightsNext]_lights_vars => Lit'
  <1> SUFFICES ASSUME Lit, [LightsNext]_lights_vars PROVE Lit'
    OBVIOUS
  <1>1. CASE Listen
    <2>1. pixels' = pixels /\ bus' = bus
      BY <1>1 DEF Listen
    <2>2. ASSUME NEW packet \in Packets, Decoded(packet) PROVE Lit'
      BY <2>1, <2>2 DEF Decoded, Call, Lit, Shown
    <2>3. ASSUME NEW r \in {"Io", "Decode"}, RecvErr(r) PROVE Lit'
      BY <2>1, <2>3 DEF RecvErr, Lit, Shown
    <2>4. ASSUME ApplyMessage \/ ApplyBundle PROVE Lit'
      BY <2>1, <2>4 DEF ApplyMessage, ApplyBundle, Lit, Shown
    <2> QED BY <1>1, <2>2, <2>3, <2>4 DEF Listen
  <1>2. CASE Publish
    <2>1. /\ pixels' = pixels /\ pc' = "receiving"
          /\ builder' = builder /\ frame' = builder
      BY <1>2 DEF Publish, RecvOk, Applied
    <2>2. bus'.zones = [id \in {"strip"} |-> build_strip_pixels(frame', pixels)]
      BY <1>2, StripIsMapped DEF Publish
    <2> QED BY <2>1, <2>2 DEF Lit, Shown
  <1>3. CASE UNCHANGED lights_vars
    BY <1>3 DEF lights_vars, ingress_vars, vars, Lit, Shown
  <1> QED BY <1>1, <1>2, <1>3 DEF LightsNext

LEMMA AlwaysLit == LightsSpec => []Lit
  BY InitLit, NextLit, PTL DEF LightsSpec

\* The strip's pixels, one by one.
LEMMA ShownPixels ==
    ASSUME NEW zs, NEW audio, pixels \in Nat,
           \/ zs = [id \in {} |-> <<>>]
           \/ zs = [id \in {"strip"} |-> build_strip_pixels(audio, pixels)],
           NEW id \in DOMAIN zs, NEW p \in DOMAIN zs[id], NEW c \in Channels
    PROVE  zs[id][p][c] = Channel(audio[Band(c)], audio[Intensity], audio[OnBeat])
  BY DEF build_strip_pixels, Pixel

\* Every channel of every published frame is a number from 0.0 to 1.0,
\* whatever arrives: the mapping, which lets NaN through, is never given one
\* (frame.rs:176-202, mapping.rs:64-74, main.rs:205-206).
THEOREM ColoursStayInRange == LightsSpec => []ColoursInRange
  <1>1. FieldsInRange /\ Lit => ColoursInRange
    <2> SUFFICES ASSUME FieldsInRange, Lit, NEW id \in DOMAIN bus.zones,
                        NEW p \in DOMAIN bus.zones[id], NEW c \in Channels
                 PROVE  bus.zones[id][p][c] \in 0..FULL
      BY DEF ColoursInRange
    <2>1. \A f \in {Band(c), Intensity, OnBeat} : frame[f] \in 0..ONE
      BY ChannelFields DEF FieldsInRange
    <2>2. bus.zones[id][p][c] = Channel(frame[Band(c)], frame[Intensity], frame[OnBeat])
      BY ShownPixels DEF Lit, Shown
    <2> QED BY <2>1, <2>2, ChannelLit
  <1> QED BY <1>1, LoopBuilder, AlwaysLit, PTL

-----------------------------------------------------------------------------
(* From a datagram to the frame published next.                            *)

\* The listener ends a datagram only with a publication.
LEMMA PublishedByPublish ==
    ASSUME [LightsNext]_lights_vars, Published
    PROVE  /\ builder' = builder /\ frame' = builder /\ pixels' = pixels
           /\ bus'.zones = [id \in {"strip"} |-> build_strip_pixels(frame', pixels)]
  <1>1. ~ UNCHANGED lights_vars
    BY DEF Published, lights_vars, ingress_vars, vars
  <1>2. ~ Listen
    BY DEF Published, Listen, Decoded, Call, RecvErr, ApplyMessage, ApplyBundle
  <1>3. Publish
    BY <1>1, <1>2 DEF LightsNext
  <1> QED BY <1>3, StripIsMapped DEF Publish, RecvOk, Applied

\* What the builder's last words mean at that step.
LastWords ==
    [pc = "applying" /\ pc' = "receiving" =>
        \A f \in Fields : LastWord(walk_for_raw[datagram], f, before[f], builder'[f])]_vars

LEMMA PublishedLastWords ==
    ASSUME LastWords, Published, NEW f \in Fields
    PROVE  LastWord(walk_for_raw[datagram], f, before[f], builder'[f])
  BY DEF LastWords, Published, vars

\* Whatever else a datagram says, its last usable word about the beat lights
\* every channel of the frame published next by 0.3 of it
\* (mapping.rs:18-25, lib.rs:163-220).
THEOREM BeatAlwaysLightsStrip == LightsSpec => BeatLightsStrip
  <1> DEFINE Beats ==
        Published =>
          \A i \in DOMAIN walk_for_raw[datagram] :
             LET said == walk_for_raw[datagram] IN
             Writes(said[i], OnBeat)
             /\ (\A j \in DOMAIN said : Writes(said[j], OnBeat) => j <= i)
             => \A id \in DOMAIN bus'.zones : \A p \in DOMAIN bus'.zones[id] :
                   \A c \in Channels :
                      Flash(first_float(said[i].args)) <= bus'.zones[id][p][c]
  <1>1. TypeOK /\ FieldsInRange' /\ Lit /\ LastWords /\ [LightsNext]_lights_vars
        => [Beats]_lights_vars
    <2> SUFFICES ASSUME TypeOK, FieldsInRange', Lit, LastWords, [LightsNext]_lights_vars,
                        Published,
                        NEW i \in DOMAIN walk_for_raw[datagram],
                        Writes(walk_for_raw[datagram][i], OnBeat),
                        \A j \in DOMAIN walk_for_raw[datagram] :
                           Writes(walk_for_raw[datagram][j], OnBeat) => j <= i,
                        NEW id \in DOMAIN bus'.zones, NEW p \in DOMAIN bus'.zones[id],
                        NEW c \in Channels
                 PROVE  Flash(first_float(walk_for_raw[datagram][i].args))
                           <= bus'.zones[id][p][c]
      OBVIOUS
    <2> DEFINE said == walk_for_raw[datagram]
               v == first_float(said[i].args)
    <2>1. frame' = builder' /\ pixels \in Nat
          /\ bus'.zones = [s \in {"strip"} |-> build_strip_pixels(frame', pixels)]
      BY PublishedByPublish DEF Lit
    <2>2. bus'.zones[id][p][c]
             = Channel(frame'[Band(c)], frame'[Intensity], frame'[OnBeat])
      BY <2>1, ShownPixels
    <2>3. \A f \in {Band(c), Intensity, OnBeat} : f \in Fields /\ frame'[f] \in 0..ONE
      BY ChannelFields DEF FieldsInRange
    <2>4. \A j \in DOMAIN said : j \in Nat
      <3>1. said \in Seq(Packets)
        BY WalkType DEF TypeOK, Walked
      <3> QED BY <3>1
    <2>5. LastWord(said, OnBeat, before[OnBeat], builder'[OnBeat])
      BY <2>3, PublishedLastWords
    <2>6. builder'[OnBeat] = Written(OnBeat, before[OnBeat], v)
      <3>1. PICK j \in DOMAIN said :
               /\ Writes(said[j], OnBeat)
               /\ \A m \in DOMAIN said : Writes(said[m], OnBeat) => m <= j
               /\ builder'[OnBeat] = Written(OnBeat, before[OnBeat], first_float(said[j].args))
        BY <2>5 DEF LastWord
      <3>2. j = i
        BY <2>4, <3>1
      <3> QED BY <3>1, <3>2
    <2> HIDE DEF said, v
    <2>7. Written(OnBeat, before[OnBeat], v) = clamp_unit(v)
      BY DEF Written, OnBeat, T, BPM
    <2>8. Flash(v) = 3 * ONE * clamp_unit(v)
      BY DEF Flash, clamp_unit, Clamp
    <2>9. Flash(v) = 3 * ONE * frame'[OnBeat]
      BY <2>1, <2>6, <2>7, <2>8
    <2>10. 3 * ONE * frame'[OnBeat] <= bus'.zones[id][p][c]
      BY <2>2, <2>3, ChannelLit
    <2> QED BY <2>9, <2>10 DEF v, said
  <1>2. LightsSpec => [][Beats]_lights_vars
    <2> HIDE DEF Beats
    <2>1. LightsSpec => [][pc = "applying" /\ pc' = "receiving" =>
              \A f \in Fields : LastWord(walk_for_raw[datagram], f, before[f], builder'[f])]_vars
      BY LoopRunsIngress, LastWriterAlwaysWins, PTL DEF LastWriterWins
    <2>2. LightsSpec => [][LightsNext]_lights_vars
      BY PTL DEF LightsSpec
    <2> QED BY <1>1, <2>1, <2>2, LoopBuilder, AlwaysLit, PTL DEF LastWords
  <1> QED BY <1>2 DEF BeatLightsStrip

\* No channel of the strip changes but by a usable message about its own
\* band, the intensity or the beat
\* (lib.rs:129-172, frame.rs:130-148, mapping.rs:64-74, main.rs:202-212).
THEOREM OnlySaidChannelsEverChange == LightsSpec => OnlySaidChannelsChange
  <1> DEFINE Keeps ==
        Published =>
          \A id \in DOMAIN bus.zones \cap DOMAIN bus'.zones :
          \A p \in DOMAIN bus.zones[id] \cap DOMAIN bus'.zones[id] :
          \A c \in Channels :
             bus'.zones[id][p][c] # bus.zones[id][p][c] =>
                \E i \in DOMAIN walk_for_raw[datagram] :
                   \E f \in {Band(c), Intensity, OnBeat} :
                      Writes(walk_for_raw[datagram][i], f)
  <1>1. Lit /\ LastWords /\ [LightsNext]_lights_vars => [Keeps]_lights_vars
    <2> SUFFICES ASSUME Lit, LastWords, [LightsNext]_lights_vars, Published,
                        NEW id \in DOMAIN bus.zones \cap DOMAIN bus'.zones,
                        NEW p \in DOMAIN bus.zones[id] \cap DOMAIN bus'.zones[id],
                        NEW c \in Channels,
                        ~ \E i \in DOMAIN walk_for_raw[datagram] :
                             \E f \in {Band(c), Intensity, OnBeat} :
                                Writes(walk_for_raw[datagram][i], f)
                 PROVE  bus'.zones[id][p][c] = bus.zones[id][p][c]
      OBVIOUS
    <2>1. /\ frame' = builder' /\ pixels \in Nat
          /\ bus'.zones = [s \in {"strip"} |-> build_strip_pixels(frame', pixels)]
      BY PublishedByPublish DEF Lit
    <2>2. bus'.zones[id][p][c]
             = Channel(frame'[Band(c)], frame'[Intensity], frame'[OnBeat])
      BY <2>1, ShownPixels
    <2>3. bus.zones[id][p][c] = Channel(frame[Band(c)], frame[Intensity], frame[OnBeat])
      BY ShownPixels DEF Lit, Shown
    <2>4. before = frame
      BY DEF Lit, Published
    <2>5. \A f \in {Band(c), Intensity, OnBeat} : builder'[f] = frame[f]
      <3> TAKE f \in {Band(c), Intensity, OnBeat}
      <3>1. LastWord(walk_for_raw[datagram], f, before[f], builder'[f])
        BY ChannelFields, PublishedLastWords
      <3>2. {i \in DOMAIN walk_for_raw[datagram] : Writes(walk_for_raw[datagram][i], f)} = {}
        OBVIOUS
      <3> QED BY <2>4, <3>1, <3>2 DEF LastWord
    <2> QED BY <2>1, <2>2, <2>3, <2>5
  <1>2. LightsSpec => [][Keeps]_lights_vars
    <2> HIDE DEF Keeps
    <2>1. LightsSpec => [][pc = "applying" /\ pc' = "receiving" =>
              \A f \in Fields : LastWord(walk_for_raw[datagram], f, before[f], builder'[f])]_vars
      BY LoopRunsIngress, LastWriterAlwaysWins, PTL DEF LastWriterWins
    <2>2. LightsSpec => [][LightsNext]_lights_vars
      BY PTL DEF LightsSpec
    <2> QED BY <1>1, <2>1, <2>2, AlwaysLit, PTL DEF LastWords
  <1> QED BY <1>2 DEF OnlySaidChannelsChange
=============================================================================
