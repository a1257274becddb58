------------------------------ MODULE Colours ------------------------------
(***************************************************************************)
(* A frame's way from its levels to the bytes of the strip's universes:    *)
(* the mapping, the payload an adapter picks, the gamma curve and the      *)
(* partition, composed (mapping.rs, adapter.rs:150-210, packet.rs:278-307).*)
(*                                                                         *)
(* Fields change one at a time, as OSC messages change them, to any value  *)
(* of their set, out of range, infinite and NaN included.  The bus, the    *)
(* clocks and the socket between the stages are RenderLoop's and           *)
(* SacnAdapter's and play no part here: every frame is rendered.           *)
(***************************************************************************)
EXTENDS Mapping, SacnLayout

CONSTANTS
    Curve,          \* Curve[x]: round(255 * (x / FULL) ^ (1 / 2.2))
    Values,         \* Values[f]: what field f may hold
    ZoneLists,      \* the zones the engine may be configured with
    Universes       \* how many universes the adapter may have

ASSUME CurveAssumption ==
    /\ Curve \in [0..FULL -> 0..255]
    /\ Curve[0] = 0 /\ Curve[FULL] = 255
    /\ \A x, y \in 0..FULL : x <= y => Curve[x] <= Curve[y]

Inputs == {Bass, Mid, High, Intensity, OnBeat, Time}

ASSUME ValuesAssumption ==
    DOMAIN Values = Inputs /\ \A f \in Inputs : Values[f] \subseteq Floats
ASSUME ZonesAssumption ==
    \A zs \in ZoneLists :
        /\ Len(zs) \in Nat /\ DOMAIN zs = 1..Len(zs)
        /\ \A i \in DOMAIN zs :
              /\ zs[i].kind \in ZoneKinds
              /\ zs[i].size.shape = "Strip" => zs[i].size.count \in Nat
ASSUME UniversesAssumption == Universes \subseteq Nat \ {0}

VARIABLES
    zones,      \* the zones the mapping is given
    k,          \* the adapter's number of universes
    audio,      \* the audio frame: what its fields hold
    resolved,   \* the frame made of it
    wire        \* wire[j]: the slots of the j-th universe, as last rendered

vars == <<zones, k, audio, resolved, wire>>

-----------------------------------------------------------------------------
\* Fault: clamped with min and max, which turn NaN into 1.0.
gamma_encode_min_max(x) ==
    IF x = NaN THEN Curve[FULL] ELSE Curve[Clamp(x, 0, FULL)]

\* NaN is treated as 0.
gamma_encode(x) == IF x = NaN THEN Curve[0] ELSE Curve[Clamp(x, 0, FULL)]

\* partition_rgb with the pixels' bytes in the slots.
SlotBytes(pixels, n) ==
    LET layout == partition_rgb(Len(pixels), n)
        byte(source) == gamma_encode(pixels[source[1] + 1][<<"r", "g", "b">>[source[2] + 1]])
    IN  [j \in 1..n |-> [s \in DOMAIN layout[j] |-> byte(layout[j][s])]]

\* What a receiver holds after a packet: slots it does not bring stay.
Overlay(slots, old) ==
    [s \in 1..Greater(Len(slots), Len(old)) |->
        IF s <= Len(slots) THEN slots[s] ELSE old[s]]

\* render sends the first payload a HashMap's iteration gives, if any.
Rendered(frame, old) ==
    IF DOMAIN frame.zones = {} THEN {old}
    ELSE {[j \in 1..k |-> Overlay(SlotBytes(frame.zones[id], k)[j], old[j])] :
            id \in DOMAIN frame.zones}

Init ==
    /\ zones \in ZoneLists
    /\ k \in Universes
    /\ audio = [f \in Inputs |-> 0]
    /\ resolved = [tick |-> 0, t |-> 0, zones |-> [id \in {} |-> <<>>]]
    /\ wire = [j \in 1..k |-> <<>>]

\* A field has a new value; the frame is mapped, published and rendered.
Frame(f, v) ==
    /\ audio' = [audio EXCEPT ![f] = v]
    /\ resolved' = map_m1(audio', zones, 0)
    /\ wire' \in Rendered(resolved', wire)
    /\ UNCHANGED <<zones, k>>

Next == \E f \in Inputs : \E v \in Values[f] : Frame(f, v)

Spec == Init /\ [][Next]_vars

-----------------------------------------------------------------------------
(* What mapping and adapter promise together.                              *)

\* The zones a frame gets are those that are strips by kind and by size.
StripsResolved ==
    LET strips == {i \in DOMAIN zones :
                      zones[i].kind = "PixelStrip" /\ zones[i].size.shape = "Strip"}
    IN  /\ DOMAIN resolved'.zones = {zones[i].id : i \in strips}
        /\ \A i \in strips :
              (\A n \in strips : zones[n].id = zones[i].id => n <= i) =>
                 Len(resolved'.zones[zones[i].id]) = zones[i].size.count

\* Every frame has exactly those zones, whatever else they are listed with,
\* each at the length of the last one listed with its id (mapping.rs:37-53).
ZonesResolved == [][StripsResolved]_vars

\* The three floats of a channel make no number: one of them is NaN, or the
\* level is infinite in the dark.
NoNumber(level, intensity, on_beat) ==
    \/ NaN \in {level, intensity, on_beat}
    \/ level \in {-INFINITY, INFINITY} /\ intensity <= 0

\* Whatever the fields hold, a channel is a colour in range, unless its own
\* three floats make no number.  A beat registers however quiet the input, if
\* the level is not negative, and apart from its flash no channel is brighter
\* than its own band (mapping.rs:18-25, 64-74).
FlashVisible ==
    \A id \in DOMAIN resolved.zones : \A p \in DOMAIN resolved.zones[id] :
        \A c \in Channels :
            LET x == resolved.zones[id][p][c]
                level == audio[Band(c)]
                flash == 3 * ONE * Clamp(audio[OnBeat], 0, ONE)
            IN  IF NoNumber(level, audio[Intensity], audio[OnBeat]) THEN x = NaN
                ELSE /\ x \in 0..FULL
                     /\ level >= 0 => flash <= x
                     /\ x <= 10 * ONE * Clamp(level, 0, ONE) + flash

\* From one frame to the next, a channel whose band, intensity and beat do
\* not fall does not get darker, whatever the other bands do and however far
\* out of range the three are; it has to be a number in both frames, and the
\* band not negative, which more intensity would darken
\* (mapping.rs:64-74, with saturation; strips are matched by their zone).
NeverDarker ==
    [][\A id \in DOMAIN resolved.zones \cap DOMAIN resolved'.zones :
       \A p \in DOMAIN resolved.zones[id] \cap DOMAIN resolved'.zones[id] :
       \A c \in Channels :
          /\ ~NoNumber(audio[Band(c)], audio[Intensity], audio[OnBeat])
          /\ ~NoNumber(audio'[Band(c)], audio'[Intensity], audio'[OnBeat])
          /\ \A f \in {Band(c), Intensity, OnBeat} : audio[f] <= audio'[f]
          /\ audio'[Band(c)] >= 0
          => resolved.zones[id][p][c] <= resolved'.zones[id][p][c]]_vars

\* What the receivers show is one payload of the last frame: each of its
\* bytes that fits, dark where the colour is NaN, sits where the receiver
\* counts its pixel, and with one strip no other slot is ever written
\* (adapter.rs:150-164, 185-210, packet.rs:287-307).
ReceiversShowFrame ==
    DOMAIN resolved.zones # {} =>
        \E id \in DOMAIN resolved.zones :
            LET pixels == resolved.zones[id]
                P == MAX_RGB_PIXELS_PER_UNIVERSE
                fits == {p \in 0..(Len(pixels) - 1) : p < k * P}
                Place(p, c) == <<p \div P + 1, 3 * (p % P) + c + 1>>
            IN  /\ \A p \in fits : \A c \in 0..2 :
                      LET x == pixels[p + 1][<<"r", "g", "b">>[c + 1]]
                          j == Place(p, c)[1]
                          s == Place(p, c)[2]
                      IN  /\ s \in DOMAIN wire[j]
                          /\ wire[j][s] = IF x = NaN THEN 0 ELSE Curve[x]
                /\ DOMAIN resolved.zones = {id} =>
                      \A j \in 1..k : \A s \in DOMAIN wire[j] :
                          \E p \in fits, c \in 0..2 : Place(p, c) = <<j, s>>
=============================================================================
