------------------------------ MODULE Mapping ------------------------------
(***************************************************************************)
(* The M1 mapping from an AudioFrame to a ResolvedFrame                    *)
(* (audiophore-engine/src/mapping.rs, with the types of audiophore-core).  *)
(*                                                                         *)
(* A frame is a function from field to value, as in OscIngress.  A channel *)
(* is an exact product and sum, counted in tenths of a squared unit: FULL  *)
(* of them are 1.0.  The floats' own rounding, which keeps their order, is *)
(* left out; what becomes of NaN and of infinite values is not.            *)
(***************************************************************************)
EXTENDS Floats, Sequences

FULL == 10 * ONE * ONE

Bass == <<"levels", "bass">>
Mid == <<"levels", "mid">>
High == <<"levels", "high">>
Intensity == <<"frame", "intensity">>
OnBeat == <<"frame", "on_beat">>
Time == <<"frame", "t">>

ZoneKinds == {"PixelStrip", "PixelGrid", "Fixture", "DmxUniverse", "LaserVector"}

Strip(count) == [shape |-> "Strip", count |-> count]
Grid(w, h) == [shape |-> "Grid", w |-> w, h |-> h]
DmxChannels(count) == [shape |-> "Channels", count |-> count]
Single == [shape |-> "Single"]

Channels == {"r", "g", "b"}

\* The level that drives a channel.
Band(channel) == [r |-> Bass, g |-> Mid, b |-> High][channel]

-----------------------------------------------------------------------------
(* build_strip_pixels.                                                     *)

\* level * intensity, for an intensity that was clamped: NaN if either is,
\* and for an infinite level with no intensity.
Scaled(level, intensity) ==
    IF NaN \in {level, intensity} THEN NaN
    ELSE IF level \in {-INFINITY, INFINITY}
    THEN IF intensity = 0 THEN NaN ELSE level * ONE
    ELSE level * intensity

\* Fault: the flash is scaled with the rest.
ChannelScaledFlash(level, intensity, on_beat) ==
    LET scaled == Scaled(level, Clamp(intensity, 0, ONE))
        flash == Scaled(on_beat, Clamp(intensity, 0, ONE))
    IN  IF NaN \in {scaled, flash} THEN NaN
        ELSE Clamp(10 * scaled + 3 * flash, 0, FULL)

\* Fault: a sum above 1.0 starts again at 0.
ChannelWrapped(level, intensity, on_beat) ==
    LET scaled == Scaled(level, Clamp(intensity, 0, ONE))
        beat == Clamp(on_beat, 0, ONE)
    IN  IF NaN \in {scaled, beat} THEN NaN
        ELSE (10 * scaled + 3 * ONE * beat) % (FULL + 1)

\* The colour of one channel, with the flash of 0.3 at a full beat.
Channel(level, intensity, on_beat) ==
    LET scaled == Scaled(level, Clamp(intensity, 0, ONE))
        beat == Clamp(on_beat, 0, ONE)
    IN  IF NaN \in {scaled, beat} THEN NaN
        ELSE Clamp(10 * scaled + 3 * ONE * beat, 0, FULL)

Pixel(audio) ==
    [c \in Channels |-> Channel(audio[Band(c)], audio[Intensity], audio[OnBeat])]

build_strip_pixels(audio, count) == [p \in 1..count |-> Pixel(audio)]

-----------------------------------------------------------------------------
(* map_m1.                                                                 *)

\* Fault: the zone's size alone decides.
IsStripBySize(zone) == zone.size.shape = "Strip"

IsStrip(zone) == zone.kind = "PixelStrip" /\ zone.size.shape = "Strip"

\* The zone whose payload is kept for an id: HashMap::insert overwrites.
LastStrip(zones, id) ==
    CHOOSE i \in DOMAIN zones :
        /\ IsStrip(zones[i]) /\ zones[i].id = id
        /\ \A j \in DOMAIN zones : IsStrip(zones[j]) /\ zones[j].id = id => j <= i

map_m1(audio, zones, tick) ==
    [tick |-> tick,
     t |-> audio[Time],
     zones |->
        [id \in {zones[i].id : i \in {j \in DOMAIN zones : IsStrip(zones[j])}} |->
            build_strip_pixels(audio, zones[LastStrip(zones, id)].size.count)]]
=============================================================================
