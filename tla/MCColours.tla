----------------------------- MODULE MCColours -----------------------------
(* Two units to 1.0 and infinity at five: values below, at and above every *)
(* clamp, infinite ones and NaN; two pixels a universe.                    *)
EXTENDS Colours

Of(id, kind, size) == [id |-> id, kind |-> kind, size |-> size]
Row(id, count) == Of(id, "PixelStrip", Strip(count))

\* The CLI's zone, longer than its universes.
One == <<Row("strip", 5)>>
\* A strip among zones the mapping skips: wrong kind, wrong size, or both.
Mixed == <<Of("grid", "PixelGrid", Strip(2)), Row("strip", 3),
           Of("odd", "PixelStrip", Grid(2, 2)), Of("lamp", "Fixture", Single),
           Of("dmx", "DmxUniverse", DmxChannels(9))>>
\* An id used twice, the second time shorter; then by a zone that is skipped.
Twice == <<Row("strip", 3), Row("strip", 1), Of("strip", "PixelGrid", Grid(1, 1))>>
Two == <<Row("left", 3), Row("right", 1)>>
None == <<Of("lamp", "Fixture", Single)>>

MCZoneLists == {One, Mixed, Twice, Two, None}

MCValues ==
    [f \in Inputs |->
        IF f = Bass THEN {-5, -1, 0, 1, 3, 5, NaN}
        ELSE IF f = Mid THEN {0, 2}
        ELSE IF f = Intensity THEN {-1, 0, 1, 3, NaN}
        ELSE IF f = OnBeat THEN {-1, 0, 2, NaN}
        ELSE IF f = High THEN {1} ELSE {0}]

\* round(255 * (x / 40) ^ (1 / 2.2)) for x in 0..40.
MCCurve ==
    LET values == <<0, 48, 65, 79, 90, 99, 108, 115, 123, 129, 136, 142, 148, 153,
                    158, 163, 168, 173, 177, 182, 186, 190, 194, 198, 202, 206, 210,
                    213, 217, 220, 224, 227, 230, 234, 237, 240, 243, 246, 249, 252, 255>>
    IN  [x \in 0..FULL |-> values[x + 1]]
=============================================================================
