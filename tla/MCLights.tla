------------------------------ MODULE MCLights ------------------------------
(* Datagrams about a band, the intensity and the beat: one message each,   *)
(* and bundles that say several things, or one thing twice.                *)
EXTENDS Lights, Functions

Msg(addr, type, v) == [kind |-> "message", addr |-> addr, args |-> <<[type |-> type, v |-> v]>>]
Bundle(content) == [kind |-> "bundle", content |-> content]

Say(addr, v) == Msg(addr, "Float", v)

BassAddr == <<"level", "bass">>
IntensityAddr == <<"energy", "intensity">>
BeatAddr == <<"beat", "onbeat">>

Loud == Say(BassAddr, 2)
Full == Say(IntensityAddr, 2)
HalfBeat == Say(BeatAddr, 1)

Messages ==
    {Loud, Full, HalfBeat}
    \cup {Say(addr, NaN) : addr \in {BassAddr, IntensityAddr, BeatAddr}}
    \cup {Say(<<"level", "high">>, 1), Say(<<"level", "all">>, 2), Say(BeatAddr, 441),
          Say(IntensityAddr, -1), Msg(BassAddr, "Other", 0), Msg(BeatAddr, "Double", 8)}

OffBeat == Bundle(<<HalfBeat, Say(BeatAddr, NaN)>>)
Bundles ==
    {OffBeat, Bundle(<<Loud, Full>>), Bundle(<<OffBeat, HalfBeat>>),
     Bundle(<<Full, OffBeat, Loud>>), Bundle(<<>>)}

MCPackets == Messages \cup Bundles

\* A message counts as one, a bundle as one more than its packets together.
MCSize[p \in MCPackets] ==
    IF p.kind = "message" THEN 1
    ELSE FoldFunction(+, 1, [i \in DOMAIN p.content |-> MCSize[p.content[i]]])
=============================================================================
