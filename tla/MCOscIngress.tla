---------------------------- MODULE MCOscIngress ----------------------------
(* Datagrams for OscIngress: ten units to 1.0, infinity just above the     *)
(* largest field's range, doubles on a grid four times finer.              *)
EXTENDS OscIngress, Functions

Arg(type, v) == [type |-> type, v |-> v]
Msg(addr, args) == [kind |-> "message", addr |-> addr, args |-> args]
Bundle(content) == [kind |-> "bundle", content |-> content]

Bass == <<"level", "bass">>
Hit == <<"hits", "midhigh">>
Bpm == <<"bpm", "bpm">>
Beat == <<"beat", "onbeat">>

\* Each kind of argument: too small, NaN, infinite, coerced, unusable, absent.
Floaty == {<<Arg("Float", v)>> : v \in {-3, 4, 2201, NaN}}
Coerced == {<<Arg("Double", 18)>>, <<Arg("Double", 8888)>>, <<Arg("Int", 128)>>}
Unusable == {<<>>, <<Arg("Other", 7), Arg("Float", 7)>>}

Messages1 ==
    {Msg(addr, args) : addr \in {Bass, Bpm}, args \in Floaty \cup Coerced \cup Unusable}
    \cup {Msg(addr, <<Arg("Float", 7)>>) :
            addr \in {Hit, Beat, <<"level", "raw">>, <<"bpm", "bpmsin">>, <<"bpm", "bpmconfidence">>,
                      <<"energy", "intensity">>, <<"time", "bass">>}}

\* Messages about one field, to tell the order in which they were applied.
B1 == Msg(Bass, <<Arg("Float", 1)>>)
B2 == Msg(Bass, <<Arg("Float", 2)>>)
B3 == Msg(Bass, <<Arg("Double", 13)>>)
BNone == Msg(Bass, <<>>)

Inner == Bundle(<<B2, B3>>)
Empty == Bundle(<<>>)
Unsaid == Bundle(<<B1, BNone>>)
Middle == Bundle(<<Inner, B1>>)
Bundles ==
    {Inner, Empty, Middle,
     Bundle(<<B1, Inner>>), Bundle(<<Inner, BNone>>), Bundle(<<B3, Middle, Empty>>),
     Bundle(<<Middle, B2, BNone>>), Unsaid, Bundle(<<Unsaid, B3>>)}

MCPackets == Messages1 \cup Bundles \cup {B1, B2, B3, BNone}

\* A message counts as one, a bundle as one more than its packets together.
MCSize[p \in MCPackets] ==
    IF p.kind = "message" THEN 1
    ELSE FoldFunction(+, 1, [i \in DOMAIN p.content |-> MCSize[p.content[i]]])

\* What tests and tools hand to the setters.
MCSetterValues == {-2201, 5, 2201, NaN}
=============================================================================
