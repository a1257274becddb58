---------------------------- MODULE MCSacnAdapter ----------------------------
(* Small instances of SacnAdapter: two pixels a universe, three universes  *)
(* at most, five legal universe numbers, a sequence that wraps at three.   *)
EXTENDS SacnAdapter

CONSTANTS z1, z2, c1, c2

Of(us, p) == [universes |-> us, priority |-> p]

\* What the CLI derives for strips of up to three universes.
CliConfigs == {Of(universes_for(count, start), 100) : count \in 1..6, start \in {1, 3}}

\* What else a caller may give the builder: one of each kind it has to
\* refuse, an unordered list and one with a universe twice.
OddConfigs == {Of(<<>>, 100), Of(<<0>>, 100), Of(<<1, 6>>, 100), Of(<<6, 1>>, 100),
               Of(<<1, 2, 3, 4>>, 100), Of(<<1>>, 201), Of(<<5, 2>>, 200), Of(<<2, 2>>, 0)}

AllConfigs == CliConfigs \cup OddConfigs

\* Buffers a caller of send_slots may get wrong: one too few, one too many,
\* one of two too long.
BadSlots == {<<>>, <<3>>, <<3, 3, 3>>, <<3, 9>>, <<9, 3>>}
Two == {Of(<<1, 2>>, 100)}
==============================================================================
