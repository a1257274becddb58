------------------------ MODULE MCSacnLayout_proofs ------------------------
(* The layout's invariants, for strips of any length: each state is one    *)
(* input, and what SacnLayout_proofs shows of every input holds in it.     *)
EXTENDS MCSacnLayout, SacnLayout_proofs

TypeOK == count \in Nat /\ start \in 0..U16_MAX /\ priority \in Nat

LEMMA InputsTyped == Spec => []TypeOK
<1>1. Init => TypeOK
  BY StartsAssumption, PrioritiesAssumption DEF Init, TypeOK
<1>2. TypeOK /\ [Next]_vars => TypeOK'
  BY DEF TypeOK, Next, vars
<1> QED
  BY <1>1, <1>2, PTL DEF Spec

\* A universe list of the CLI that is accepted holds the whole strip and
\* has no number twice, for every strip and first universe
\* (cli/main.rs:132-138, adapter.rs:317-342).
THEOREM StripSpreadAlways == Spec => []StripSpread
<1>1. TypeOK => StripSpread
  BY StripIsSpread DEF TypeOK, StripSpread
<1> QED
  BY <1>1, InputsTyped, PTL

\* Every pixel that fits keeps its place on any number of universes
\* (adapter.rs:185-210).
THEOREM PartitionInPlaceAlways == Spec => []PartitionInPlace
<1>1. TypeOK => PartitionInPlace
  <2> SUFFICES ASSUME TypeOK, NEW k \in 1..Lesser(UniverseCount(count), MAX_UNIVERSES)
               PROVE  PixelsInPlace(count, k)
    BY DEF PartitionInPlace
  <2>1. k \in Nat
    BY LimitTypes, UniverseCountEnough DEF Lesser, TypeOK
  <2> QED
    BY <2>1, PartitionKeepsPlace DEF TypeOK
<1> QED
  BY <1>1, InputsTyped, PTL

\* What the builder accepts of the CLI, encode accepts (adapter.rs:112-116,
\* packet.rs:159-167).
THEOREM EncodeNeverRejectsAlways == Spec => []EncodeNeverRejects
<1>1. TypeOK => EncodeNeverRejects
  <2> SUFFICES ASSUME TypeOK PROVE EncodeNeverRejects
    OBVIOUS
  <2> DEFINE us == universes_for(count, start)
  <2>1. us \in Seq(Nat)
    <3>1. UniverseCount(count) \in Nat
      BY UniverseCountEnough DEF TypeOK
    <3>2. \A i \in 1..UniverseCount(count) : SaturatingAdd(start, i - 1) \in Nat
      BY <3>1, LimitTypes DEF TypeOK, SaturatingAdd, Lesser
    <3> QED
      BY <3>1, <3>2 DEF universes_for
  <2> HIDE DEF us
  <2>2. AcceptedNeverRejected(us, priority, count)
    BY <2>1, EncodeAccepts DEF TypeOK
  <2> QED
    BY <2>2 DEF EncodeNeverRejects, us
<1> QED
  BY <1>1, InputsTyped, PTL

\* The three nested lengths and the count of every packet of a strip end at
\* the packet's end (packet.rs:196-231, 271-276).
THEOREM HeadersAgreeAlways == Spec => []HeadersAgree
<1>1. TypeOK => HeadersAgree
  <2> SUFFICES ASSUME TypeOK, NEW j \in 1..UniverseCount(count)
               PROVE  LengthsAgree(3 * ChunkPixels(count, UniverseCount(count), j))
    BY DEF HeadersAgree
  <2>1. ChunkPixels(count, UniverseCount(count), j) \in Nat
    BY ChunkBounds, UniverseCountEnough, LimitTypes DEF TypeOK
  <2>2. 3 * ChunkPixels(count, UniverseCount(count), j) \in Nat
    BY <2>1
  <2> QED
    BY <2>2, HeadersMatchLength
<1> QED
  BY <1>1, InputsTyped, PTL

\* In every packet of a strip the header's fields, the name and the slots are
\* where the standard has them (packet.rs:173-231).
THEOREM PacketAtOffsetsAlways == Spec => []PacketAtOffsets
<1>1. TypeOK => PacketAtOffsets
  <2> SUFFICES ASSUME TypeOK, NEW j \in 1..UniverseCount(count), NEW name \in {0, 10, 63, 64, 70}
               PROVE  FieldsAtOffsets(name, 3 * ChunkPixels(count, UniverseCount(count), j))
    BY DEF PacketAtOffsets
  <2>1. ChunkPixels(count, UniverseCount(count), j) \in Nat
    BY ChunkBounds, UniverseCountEnough, LimitTypes DEF TypeOK
  <2>2. 3 * ChunkPixels(count, UniverseCount(count), j) \in Nat /\ name \in Nat
    BY <2>1
  <2> QED
    BY <2>2, FieldsAlwaysAtOffsets
<1> QED
  BY <1>1, InputsTyped, PTL
=============================================================================
