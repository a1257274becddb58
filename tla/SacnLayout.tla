----------------------------- MODULE SacnLayout -----------------------------
(***************************************************************************)
(* The pure part of the sACN output: how a strip is spread over universes  *)
(* (universes_for of the CLI, partition_rgb of the adapter), what the      *)
(* builder accepts, and what a packet's header says of its length.         *)
(*                                                                         *)
(* A pixel is its position in the strip, a slot buffer the sequence of the *)
(* <<pixel, channel>> pairs its bytes come from; colours play no part.     *)
(***************************************************************************)
EXTENDS Integers, Sequences

CONSTANTS
    MAX_SLOTS_PER_UNIVERSE,     \* 512 in the code
    MAX_UNIVERSES,              \* 64
    MAX_UNIVERSE,               \* 63_999, the last legal universe number
    U16_MAX                     \* 65_535, where universe numbers saturate

ASSUME SlotsAssumption == MAX_SLOTS_PER_UNIVERSE \in 3..512
ASSUME UniverseAssumption ==
    /\ U16_MAX \in Nat
    /\ MAX_UNIVERSE \in 1..(U16_MAX - 1)
    /\ MAX_UNIVERSES \in 1..U16_MAX

MAX_RGB_PIXELS_PER_UNIVERSE == MAX_SLOTS_PER_UNIVERSE \div 3
MAX_PRIORITY == 200

Lesser(m, n) == IF m <= n THEN m ELSE n
Greater(m, n) == IF m >= n THEN m ELSE n

\* u32::div_ceil, as the standard library computes it.
DivCeil(m, n) == IF m % n > 0 THEN m \div n + 1 ELSE m \div n

-----------------------------------------------------------------------------
(* The CLI's universe list.                                                *)

\* u16::saturating_add of an offset that was clamped to u16 before.
SaturatingAdd(start, i) == Lesser(start + Lesser(i, U16_MAX), U16_MAX)

\* Fault: the remainder of the division is forgotten.
UniverseCountFloor(pixels) ==
    Greater(pixels \div MAX_RGB_PIXELS_PER_UNIVERSE, 1)

UniverseCount(pixels) ==
    Greater(DivCeil(pixels, MAX_RGB_PIXELS_PER_UNIVERSE), 1)

universes_for(pixels, start) ==
    [i \in 1..UniverseCount(pixels) |-> SaturatingAdd(start, i - 1)]

-----------------------------------------------------------------------------
(* SacnAdapterBuilder::build.                                              *)

LegalUniverse(u) == u \in 1..MAX_UNIVERSE

\* Fault: every universe but the last is looked at.
BuildAcceptsPrefix(universes, priority) ==
    /\ universes # <<>>
    /\ Len(universes) <= MAX_UNIVERSES
    /\ \A i \in 1..(Len(universes) - 1) : LegalUniverse(universes[i])
    /\ priority <= MAX_PRIORITY

BuildAccepts(universes, priority) ==
    /\ universes # <<>>
    /\ Len(universes) <= MAX_UNIVERSES
    /\ \A i \in DOMAIN universes : LegalUniverse(universes[i])
    /\ priority <= MAX_PRIORITY

-----------------------------------------------------------------------------
(* partition_rgb: chunks of whole pixels, empty buffers for the rest.      *)

\* Fault: chunks as long as a universe has slots, not pixels.
ChunkPixelsSlots(count, k, j) ==
    LET take == Lesser(count, k * MAX_SLOTS_PER_UNIVERSE)
        before == (j - 1) * MAX_SLOTS_PER_UNIVERSE
    IN  IF before < take THEN Lesser(MAX_SLOTS_PER_UNIVERSE, take - before) ELSE 0

\* Pixels in the j-th of the k buffers for a strip of count pixels.
ChunkPixels(count, k, j) ==
    LET take == Lesser(count, k * MAX_RGB_PIXELS_PER_UNIVERSE)
        before == (j - 1) * MAX_RGB_PIXELS_PER_UNIVERSE
    IN  IF before < take THEN Lesser(MAX_RGB_PIXELS_PER_UNIVERSE, take - before) ELSE 0

\* Where the s-th byte of the j-th buffer comes from.
SlotSource(j, s) ==
    <<(j - 1) * MAX_RGB_PIXELS_PER_UNIVERSE + (s - 1) \div 3, (s - 1) % 3>>

partition_rgb(count, k) ==
    [j \in 1..k |-> [s \in 1..(3 * ChunkPixels(count, k, j)) |-> SlotSource(j, s)]]

-----------------------------------------------------------------------------
(* PacketBuilder::encode and multicast_v4.                                 *)

\* What encode returns for a slot buffer of this many bytes.
encode(universe, priority, slots) ==
    IF ~LegalUniverse(universe) THEN "InvalidUniverse"
    ELSE IF priority > MAX_PRIORITY THEN "InvalidPriority"
    ELSE IF slots > MAX_SLOTS_PER_UNIVERSE THEN "TooManySlots"
    ELSE "ok"

ROOT_FLAGS_LEN_OFFSET == 16
FRAMING_FLAGS_LEN_OFFSET == 38
DMP_FLAGS_LEN_OFFSET == 115
SLOTS_OFFSET == 126     \* where encode puts the slot data, after the start code
PropertyCountOffset == 125  \* where the property values, start code first, begin
MAX_DATA_PACKET_LEN == 638
PDU_FLAGS == 28672      \* 0x7000
LENGTH_BITS == 4096     \* the length takes the low 12 bits

PacketLen(slots) == SLOTS_OFFSET + slots

\* Fault: the length is measured to the end of the header alone.
PduFieldShort(offset, slots) ==
    PDU_FLAGS + ((SLOTS_OFFSET - offset) % LENGTH_BITS)

\* The 16-bit flags and length field of the PDU that starts at offset.
PduField(offset, slots) == PDU_FLAGS + ((PacketLen(slots) - offset) % LENGTH_BITS)

PropertyValueCount(slots) == 1 + slots

\* The n bytes of a field, most significant first (put_u8 to put_u32).
Bytes(field, n) == [i \in 1..n |-> <<field, i>>]

Zeros(n) == [i \in 1..n |-> <<"zero", 1>>]

SOURCE_NAME_LEN == 64

\* PacketBuilder::with_cid: a name of len bytes in its field, cut or padded.
source_name(len) ==
    LET copy_len == Lesser(len, SOURCE_NAME_LEN - 1)
    IN  Bytes("name", copy_len) \o Zeros(SOURCE_NAME_LEN - copy_len)

RootLayer ==
    Bytes("preamble", 2) \o Bytes("postamble", 2) \o Bytes("identifier", 12)
        \o Bytes("patched below", 2) \o Bytes("root vector", 4) \o Bytes("cid", 16)

\* Fault: the sequence number is put before the synchronization universe.
FramingLayerSwapped(name) ==
    Bytes("patched below", 2) \o Bytes("framing vector", 4) \o source_name(name)
        \o Bytes("priority", 1) \o Bytes("sequence", 1) \o Bytes("sync", 2)
        \o Bytes("options", 1) \o Bytes("universe", 2)

FramingLayer(name) ==
    Bytes("patched below", 2) \o Bytes("framing vector", 4) \o source_name(name)
        \o Bytes("priority", 1) \o Bytes("sync", 2) \o Bytes("sequence", 1)
        \o Bytes("options", 1) \o Bytes("universe", 2)

DmpLayer(slots) ==
    Bytes("patched below", 2) \o Bytes("dmp vector", 1) \o Bytes("types", 1)
        \o Bytes("first address", 2) \o Bytes("increment", 2) \o Bytes("count", 2)
        \o Bytes("start code", 1) \o Bytes("slots", slots)

\* buf with the two bytes at offset overwritten.
write_flags_len(buf, offset, field) ==
    [buf EXCEPT ![offset + 1] = <<field, 1>>, ![offset + 2] = <<field, 2>>]

\* The packet that encode returns for slots bytes and a name of name bytes.
Packet(name, slots) ==
    LET unpatched == RootLayer \o FramingLayer(name) \o DmpLayer(slots)
        root == write_flags_len(unpatched, ROOT_FLAGS_LEN_OFFSET, "root length")
        framing == write_flags_len(root, FRAMING_FLAGS_LEN_OFFSET, "framing length")
    IN  write_flags_len(framing, DMP_FLAGS_LEN_OFFSET, "dmp length")

\* The two low octets of the group address, if the universe has one.
multicast_v4(universe) ==
    IF LegalUniverse(universe) THEN <<universe \div 256, universe % 256>> ELSE <<>>

-----------------------------------------------------------------------------
(* What has to be true of them.                                            *)

PduOffsets == {ROOT_FLAGS_LEN_OFFSET, FRAMING_FLAGS_LEN_OFFSET, DMP_FLAGS_LEN_OFFSET}

\* A universe list the CLI derives and the builder accepts never saturated:
\* it counts up from start, one by one, and has room for the whole strip
\* (cli/main.rs:132-138 with adapter.rs:317-342).
SpreadsWholeStrip(pixels, start, priority) ==
    LET universes == universes_for(pixels, start) IN
    BuildAccepts(universes, priority) =>
        /\ \A i \in DOMAIN universes : universes[i] = start + i - 1
        /\ pixels <= Len(universes) * MAX_RGB_PIXELS_PER_UNIVERSE

\* Every byte of every pixel that fits is in the buffer and at the slot where
\* a receiver that counts pixels per universe looks for it, and nothing else
\* is in any buffer (adapter.rs:185-210).
PixelsInPlace(count, k) ==
    LET P == MAX_RGB_PIXELS_PER_UNIVERSE
        buffers == partition_rgb(count, k)
        placed == {p \in 0..(count - 1) : p < k * P}
    IN  /\ \A p \in placed : \A c \in 0..2 :
              LET j == p \div P + 1
                  s == 3 * (p % P) + c + 1
              IN  /\ j \in DOMAIN buffers
                  /\ s \in DOMAIN buffers[j]
                  /\ buffers[j][s] = <<p, c>>
        /\ \A j \in DOMAIN buffers : \A s \in DOMAIN buffers[j] :
              buffers[j][s] \in placed \X (0..2)

\* An adapter the builder let through never meets an encode error, whatever
\* frame it renders (adapter.rs:112-116, packet.rs:159-167).
AcceptedNeverRejected(universes, priority, count) ==
    LET k == Len(universes) IN
    BuildAccepts(universes, priority) =>
        \A j \in 1..k :
            encode(universes[j], priority, 3 * ChunkPixels(count, k, j)) = "ok"

\* The three nested PDUs all end at the end of the packet, the packet is no
\* longer than the standard's maximum, and the property count ends there too
\* (packet.rs:196-231, 271-276).
LengthsAgree(slots) ==
    slots <= MAX_SLOTS_PER_UNIVERSE =>
        /\ PacketLen(slots) <= MAX_DATA_PACKET_LEN
        /\ \A offset \in PduOffsets :
              /\ PduField(offset, slots) - PDU_FLAGS \in 0..(LENGTH_BITS - 1)
              /\ offset + (PduField(offset, slots) - PDU_FLAGS) = PacketLen(slots)
        /\ PropertyCountOffset + PropertyValueCount(slots) = PacketLen(slots)

\* Where E1.31 puts the fields: <<field, offset, bytes>> (the offsets in the
\* comments of packet.rs:173-204).
Standard == {
    <<"preamble", 0, 2>>, <<"postamble", 2, 2>>, <<"identifier", 4, 12>>,
    <<"root length", 16, 2>>, <<"root vector", 18, 4>>, <<"cid", 22, 16>>,
    <<"framing length", 38, 2>>, <<"framing vector", 40, 4>>,
    <<"priority", 108, 1>>, <<"sync", 109, 2>>, <<"sequence", 111, 1>>,
    <<"options", 112, 1>>, <<"universe", 113, 2>>,
    <<"dmp length", 115, 2>>, <<"dmp vector", 117, 1>>, <<"types", 118, 1>>,
    <<"first address", 119, 2>>, <<"increment", 121, 2>>, <<"count", 123, 2>>,
    <<"start code", 125, 1>>}

\* Whatever the source's name and the number of slots, a receiver finds each
\* field of the header at the offset the standard gives it, the patches have
\* hit the lengths and nothing else, the name ends in a zero, and the slots
\* follow to the end of a packet of the length the header states.
FieldsAtOffsets(name, slots) ==
    LET packet == Packet(name, slots) IN
    /\ Len(packet) = PacketLen(slots)
    /\ \A f \in Standard : \A i \in 1..f[3] : packet[f[2] + i] = <<f[1], i>>
    /\ \A i \in 1..SOURCE_NAME_LEN :
          packet[44 + i] = IF i <= name /\ i < SOURCE_NAME_LEN
                           THEN <<"name", i>> ELSE <<"zero", 1>>
    /\ \A i \in 1..slots : packet[SLOTS_OFFSET + i] = <<"slots", i>>
=============================================================================
