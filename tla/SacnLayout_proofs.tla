-------------------------- MODULE SacnLayout_proofs --------------------------
(***************************************************************************)
(* What the layout promises for every strip, every universe list and every *)
(* value of the limits, and what a packet holds for every name and every   *)
(* buffer of slots.                                                        *)
(***************************************************************************)
EXTENDS SacnLayout, TLAPS

\* Division with remainder.
LEMMA DivMod ==
    ASSUME NEW m \in Nat, NEW n \in Nat \ {0}
    PROVE  /\ m \div n \in Nat
           /\ m % n \in 0..(n - 1)
           /\ m = n * (m \div n) + (m % n)
<1>1. m \div n \in Nat
  OBVIOUS
<1>2. m % n \in 0..(n - 1)
  OBVIOUS
<1>3. m = n * (m \div n) + (m % n)
  OBVIOUS
<1> QED
  BY <1>1, <1>2, <1>3

\* A product grows with its factor.
LEMMA Monotone ==
    ASSUME NEW m \in Nat, NEW n \in Nat, NEW p \in Nat, m <= n
    PROVE  m * p <= n * p
<1>1. PICK d \in Nat : n = m + d
  <2> WITNESS n - m \in Nat
  <2> QED OBVIOUS
<1>2. n * p = m * p + d * p
  BY <1>1
<1>3. d * p \in Nat /\ m * p \in Nat
  OBVIOUS
<1> QED
  BY <1>2, <1>3

LEMMA LimitTypes ==
    /\ MAX_SLOTS_PER_UNIVERSE \in 3..512
    /\ MAX_RGB_PIXELS_PER_UNIVERSE \in Nat \ {0}
    /\ 3 * MAX_RGB_PIXELS_PER_UNIVERSE <= MAX_SLOTS_PER_UNIVERSE
    /\ U16_MAX \in Nat
    /\ MAX_UNIVERSE \in 1..(U16_MAX - 1)
    /\ MAX_UNIVERSES \in 1..U16_MAX
BY SlotsAssumption, UniverseAssumption DEF MAX_RGB_PIXELS_PER_UNIVERSE

\* The universes counted hold the strip.
LEMMA UniverseCountEnough ==
    ASSUME NEW pixels \in Nat
    PROVE  /\ UniverseCount(pixels) \in Nat \ {0}
           /\ pixels <= UniverseCount(pixels) * MAX_RGB_PIXELS_PER_UNIVERSE
<1> DEFINE P == MAX_RGB_PIXELS_PER_UNIVERSE
           q == pixels \div P
           r == pixels % P
<1>1. P \in Nat \ {0}
  BY LimitTypes
<1>2. q \in Nat /\ r \in 0..(P - 1) /\ pixels = P * q + r
  BY <1>1, DivMod
<1> HIDE DEF P, q, r
<1>3. /\ (q + 1) * P = P * q + P
      /\ q * P = P * q
      /\ 1 * P = P
  BY <1>1, <1>2
<1>4. UniverseCount(pixels) = Greater(IF r > 0 THEN q + 1 ELSE q, 1)
  BY DEF UniverseCount, DivCeil, P, q, r
<1>5. CASE r > 0
  <2>1. UniverseCount(pixels) = q + 1
    BY <1>2, <1>4, <1>5 DEF Greater
  <2> QED
    BY <1>1, <1>2, <1>3, <2>1 DEF P
<1>6. CASE r = 0 /\ q = 0
  <2>1. UniverseCount(pixels) = 1 /\ pixels = 0
    BY <1>1, <1>2, <1>4, <1>6 DEF Greater
  <2> QED
    BY <1>1, <1>3, <2>1 DEF P
<1>7. CASE r = 0 /\ q # 0
  <2>1. UniverseCount(pixels) = q
    BY <1>2, <1>4, <1>7 DEF Greater
  <2> QED
    BY <1>1, <1>2, <1>3, <1>7, <2>1 DEF P
<1> QED
  BY <1>2, <1>5, <1>6, <1>7

LEMMA UniversesFor ==
    ASSUME NEW pixels \in Nat, NEW start \in 0..U16_MAX
    PROVE  /\ Len(universes_for(pixels, start)) = UniverseCount(pixels)
           /\ DOMAIN universes_for(pixels, start) = 1..UniverseCount(pixels)
           /\ \A i \in 1..UniverseCount(pixels) :
                 universes_for(pixels, start)[i] = SaturatingAdd(start, i - 1)
<1>1. UniverseCount(pixels) \in Nat
  BY UniverseCountEnough
<1> DEFINE k == UniverseCount(pixels)
           us == [i \in 1..k |-> SaturatingAdd(start, i - 1)]
<1> HIDE DEF k
<1>2. Len(us) = k
  BY <1>1 DEF k
<1> QED
  BY <1>2 DEF universes_for, k

-----------------------------------------------------------------------------
\* Every universe list the CLI derives and the builder accepts counts up from
\* start, so no universe occurs twice, and has room for the whole strip: no
\* pixel of an accepted strip is ever dropped (cli/main.rs:132-138).
THEOREM StripIsSpread ==
    ASSUME NEW pixels \in Nat, NEW start \in 0..U16_MAX, NEW priority \in Nat
    PROVE  SpreadsWholeStrip(pixels, start, priority)
<1> DEFINE us == universes_for(pixels, start)
           k == UniverseCount(pixels)
<1> SUFFICES ASSUME BuildAccepts(us, priority)
             PROVE  /\ \A i \in DOMAIN us : us[i] = start + i - 1
                    /\ pixels <= Len(us) * MAX_RGB_PIXELS_PER_UNIVERSE
  BY DEF SpreadsWholeStrip
<1>1. /\ DOMAIN us = 1..k
      /\ Len(us) = k
      /\ \A i \in 1..k : us[i] = SaturatingAdd(start, i - 1)
  BY UniversesFor
<1>2. k \in Nat \ {0} /\ pixels <= k * MAX_RGB_PIXELS_PER_UNIVERSE
  BY UniverseCountEnough
<1> HIDE DEF us, k
<1>3. ASSUME NEW i \in 1..k
      PROVE  us[i] = start + i - 1
  <2>1. us[i] \in 1..MAX_UNIVERSE
    BY <1>1, <1>3 DEF BuildAccepts, LegalUniverse
  <2> QED
    BY <1>1, <1>2, <1>3, <2>1, LimitTypes DEF SaturatingAdd, Lesser
<1> QED
  BY <1>1, <1>2, <1>3

-----------------------------------------------------------------------------
LEMMA ChunkBounds ==
    ASSUME NEW count \in Nat, NEW k \in Nat, NEW j \in 1..k
    PROVE  ChunkPixels(count, k, j) \in 0..MAX_RGB_PIXELS_PER_UNIVERSE
<1> DEFINE P == MAX_RGB_PIXELS_PER_UNIVERSE
<1>1. P \in Nat
  BY LimitTypes
<1> HIDE DEF P
<1>2. k * P \in Nat /\ (j - 1) * P \in Nat
  BY <1>1
<1> QED
  BY <1>1, <1>2 DEF ChunkPixels, Lesser, P

\* An adapter that was built never meets an encode error, for any universe
\* list, priority and frame (adapter.rs:112-116 with packet.rs:159-167).
THEOREM EncodeAccepts ==
    ASSUME NEW universes \in Seq(Nat), NEW priority \in Nat, NEW count \in Nat
    PROVE  AcceptedNeverRejected(universes, priority, count)
<1> DEFINE k == Len(universes)
<1> SUFFICES ASSUME BuildAccepts(universes, priority), NEW j \in 1..k
             PROVE  encode(universes[j], priority, 3 * ChunkPixels(count, k, j)) = "ok"
  BY DEF AcceptedNeverRejected
<1>1. ChunkPixels(count, k, j) \in 0..MAX_RGB_PIXELS_PER_UNIVERSE
  <2>1. k \in Nat
    OBVIOUS
  <2> HIDE DEF k
  <2> QED
    BY <2>1, ChunkBounds
<1>2. 3 * ChunkPixels(count, k, j) <= MAX_SLOTS_PER_UNIVERSE
  BY <1>1, LimitTypes
<1>3. LegalUniverse(universes[j]) /\ priority <= MAX_PRIORITY
  BY DEF BuildAccepts
<1> QED
  BY <1>1, <1>2, <1>3, LimitTypes DEF encode, MAX_PRIORITY

\* The headers of every packet agree with its length (packet.rs:196-231).
THEOREM HeadersMatchLength ==
    ASSUME NEW slots \in Nat
    PROVE  LengthsAgree(slots)
<1> SUFFICES ASSUME slots <= 512
             PROVE  /\ PacketLen(slots) <= MAX_DATA_PACKET_LEN
                    /\ \A offset \in PduOffsets :
                          /\ PduField(offset, slots) - PDU_FLAGS \in 0..(LENGTH_BITS - 1)
                          /\ offset + (PduField(offset, slots) - PDU_FLAGS)
                                = PacketLen(slots)
                    /\ PropertyCountOffset + PropertyValueCount(slots) = PacketLen(slots)
  BY LimitTypes DEF LengthsAgree
<1> USE DEF PacketLen, SLOTS_OFFSET, MAX_DATA_PACKET_LEN, PDU_FLAGS, LENGTH_BITS
<1>1. ASSUME NEW offset \in PduOffsets
      PROVE  /\ PduField(offset, slots) - PDU_FLAGS \in 0..(LENGTH_BITS - 1)
             /\ offset + (PduField(offset, slots) - PDU_FLAGS) = PacketLen(slots)
  <2>1. offset \in {16, 38, 115}
    BY DEF PduOffsets, ROOT_FLAGS_LEN_OFFSET, FRAMING_FLAGS_LEN_OFFSET,
           DMP_FLAGS_LEN_OFFSET
  <2>2. (126 + slots - offset) % 4096 = 126 + slots - offset
    BY <2>1
  <2> QED
    BY <2>1, <2>2 DEF PduField
<1> QED
  BY <1>1 DEF PropertyCountOffset, PropertyValueCount

-----------------------------------------------------------------------------
\* Where a pixel that fits lands, and what lands in a buffer.
LEMMA PixelLands ==
    ASSUME NEW count \in Nat, NEW k \in Nat, NEW p \in Nat, NEW c \in 0..2,
           p < count, p < k * MAX_RGB_PIXELS_PER_UNIVERSE
    PROVE  LET P == MAX_RGB_PIXELS_PER_UNIVERSE
               j == p \div P + 1
               s == 3 * (p % P) + c + 1
           IN  /\ j \in 1..k
               /\ s \in 1..(3 * ChunkPixels(count, k, j))
               /\ SlotSource(j, s) = <<p, c>>
<1> DEFINE P == MAX_RGB_PIXELS_PER_UNIVERSE
           q == p \div P
           r == p % P
           j == q + 1
           s == 3 * r + c + 1
<1>1. P \in Nat \ {0}
  BY LimitTypes
<1>2. q \in Nat /\ r \in 0..(P - 1) /\ p = P * q + r
  BY <1>1, DivMod
<1> HIDE DEF P, q, r
<1>3. q < k
  <2> SUFFICES ASSUME k <= q
               PROVE  FALSE
    BY <1>2
  <2>1. k * P <= q * P
    BY <1>1, <1>2, Monotone
  <2>2. q * P = P * q /\ k * P \in Nat /\ P * q \in Nat
    BY <1>1, <1>2
  <2> QED
    BY <1>1, <1>2, <2>1, <2>2 DEF P
<1>4. ChunkPixels(count, k, j) > r
  <2> DEFINE all == k * P
             before == q * P
             upto == (q + 1) * P
  <2>1. upto <= all
    BY <1>1, <1>2, <1>3, Monotone
  <2>2. all \in Nat /\ before \in Nat /\ upto = before + P /\ p = before + r
    BY <1>1, <1>2
  <2>3. ChunkPixels(count, k, j)
            = IF before < Lesser(count, all)
              THEN Lesser(P, Lesser(count, all) - before) ELSE 0
    BY <1>2 DEF ChunkPixels, P
  <2> HIDE DEF all, before, upto
  <2> QED
    BY <1>1, <1>2, <2>1, <2>2, <2>3 DEF Lesser
<1>5. j \in 1..k
  BY <1>2, <1>3
<1>6. s \in 1..(3 * ChunkPixels(count, k, j))
  <2> HIDE DEF j, s
  <2>1. ChunkPixels(count, k, j) \in 0..MAX_RGB_PIXELS_PER_UNIVERSE
    BY <1>5, ChunkBounds
  <2>2. ChunkPixels(count, k, j) \in Nat
    BY <1>1, <2>1 DEF P
  <2> QED
    BY <1>2, <1>4, <2>2 DEF s
<1>7. SlotSource(j, s) = <<p, c>>
  <2>1. (s - 1) \div 3 = r /\ (s - 1) % 3 = c
    BY <1>2
  <2>2. (j - 1) * P + r = p
    BY <1>1, <1>2
  <2> QED
    BY <2>1, <2>2 DEF SlotSource, P
<1> QED
  BY <1>5, <1>6, <1>7 DEF P, q, r

LEMMA SlotComesFromPixel ==
    ASSUME NEW count \in Nat, NEW k \in Nat, NEW j \in 1..k,
           NEW s \in 1..(3 * ChunkPixels(count, k, j))
    PROVE  \E p \in 0..(count - 1) : \E c \in 0..2 :
              /\ p < k * MAX_RGB_PIXELS_PER_UNIVERSE
              /\ SlotSource(j, s) = <<p, c>>
<1> DEFINE P == MAX_RGB_PIXELS_PER_UNIVERSE
           q == (s - 1) \div 3
           c == (s - 1) % 3
           before == (j - 1) * P
           all == k * P
           n == ChunkPixels(count, k, j)
<1>1. P \in Nat \ {0}
  BY LimitTypes
<1>2. n \in 0..P
  BY ChunkBounds
<1>3. s - 1 \in 0..(3 * n - 1)
  BY <1>2
<1>4. q \in Nat /\ c \in 0..2 /\ s - 1 = 3 * q + c
  BY <1>2, <1>3
<1>5. before \in Nat /\ all \in Nat
  BY <1>1
<1>6. n = IF before < Lesser(count, all)
          THEN Lesser(P, Lesser(count, all) - before) ELSE 0
  BY DEF ChunkPixels
<1>7. SlotSource(j, s) = <<before + q, c>>
  BY DEF SlotSource
<1> HIDE DEF P, q, c, before, all, n
<1>8. q < n
  BY <1>2, <1>3, <1>4
<1>9. before + q \in 0..(count - 1) /\ before + q < all
  BY <1>1, <1>2, <1>4, <1>5, <1>6, <1>8 DEF Lesser
<1> QED
  BY <1>4, <1>7, <1>9 DEF P, all

\* Each pixel that fits is at the place where a receiver looks for it, and no
\* buffer holds anything else: the partition neither reorders, nor repeats,
\* nor splits pixels (adapter.rs:185-210).
THEOREM PartitionKeepsPlace ==
    ASSUME NEW count \in Nat, NEW k \in Nat
    PROVE  PixelsInPlace(count, k)
<1> DEFINE P == MAX_RGB_PIXELS_PER_UNIVERSE
           buffers == partition_rgb(count, k)
           placed == {p \in 0..(count - 1) : p < k * P}
<1>1. /\ DOMAIN buffers = 1..k
      /\ \A j \in 1..k : /\ DOMAIN buffers[j] = 1..(3 * ChunkPixels(count, k, j))
                         /\ \A s \in DOMAIN buffers[j] : buffers[j][s] = SlotSource(j, s)
  BY DEF partition_rgb
<1>2. ASSUME NEW p \in placed, NEW c \in 0..2
      PROVE  LET j == p \div P + 1
                 s == 3 * (p % P) + c + 1
             IN  /\ j \in DOMAIN buffers
                 /\ s \in DOMAIN buffers[j]
                 /\ buffers[j][s] = <<p, c>>
  <2>1. p \in Nat /\ p < count /\ p < k * P
    OBVIOUS
  <2> HIDE DEF placed, buffers
  <2> QED
    BY <1>1, <2>1, PixelLands
<1>3. ASSUME NEW j \in DOMAIN buffers, NEW s \in DOMAIN buffers[j]
      PROVE  buffers[j][s] \in placed \X (0..2)
  <2>1. j \in 1..k /\ s \in 1..(3 * ChunkPixels(count, k, j))
    BY <1>1
  <2>2. PICK p \in 0..(count - 1), c \in 0..2 :
            p < k * P /\ SlotSource(j, s) = <<p, c>>
    BY <2>1, SlotComesFromPixel
  <2> QED
    BY <1>1, <2>1, <2>2
<1> QED
  BY <1>2, <1>3 DEF PixelsInPlace

-----------------------------------------------------------------------------
\* No two universes share a multicast group (packet.rs:257-269).
THEOREM MulticastGroupsDiffer ==
    ASSUME NEW u \in Nat, NEW v \in Nat, LegalUniverse(u), LegalUniverse(v),
           multicast_v4(u) = multicast_v4(v)
    PROVE  u = v
<1>1. u = 256 * (u \div 256) + (u % 256) /\ v = 256 * (v \div 256) + (v % 256)
  OBVIOUS
<1>2. u \div 256 = v \div 256 /\ u % 256 = v % 256
  BY DEF multicast_v4
<1> QED
  BY <1>1, <1>2

-----------------------------------------------------------------------------
(* Where encode puts the fields of a packet.  Nothing in the code computes *)
(* an offset: a field lies where the sizes of those before it add up to,   *)
(* and three lengths are written over their places afterwards.             *)

\* A byte of a packet: the field it belongs to and its place there.
FieldNames ==
    {"preamble", "postamble", "identifier", "patched below", "root length",
     "root vector", "cid", "framing length", "framing vector", "name", "zero",
     "priority", "sync", "sequence", "options", "universe", "dmp length",
     "dmp vector", "types", "first address", "increment", "count", "start code", "slots"}
Cells == FieldNames \X Nat

\* Any byte of a known field is a cell.
LEMMA IsCell == ASSUME NEW field \in FieldNames, NEW i \in Nat PROVE <<field, i>> \in Cells
  BY DEF Cells

IsPiece(piece, n) == piece \in Seq(Cells) /\ Len(piece) = n

\* The bytes of piece are in buf from offset on.
Holds(buf, offset, piece) ==
    /\ piece \in Seq(Cells)
    /\ offset + Len(piece) <= Len(buf)
    /\ \A i \in 1..Len(piece) : buf[offset + i] = piece[i]

\* The n bytes of a field, in order (buf.put_u8 to put_slice, packet.rs:172-204).
LEMMA BytesPiece ==
    ASSUME NEW field \in FieldNames, NEW n \in Nat
    PROVE  /\ IsPiece(Bytes(field, n), n)
           /\ \A i \in 1..n : Bytes(field, n)[i] = <<field, i>>
<1>1. ASSUME NEW i \in 1..n PROVE <<field, i>> \in Cells
  <2>1. i \in Nat
    OBVIOUS
  <2> QED BY <2>1, IsCell
<1>2. Bytes(field, n) \in [1..n -> Cells]
  BY <1>1 DEF Bytes
<1>3. \A i \in 1..n : Bytes(field, n)[i] = <<field, i>>
  BY DEF Bytes
<1> QED BY <1>2, <1>3 DEF IsPiece

\* The padding behind a name (packet.rs:121-124).
LEMMA ZerosPiece ==
    ASSUME NEW n \in Nat
    PROVE  /\ Zeros(n) \in Seq(Cells)
           /\ Len(Zeros(n)) = n
           /\ \A i \in 1..n : Zeros(n)[i] = <<"zero", 1>>
<1>1. <<"zero", 1>> \in Cells
  <2>1. "zero" \in FieldNames
    BY DEF FieldNames
  <2> QED BY <2>1, IsCell
<1>2. Zeros(n) \in [1..n -> Cells]
  BY <1>1 DEF Zeros
<1>3. \A i \in 1..n : Zeros(n)[i] = <<"zero", 1>>
  BY DEF Zeros
<1> QED BY <1>2, <1>3

\* Of two joined pieces, each keeps what it holds.
LEMMA Joined ==
    ASSUME NEW s, NEW t, NEW n \in Nat, NEW m \in Nat, IsPiece(s, n), IsPiece(t, m)
    PROVE  /\ IsPiece(s \o t, n + m)
           /\ Holds(s \o t, 0, s)
           /\ Holds(s \o t, n, t)
           /\ \A offset \in Nat : \A piece :
                 Holds(s, offset, piece) => Holds(s \o t, offset, piece)
           /\ \A offset \in Nat, at \in Nat : \A piece :
                 Holds(t, offset, piece) /\ at = n + offset => Holds(s \o t, at, piece)
<1> DEFINE joined == s \o t
<1>1. /\ joined \in Seq(Cells) /\ Len(joined) = n + m
      /\ s \in Seq(Cells) /\ Len(s) = n /\ t \in Seq(Cells) /\ Len(t) = m
      /\ \A i \in 1..n : joined[i] = s[i]
      /\ \A i \in 1..m : joined[n + i] = t[i]
  BY DEF IsPiece
<1> HIDE DEF joined
<1>2. Holds(joined, 0, s) /\ Holds(joined, n, t)
  BY <1>1 DEF Holds
<1>3. ASSUME NEW offset \in Nat, NEW piece, Holds(s, offset, piece)
      PROVE  Holds(joined, offset, piece)
  <2>1. Len(piece) \in Nat /\ offset + Len(piece) <= n
    BY <1>1, <1>3 DEF Holds
  <2>2. ASSUME NEW i \in 1..Len(piece) PROVE joined[offset + i] = piece[i]
    <3>1. offset + i \in 1..n
      BY <2>1
    <3> QED BY <1>1, <1>3, <3>1 DEF Holds
  <2>3. piece \in Seq(Cells) /\ offset + Len(piece) <= Len(joined)
    BY <1>1, <1>3, <2>1 DEF Holds
  <2> QED BY <2>2, <2>3 DEF Holds
<1>4. ASSUME NEW offset \in Nat, NEW at \in Nat, NEW piece,
             Holds(t, offset, piece), at = n + offset
      PROVE  Holds(joined, at, piece)
  <2>1. Len(piece) \in Nat /\ offset + Len(piece) <= m
    BY <1>1, <1>4 DEF Holds
  <2>2. ASSUME NEW i \in 1..Len(piece) PROVE joined[at + i] = piece[i]
    <3>1. offset + i \in 1..m /\ at + i = n + (offset + i)
      BY <1>4, <2>1
    <3> QED BY <1>1, <1>4, <3>1 DEF Holds
  <2>3. piece \in Seq(Cells) /\ at + Len(piece) <= Len(joined)
    BY <1>1, <1>4, <2>1 DEF Holds
  <2> QED BY <2>2, <2>3 DEF Holds
<1>5. IsPiece(joined, n + m)
  BY <1>1 DEF IsPiece
<1> QED BY <1>2, <1>3, <1>4, <1>5 DEF joined

\* write_flags_len changes the two bytes at its offset only (packet.rs:271-276).
LEMMA PatchedBytes ==
    ASSUME NEW buf \in Seq(Cells), NEW at \in Nat, at + 2 <= Len(buf),
           NEW field \in FieldNames
    PROVE  LET new == write_flags_len(buf, at, field) IN
           /\ new \in Seq(Cells) /\ Len(new) = Len(buf)
           /\ new[at + 1] = <<field, 1>> /\ new[at + 2] = <<field, 2>>
           /\ \A i \in 1..Len(buf) : i # at + 1 /\ i # at + 2 => new[i] = buf[i]
<1>1. Len(buf) \in Nat /\ at + 1 \in 1..Len(buf) /\ at + 2 \in 1..Len(buf)
  OBVIOUS
<1>2. <<field, 1>> \in Cells /\ <<field, 2>> \in Cells
  BY IsCell
<1> QED BY <1>1, <1>2 DEF write_flags_len

\* k bytes from offset on that the patch of two at patch does not touch.
Clear(offset, k, patch) == offset + k <= patch \/ patch + 2 <= offset

\* A patch puts its two bytes in place and leaves what is clear of them.
LEMMA Patched ==
    ASSUME NEW buf, NEW n \in Nat, IsPiece(buf, n),
           NEW at \in Nat, at + 2 <= n, NEW field \in FieldNames,
           NEW new, new = write_flags_len(buf, at, field)
    PROVE  /\ IsPiece(new, n)
           /\ Holds(new, at, Bytes(field, 2))
           /\ \A offset \in Nat, k \in Nat : \A piece :
                 IsPiece(piece, k) /\ Holds(buf, offset, piece) /\ Clear(offset, k, at)
                 => Holds(new, offset, piece)
<1>1. /\ buf \in Seq(Cells) /\ Len(buf) = n
      /\ at + 1 \in 1..n /\ at + 2 \in 1..n
  BY DEF IsPiece
<1>3. /\ new \in Seq(Cells) /\ Len(new) = n
      /\ new[at + 1] = <<field, 1>> /\ new[at + 2] = <<field, 2>>
      /\ \A i \in 1..n : i # at + 1 /\ i # at + 2 => new[i] = buf[i]
  BY <1>1, PatchedBytes
<1>4. Holds(new, at, Bytes(field, 2))
  <2>1. /\ Bytes(field, 2) \in Seq(Cells) /\ Len(Bytes(field, 2)) = 2
        /\ \A i \in 1..2 : Bytes(field, 2)[i] = <<field, i>>
    BY BytesPiece DEF IsPiece
  <2>2. \A i \in 1..2 : new[at + i] = <<field, i>>
    BY <1>3
  <2> QED BY <1>3, <2>1, <2>2 DEF Holds
<1>5. ASSUME NEW offset \in Nat, NEW k \in Nat, NEW piece,
             IsPiece(piece, k), Holds(buf, offset, piece), Clear(offset, k, at)
      PROVE  Holds(new, offset, piece)
  <2>1. /\ piece \in Seq(Cells) /\ Len(piece) = k /\ offset + k <= n
        /\ \A i \in 1..k : buf[offset + i] = piece[i]
    BY <1>1, <1>5 DEF IsPiece, Holds
  <2>2. ASSUME NEW i \in 1..k PROVE new[offset + i] = piece[i]
    <3>1. offset + i \in 1..n /\ offset + i # at + 1 /\ offset + i # at + 2
      BY <1>5, <2>1 DEF Clear
    <3> QED BY <1>3, <2>1, <3>1
  <2> QED BY <1>3, <2>1, <2>2 DEF Holds
<1>6. IsPiece(new, n)
  BY <1>3 DEF IsPiece
<1> QED BY <1>4, <1>5, <1>6

\* The name's field has its length whatever the name's, and ends in a zero.
LEMMA NamePiece ==
    ASSUME NEW len \in Nat
    PROVE  /\ IsPiece(source_name(len), 64)
           /\ \A i \in 1..SOURCE_NAME_LEN :
                 source_name(len)[i] = IF i <= len /\ i < SOURCE_NAME_LEN
                                       THEN <<"name", i>> ELSE <<"zero", 1>>
<1> DEFINE copied == Lesser(len, SOURCE_NAME_LEN - 1)
           front == Bytes("name", copied)
           back == Zeros(SOURCE_NAME_LEN - copied)
<1>1. copied \in 0..(SOURCE_NAME_LEN - 1) /\ SOURCE_NAME_LEN - copied \in Nat
  BY DEF Lesser, SOURCE_NAME_LEN
<1>2. /\ front \in Seq(Cells) /\ Len(front) = copied
      /\ \A i \in 1..copied : front[i] = <<"name", i>>
  <2>1. copied \in Nat /\ "name" \in FieldNames
    BY <1>1 DEF FieldNames
  <2> HIDE DEF copied
  <2> QED BY <2>1, BytesPiece DEF IsPiece
<1>3. /\ back \in Seq(Cells) /\ Len(back) = SOURCE_NAME_LEN - copied
      /\ \A i \in 1..(SOURCE_NAME_LEN - copied) : back[i] = <<"zero", 1>>
  BY <1>1, ZerosPiece
<1>4. source_name(len) = front \o back
  BY DEF source_name
<1> DEFINE whole == front \o back
<1> HIDE DEF front, back
<1>5. /\ whole \in Seq(Cells) /\ Len(whole) = SOURCE_NAME_LEN
      /\ \A i \in 1..copied : whole[i] = <<"name", i>>
      /\ \A i \in (copied + 1)..SOURCE_NAME_LEN : whole[i] = <<"zero", 1>>
  BY <1>1, <1>2, <1>3 DEF SOURCE_NAME_LEN
<1>6. \A i \in 1..SOURCE_NAME_LEN : i <= copied <=> i <= len /\ i < SOURCE_NAME_LEN
  BY DEF Lesser, SOURCE_NAME_LEN
<1> HIDE DEF copied, whole
<1>7. ASSUME NEW i \in 1..SOURCE_NAME_LEN
      PROVE  whole[i] = IF i <= len /\ i < SOURCE_NAME_LEN
                        THEN <<"name", i>> ELSE <<"zero", 1>>
  <2>1. CASE i <= copied
    <3>1. i \in 1..copied /\ i <= len /\ i < SOURCE_NAME_LEN
      BY <1>1, <1>6, <2>1
    <3> QED BY <1>5, <3>1
  <2>2. CASE ~(i <= copied)
    <3>1. i \in (copied + 1)..SOURCE_NAME_LEN /\ ~(i <= len /\ i < SOURCE_NAME_LEN)
      BY <1>1, <1>6, <2>2 DEF SOURCE_NAME_LEN
    <3> QED BY <1>5, <3>1
  <2> QED BY <2>1, <2>2
<1>8. IsPiece(whole, 64)
  BY <1>5 DEF IsPiece, SOURCE_NAME_LEN
<1> QED BY <1>4, <1>7, <1>8 DEF whole

-----------------------------------------------------------------------------
(* The layers, each from its own beginning.                                *)

\* The root layer: 38 bytes and where each field is in it (packet.rs:172-178).
LEMMA RootPieces ==
    /\ IsPiece(RootLayer, 38)
    /\ Holds(RootLayer, 0, Bytes("preamble", 2))
    /\ Holds(RootLayer, 2, Bytes("postamble", 2))
    /\ Holds(RootLayer, 4, Bytes("identifier", 12))
    /\ Holds(RootLayer, 18, Bytes("root vector", 4))
    /\ Holds(RootLayer, 22, Bytes("cid", 16))
<1> DEFINE p1 == Bytes("preamble", 2)
           p2 == Bytes("postamble", 2)
           p3 == Bytes("identifier", 12)
           p4 == Bytes("patched below", 2)
           p5 == Bytes("root vector", 4)
           p6 == Bytes("cid", 16)
           b2 == p1 \o p2
           b3 == b2 \o p3
           b4 == b3 \o p4
           b5 == b4 \o p5
           b6 == b5 \o p6
<1>1. /\ IsPiece(p1, 2)
      /\ IsPiece(p2, 2)
      /\ IsPiece(p3, 12)
      /\ IsPiece(p4, 2)
      /\ IsPiece(p5, 4)
      /\ IsPiece(p6, 16)
  BY BytesPiece DEF FieldNames
<1>2. RootLayer = b6
  BY DEF RootLayer
<1> HIDE DEF p1, p2, p3, p4, p5, p6
<1>3. /\ IsPiece(b2, 4)
      /\ Holds(b2, 0, p1) /\ Holds(b2, 2, p2)
  BY <1>1, Joined
<1> HIDE DEF b2
<1>4. /\ IsPiece(b3, 16)
      /\ Holds(b3, 0, p1) /\ Holds(b3, 2, p2) /\ Holds(b3, 4, p3)
  BY <1>1, <1>3, Joined
<1> HIDE DEF b3
<1>5. /\ IsPiece(b4, 18)
      /\ Holds(b4, 0, p1) /\ Holds(b4, 2, p2) /\ Holds(b4, 4, p3)
  <2>1. IsPiece(b4, 16 + 2)
    BY <1>1, <1>4, Joined
  <2>2. IsPiece(b4, 18)
    BY <2>1
  <2> QED BY <2>2, <1>1, <1>4, Joined
<1> HIDE DEF b4
<1>6. /\ IsPiece(b5, 22)
      /\ Holds(b5, 0, p1) /\ Holds(b5, 2, p2) /\ Holds(b5, 4, p3)
      /\ Holds(b5, 18, p5)
  BY <1>1, <1>5, Joined
<1> HIDE DEF b5
<1>7. /\ IsPiece(b6, 38)
      /\ Holds(b6, 0, p1) /\ Holds(b6, 2, p2) /\ Holds(b6, 4, p3)
      /\ Holds(b6, 18, p5) /\ Holds(b6, 22, p6)
  BY <1>1, <1>6, Joined
<1> HIDE DEF b6
<1> QED BY <1>2, <1>7 DEF p1, p2, p3, p4, p5, p6

\* The framing layer: 77 bytes, with the name from the sixth on (packet.rs:180-188).
LEMMA FramingPieces ==
    ASSUME NEW name \in Nat
    PROVE  /\ IsPiece(FramingLayer(name), 77)
           /\ Holds(FramingLayer(name), 2, Bytes("framing vector", 4))
           /\ Holds(FramingLayer(name), 6, source_name(name))
           /\ Holds(FramingLayer(name), 70, Bytes("priority", 1))
           /\ Holds(FramingLayer(name), 71, Bytes("sync", 2))
           /\ Holds(FramingLayer(name), 73, Bytes("sequence", 1))
           /\ Holds(FramingLayer(name), 74, Bytes("options", 1))
           /\ Holds(FramingLayer(name), 75, Bytes("universe", 2))
<1> DEFINE p1 == Bytes("patched below", 2)
           p2 == Bytes("framing vector", 4)
           p3 == source_name(name)
           p4 == Bytes("priority", 1)
           p5 == Bytes("sync", 2)
           p6 == Bytes("sequence", 1)
           p7 == Bytes("options", 1)
           p8 == Bytes("universe", 2)
           b2 == p1 \o p2
           b3 == b2 \o p3
           b4 == b3 \o p4
           b5 == b4 \o p5
           b6 == b5 \o p6
           b7 == b6 \o p7
           b8 == b7 \o p8
<1>1. /\ IsPiece(p1, 2)
      /\ IsPiece(p2, 4)
      /\ IsPiece(p3, 64)
      /\ IsPiece(p4, 1)
      /\ IsPiece(p5, 2)
      /\ IsPiece(p6, 1)
      /\ IsPiece(p7, 1)
      /\ IsPiece(p8, 2)
  BY BytesPiece, NamePiece DEF FieldNames, SOURCE_NAME_LEN
<1>2. FramingLayer(name) = b8
  BY DEF FramingLayer
<1> HIDE DEF p1, p2, p3, p4, p5, p6, p7, p8
<1>3. /\ IsPiece(b2, 6)
      /\ Holds(b2, 2, p2)
  BY <1>1, Joined
<1> HIDE DEF b2
<1>4. /\ IsPiece(b3, 70)
      /\ Holds(b3, 2, p2) /\ Holds(b3, 6, p3)
  BY <1>1, <1>3, Joined
<1> HIDE DEF b3
<1>5. /\ IsPiece(b4, 71)
      /\ Holds(b4, 2, p2) /\ Holds(b4, 6, p3) /\ Holds(b4, 70, p4)
  BY <1>1, <1>4, Joined
<1> HIDE DEF b4
<1>6. /\ IsPiece(b5, 73)
      /\ Holds(b5, 2, p2) /\ Holds(b5, 6, p3) /\ Holds(b5, 70, p4)
      /\ Holds(b5, 71, p5)
  BY <1>1, <1>5, Joined
<1> HIDE DEF b5
<1>7. /\ IsPiece(b6, 74)
      /\ Holds(b6, 2, p2) /\ Holds(b6, 6, p3) /\ Holds(b6, 70, p4)
      /\ Holds(b6, 71, p5) /\ Holds(b6, 73, p6)
  BY <1>1, <1>6, Joined
<1> HIDE DEF b6
<1>8. /\ IsPiece(b7, 75)
      /\ Holds(b7, 2, p2) /\ Holds(b7, 6, p3) /\ Holds(b7, 70, p4)
      /\ Holds(b7, 71, p5) /\ Holds(b7, 73, p6) /\ Holds(b7, 74, p7)
  BY <1>1, <1>7, Joined
<1> HIDE DEF b7
<1>9. /\ IsPiece(b8, 77)
      /\ Holds(b8, 2, p2) /\ Holds(b8, 6, p3) /\ Holds(b8, 70, p4)
      /\ Holds(b8, 71, p5) /\ Holds(b8, 73, p6) /\ Holds(b8, 74, p7)
      /\ Holds(b8, 75, p8)
  BY <1>1, <1>8, Joined
<1> HIDE DEF b8
<1> QED BY <1>2, <1>9 DEF p1, p2, p3, p4, p5, p6, p7, p8

\* The DMP layer: eleven bytes and the slots (packet.rs:197-204).
LEMMA DmpPieces ==
    ASSUME NEW slots \in Nat
    PROVE  /\ IsPiece(DmpLayer(slots), 11 + slots)
           /\ Holds(DmpLayer(slots), 2, Bytes("dmp vector", 1))
           /\ Holds(DmpLayer(slots), 3, Bytes("types", 1))
           /\ Holds(DmpLayer(slots), 4, Bytes("first address", 2))
           /\ Holds(DmpLayer(slots), 6, Bytes("increment", 2))
           /\ Holds(DmpLayer(slots), 8, Bytes("count", 2))
           /\ Holds(DmpLayer(slots), 10, Bytes("start code", 1))
           /\ Holds(DmpLayer(slots), 11, Bytes("slots", slots))
<1> DEFINE p1 == Bytes("patched below", 2)
           p2 == Bytes("dmp vector", 1)
           p3 == Bytes("types", 1)
           p4 == Bytes("first address", 2)
           p5 == Bytes("increment", 2)
           p6 == Bytes("count", 2)
           p7 == Bytes("start code", 1)
           p8 == Bytes("slots", slots)
           b2 == p1 \o p2
           b3 == b2 \o p3
           b4 == b3 \o p4
           b5 == b4 \o p5
           b6 == b5 \o p6
           b7 == b6 \o p7
           b8 == b7 \o p8
<1>1. /\ IsPiece(p1, 2)
      /\ IsPiece(p2, 1)
      /\ IsPiece(p3, 1)
      /\ IsPiece(p4, 2)
      /\ IsPiece(p5, 2)
      /\ IsPiece(p6, 2)
      /\ IsPiece(p7, 1)
      /\ IsPiece(p8, slots)
  BY BytesPiece DEF FieldNames
<1>2. DmpLayer(slots) = b8
  BY DEF DmpLayer
<1> HIDE DEF p1, p2, p3, p4, p5, p6, p7, p8
<1>3. /\ IsPiece(b2, 3)
      /\ Holds(b2, 2, p2)
  BY <1>1, Joined
<1> HIDE DEF b2
<1>4. /\ IsPiece(b3, 4)
      /\ Holds(b3, 2, p2) /\ Holds(b3, 3, p3)
  BY <1>1, <1>3, Joined
<1> HIDE DEF b3
<1>5. /\ IsPiece(b4, 6)
      /\ Holds(b4, 2, p2) /\ Holds(b4, 3, p3) /\ Holds(b4, 4, p4)
  BY <1>1, <1>4, Joined
<1> HIDE DEF b4
<1>6. /\ IsPiece(b5, 8)
      /\ Holds(b5, 2, p2) /\ Holds(b5, 3, p3) /\ Holds(b5, 4, p4)
      /\ Holds(b5, 6, p5)
  BY <1>1, <1>5, Joined
<1> HIDE DEF b5
<1>7. /\ IsPiece(b6, 10)
      /\ Holds(b6, 2, p2) /\ Holds(b6, 3, p3) /\ Holds(b6, 4, p4)
      /\ Holds(b6, 6, p5) /\ Holds(b6, 8, p6)
  BY <1>1, <1>6, Joined
<1> HIDE DEF b6
<1>8. /\ IsPiece(b7, 11)
      /\ Holds(b7, 2, p2) /\ Holds(b7, 3, p3) /\ Holds(b7, 4, p4)
      /\ Holds(b7, 6, p5) /\ Holds(b7, 8, p6) /\ Holds(b7, 10, p7)
  BY <1>1, <1>7, Joined
<1> HIDE DEF b7
<1>9. /\ IsPiece(b8, 11 + slots)
      /\ Holds(b8, 2, p2) /\ Holds(b8, 3, p3) /\ Holds(b8, 4, p4)
      /\ Holds(b8, 6, p5) /\ Holds(b8, 8, p6) /\ Holds(b8, 10, p7)
      /\ Holds(b8, 11, p8)
  BY <1>1, <1>8, Joined
<1> HIDE DEF b8
<1> QED BY <1>2, <1>9 DEF p1, p2, p3, p4, p5, p6, p7, p8

-----------------------------------------------------------------------------
(* The packet.                                                             *)

\* Three patches that are clear of each other leave all else in place.
LEMMA ThreePatched ==
    ASSUME NEW body, NEW n \in Nat, IsPiece(body, n),
           NEW a \in Nat, NEW b \in Nat, NEW c \in Nat,
           a + 2 <= n, b + 2 <= n, c + 2 <= n,
           Clear(a, 2, b), Clear(a, 2, c), Clear(b, 2, c),
           NEW f \in FieldNames, NEW g \in FieldNames, NEW h \in FieldNames,
           NEW once, once = write_flags_len(body, a, f),
           NEW twice, twice = write_flags_len(once, b, g),
           NEW packet, packet = write_flags_len(twice, c, h)
    PROVE  /\ IsPiece(packet, n)
           /\ Holds(packet, a, Bytes(f, 2))
           /\ Holds(packet, b, Bytes(g, 2))
           /\ Holds(packet, c, Bytes(h, 2))
           /\ \A at \in Nat, k \in Nat : \A piece :
                 /\ IsPiece(piece, k) /\ Holds(body, at, piece)
                 /\ Clear(at, k, a) /\ Clear(at, k, b) /\ Clear(at, k, c)
                 => Holds(packet, at, piece)
<1>1. /\ IsPiece(once, n) /\ Holds(once, a, Bytes(f, 2))
      /\ \A at \in Nat, k \in Nat : \A piece :
            IsPiece(piece, k) /\ Holds(body, at, piece) /\ Clear(at, k, a)
            => Holds(once, at, piece)
  BY Patched
<1>2. /\ IsPiece(twice, n) /\ Holds(twice, b, Bytes(g, 2))
      /\ \A at \in Nat, k \in Nat : \A piece :
            IsPiece(piece, k) /\ Holds(once, at, piece) /\ Clear(at, k, b)
            => Holds(twice, at, piece)
  BY <1>1, Patched
<1>3. /\ IsPiece(packet, n) /\ Holds(packet, c, Bytes(h, 2))
      /\ \A at \in Nat, k \in Nat : \A piece :
            IsPiece(piece, k) /\ Holds(twice, at, piece) /\ Clear(at, k, c)
            => Holds(packet, at, piece)
  BY <1>2, Patched
<1>4. IsPiece(Bytes(f, 2), 2) /\ IsPiece(Bytes(g, 2), 2)
  BY BytesPiece
<1> QED BY <1>1, <1>2, <1>3, <1>4

\* The k bytes from at on are clear of all three lengths.
Untouched(at, k) == Clear(at, k, 16) /\ Clear(at, k, 38) /\ Clear(at, k, 115)

\* What a layer holds, the packet holds at the layer's place, and a patch
\* hits no byte but its length's.
LEMMA PacketPieces ==
    ASSUME NEW name \in Nat, NEW slots \in Nat,
           NEW packet, packet = Packet(name, slots)
    PROVE  /\ IsPiece(packet, 126 + slots)
           /\ Holds(packet, 16, Bytes("root length", 2))
           /\ Holds(packet, 38, Bytes("framing length", 2))
           /\ Holds(packet, 115, Bytes("dmp length", 2))
           /\ \A at \in Nat, k \in Nat, inner \in Nat : \A piece :
                 IsPiece(piece, k) /\ Untouched(at, k) /\ Holds(RootLayer, inner, piece) /\ at = inner
                 => Holds(packet, at, piece)
           /\ \A at \in Nat, k \in Nat, inner \in Nat : \A piece :
                 IsPiece(piece, k) /\ Untouched(at, k) /\ Holds(FramingLayer(name), inner, piece) /\ at = 38 + inner
                 => Holds(packet, at, piece)
           /\ \A at \in Nat, k \in Nat, inner \in Nat : \A piece :
                 IsPiece(piece, k) /\ Untouched(at, k) /\ Holds(DmpLayer(slots), inner, piece) /\ at = 115 + inner
                 => Holds(packet, at, piece)
           /\ Holds(packet, 44, source_name(name))
<1> DEFINE head == RootLayer \o FramingLayer(name)
           body == head \o DmpLayer(slots)
           n == 126 + slots
           root == write_flags_len(body, 16, "root length")
           framing == write_flags_len(root, 38, "framing length")
<1>1. packet = write_flags_len(framing, 115, "dmp length")
  BY DEF Packet, ROOT_FLAGS_LEN_OFFSET, FRAMING_FLAGS_LEN_OFFSET, DMP_FLAGS_LEN_OFFSET
<1>2. "root length" \in FieldNames /\ "framing length" \in FieldNames
      /\ "dmp length" \in FieldNames
  BY DEF FieldNames
<1>3. /\ IsPiece(RootLayer, 38) /\ IsPiece(FramingLayer(name), 77)
      /\ IsPiece(DmpLayer(slots), 11 + slots)
  BY RootPieces, FramingPieces, DmpPieces
<1>4. IsPiece(head, 115)
  <2>1. IsPiece(head, 38 + 77)
    BY <1>3, Joined
  <2> QED BY <2>1
<1>5. ASSUME NEW at \in Nat, NEW inner \in Nat, NEW piece,
             \/ Holds(RootLayer, inner, piece) /\ at = inner
             \/ Holds(FramingLayer(name), inner, piece) /\ at = 38 + inner
      PROVE  Holds(head, at, piece)
  BY <1>3, <1>5, Joined
<1> HIDE DEF head
<1>6. IsPiece(body, n)
  <2>1. 11 + slots \in Nat /\ 115 + (11 + slots) = n
    OBVIOUS
  <2> HIDE DEF n
  <2>2. IsPiece(body, 115 + (11 + slots))
    BY <1>3, <1>4, <2>1, Joined
  <2> QED BY <2>1, <2>2
<1>7. ASSUME NEW at \in Nat, NEW inner \in Nat, NEW piece,
             \/ Holds(head, inner, piece) /\ at = inner
             \/ Holds(DmpLayer(slots), inner, piece) /\ at = 115 + inner
      PROVE  Holds(body, at, piece)
  <2>1. 11 + slots \in Nat
    OBVIOUS
  <2> QED BY <1>3, <1>4, <1>7, <2>1, Joined
<1> HIDE DEF body
<1>8. /\ n \in Nat /\ 16 \in Nat /\ 38 \in Nat /\ 115 \in Nat
      /\ 16 + 2 <= n /\ 38 + 2 <= n /\ 115 + 2 <= n
      /\ Clear(16, 2, 38) /\ Clear(16, 2, 115) /\ Clear(38, 2, 115)
  BY DEF Clear
<1> HIDE DEF n
<1>9. /\ IsPiece(packet, n)
      /\ Holds(packet, 16, Bytes("root length", 2))
      /\ Holds(packet, 38, Bytes("framing length", 2))
      /\ Holds(packet, 115, Bytes("dmp length", 2))
      /\ \A at \in Nat, k \in Nat : \A piece :
            /\ IsPiece(piece, k) /\ Holds(body, at, piece)
            /\ Clear(at, k, 16) /\ Clear(at, k, 38) /\ Clear(at, k, 115)
            => Holds(packet, at, piece)
  <2>1. PICK a \in Nat, b \in Nat, c \in Nat : a = 16 /\ b = 38 /\ c = 115
    BY <1>8
  <2>2. PICK f \in FieldNames, g \in FieldNames, h \in FieldNames :
            f = "root length" /\ g = "framing length" /\ h = "dmp length"
    BY <1>2
  <2>3. PICK once : once = write_flags_len(body, a, f)
    OBVIOUS
  <2>4. PICK twice : twice = write_flags_len(once, b, g)
    OBVIOUS
  <2>5. packet = write_flags_len(twice, c, h)
    BY <1>1, <2>1, <2>2, <2>3, <2>4
  <2>6. /\ a + 2 <= n /\ b + 2 <= n /\ c + 2 <= n
        /\ Clear(a, 2, b) /\ Clear(a, 2, c) /\ Clear(b, 2, c)
    BY <1>8, <2>1
  <2> HIDE DEF root, framing
  <2>7. /\ IsPiece(packet, n)
        /\ Holds(packet, a, Bytes(f, 2))
        /\ Holds(packet, b, Bytes(g, 2))
        /\ Holds(packet, c, Bytes(h, 2))
        /\ \A at \in Nat, k \in Nat : \A piece :
              /\ IsPiece(piece, k) /\ Holds(body, at, piece)
              /\ Clear(at, k, a) /\ Clear(at, k, b) /\ Clear(at, k, c)
              => Holds(packet, at, piece)
    BY <1>6, <1>8, <2>3, <2>4, <2>5, <2>6, ThreePatched
  <2> QED BY <2>1, <2>2, <2>7
<1>10. ASSUME NEW at \in Nat, NEW k \in Nat, NEW inner \in Nat, NEW piece,
              IsPiece(piece, k), Untouched(at, k),
              \/ Holds(RootLayer, inner, piece) /\ at = inner
              \/ Holds(FramingLayer(name), inner, piece) /\ at = 38 + inner
              \/ Holds(DmpLayer(slots), inner, piece) /\ at = 115 + inner
       PROVE  Holds(packet, at, piece)
  <2>1. Holds(body, at, piece)
    BY <1>5, <1>7, <1>10
  <2> QED BY <1>9, <1>10, <2>1 DEF Untouched
<1>11. Holds(packet, 44, source_name(name))
  <2>1. PICK at \in Nat, k \in Nat, inner \in Nat : at = 44 /\ k = 64 /\ inner = 6
    OBVIOUS
  <2>2. IsPiece(source_name(name), k)
    BY <2>1, NamePiece
  <2>3. Holds(FramingLayer(name), inner, source_name(name))
    BY <2>1, FramingPieces
  <2>4. Untouched(at, k) /\ at = 38 + inner
    BY <2>1 DEF Untouched, Clear
  <2>5. Holds(packet, at, source_name(name))
    BY <1>10, <2>2, <2>3, <2>4
  <2> QED BY <2>1, <2>5
<1>12. IsPiece(packet, 126 + slots)
  BY <1>9 DEF n
<1> QED BY <1>9, <1>10, <1>11, <1>12

\* What a receiver reads at offset at, if the packet holds the field there.
Reads(packet, field, at, n) == \A i \in 1..n : packet[at + i] = <<field, i>>

\* What a packet holds at an offset is read there.
LEMMA HeldIsRead ==
    ASSUME NEW packet, NEW field \in FieldNames, NEW at \in Nat, NEW n \in Nat,
           Holds(packet, at, Bytes(field, n))
    PROVE  Reads(packet, field, at, n)
<1>1. Len(Bytes(field, n)) = n
  BY BytesPiece DEF IsPiece
<1> QED BY <1>1, BytesPiece DEF Holds, Reads

\* A field of a layer that no patch touches is read at the layer's place.
LEMMA FieldStays ==
    ASSUME NEW name \in Nat, NEW slots \in Nat, NEW packet, packet = Packet(name, slots),
           NEW field \in FieldNames, NEW at \in Nat, NEW n \in Nat, Untouched(at, n),
           NEW inner \in Nat
    PROVE  /\ Holds(RootLayer, inner, Bytes(field, n)) /\ at = inner
                 => Reads(packet, field, at, n)
           /\ Holds(FramingLayer(name), inner, Bytes(field, n)) /\ at = 38 + inner
                 => Reads(packet, field, at, n)
           /\ Holds(DmpLayer(slots), inner, Bytes(field, n)) /\ at = 115 + inner
                 => Reads(packet, field, at, n)
<1>1. IsPiece(Bytes(field, n), n)
  BY BytesPiece
<1>2. Holds(packet, at, Bytes(field, n)) => Reads(packet, field, at, n)
  BY HeldIsRead
<1> QED BY <1>1, <1>2, PacketPieces

\* The root layer in the packet.
LEMMA RootFields ==
    ASSUME NEW name \in Nat, NEW slots \in Nat, NEW packet, packet = Packet(name, slots)
    PROVE  /\ Reads(packet, "preamble", 0, 2)
           /\ Reads(packet, "postamble", 2, 2)
           /\ Reads(packet, "identifier", 4, 12)
           /\ Reads(packet, "root vector", 18, 4)
           /\ Reads(packet, "cid", 22, 16)
<1>1. Reads(packet, "preamble", 0, 2)
  <2>1. PICK at \in Nat, n \in Nat, inner \in Nat : at = 0 /\ n = 2 /\ inner = 0
    OBVIOUS
  <2>2. "preamble" \in FieldNames
    BY DEF FieldNames
  <2>3. Untouched(at, n) /\ at = inner
    BY <2>1 DEF Untouched, Clear
  <2>4. Holds(RootLayer, inner, Bytes("preamble", n))
    BY <2>1, RootPieces
  <2>5. Reads(packet, "preamble", at, n)
    BY <2>2, <2>3, <2>4, FieldStays
  <2> QED BY <2>1, <2>5
<1>2. Reads(packet, "postamble", 2, 2)
  <2>1. PICK at \in Nat, n \in Nat, inner \in Nat : at = 2 /\ n = 2 /\ inner = 2
    OBVIOUS
  <2>2. "postamble" \in FieldNames
    BY DEF FieldNames
  <2>3. Untouched(at, n) /\ at = inner
    BY <2>1 DEF Untouched, Clear
  <2>4. Holds(RootLayer, inner, Bytes("postamble", n))
    BY <2>1, RootPieces
  <2>5. Reads(packet, "postamble", at, n)
    BY <2>2, <2>3, <2>4, FieldStays
  <2> QED BY <2>1, <2>5
<1>3. Reads(packet, "identifier", 4, 12)
  <2>1. PICK at \in Nat, n \in Nat, inner \in Nat : at = 4 /\ n = 12 /\ inner = 4
    OBVIOUS
  <2>2. "identifier" \in FieldNames
    BY DEF FieldNames
  <2>3. Untouched(at, n) /\ at = inner
    BY <2>1 DEF Untouched, Clear
  <2>4. Holds(RootLayer, inner, Bytes("identifier", n))
    BY <2>1, RootPieces
  <2>5. Reads(packet, "identifier", at, n)
    BY <2>2, <2>3, <2>4, FieldStays
  <2> QED BY <2>1, <2>5
<1>4. Reads(packet, "root vector", 18, 4)
  <2>1. PICK at \in Nat, n \in Nat, inner \in Nat : at = 18 /\ n = 4 /\ inner = 18
    OBVIOUS
  <2>2. "root vector" \in FieldNames
    BY DEF FieldNames
  <2>3. Untouched(at, n) /\ at = inner
    BY <2>1 DEF Untouched, Clear
  <2>4. Holds(RootLayer, inner, Bytes("root vector", n))
    BY <2>1, RootPieces
  <2>5. Reads(packet, "root vector", at, n)
    BY <2>2, <2>3, <2>4, FieldStays
  <2> QED BY <2>1, <2>5
<1>5. Reads(packet, "cid", 22, 16)
  <2>1. PICK at \in Nat, n \in Nat, inner \in Nat : at = 22 /\ n = 16 /\ inner = 22
    OBVIOUS
  <2>2. "cid" \in FieldNames
    BY DEF FieldNames
  <2>3. Untouched(at, n) /\ at = inner
    BY <2>1 DEF Untouched, Clear
  <2>4. Holds(RootLayer, inner, Bytes("cid", n))
    BY <2>1, RootPieces
  <2>5. Reads(packet, "cid", at, n)
    BY <2>2, <2>3, <2>4, FieldStays
  <2> QED BY <2>1, <2>5
<1> QED BY <1>1, <1>2, <1>3, <1>4, <1>5

\* The framing layer in the packet.
LEMMA FramingFields ==
    ASSUME NEW name \in Nat, NEW slots \in Nat, NEW packet, packet = Packet(name, slots)
    PROVE  /\ Reads(packet, "framing vector", 40, 4)
           /\ Reads(packet, "priority", 108, 1)
           /\ Reads(packet, "sync", 109, 2)
           /\ Reads(packet, "sequence", 111, 1)
           /\ Reads(packet, "options", 112, 1)
           /\ Reads(packet, "universe", 113, 2)
<1>1. Reads(packet, "framing vector", 40, 4)
  <2>1. PICK at \in Nat, n \in Nat, inner \in Nat : at = 40 /\ n = 4 /\ inner = 2
    OBVIOUS
  <2>2. "framing vector" \in FieldNames
    BY DEF FieldNames
  <2>3. Untouched(at, n) /\ at = 38 + inner
    BY <2>1 DEF Untouched, Clear
  <2>4. Holds(FramingLayer(name), inner, Bytes("framing vector", n))
    BY <2>1, FramingPieces
  <2>5. Reads(packet, "framing vector", at, n)
    BY <2>2, <2>3, <2>4, FieldStays
  <2> QED BY <2>1, <2>5
<1>2. Reads(packet, "priority", 108, 1)
  <2>1. PICK at \in Nat, n \in Nat, inner \in Nat : at = 108 /\ n = 1 /\ inner = 70
    OBVIOUS
  <2>2. "priority" \in FieldNames
    BY DEF FieldNames
  <2>3. Untouched(at, n) /\ at = 38 + inner
    BY <2>1 DEF Untouched, Clear
  <2>4. Holds(FramingLayer(name), inner, Bytes("priority", n))
    BY <2>1, FramingPieces
  <2>5. Reads(packet, "priority", at, n)
    BY <2>2, <2>3, <2>4, FieldStays
  <2> QED BY <2>1, <2>5
<1>3. Reads(packet, "sync", 109, 2)
  <2>1. PICK at \in Nat, n \in Nat, inner \in Nat : at = 109 /\ n = 2 /\ inner = 71
    OBVIOUS
  <2>2. "sync" \in FieldNames
    BY DEF FieldNames
  <2>3. Untouched(at, n) /\ at = 38 + inner
    BY <2>1 DEF Untouched, Clear
  <2>4. Holds(FramingLayer(name), inner, Bytes("sync", n))
    BY <2>1, FramingPieces
  <2>5. Reads(packet, "sync", at, n)
    BY <2>2, <2>3, <2>4, FieldStays
  <2> QED BY <2>1, <2>5
<1>4. Reads(packet, "sequence", 111, 1)
  <2>1. PICK at \in Nat, n \in Nat, inner \in Nat : at = 111 /\ n = 1 /\ inner = 73
    OBVIOUS
  <2>2. "sequence" \in FieldNames
    BY DEF FieldNames
  <2>3. Untouched(at, n) /\ at = 38 + inner
    BY <2>1 DEF Untouched, Clear
  <2>4. Holds(FramingLayer(name), inner, Bytes("sequence", n))
    BY <2>1, FramingPieces
  <2>5. Reads(packet, "sequence", at, n)
    BY <2>2, <2>3, <2>4, FieldStays
  <2> QED BY <2>1, <2>5
<1>5. Reads(packet, "options", 112, 1)
  <2>1. PICK at \in Nat, n \in Nat, inner \in Nat : at = 112 /\ n = 1 /\ inner = 74
    OBVIOUS
  <2>2. "options" \in FieldNames
    BY DEF FieldNames
  <2>3. Untouched(at, n) /\ at = 38 + inner
    BY <2>1 DEF Untouched, Clear
  <2>4. Holds(FramingLayer(name), inner, Bytes("options", n))
    BY <2>1, FramingPieces
  <2>5. Reads(packet, "options", at, n)
    BY <2>2, <2>3, <2>4, FieldStays
  <2> QED BY <2>1, <2>5
<1>6. Reads(packet, "universe", 113, 2)
  <2>1. PICK at \in Nat, n \in Nat, inner \in Nat : at = 113 /\ n = 2 /\ inner = 75
    OBVIOUS
  <2>2. "universe" \in FieldNames
    BY DEF FieldNames
  <2>3. Untouched(at, n) /\ at = 38 + inner
    BY <2>1 DEF Untouched, Clear
  <2>4. Holds(FramingLayer(name), inner, Bytes("universe", n))
    BY <2>1, FramingPieces
  <2>5. Reads(packet, "universe", at, n)
    BY <2>2, <2>3, <2>4, FieldStays
  <2> QED BY <2>1, <2>5
<1> QED BY <1>1, <1>2, <1>3, <1>4, <1>5, <1>6

\* The DMP layer in the packet.
LEMMA DmpFields ==
    ASSUME NEW name \in Nat, NEW slots \in Nat, NEW packet, packet = Packet(name, slots)
    PROVE  /\ Reads(packet, "dmp vector", 117, 1)
           /\ Reads(packet, "types", 118, 1)
           /\ Reads(packet, "first address", 119, 2)
           /\ Reads(packet, "increment", 121, 2)
           /\ Reads(packet, "count", 123, 2)
           /\ Reads(packet, "start code", 125, 1)
<1>1. Reads(packet, "dmp vector", 117, 1)
  <2>1. PICK at \in Nat, n \in Nat, inner \in Nat : at = 117 /\ n = 1 /\ inner = 2
    OBVIOUS
  <2>2. "dmp vector" \in FieldNames
    BY DEF FieldNames
  <2>3. Untouched(at, n) /\ at = 115 + inner
    BY <2>1 DEF Untouched, Clear
  <2>4. Holds(DmpLayer(slots), inner, Bytes("dmp vector", n))
    BY <2>1, DmpPieces
  <2>5. Reads(packet, "dmp vector", at, n)
    BY <2>2, <2>3, <2>4, FieldStays
  <2> QED BY <2>1, <2>5
<1>2. Reads(packet, "types", 118, 1)
  <2>1. PICK at \in Nat, n \in Nat, inner \in Nat : at = 118 /\ n = 1 /\ inner = 3
    OBVIOUS
  <2>2. "types" \in FieldNames
    BY DEF FieldNames
  <2>3. Untouched(at, n) /\ at = 115 + inner
    BY <2>1 DEF Untouched, Clear
  <2>4. Holds(DmpLayer(slots), inner, Bytes("types", n))
    BY <2>1, DmpPieces
  <2>5. Reads(packet, "types", at, n)
    BY <2>2, <2>3, <2>4, FieldStays
  <2> QED BY <2>1, <2>5
<1>3. Reads(packet, "first address", 119, 2)
  <2>1. PICK at \in Nat, n \in Nat, inner \in Nat : at = 119 /\ n = 2 /\ inner = 4
    OBVIOUS
  <2>2. "first address" \in FieldNames
    BY DEF FieldNames
  <2>3. Untouched(at, n) /\ at = 115 + inner
    BY <2>1 DEF Untouched, Clear
  <2>4. Holds(DmpLayer(slots), inner, Bytes("first address", n))
    BY <2>1, DmpPieces
  <2>5. Reads(packet, "first address", at, n)
    BY <2>2, <2>3, <2>4, FieldStays
  <2> QED BY <2>1, <2>5
<1>4. Reads(packet, "increment", 121, 2)
  <2>1. PICK at \in Nat, n \in Nat, inner \in Nat : at = 121 /\ n = 2 /\ inner = 6
    OBVIOUS
  <2>2. "increment" \in FieldNames
    BY DEF FieldNames
  <2>3. Untouched(at, n) /\ at = 115 + inner
    BY <2>1 DEF Untouched, Clear
  <2>4. Holds(DmpLayer(slots), inner, Bytes("increment", n))
    BY <2>1, DmpPieces
  <2>5. Reads(packet, "increment", at, n)
    BY <2>2, <2>3, <2>4, FieldStays
  <2> QED BY <2>1, <2>5
<1>5. Reads(packet, "count", 123, 2)
  <2>1. PICK at \in Nat, n \in Nat, inner \in Nat : at = 123 /\ n = 2 /\ inner = 8
    OBVIOUS
  <2>2. "count" \in FieldNames
    BY DEF FieldNames
  <2>3. Untouched(at, n) /\ at = 115 + inner
    BY <2>1 DEF Untouched, Clear
  <2>4. Holds(DmpLayer(slots), inner, Bytes("count", n))
    BY <2>1, DmpPieces
  <2>5. Reads(packet, "count", at, n)
    BY <2>2, <2>3, <2>4, FieldStays
  <2> QED BY <2>1, <2>5
<1>6. Reads(packet, "start code", 125, 1)
  <2>1. PICK at \in Nat, n \in Nat, inner \in Nat : at = 125 /\ n = 1 /\ inner = 10
    OBVIOUS
  <2>2. "start code" \in FieldNames
    BY DEF FieldNames
  <2>3. Untouched(at, n) /\ at = 115 + inner
    BY <2>1 DEF Untouched, Clear
  <2>4. Holds(DmpLayer(slots), inner, Bytes("start code", n))
    BY <2>1, DmpPieces
  <2>5. Reads(packet, "start code", at, n)
    BY <2>2, <2>3, <2>4, FieldStays
  <2> QED BY <2>1, <2>5
<1> QED BY <1>1, <1>2, <1>3, <1>4, <1>5, <1>6


\* Every field of the header is at its place in the standard, the three
\* patches have hit the lengths and nothing else, the name's field ends in a
\* zero and the slots fill the rest, for a name and a buffer of any length
\* (packet.rs:173-231).
THEOREM FieldsAlwaysAtOffsets ==
    ASSUME NEW name \in Nat, NEW slots \in Nat
    PROVE  FieldsAtOffsets(name, slots)
<1>1. PICK packet : packet = Packet(name, slots)
  OBVIOUS
<1>2. Len(packet) = PacketLen(slots)
  BY <1>1, PacketPieces DEF IsPiece, PacketLen, SLOTS_OFFSET
<1>3. /\ Reads(packet, "root length", 16, 2)
      /\ Reads(packet, "framing length", 38, 2)
      /\ Reads(packet, "dmp length", 115, 2)
  BY <1>1, PacketPieces, HeldIsRead DEF FieldNames
<1>4. \A f \in Standard : Reads(packet, f[1], f[2], f[3])
  <2> DEFINE Read(f) == Reads(packet, f[1], f[2], f[3])
  <2>1. ASSUME NEW field, NEW at, NEW n, Reads(packet, field, at, n)
        PROVE  Read(<<field, at, n>>)
    BY <2>1
  <2> HIDE DEF Read
  <2>2. /\ Reads(packet, "preamble", 0, 2)
        /\ Reads(packet, "postamble", 2, 2)
        /\ Reads(packet, "identifier", 4, 12)
        /\ Reads(packet, "root vector", 18, 4)
        /\ Reads(packet, "cid", 22, 16)
    BY <1>1, RootFields
  <2>3. /\ Reads(packet, "framing vector", 40, 4)
        /\ Reads(packet, "priority", 108, 1)
        /\ Reads(packet, "sync", 109, 2)
        /\ Reads(packet, "sequence", 111, 1)
        /\ Reads(packet, "options", 112, 1)
        /\ Reads(packet, "universe", 113, 2)
    BY <1>1, FramingFields
  <2>4. /\ Reads(packet, "dmp vector", 117, 1)
        /\ Reads(packet, "types", 118, 1)
        /\ Reads(packet, "first address", 119, 2)
        /\ Reads(packet, "increment", 121, 2)
        /\ Reads(packet, "count", 123, 2)
        /\ Reads(packet, "start code", 125, 1)
    BY <1>1, DmpFields
  <2>5. /\ Read(<<"preamble", 0, 2>>)
        /\ Read(<<"postamble", 2, 2>>)
        /\ Read(<<"identifier", 4, 12>>)
        /\ Read(<<"root length", 16, 2>>)
        /\ Read(<<"root vector", 18, 4>>)
        /\ Read(<<"cid", 22, 16>>)
        /\ Read(<<"framing length", 38, 2>>)
        /\ Read(<<"framing vector", 40, 4>>)
        /\ Read(<<"priority", 108, 1>>)
        /\ Read(<<"sync", 109, 2>>)
        /\ Read(<<"sequence", 111, 1>>)
        /\ Read(<<"options", 112, 1>>)
        /\ Read(<<"universe", 113, 2>>)
        /\ Read(<<"dmp length", 115, 2>>)
        /\ Read(<<"dmp vector", 117, 1>>)
        /\ Read(<<"types", 118, 1>>)
        /\ Read(<<"first address", 119, 2>>)
        /\ Read(<<"increment", 121, 2>>)
        /\ Read(<<"count", 123, 2>>)
        /\ Read(<<"start code", 125, 1>>)
    BY <1>3, <2>1, <2>2, <2>3, <2>4
  <2>6. ASSUME NEW f \in Standard PROVE Read(f)
    <3>1. \/ f = <<"preamble", 0, 2>>
          \/ f = <<"postamble", 2, 2>>
          \/ f = <<"identifier", 4, 12>>
          \/ f = <<"root length", 16, 2>>
          \/ f = <<"root vector", 18, 4>>
          \/ f = <<"cid", 22, 16>>
          \/ f = <<"framing length", 38, 2>>
          \/ f = <<"framing vector", 40, 4>>
          \/ f = <<"priority", 108, 1>>
          \/ f = <<"sync", 109, 2>>
          \/ f = <<"sequence", 111, 1>>
          \/ f = <<"options", 112, 1>>
          \/ f = <<"universe", 113, 2>>
          \/ f = <<"dmp length", 115, 2>>
          \/ f = <<"dmp vector", 117, 1>>
          \/ f = <<"types", 118, 1>>
          \/ f = <<"first address", 119, 2>>
          \/ f = <<"increment", 121, 2>>
          \/ f = <<"count", 123, 2>>
          \/ f = <<"start code", 125, 1>>
      BY DEF Standard
    <3>2. /\ f = <<"preamble", 0, 2>> => Read(f)
          /\ f = <<"postamble", 2, 2>> => Read(f)
          /\ f = <<"identifier", 4, 12>> => Read(f)
          /\ f = <<"root length", 16, 2>> => Read(f)
          /\ f = <<"root vector", 18, 4>> => Read(f)
          /\ f = <<"cid", 22, 16>> => Read(f)
          /\ f = <<"framing length", 38, 2>> => Read(f)
          /\ f = <<"framing vector", 40, 4>> => Read(f)
          /\ f = <<"priority", 108, 1>> => Read(f)
          /\ f = <<"sync", 109, 2>> => Read(f)
          /\ f = <<"sequence", 111, 1>> => Read(f)
          /\ f = <<"options", 112, 1>> => Read(f)
          /\ f = <<"universe", 113, 2>> => Read(f)
          /\ f = <<"dmp length", 115, 2>> => Read(f)
          /\ f = <<"dmp vector", 117, 1>> => Read(f)
          /\ f = <<"types", 118, 1>> => Read(f)
          /\ f = <<"first address", 119, 2>> => Read(f)
          /\ f = <<"increment", 121, 2>> => Read(f)
          /\ f = <<"count", 123, 2>> => Read(f)
          /\ f = <<"start code", 125, 1>> => Read(f)
      BY <2>5
    <3> QED BY <3>1, <3>2
  <2> QED BY <2>6 DEF Read
<1>5. Reads(packet, "slots", SLOTS_OFFSET, slots)
  <2>1. PICK at \in Nat, inner \in Nat : at = 126 /\ inner = 11
    OBVIOUS
  <2>2. "slots" \in FieldNames
    BY DEF FieldNames
  <2>3. Untouched(at, slots) /\ at = 115 + inner
    BY <2>1 DEF Untouched, Clear
  <2>4. Holds(DmpLayer(slots), inner, Bytes("slots", slots))
    BY <2>1, DmpPieces
  <2>5. Reads(packet, "slots", at, slots)
    BY <1>1, <2>2, <2>3, <2>4, FieldStays
  <2> QED BY <2>1, <2>5 DEF SLOTS_OFFSET
<1>6. \A i \in 1..SOURCE_NAME_LEN : packet[44 + i] = source_name(name)[i]
  <2>1. IsPiece(source_name(name), 64) /\ Holds(packet, 44, source_name(name))
    BY <1>1, NamePiece, PacketPieces
  <2> QED BY <2>1 DEF IsPiece, Holds, SOURCE_NAME_LEN
<1> QED BY <1>1, <1>2, <1>4, <1>5, <1>6, NamePiece DEF FieldsAtOffsets, Reads

=============================================================================
