---------------------------- MODULE MCSacnLayout ----------------------------
(* Evaluates SacnLayout on every strip length up to a bound: count is the  *)
(* strip, start the first universe, slots a buffer's length.               *)
EXTENDS SacnLayout, FiniteSets

CONSTANTS
    MaxPixels,      \* bound on the strip's length
    Starts,         \* first universe numbers tried
    Priorities      \* priorities tried

ASSUME BoundAssumption == MaxPixels \in Nat
ASSUME StartsAssumption == Starts \subseteq 0..U16_MAX
ASSUME PrioritiesAssumption == Priorities \subseteq Nat

VARIABLES count, start, priority

Init ==
    /\ count = 0
    /\ start \in Starts
    /\ priority \in Priorities

Next ==
    /\ count < MaxPixels
    /\ count' = count + 1
    /\ UNCHANGED <<start, priority>>

vars == <<count, start, priority>>

Spec == Init /\ [][Next]_vars

\* The CLI's strip is spread without loss and without a universe used twice.
StripSpread == SpreadsWholeStrip(count, start, priority)

\* Pixel order survives the partition, into one buffer up to one too few.
PartitionInPlace ==
    \A k \in 1..Lesser(UniverseCount(count), MAX_UNIVERSES) : PixelsInPlace(count, k)

\* The CLI's adapter never meets an encode error.
EncodeNeverRejects ==
    AcceptedNeverRejected(universes_for(count, start), priority, count)

\* The lengths of the buffers' packets agree with their headers.
HeadersAgree ==
    \A j \in 1..UniverseCount(count) :
        LengthsAgree(3 * ChunkPixels(count, UniverseCount(count), j))

\* So do the places of the header's fields, for names up to, at and past the
\* length that is cut.
PacketAtOffsets ==
    \A j \in 1..UniverseCount(count), name \in {0, 10, 63, 64, 70} :
        FieldsAtOffsets(name, 3 * ChunkPixels(count, UniverseCount(count), j))
=============================================================================
