---------------------------- MODULE SacnAdapter ----------------------------
(***************************************************************************)
(* One SacnAdapter from its builder to its end                             *)
(* (audiophore-adapter-sacn/src/adapter.rs): connect, render, send_slots   *)
(* and disconnect, called one at a time in any order by its owner, each    *)
(* datagram of a tick a step of its own.  The socket may refuse to bind,   *)
(* any send may fail, and the owner's task may be dropped at any await.    *)
(*                                                                         *)
(* A frame maps zones to payloads; a Pixels payload is its length and a    *)
(* colour, which stands for all its bytes.  The variables sent and torn    *)
(* record what left the socket; the code keeps neither.                    *)
(***************************************************************************)
EXTENDS SacnLayout, FiniteSets

CONSTANTS
    Configs,        \* what the builder is given: [universes, priority]
    SEQUENCES,      \* how many sequence numbers there are: 256 for a u8
    Zones,          \* the zone ids a frame may have payloads for
    Own,            \* the zones this adapter was built with
    Colours,        \* what a payload's pixels look like
    PixelCounts,    \* lengths of a Pixels payload
    DirectSlots     \* buffer lengths given to send_slots from outside

ASSUME SequencesAssumption == SEQUENCES \in Nat \ {0, 1}
ASSUME ConfigsAssumption ==
    Configs \subseteq [universes : Seq(Nat), priority : Nat]
ASSUME PixelCountsAssumption == PixelCounts \subseteq Nat
ASSUME DirectSlotsAssumption == DirectSlots \subseteq Seq(Nat)

NoZone == "no zone"
NoColour == -1
NoContent == [zone |-> NoZone, colour |-> NoColour]
Nothing == [sequence |-> -1, zone |-> NoZone, colour |-> NoColour]

VARIABLES
    config,     \* the builder's universes and priority
    pc,         \* new, rejected, idle, sending or dropped
    result,     \* what the last call returned
    socket,     \* is the socket open
    sequence,   \* number of the next tick's packets
    buffers,    \* lengths of the slot buffers being sent
    content,    \* the zone and colour they were made of
    next,       \* index of the universe whose packet is next
    sent,       \* sent[j]: the last datagram for the j-th universe
    torn        \* the universes whose last datagram is of a tick that failed

vars == <<config, pc, result, socket, sequence, buffers, content, next, sent, torn>>

universes == config.universes
N == Len(universes)

Contents == [zone : Zones \cup {NoZone}, colour : Colours]
Datagrams == [sequence : 0..(SEQUENCES - 1), zone : Zones \cup {NoZone}, colour : Colours]

TypeOK ==
    /\ config \in Configs
    /\ pc \in {"new", "rejected", "idle", "sending", "dropped"}
    /\ result \in {"none", "ok", "Protocol", "Connect", "Io"}
    /\ socket \in BOOLEAN
    /\ sequence \in 0..(SEQUENCES - 1)
    /\ buffers \in Seq(Nat)
    /\ content \in Contents \cup {NoContent}
    /\ next \in Nat
    /\ sent \in [1..N -> Datagrams \cup {Nothing}]
    /\ torn \subseteq 1..N
    /\ pc = "sending" =>
          socket /\ content \in Contents /\ next \in 1..N /\ Len(buffers) = N

Init ==
    /\ config \in Configs
    /\ pc = "new"
    /\ result = "none"
    /\ socket = FALSE
    /\ sequence = 0
    /\ buffers = <<>>
    /\ content = NoContent
    /\ next = 1
    /\ sent = [j \in 1..N |-> Nothing]
    /\ torn = {}

-----------------------------------------------------------------------------
(* SacnAdapterBuilder::build, and the calls that send nothing.             *)

Build ==
    /\ pc = "new"
    /\ pc' = IF BuildAccepts(universes, config.priority) THEN "idle" ELSE "rejected"
    /\ UNCHANGED <<config, result, socket, sequence, buffers, content, next, sent, torn>>

Return(r) ==
    /\ result' = r
    /\ UNCHANGED <<config, pc, sequence, buffers, content, next, sent, torn>>

\* Fault: a new session starts its sequence over.
ConnectOkAfresh ==
    /\ pc = "idle"
    /\ socket' = TRUE
    /\ sequence' = 0
    /\ result' = "ok"
    /\ UNCHANGED <<config, pc, buffers, content, next, sent, torn>>

ConnectOk ==
    /\ pc = "idle"
    /\ socket' = TRUE
    /\ Return("ok")

\* The bind fails: an older socket stays in use.
ConnectErr ==
    /\ pc = "idle"
    /\ Return("Io")
    /\ UNCHANGED socket

Disconnect ==
    /\ pc = "idle"
    /\ socket' = FALSE
    /\ Return("ok")

\* A frame without Pixels is not an error and sends nothing.
RenderNothing ==
    /\ pc = "idle"
    /\ Return("ok")
    /\ UNCHANGED socket

-----------------------------------------------------------------------------
(* render and send_slots, up to the first await.                           *)

\* send_slots with buffers of these lengths, made of this zone and colour.
SendSlots(lens, zone, colour) ==
    IF Len(lens) # N \/ ~socket
    THEN /\ Return(IF Len(lens) # N THEN "Protocol" ELSE "Connect")
         /\ UNCHANGED socket
    ELSE /\ pc' = "sending"
         /\ buffers' = lens
         /\ content' = [zone |-> zone, colour |-> colour]
         /\ next' = 1
         /\ UNCHANGED <<config, result, socket, sequence, sent, torn>>

\* The buffers partition_rgb makes of a strip of count pixels.
BufferLengths(count) == [j \in 1..N |-> 3 * ChunkPixels(count, N, j)]

\* The frame's first Pixels payload, in a HashMap's order, is that of any zone.
Render(zone, colour, count) ==
    /\ pc = "idle"
    /\ SendSlots(BufferLengths(count), zone, colour)

SendDirect(lens, colour) ==
    /\ pc = "idle"
    /\ SendSlots(lens, NoZone, colour)

-----------------------------------------------------------------------------
(* The loop of send_slots, one universe a step.                            *)

Encoded == encode(universes[next], config.priority, buffers[next]) = "ok"

\* Fault: an addition that does not wrap.
NextSequenceWide == IF next = N THEN sequence + 1 ELSE sequence

\* Fault: an addition that stops at the last number.
NextSequenceSaturating ==
    IF next = N /\ sequence < SEQUENCES - 1 THEN sequence + 1 ELSE sequence

\* wrapping_add after the last universe's packet, and only then.
NextSequence == IF next = N THEN (sequence + 1) % SEQUENCES ELSE sequence

\* Fault: an error ends the packet, not the tick.
SendErrGoesOn ==
    /\ pc = "sending"
    /\ Encoded
    /\ next < N
    /\ next' = next + 1
    /\ UNCHANGED <<config, pc, result, socket, sequence, buffers, content, sent, torn>>

\* The datagram goes out; after the last one the tick is complete.
SendOk ==
    /\ pc = "sending"
    /\ Encoded
    /\ sent' = [sent EXCEPT ![next] = [sequence |-> sequence,
                                       zone |-> content.zone,
                                       colour |-> content.colour]]
    /\ torn' = torn \ {next}
    /\ sequence' = NextSequence
    /\ IF next = N
       THEN pc' = "idle" /\ result' = "ok" /\ UNCHANGED next
       ELSE next' = next + 1 /\ UNCHANGED <<pc, result>>
    /\ UNCHANGED <<config, socket, buffers, content>>

\* An early return: the universes before next keep what this tick sent them,
\* and the number is not counted up.
Fail(r) ==
    /\ result' = r
    /\ pc' = "idle"
    /\ torn' = torn \cup 1..(next - 1)
    /\ UNCHANGED <<config, socket, sequence, buffers, content, next, sent>>

\* Fault: a universe whose packet cannot be encoded is left out of the tick.
EncodeErrGoesOn ==
    /\ pc = "sending"
    /\ ~Encoded
    /\ next < N
    /\ next' = next + 1
    /\ UNCHANGED <<config, pc, result, socket, sequence, buffers, content, sent, torn>>

SendErr ==
    /\ pc = "sending"
    /\ Encoded
    /\ Fail("Io")

EncodeErr ==
    /\ pc = "sending"
    /\ ~Encoded
    /\ Fail("Protocol")

\* The owner's task is aborted, or its loop is over: the adapter is dropped.
Drop ==
    /\ pc \in {"idle", "sending"}
    /\ pc' = "dropped"
    /\ socket' = FALSE
    /\ UNCHANGED <<config, result, sequence, buffers, content, next, sent, torn>>

-----------------------------------------------------------------------------
Next ==
    \/ Build
    \/ ConnectOk
    \/ ConnectErr
    \/ Disconnect
    \/ RenderNothing
    \/ \E zone \in Zones, colour \in Colours, count \in PixelCounts :
          Render(zone, colour, count)
    \/ \E lens \in DirectSlots, colour \in Colours : SendDirect(lens, colour)
    \/ SendOk
    \/ SendErr
    \/ EncodeErr
    \/ Drop

Spec == Init /\ [][Next]_vars

-----------------------------------------------------------------------------
(* What the adapter promises.                                              *)

Previous(n) == (n + SEQUENCES - 1) % SEQUENCES

\* The universes this call has already served.
Served == IF pc = "sending" THEN 1..(next - 1) ELSE {}

\* The one sequence number is right for every universe, across errors,
\* reconnects and wrapping: a universe served by this tick, or left over from
\* a tick that failed, had the current number, any other had the number
\* before it (adapter.rs:112-119).
SequenceAccounted ==
    pc \in {"idle", "sending"} =>
        \A j \in 1..N :
            sent[j] # Nothing =>
                sent[j].sequence = IF j \in torn \cup Served
                                   THEN sequence ELSE Previous(sequence)

\* Away from ticks that failed, all universes show one and the same tick:
\* those served by the tick in progress its content, all others that of the
\* tick before (adapter.rs:112-119).
OneTickUnlessTorn ==
    pc \in {"idle", "sending"} =>
        /\ \A i, j \in (1..N) \ (torn \cup Served) : sent[i] = sent[j]
        /\ \A j \in Served : sent[j] = [sequence |-> sequence,
                                        zone |-> content.zone,
                                        colour |-> content.colour]

\* The receiver of a universe that is listed once sees the numbers count up
\* by one, wrapping, for as long as no tick is torn (adapter.rs:70-75).
ConsecutiveUnlessTorn ==
    [][\A j \in 1..N :
          SendOk /\ next = j /\ j \notin torn /\ sent[j] # Nothing =>
              sent'[j].sequence = (sent[j].sequence + 1) % SEQUENCES]_vars

\* adapter.rs:472-474 "sequence increments per tick, not per universe": two
\* ticks never give one universe the same number in a row.
SequencePerTick ==
    [][\A j \in 1..N :
          SendOk /\ next = j /\ sent[j] # Nothing =>
              sent'[j].sequence # sent[j].sequence]_vars

\* What render hands to encode is always accepted, and always one buffer per
\* universe: the only errors a tick can meet are the socket's
\* (adapter.rs:163-164, 100-117; for buffers from outside it is not so).
RenderFailsOnlyAtTheSocket ==
    pc = "sending" /\ content.zone # NoZone => Encoded

\* adapter-core and core/lib.rs:160-161: adapters consume the payload of the
\* zones they care about.
RendersOwnZones ==
    \A j \in 1..N : sent[j] # Nothing => sent[j].zone \in Own \cup {NoZone}
=============================================================================
