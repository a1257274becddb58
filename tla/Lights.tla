------------------------------- MODULE Lights -------------------------------
(***************************************************************************)
(* From datagrams to published frames: the loop of the run command, which  *)
(* has the listener take a datagram apart, maps the frame it returns and   *)
(* publishes the result (audiophore-cli/src/main.rs:193-213).              *)
(*                                                                         *)
(* OscIngress and Mapping composed: the data that Pipeline, which has the  *)
(* same loop with its startup, interrupt and end, leaves out.  The program *)
(* calls no setter by hand and, with recv, never dispatch_packet.          *)
(***************************************************************************)
EXTENDS OscIngress, Mapping

CONSTANTS
    Pixels,     \* values of --pixels
    TICKS       \* tick numbers: 2^64 for a u64

ASSUME PixelsAssumption == Pixels \subseteq Nat
ASSUME TicksAssumption == TICKS \in Nat \ {0}

VARIABLES
    pixels,     \* the strip's length
    tick,       \* the next frame's tick number
    bus         \* the frame published last

ingress_vars == vars
lights_vars == <<pixels, tick, bus, ingress_vars>>

\* ResolvedFrame::default, which Bus::empty starts with.
EmptyFrame == [tick |-> 0, t |-> 0, zones |-> [id \in {} |-> <<>>]]

zones == <<[id |-> "strip", kind |-> "PixelStrip", size |-> Strip(pixels)]>>

LightsInit ==
    /\ Init
    /\ pixels \in Pixels
    /\ tick = 0
    /\ bus = EmptyFrame

\* recv is at work, or failed and the loop goes round.
Listen ==
    /\ \/ \E packet \in Packets : Decoded(packet)
       \/ \E r \in {"Io", "Decode"} : RecvErr(r)
       \/ ApplyMessage
       \/ ApplyBundle
    /\ UNCHANGED <<pixels, tick, bus>>

\* Fault: the frame before is mapped.
PublishBehind ==
    /\ RecvOk
    /\ bus' = map_m1(frame, zones, tick)
    /\ tick' = (tick + 1) % TICKS
    /\ UNCHANGED pixels

\* recv returned a frame: it is mapped and published.
Publish ==
    /\ RecvOk
    /\ bus' = map_m1(frame', zones, tick)
    /\ tick' = (tick + 1) % TICKS
    /\ UNCHANGED pixels

LightsNext == Listen \/ Publish

LightsSpec == LightsInit /\ [][LightsNext]_lights_vars

-----------------------------------------------------------------------------
(* What the composition promises.                                          *)

\* A datagram has been applied and the frame made of it is published.
Published == pc = "applying" /\ pc' = "receiving"

\* Whatever datagrams say, in whatever number and nesting, every channel of
\* a published frame is a number from 0.0 to 1.0: mapping.rs clamps what it
\* computes but not NaN, and relies on the builder to let none through
\* (frame.rs:176-202, mapping.rs:64-74, main.rs:205-206).
ColoursInRange ==
    \A id \in DOMAIN bus.zones : \A p \in DOMAIN bus.zones[id] : \A c \in Channels :
        bus.zones[id][p][c] \in 0..FULL

\* What a beat adds to a channel, once v is written to the field.
Flash(v) == 3 * ONE * (IF v = NaN \/ v < 0 THEN 0 ELSE IF v > ONE THEN ONE ELSE v)

\* The last usable word of a datagram about the beat lights every channel of
\* every pixel of the frame published next, however quiet the music and
\* however deep the message is nested (mapping.rs:18-25, lib.rs:163-220).
BeatLightsStrip ==
    [][Published =>
          \A i \in DOMAIN walk_for_raw[datagram] :
             LET said == walk_for_raw[datagram] IN
             Writes(said[i], OnBeat)
             /\ (\A j \in DOMAIN said : Writes(said[j], OnBeat) => j <= i)
             => \A id \in DOMAIN bus'.zones : \A p \in DOMAIN bus'.zones[id] :
                   \A c \in Channels :
                      Flash(first_float(said[i].args)) <= bus'.zones[id][p][c]
      ]_lights_vars

\* From one published frame to the next a channel changes only if the
\* datagram between them has something usable to say about the channel's own
\* band, the intensity or the beat: refused datagrams, other bands, unusable
\* arguments and the passing of time leave it as it was
\* (lib.rs:129-172, frame.rs:130-148, mapping.rs:64-74, main.rs:202-212).
OnlySaidChannelsChange ==
    [][Published =>
          \A id \in DOMAIN bus.zones \cap DOMAIN bus'.zones :
          \A p \in DOMAIN bus.zones[id] \cap DOMAIN bus'.zones[id] :
          \A c \in Channels :
             bus'.zones[id][p][c] # bus.zones[id][p][c] =>
                \E i \in DOMAIN walk_for_raw[datagram] :
                   \E f \in {Band(c), Intensity, OnBeat} :
                      Writes(walk_for_raw[datagram][i], f)
      ]_lights_vars
=============================================================================
