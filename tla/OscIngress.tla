----------------------------- MODULE OscIngress -----------------------------
(***************************************************************************)
(* OSC ingress: the Listener, the dispatch of a datagram's messages, and   *)
(* the AudioFrameBuilder they are written to                               *)
(* (audiophore-audio/src/lib.rs and frame.rs).                             *)
(*                                                                         *)
(* A datagram is decoded as a whole, then walked depth first: every call   *)
(* of apply_packet is a step here, and todo is what its loops have still   *)
(* to visit.  Nothing else can run in between.  recv ends with a snapshot, *)
(* dispatch_packet does not.                                               *)
(*                                                                         *)
(* An address is its category and name.  The variables before, datagram    *)
(* and applied record what the walk started from and what it did; the code *)
(* has no such variables.                                                  *)
(***************************************************************************)
EXTENDS Floats, Sequences

Seqs == INSTANCE SequencesExt

CONSTANTS
    FINE,           \* how many times finer the grid of a double is
    NoFloat,        \* first_float's None
    Packets,        \* the decoded packets: messages, and bundles of packets
    Size,           \* how many bytes of its datagram a packet takes
    SetterValues,   \* what a builder's setters are called with by hand
    MaxCalls        \* bound: how many datagrams and setter calls

ASSUME FineAssumption == FINE \in Nat \ {0}
ASSUME NoFloatAssumption == NoFloat \notin Int /\ NaN # NoFloat
ASSUME BpmAssumption == INFINITY > 220 * ONE

Args == [type : {"Float", "Double", "Int", "Other"}, v : Int \cup {NaN}]

ASSUME PacketsAssumption ==
    \A p \in Packets :
        \/ p.kind = "message" /\ p.addr \in STRING \X STRING /\ p.args \in Seq(Args)
        \/ p.kind = "bundle" /\ p.content \in Seq(Packets)
\* A Float is a float already; only a Double can be NaN besides.
ASSUME ArgsAssumption ==
    \A p \in Packets : p.kind = "message" =>
        \A i \in DOMAIN p.args :
            /\ p.args[i].type = "Float" => p.args[i].v \in Floats
            /\ p.args[i].type = "Int" => p.args[i].v \in Int
\* rosc reads a bundle's packets out of the bytes of the bundle: they are
\* shorter than it is.
ASSUME SizeAssumption ==
    /\ Size \in [Packets -> Nat]
    /\ \A p \in Packets : p.kind = "bundle" =>
          \A i \in DOMAIN p.content : Size[p.content[i]] < Size[p]
ASSUME SetterValuesAssumption == SetterValues \subseteq Floats
ASSUME MaxCallsAssumption == MaxCalls \in Nat

BPM_MIN == 50 * ONE
BPM_MAX == 220 * ONE

Bands == {"whole", "bass", "mid", "mid_high", "high"}
Views == {"levels", "hits", "presence"}
Scalars == {"t", "bpm", "bpm_confidence", "beat_phase", "on_beat", "intensity", "fade"}
Fields == Views \X Bands \cup {"frame"} \X Scalars

T == <<"frame", "t">>
BPM == <<"frame", "bpm">>

VARIABLES
    builder,    \* the AudioFrameBuilder: builder[f] is field f's value
    pc,         \* receiving, or applying a datagram
    todo,       \* the packets still to apply, in order
    frame,      \* the last snapshot
    result,     \* what the last recv returned
    before,     \* the builder when the current or last datagram came
    datagram,   \* that datagram, decoded
    applied,    \* the messages of it applied so far
    calls       \* how many datagrams and setter calls there were

vars == <<builder, pc, todo, frame, result, before, datagram, applied, calls>>

Nothing == [kind |-> "bundle", content |-> <<>>]

\* AudioFrameBuilder::default.
Default ==
    [f \in Fields |->
        IF f = BPM THEN 120 * ONE ELSE IF f = <<"frame", "fade">> THEN ONE ELSE 0]

Init ==
    /\ builder = Default
    /\ pc = "receiving"
    /\ todo = <<>>
    /\ frame = Default
    /\ result = "none"
    /\ before = Default
    /\ datagram = Nothing
    /\ applied = <<>>
    /\ calls = 0

-----------------------------------------------------------------------------
(* The builder's setters.                                                  *)

\* Fault: the NaN test is taken to be clamp's business.
clamp_unit_bare(v) == Clamp(v, 0, ONE)

clamp_unit(v) == IF v = NaN THEN 0 ELSE Clamp(v, 0, ONE)

clamp_with_log(v, lo, hi) == IF v = NaN THEN lo ELSE Clamp(v, lo, hi)

\* Fault: infinity passes for a time.
set_t_infinite(old, v) == IF v # NaN /\ v >= 0 THEN v ELSE old

set_t(old, v) == IF v # NaN /\ v \in 0..(INFINITY - 1) THEN v ELSE old

\* What field f holds once v is written to it.
Written(f, old, v) ==
    IF f = T THEN set_t(old, v)
    ELSE IF f = BPM THEN clamp_with_log(v, BPM_MIN, BPM_MAX)
    ELSE clamp_unit(v)

-----------------------------------------------------------------------------
(* apply_message.                                                          *)

\* f64 as f32: to the coarser grid, what is too large to infinity.
Narrow(v) ==
    IF v = NaN THEN NaN
    ELSE Clamp((v + FINE \div 2) \div FINE, -INFINITY, INFINITY)

\* i32 as f32; the loss above 2^24 is far beyond every field's range.
Widen(v) == Clamp(v * ONE, -INFINITY, INFINITY)

first_float(args) ==
    IF args = <<>> \/ args[1].type = "Other" THEN NoFloat
    ELSE IF args[1].type = "Double" THEN Narrow(args[1].v)
    ELSE IF args[1].type = "Int" THEN Widen(args[1].v)
    ELSE args[1].v

\* The last segment of a band's address.
Segment(band) ==
    IF band = "whole" THEN "all" ELSE IF band = "mid_high" THEN "midhigh" ELSE band

\* The arms that write a field; every other address is logged at most.
Arms ==
    {[addr |-> <<"level", Segment(b)>>, field |-> <<"levels", b>>] : b \in Bands}
    \cup {[addr |-> <<"hits", Segment(b)>>, field |-> <<"hits", b>>] : b \in Bands}
    \cup {[addr |-> <<"presence", Segment(b)>>, field |-> <<"presence", b>>] : b \in Bands}
    \cup {[addr |-> <<"beat", "onbeat">>, field |-> <<"frame", "on_beat">>],
          [addr |-> <<"bpm", "bpm">>, field |-> BPM],
          [addr |-> <<"bpm", "bpmconfidence">>, field |-> <<"frame", "bpm_confidence">>],
          [addr |-> <<"energy", "intensity">>, field |-> <<"frame", "intensity">>]}

\* Fault: the catch-all for /audio/bpm/ comes before the fields under it.
RouteBpmSwallowed(addr) ==
    {arm.field : arm \in {a \in Arms : a.addr = addr /\ addr[1] # "bpm"}}

\* The field an address writes, if any.
Route(addr) == {arm.field : arm \in {a \in Arms : a.addr = addr}}

apply_message(b, msg) ==
    LET v == first_float(msg.args) IN
    [f \in Fields |->
        IF f \in Route(msg.addr) /\ v # NoFloat THEN Written(f, b[f], v) ELSE b[f]]

-----------------------------------------------------------------------------
(* recv and dispatch_packet.                                               *)

Call ==
    /\ pc = "receiving"
    /\ calls < MaxCalls
    /\ calls' = calls + 1

\* A datagram came in and rosc took it apart.
Decoded(packet) ==
    /\ Call
    /\ pc' = "applying"
    /\ todo' = <<packet>>
    /\ before' = builder
    /\ datagram' = packet
    /\ applied' = <<>>
    /\ UNCHANGED <<builder, frame, result>>

\* The socket failed, or rosc refused the whole datagram.
RecvErr(r) ==
    /\ pc = "receiving"
    /\ result' = r
    /\ UNCHANGED <<builder, pc, todo, frame, before, datagram, applied, calls>>

\* Fault: a message without a usable argument ends the walk.
ApplyMessageOrStop ==
    /\ pc = "applying"
    /\ todo # <<>>
    /\ Head(todo).kind = "message"
    /\ builder' = apply_message(builder, Head(todo))
    /\ applied' = Append(applied, Head(todo))
    /\ todo' = IF first_float(Head(todo).args) = NoFloat THEN <<>> ELSE Tail(todo)
    /\ UNCHANGED <<pc, frame, result, before, datagram, calls>>

ApplyMessage ==
    /\ pc = "applying"
    /\ todo # <<>>
    /\ Head(todo).kind = "message"
    /\ builder' = apply_message(builder, Head(todo))
    /\ applied' = Append(applied, Head(todo))
    /\ todo' = Tail(todo)
    /\ UNCHANGED <<pc, frame, result, before, datagram, calls>>

\* Fault: a bundle's packets wait until those after the bundle are done.
ApplyBundleLast ==
    /\ pc = "applying"
    /\ todo # <<>>
    /\ Head(todo).kind = "bundle"
    /\ todo' = Tail(todo) \o Head(todo).content
    /\ UNCHANGED <<builder, pc, frame, result, before, datagram, applied, calls>>

\* A bundle's packets are applied before whatever follows the bundle.
ApplyBundle ==
    /\ pc = "applying"
    /\ todo # <<>>
    /\ Head(todo).kind = "bundle"
    /\ todo' = Head(todo).content \o Tail(todo)
    /\ UNCHANGED <<builder, pc, frame, result, before, datagram, applied, calls>>

Applied ==
    /\ pc = "applying"
    /\ todo = <<>>
    /\ pc' = "receiving"
    /\ UNCHANGED <<builder, todo, before, datagram, applied, calls>>

\* Fault: what was accumulated is handed out and forgotten.
RecvOkTaking ==
    /\ pc = "applying"
    /\ todo = <<>>
    /\ pc' = "receiving"
    /\ frame' = builder
    /\ builder' = Default
    /\ result' = "ok"
    /\ UNCHANGED <<todo, before, datagram, applied, calls>>

\* recv's snapshot copies every field and clears none.
RecvOk ==
    /\ Applied
    /\ frame' = builder
    /\ result' = "ok"

\* dispatch_packet returns without a snapshot.
DispatchOk ==
    /\ Applied
    /\ result' = "ok"
    /\ UNCHANGED frame

\* A setter called by hand, as tests and tools do.
Set(f, v) ==
    /\ Call
    /\ builder' = [builder EXCEPT ![f] = Written(f, @, v)]
    /\ UNCHANGED <<pc, todo, frame, result, before, datagram, applied>>

-----------------------------------------------------------------------------
(* The monitor's --raw dump.                                               *)

\* Which messages the dump prints, and in which order.
walk_for_raw[p \in Packets \cup {Nothing}] ==
    IF p.kind = "message" THEN <<p>>
    ELSE Seqs!FlattenSeq([i \in DOMAIN p.content |-> walk_for_raw[p.content[i]]])

-----------------------------------------------------------------------------
Next ==
    \/ \E packet \in Packets : Decoded(packet)
    \/ \E r \in {"Io", "Decode"} : RecvErr(r)
    \/ ApplyMessage
    \/ ApplyBundle
    \/ RecvOk
    \/ DispatchOk
    \/ \E f \in Fields, v \in SetterValues : Set(f, v)

Spec == Init /\ [][Next]_vars

-----------------------------------------------------------------------------
(* What ingress promises.                                                  *)

\* What a field may hold.
RangeOf(f) ==
    IF f = T THEN 0..(INFINITY - 1)
    ELSE IF f = BPM THEN BPM_MIN..BPM_MAX
    ELSE 0..ONE

TypeOK ==
    /\ DOMAIN builder = Fields /\ DOMAIN frame = Fields /\ DOMAIN before = Fields
    /\ pc \in {"receiving", "applying"}
    /\ todo \in Seq(Packets)
    /\ result \in {"none", "ok", "Io", "Decode"}
    /\ datagram \in Packets \cup {Nothing}
    /\ applied \in Seq(Packets)
    /\ calls \in 0..MaxCalls

\* Whatever a datagram or a caller says (NaN, infinite, out of range), every
\* field of the builder and of every frame is a number in its field's range
\* (frame.rs:72-131, 176-202).
FieldsInRange ==
    \A f \in Fields :
        builder[f] \in RangeOf(f) /\ frame[f] \in RangeOf(f) /\ before[f] \in RangeOf(f)

\* The address under which Synesthesia sends a field, per Band's docs.
AddressOf(f) ==
    LET category == [levels |-> "level", hits |-> "hits", presence |-> "presence"]
        scalar == [bpm |-> <<"bpm", "bpm">>,
                   bpm_confidence |-> <<"bpm", "bpmconfidence">>,
                   on_beat |-> <<"beat", "onbeat">>,
                   intensity |-> <<"energy", "intensity">>]
    IN  IF f[1] \in DOMAIN category THEN <<category[f[1]], Segment(f[2])>>
        ELSE IF f[2] \in DOMAIN scalar THEN scalar[f[2]] ELSE <<>>

\* A message that says something usable about field f.
Writes(msg, f) ==
    msg.addr = AddressOf(f) /\ msg.args # <<>> /\ msg.args[1].type # "Other"

\* Field f went from old to new as the messages msgs, in their order, say.
LastWord(msgs, f, old, new) ==
    LET writers == {i \in DOMAIN msgs : Writes(msgs[i], f)}
    IN  IF writers = {} THEN new = old
        ELSE \E i \in writers :
                /\ \A j \in writers : j <= i
                /\ new = Written(f, old, first_float(msgs[i].args))

\* However its bundles are nested, a datagram leaves in each field what its
\* last usable message for that field says, in the order written, and leaves
\* alone every field it says nothing usable about: no value is lost between
\* datagrams, refused ones included (lib.rs:129-172, frame.rs:22-31, 130-148).
LastWriterWins ==
    [][pc = "applying" /\ pc' = "receiving" =>
          \A f \in Fields : LastWord(walk_for_raw[datagram], f, before[f], builder'[f])
      ]_vars

\* What monitor --raw prints of a datagram is what was applied of it by the
\* time the next frame is made: every message once, in the order of
\* application (main.rs:251-258, 292-303, against audiophore-audio/lib.rs:163-172).
RawDumpAsApplied ==
    [][pc = "applying" /\ pc' = "receiving" => applied = walk_for_raw[datagram]]_vars

\* core/lib.rs:17-18, "Monotonic seconds since engine start": a frame made of
\* a datagram, which arrived after the start, has a time later than it.
FramesAreTimed == result = "ok" => frame[T] > 0
=============================================================================
