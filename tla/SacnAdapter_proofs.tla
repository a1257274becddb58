-------------------------- MODULE SacnAdapter_proofs --------------------------
(***************************************************************************)
(* Proofs about SacnAdapter for every set of configurations, any frames,   *)
(* any buffers given to send_slots and any number of sequence numbers.     *)
(***************************************************************************)
EXTENDS SacnAdapter, SacnLayout_proofs

\* What the properties rest on besides the types: nothing is sent before the
\* builder accepts, render makes its buffers with partition_rgb, and a tick
\* mends the universes it has served.
Built ==
    /\ pc = "new" => \A j \in 1..N : sent[j] = Nothing
    /\ pc = "sending" => torn \cap 1..(next - 1) = {}
    /\ pc \in {"idle", "sending"} => BuildAccepts(universes, config.priority)
    /\ pc = "sending" /\ content.zone # NoZone =>
          \E count \in PixelCounts : buffers = BufferLengths(count)

LEMMA FunctionIsSeq ==
    ASSUME NEW S, NEW n \in Nat, NEW f \in [1..n -> S]
    PROVE  f \in Seq(S) /\ Len(f) = n
OBVIOUS

LEMMA ConfigTypes ==
    ASSUME config \in Configs
    PROVE  /\ universes \in Seq(Nat)
           /\ N \in Nat
           /\ DOMAIN universes = 1..N
           /\ config.priority \in Nat
<1>1. universes \in Seq(Nat) /\ config.priority \in Nat
  BY ConfigsAssumption DEF universes
<1> QED
  BY <1>1 DEF N

LEMMA BufferLengthsType ==
    ASSUME N \in Nat, NEW count \in Nat
    PROVE  BufferLengths(count) \in Seq(Nat) /\ Len(BufferLengths(count)) = N
<1>1. \A j \in 1..N : ChunkPixels(count, N, j) \in 0..MAX_RGB_PIXELS_PER_UNIVERSE
  BY ChunkBounds
<1>2. \A j \in 1..N : 3 * ChunkPixels(count, N, j) \in Nat
  BY <1>1, LimitTypes
<1>3. BufferLengths(count) \in [1..N -> Nat]
  BY <1>2 DEF BufferLengths
<1> QED
  BY <1>3, FunctionIsSeq

\* Sequence arithmetic: counting up and back again.
LEMMA SequenceArithmetic ==
    ASSUME NEW n \in 0..(SEQUENCES - 1)
    PROVE  /\ (n + 1) % SEQUENCES \in 0..(SEQUENCES - 1)
           /\ Previous((n + 1) % SEQUENCES) = n
           /\ (n + 1) % SEQUENCES # n
           /\ (Previous(n) + 1) % SEQUENCES = n
<1>1. SEQUENCES \in Nat /\ SEQUENCES > 1
  BY SequencesAssumption
<1>2. (n + 1) % SEQUENCES = IF n = SEQUENCES - 1 THEN 0 ELSE n + 1
  BY <1>1
<1>3. \A m \in 0..(SEQUENCES - 1) :
          Previous(m) = IF m = 0 THEN SEQUENCES - 1 ELSE m - 1
  <2> TAKE m \in 0..(SEQUENCES - 1)
  <2>1. CASE m = 0
    <3>1. (m + SEQUENCES - 1) % SEQUENCES = SEQUENCES - 1
      BY <1>1, <2>1
    <3> QED
      BY <2>1, <3>1 DEF Previous
  <2>2. CASE m # 0
    <3>1. m + SEQUENCES - 1 = SEQUENCES * 1 + (m - 1) /\ m - 1 \in 0..(SEQUENCES - 1)
      BY <1>1, <2>2
    <3>2. (m + SEQUENCES - 1) % SEQUENCES = m - 1
      BY <1>1, <3>1
    <3> QED
      BY <2>2, <3>2 DEF Previous
  <2> QED
    BY <2>1, <2>2
<1>4. (n + 1) % SEQUENCES \in 0..(SEQUENCES - 1) /\ (n + 1) % SEQUENCES # n
  BY <1>1, <1>2
<1>5. Previous((n + 1) % SEQUENCES) = n
  BY <1>1, <1>2, <1>3, <1>4
<1>6. (Previous(n) + 1) % SEQUENCES = n
  <2>1. CASE n = 0
    <3>1. Previous(n) + 1 = SEQUENCES
      BY <1>1, <1>3, <2>1
    <3>2. SEQUENCES % SEQUENCES = 0
      BY <1>1
    <3> QED
      BY <2>1, <3>1, <3>2
  <2>2. CASE n # 0
    <3>1. Previous(n) + 1 = n
      BY <1>1, <1>3, <2>2
    <3>2. n % SEQUENCES = n
      BY <1>1
    <3> QED
      BY <3>1, <3>2
  <2> QED
    BY <2>1, <2>2
<1> QED
  BY <1>4, <1>5, <1>6

-----------------------------------------------------------------------------
LEMMA InitTypeOK == Init => TypeOK
<1> SUFFICES ASSUME Init
             PROVE  TypeOK
  OBVIOUS
<1>1. N \in Nat
  BY ConfigTypes DEF Init
<1>2. sent \in [1..N -> Datagrams \cup {Nothing}]
  BY DEF Init
<1>3. buffers \in Seq(Nat)
  BY DEF Init
<1>4. 0 \in 0..(SEQUENCES - 1)
  BY SequencesAssumption
<1> QED
  BY <1>1, <1>2, <1>3, <1>4 DEF Init, TypeOK

\* The buffers of a call that starts sending, and everything else it leaves.
LEMMA SendSlotsTypeOK ==
    ASSUME TypeOK, pc = "idle", BuildAccepts(universes, config.priority),
           NEW lens \in Seq(Nat), NEW zone \in Zones \cup {NoZone},
           NEW colour \in Colours, SendSlots(lens, zone, colour)
    PROVE  TypeOK'
<1>1. N \in Nat /\ N # 0
  BY ConfigTypes DEF TypeOK, BuildAccepts, N
<1>2. CASE Len(lens) # N \/ ~socket
  BY <1>2 DEF TypeOK, SendSlots, Return, universes, N
<1>3. CASE ~(Len(lens) # N \/ ~socket)
  <2>1. [zone |-> zone, colour |-> colour] \in Contents
    BY DEF Contents
  <2>2. 1 \in 1..N
    BY <1>1
  <2>3. /\ pc' = "sending" /\ buffers' = lens /\ next' = 1
        /\ content' = [zone |-> zone, colour |-> colour]
        /\ UNCHANGED <<config, result, socket, sequence, sent, torn>>
    BY <1>3 DEF SendSlots
  <2> QED
    BY <1>3, <2>1, <2>2, <2>3 DEF TypeOK, universes, N
<1> QED
  BY <1>2, <1>3

LEMMA SendOkTypeOK == TypeOK /\ SendOk => TypeOK'
<1> SUFFICES ASSUME TypeOK, SendOk
             PROVE  TypeOK'
  OBVIOUS
<1>1. N \in Nat /\ next \in 1..N
  BY ConfigTypes DEF TypeOK, SendOk
<1>2. sequence' \in 0..(SEQUENCES - 1)
  BY SequenceArithmetic DEF TypeOK, SendOk, NextSequence
<1>3. [sequence |-> sequence, zone |-> content.zone, colour |-> content.colour]
          \in Datagrams \cup {Nothing}
  BY DEF TypeOK, SendOk, Contents, Datagrams
<1>4. sent' \in [1..N -> Datagrams \cup {Nothing}]
  BY <1>3 DEF TypeOK, SendOk
<1>5. UNCHANGED <<config, socket, buffers, content>>
  BY DEF SendOk
<1>6. CASE next = N
  BY <1>1, <1>2, <1>4, <1>5, <1>6 DEF TypeOK, SendOk, universes, N
<1>7. CASE next # N
  <2>1. next + 1 \in 1..N /\ next' = next + 1 /\ UNCHANGED <<pc, result>>
    BY <1>1, <1>7 DEF SendOk
  <2> QED
    BY <1>1, <1>2, <1>4, <1>5, <2>1 DEF TypeOK, SendOk, universes, N
<1> QED
  BY <1>6, <1>7

LEMMA FailTypeOK ==
    ASSUME TypeOK, pc = "sending", NEW r \in {"Protocol", "Io"}, Fail(r)
    PROVE  TypeOK'
<1>1. N \in Nat /\ next \in 1..N
  BY ConfigTypes DEF TypeOK
<1>2. torn' \subseteq 1..N
  BY <1>1 DEF TypeOK, Fail
<1> QED
  BY <1>2 DEF TypeOK, Fail, universes, N

LEMMA NextTypeOK == TypeOK /\ Built /\ [Next]_vars => TypeOK'
<1> SUFFICES ASSUME TypeOK, Built, [Next]_vars
             PROVE  TypeOK'
  OBVIOUS
<1>1. CASE Build
  BY <1>1 DEF TypeOK, Build, universes, N
<1>2. CASE ConnectOk \/ ConnectErr \/ Disconnect \/ RenderNothing
  BY <1>2 DEF TypeOK, ConnectOk, ConnectErr, Disconnect, RenderNothing, Return,
              universes, N
<1>3. ASSUME NEW zone \in Zones, NEW colour \in Colours, NEW count \in PixelCounts,
             Render(zone, colour, count)
      PROVE  TypeOK'
  <2>1. BufferLengths(count) \in Seq(Nat)
    BY ConfigTypes, BufferLengthsType, PixelCountsAssumption DEF TypeOK
  <2> QED
    BY <1>3, <2>1, SendSlotsTypeOK DEF Render, Built
<1>4. ASSUME NEW lens \in DirectSlots, NEW colour \in Colours, SendDirect(lens, colour)
      PROVE  TypeOK'
  BY <1>4, SendSlotsTypeOK, DirectSlotsAssumption DEF SendDirect, Built
<1>5. CASE SendOk
  BY <1>5, SendOkTypeOK
<1>6. CASE SendErr \/ EncodeErr
  BY <1>6, FailTypeOK DEF SendErr, EncodeErr
<1>7. CASE Drop
  BY <1>7 DEF TypeOK, Drop, universes, N
<1>8. CASE UNCHANGED vars
  BY <1>8 DEF TypeOK, vars, universes, N
<1> QED
  BY <1>1, <1>2, <1>3, <1>4, <1>5, <1>6, <1>7, <1>8 DEF Next

LEMMA NextBuilt == TypeOK /\ Built /\ [Next]_vars => Built'
<1> SUFFICES ASSUME TypeOK, Built, [Next]_vars
             PROVE  Built'
  OBVIOUS
<1>1. CASE Build
  BY <1>1 DEF Built, Build, universes, N, BufferLengths
<1>2. CASE ConnectOk \/ ConnectErr \/ Disconnect \/ RenderNothing
  BY <1>2 DEF Built, ConnectOk, ConnectErr, Disconnect, RenderNothing, Return,
              universes, N, BufferLengths
<1>3. ASSUME NEW zone \in Zones, NEW colour \in Colours, NEW count \in PixelCounts,
             Render(zone, colour, count)
      PROVE  Built'
  <2>1. CASE pc' = "sending"
    BY <1>3, <2>1 DEF Built, Render, SendSlots, Return, universes, N, BufferLengths
  <2>2. CASE pc' # "sending"
    BY <1>3, <2>2 DEF Built, Render, SendSlots, Return, universes
  <2> QED
    BY <2>1, <2>2
<1>4. ASSUME NEW lens \in DirectSlots, NEW colour \in Colours, SendDirect(lens, colour)
      PROVE  Built'
  BY <1>4 DEF Built, SendDirect, SendSlots, Return, universes
<1>5. CASE SendOk
  <2>1. CASE next = N
    BY <1>5, <2>1 DEF Built, SendOk, universes
  <2>2. CASE next # N
    <3>1. N \in Nat /\ next \in 1..N
      BY ConfigTypes, <1>5 DEF TypeOK, SendOk
    <3>2. torn' \cap 1..(next' - 1) = {}
      BY <1>5, <2>2, <3>1 DEF Built, SendOk
    <3> QED
      BY <1>5, <2>2, <3>2 DEF Built, SendOk, universes, N, BufferLengths
  <2> QED
    BY <2>1, <2>2
<1>6. CASE SendErr \/ EncodeErr
  BY <1>6 DEF Built, SendErr, EncodeErr, Fail, universes
<1>7. CASE Drop
  BY <1>7 DEF Built, Drop
<1>8. CASE UNCHANGED vars
  BY <1>8 DEF Built, vars, universes, N, BufferLengths
<1> QED
  BY <1>1, <1>2, <1>3, <1>4, <1>5, <1>6, <1>7, <1>8 DEF Next

LEMMA TypeOKAndBuilt == Spec => [](TypeOK /\ Built)
<1>1. Init => Built
  BY DEF Init, Built
<1> QED
  BY <1>1, InitTypeOK, NextTypeOK, NextBuilt, PTL DEF Spec

\* The adapter's variables keep their types; in particular a call that sends
\* has an open socket and one buffer for each universe.
THEOREM TypeCorrect == Spec => []TypeOK
BY TypeOKAndBuilt, PTL

-----------------------------------------------------------------------------
\* Whatever frame render is given, encode accepts all its packets, so that a
\* tick fails at the socket or not at all (adapter.rs:163-164, 112-117).
THEOREM RenderNeverMeetsEncodeError == Spec => []RenderFailsOnlyAtTheSocket
<1>1. TypeOK /\ Built => RenderFailsOnlyAtTheSocket
  <2> SUFFICES ASSUME TypeOK, Built, pc = "sending", content.zone # NoZone
               PROVE  Encoded
    BY DEF RenderFailsOnlyAtTheSocket
  <2>1. PICK count \in PixelCounts : buffers = BufferLengths(count)
    BY DEF Built
  <2>2. AcceptedNeverRejected(universes, config.priority, count)
    BY EncodeAccepts, ConfigTypes, PixelCountsAssumption DEF TypeOK
  <2>3. next \in 1..N /\ buffers[next] = 3 * ChunkPixels(count, N, next)
    BY <2>1 DEF TypeOK, BufferLengths
  <2> QED
    BY <2>2, <2>3 DEF Built, AcceptedNeverRejected, Encoded, N
<1> QED
  BY <1>1, TypeOKAndBuilt, PTL

-----------------------------------------------------------------------------
\* The universes that carry the current number, and the datagram for them.
Current == torn \cup Served
Datagram == [sequence |-> sequence, zone |-> content.zone, colour |-> content.colour]

\* What a send does, in the middle of a tick and at its end.
LEMMA SendOkEffect ==
    ASSUME TypeOK, Built, SendOk
    PROVE  /\ N \in Nat /\ next \in 1..N /\ N' = N /\ pc = "sending"
           /\ sent' = [sent EXCEPT ![next] = Datagram]
           /\ DOMAIN sent = 1..N
           /\ Served = 1..(next - 1) /\ torn \cap Served = {}
           /\ next # N => /\ sequence' = sequence /\ content' = content
                          /\ pc' = "sending"
                          /\ Served' = Served \cup {next}
                          /\ Current' = Current \cup {next}
           /\ next = N => /\ sequence' = (sequence + 1) % SEQUENCES
                          /\ pc' = "idle" /\ Served' = {} /\ Current' = {}
<1>1. /\ N \in Nat /\ next \in 1..N /\ DOMAIN sent = 1..N /\ N' = N
      /\ pc = "sending" /\ torn \subseteq 1..N
  BY ConfigTypes DEF TypeOK, SendOk, N, universes
<1>2. sent' = [sent EXCEPT ![next] = Datagram] /\ torn' = torn \ {next}
  BY DEF SendOk, Datagram
<1>3. Served = 1..(next - 1) /\ torn \cap Served = {}
  BY <1>1 DEF Served, Built
<1>4. ASSUME next # N
      PROVE  /\ sequence' = sequence /\ content' = content /\ pc' = "sending"
             /\ Served' = Served \cup {next}
             /\ Current' = Current \cup {next}
  <2>1. /\ sequence' = sequence /\ content' = content /\ pc' = "sending"
        /\ next' = next + 1
    BY <1>1, <1>4 DEF SendOk, NextSequence
  <2>2. Served' = Served \cup {next}
    BY <1>1, <1>3, <2>1 DEF Served
  <2> QED
    BY <1>2, <2>1, <2>2 DEF Current
<1>5. ASSUME next = N
      PROVE  /\ sequence' = (sequence + 1) % SEQUENCES
             /\ pc' = "idle" /\ Served' = {} /\ Current' = {}
  <2>1. sequence' = (sequence + 1) % SEQUENCES /\ pc' = "idle"
    BY <1>5 DEF SendOk, NextSequence
  <2>2. Served' = {}
    BY <2>1 DEF Served
  <2>3. torn' = {}
    BY <1>1, <1>2, <1>3, <1>5
  <2> QED
    BY <2>1, <2>2, <2>3 DEF Current
<1> QED
  BY <1>1, <1>2, <1>3, <1>4, <1>5

\* A step that sends nothing leaves the accounts as they are.
LEMMA QuietEffect ==
    ASSUME TypeOK, [Next]_vars, ~SendOk
    PROVE  /\ N' = N /\ sent' = sent /\ sequence' = sequence
           /\ pc' \in {"idle", "sending"} =>
                  pc = "new" \/ (pc \in {"idle", "sending"} /\ Current' = Current)
           /\ Served' # {} => content' = content /\ Served' = Served
<1>1. CASE Build
  BY <1>1 DEF Build, N, universes, Served
<1>2. CASE ConnectOk \/ ConnectErr \/ Disconnect \/ RenderNothing
  BY <1>2 DEF ConnectOk, ConnectErr, Disconnect, RenderNothing, Return, N, universes,
              Served, Current
<1>3. ASSUME NEW lens, NEW zone, NEW colour, pc = "idle", SendSlots(lens, zone, colour)
      PROVE  /\ N' = N /\ sent' = sent /\ sequence' = sequence
             /\ Current' = Current
             /\ Served' = {}
  <2>1. UNCHANGED <<config, sent, sequence, torn>>
    BY <1>3 DEF SendSlots, Return
  <2>2. Served = {}
    BY <1>3 DEF Served
  <2>3. pc' = "idle" \/ (pc' = "sending" /\ next' = 1)
    BY <1>3 DEF SendSlots, Return
  <2>4. Served' = {}
    BY <2>3 DEF Served
  <2> QED
    BY <2>1, <2>2, <2>4 DEF N, universes, Current
<1>4. ASSUME NEW zone \in Zones, NEW colour \in Colours, NEW count \in PixelCounts,
             Render(zone, colour, count)
      PROVE  /\ pc = "idle"
             /\ N' = N /\ sent' = sent /\ sequence' = sequence
             /\ Current' = Current
             /\ Served' = {}
  BY <1>3, <1>4 DEF Render
<1>5. ASSUME NEW lens \in DirectSlots, NEW colour \in Colours, SendDirect(lens, colour)
      PROVE  /\ pc = "idle"
             /\ N' = N /\ sent' = sent /\ sequence' = sequence
             /\ Current' = Current
             /\ Served' = {}
  BY <1>3, <1>5 DEF SendDirect
<1>6. CASE SendErr \/ EncodeErr
  <2>1. /\ pc = "sending" /\ pc' = "idle"
        /\ torn' = torn \cup 1..(next - 1)
        /\ UNCHANGED <<config, sent, sequence>>
    BY <1>6 DEF SendErr, EncodeErr, Fail
  <2>2. Served = 1..(next - 1) /\ Served' = {}
    BY <2>1 DEF Served
  <2> QED
    BY <2>1, <2>2 DEF N, universes, Current
<1>7. CASE Drop
  BY <1>7 DEF Drop, N, universes, Served
<1>8. CASE UNCHANGED vars
  BY <1>8 DEF vars, N, universes, Served, Current, TypeOK
<1> QED
  BY <1>1, <1>2, <1>4, <1>5, <1>6, <1>7, <1>8 DEF Next

LEMMA NextSequenceAccounted ==
    TypeOK /\ Built /\ SequenceAccounted /\ [Next]_vars => SequenceAccounted'
<1> SUFFICES ASSUME TypeOK, Built, SequenceAccounted, [Next]_vars,
                    pc' \in {"idle", "sending"}, NEW j \in 1..N', sent'[j] # Nothing
             PROVE  sent'[j].sequence = IF j \in Current'
                                        THEN sequence' ELSE Previous(sequence')
  BY DEF SequenceAccounted, Current
<1>1. pc \in {"idle", "sending"} => \A i \in 1..N : sent[i] # Nothing =>
          sent[i].sequence = IF i \in Current THEN sequence ELSE Previous(sequence)
  BY DEF SequenceAccounted, Current
<1>2. sequence \in 0..(SEQUENCES - 1)
  BY DEF TypeOK
<1>3. CASE SendOk
  <2>1. /\ N' = N /\ pc = "sending" /\ next \in 1..N /\ N \in Nat
        /\ sent' = [sent EXCEPT ![next] = Datagram] /\ DOMAIN sent = 1..N
        /\ Served = 1..(next - 1)
    BY <1>3, SendOkEffect
  <2>2. CASE j = next
    <3>1. sent'[j].sequence = sequence
      BY <2>1, <2>2 DEF Datagram
    <3>2. CASE next # N
      BY <1>3, <2>2, <3>1, <3>2, SendOkEffect
    <3>3. CASE next = N
      <4>1. Current' = {} /\ sequence' = (sequence + 1) % SEQUENCES
        BY <1>3, <3>3, SendOkEffect
      <4> QED
        BY <1>2, <3>1, <4>1, SequenceArithmetic
    <3> QED
      BY <3>2, <3>3
  <2>3. CASE j # next
    <3>1. sent'[j] = sent[j]
      BY <2>1, <2>3
    <3>2. CASE next # N
      <4>1. Current' = Current \cup {next} /\ sequence' = sequence
        BY <1>3, <3>2, SendOkEffect
      <4> QED
        BY <1>1, <2>1, <2>3, <3>1, <4>1
    <3>3. CASE next = N
      <4>1. Current' = {} /\ sequence' = (sequence + 1) % SEQUENCES
        BY <1>3, <3>3, SendOkEffect
      <4>2. j \in Current
        BY <2>1, <2>3, <3>3 DEF Current
      <4>3. sent'[j].sequence = sequence
        BY <1>1, <2>1, <3>1, <4>2
      <4> QED
        BY <1>2, <4>1, <4>3, SequenceArithmetic
    <3> QED
      BY <3>2, <3>3
  <2> QED
    BY <2>2, <2>3
<1>4. CASE ~SendOk
  <2>1. /\ N' = N /\ sent' = sent /\ sequence' = sequence
        /\ pc = "new" \/ (pc \in {"idle", "sending"} /\ Current' = Current)
    BY <1>4, QuietEffect
  <2>2. pc # "new"
    BY <2>1 DEF Built
  <2> QED
    BY <1>1, <2>1, <2>2
<1> QED
  BY <1>3, <1>4

\* The single sequence number accounts for every universe, across failed
\* ticks, reconnects and wrapping (adapter.rs:112-119).
THEOREM SequenceIsAccounted == Spec => []SequenceAccounted
<1>1. Init => SequenceAccounted
  BY DEF Init, SequenceAccounted
<1> QED
  BY <1>1, NextSequenceAccounted, TypeOKAndBuilt, PTL DEF Spec

-----------------------------------------------------------------------------
LEMMA NextOneTick ==
    TypeOK /\ Built /\ OneTickUnlessTorn /\ [Next]_vars => OneTickUnlessTorn'
<1> SUFFICES ASSUME TypeOK, Built, OneTickUnlessTorn, [Next]_vars,
                    pc' \in {"idle", "sending"}
             PROVE  /\ \A i, j \in (1..N') \ Current' : sent'[i] = sent'[j]
                    /\ \A j \in Served' : sent'[j] = Datagram'
  BY DEF OneTickUnlessTorn, Current, Datagram
<1>1. pc \in {"idle", "sending"} =>
          /\ \A i, j \in (1..N) \ Current : sent[i] = sent[j]
          /\ \A j \in Served : sent[j] = Datagram
  BY DEF OneTickUnlessTorn, Current, Datagram
<1>2. CASE SendOk
  <2>1. /\ N' = N /\ pc = "sending" /\ next \in 1..N /\ N \in Nat
        /\ sent' = [sent EXCEPT ![next] = Datagram] /\ DOMAIN sent = 1..N
        /\ Served = 1..(next - 1)
    BY <1>2, SendOkEffect
  <2>2. CASE next # N
    <3>1. /\ Current' = Current \cup {next} /\ Served' = Served \cup {next}
          /\ sequence' = sequence /\ content' = content
      BY <1>2, <2>2, SendOkEffect
    <3>2. Datagram' = Datagram
      BY <3>1 DEF Datagram
    <3> QED
      BY <1>1, <2>1, <3>1, <3>2
  <2>3. CASE next = N
    <3>1. Current' = {} /\ Served' = {}
      BY <1>2, <2>3, SendOkEffect
    <3>2. \A j \in 1..N : sent'[j] = Datagram
      BY <1>1, <2>1, <2>3
    <3> QED
      BY <2>1, <3>1, <3>2
  <2> QED
    BY <2>2, <2>3
<1>3. CASE ~SendOk
  <2>1. /\ N' = N /\ sent' = sent /\ sequence' = sequence
        /\ pc = "new" \/ (pc \in {"idle", "sending"} /\ Current' = Current)
        /\ Served' # {} => content' = content /\ Served' = Served
    BY <1>3, QuietEffect
  <2>2. CASE pc = "new"
    <3>1. \A j \in 1..N : sent'[j] = Nothing
      BY <2>1, <2>2 DEF Built
    <3>2. Served = {}
      BY <2>2 DEF Served
    <3> QED
      BY <2>1, <3>1, <3>2
  <2>3. CASE pc # "new"
    <3>1. \A i, j \in (1..N') \ Current' : sent'[i] = sent'[j]
      BY <1>1, <2>1, <2>3
    <3>2. ASSUME NEW j \in Served'
          PROVE  sent'[j] = Datagram'
      <4>1. Served' = Served /\ content' = content /\ Datagram' = Datagram
        BY <2>1, <3>2 DEF Datagram
      <4> QED
        BY <1>1, <2>1, <2>3, <3>2, <4>1
    <3> QED
      BY <3>1, <3>2
  <2> QED
    BY <2>2, <2>3
<1> QED
  BY <1>2, <1>3

\* Apart from the universes a failed tick left behind, a strip never shows
\* more than two ticks at once, each on one run of universes, and after a
\* complete tick just that one (adapter.rs:112-119).
THEOREM OneTickAtATime == Spec => []OneTickUnlessTorn
<1>1. Init => OneTickUnlessTorn
  BY DEF Init, OneTickUnlessTorn, Served
<1> QED
  BY <1>1, NextOneTick, TypeOKAndBuilt, PTL DEF Spec

-----------------------------------------------------------------------------
\* Without failed ticks a universe's packets are numbered one by one, round
\* and round (adapter.rs:70-75, 119).
THEOREM NumberedOneByOne == Spec => ConsecutiveUnlessTorn
<1>1. TypeOK /\ Built /\ SequenceAccounted /\ [Next]_vars =>
          [\A j \in 1..N :
              SendOk /\ next = j /\ j \notin torn /\ sent[j] # Nothing =>
                  sent'[j].sequence = (sent[j].sequence + 1) % SEQUENCES]_vars
  <2> SUFFICES ASSUME TypeOK, Built, SequenceAccounted, SendOk,
                      next \notin torn, sent[next] # Nothing
               PROVE  sent'[next].sequence = (sent[next].sequence + 1) % SEQUENCES
    OBVIOUS
  <2>1. /\ next \in 1..N /\ N \in Nat /\ DOMAIN sent = 1..N
        /\ sent' = [sent EXCEPT ![next] = Datagram]
        /\ Served = 1..(next - 1) /\ pc = "sending"
    BY SendOkEffect
  <2>2. next \notin torn \cup Served
    BY <2>1
  <2>3. sent[next].sequence = Previous(sequence)
    BY <2>1, <2>2 DEF SequenceAccounted
  <2>4. sent'[next].sequence = sequence
    BY <2>1 DEF Datagram
  <2>5. sequence \in 0..(SEQUENCES - 1)
    BY DEF TypeOK
  <2> QED
    BY <2>3, <2>4, <2>5, SequenceArithmetic
<1> QED
  BY <1>1, TypeOKAndBuilt, SequenceIsAccounted, PTL DEF ConsecutiveUnlessTorn, Spec
=============================================================================
