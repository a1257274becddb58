--------------------------- MODULE Pipeline_proofs ---------------------------
(***************************************************************************)
(* Proofs about the whole process, for any command lines, rates, queue     *)
(* and counters.  What is proved of the adapter and of the render loop on  *)
(* their own is carried over: every step of the process is a step of each  *)
(* of them, or leaves it alone.                                            *)
(***************************************************************************)
EXTENDS Pipeline, SacnLayout_proofs

Adapter == INSTANCE SacnAdapter_proofs WITH
            pc <- call,
            Configs <- {AdapterConfig(a) : a \in RunArgs},
            Zones <- {StripZone},
            Own <- {StripZone},
            Colours <- 1..MaxFrames,
            PixelCounts <- Pixels,
            DirectSlots <- {}

Engine == INSTANCE RenderLoop_proofs WITH
            pc <- where,
            Adapters <- {SACN},
            Healthy <- {SACN},
            Policy <- [a \in {SACN} |-> "LogAndContinue"],
            Period <- [a \in {SACN} |-> Period]

\* The universe list is a list of numbers.
LEMMA UniverseList ==
    ASSUME NEW pixels \in Nat, NEW start \in 0..U16_MAX
    PROVE  universes_for(pixels, start) \in Seq(Nat)
<1>1. UniverseCount(pixels) \in Nat
  BY UniverseCountEnough
<1>2. \A i \in 1..UniverseCount(pixels) : SaturatingAdd(start, i - 1) \in Nat
  BY <1>1, LimitTypes DEF SaturatingAdd, Lesser
<1> QED
  BY <1>1, <1>2 DEF universes_for

\* The assumptions of SacnAdapter hold of the pipeline's adapter, ...
LEMMA AdapterAssumptions ==
    /\ SEQUENCES \in Nat \ {0, 1}
    /\ {AdapterConfig(a) : a \in RunArgs} \subseteq [universes : Seq(Nat), priority : Nat]
    /\ Pixels \subseteq Nat
    /\ {} \subseteq Seq(Nat)
    /\ MAX_SLOTS_PER_UNIVERSE \in 3..512
    /\ /\ U16_MAX \in Nat
       /\ MAX_UNIVERSE \in 1..(U16_MAX - 1)
       /\ MAX_UNIVERSES \in 1..U16_MAX
<1>1. ASSUME NEW a \in RunArgs
      PROVE  AdapterConfig(a) \in [universes : Seq(Nat), priority : Nat]
  <2>1. a.pixels \in Nat /\ a.start_universe \in 0..U16_MAX
    BY <1>1, PixelsAssumption, StartAssumption DEF RunArgs
  <2> QED
    BY <2>1, UniverseList DEF AdapterConfig, DEFAULT_PRIORITY
<1> QED
  BY <1>1, CountersAssumption, PixelsAssumption, SlotsAssumption, UniverseAssumption

\* ... and those of RenderLoop of its one task.
LEMMA EngineAssumptions ==
    /\ {SACN} \subseteq {SACN}
    /\ [a \in {SACN} |-> "LogAndContinue"] \in [{SACN} -> Engine!Policies]
    /\ [a \in {SACN} |-> Period] \in [{SACN} -> Nat \ {0}]
    /\ Slack \in Nat
    /\ MaxFrames \in Nat
BY RateAssumption, BoundsAssumption DEF Engine!Policies

-----------------------------------------------------------------------------
(* The render task is a RenderLoop, whatever the main task does.           *)

LEMMA EngineInit == Init => Engine!Init
BY DEF Init, Loop!Init, Engine!Init, Loop!NoFrame, Engine!NoFrame

LEMMA EngineSteps == [Next]_vars => [Engine!Next]_(Engine!vars)
<1> SUFFICES ASSUME [Next]_vars
             PROVE  [Engine!Next]_(Engine!vars)
  OBVIOUS
<1> USE DEF loop_vars, sacn_vars, main_vars
<1>1. CASE UNCHANGED loop_vars
  BY <1>1 DEF Engine!vars
<1>2. ASSUME Loop!Publish
      PROVE  Engine!Next
  BY <1>2 DEF Loop!Publish, Engine!Publish, Engine!Next
<1>3. CASE Build \/ Bind \/ Install \/ Interrupt \/ LinkChanges \/ Exit
           \/ \E d \in Datagrams : Arrive(d)
  BY <1>1, <1>3 DEF Build, Bind, Install, Interrupt, LinkChanges, Exit, Arrive
<1>4. CASE Select
  BY <1>1, <1>2, <1>4 DEF Select, Receive, Leave
<1>5. CASE Time
  BY <1>5 DEF Time, Loop!Advance, Engine!Advance, Engine!Next
<1>6. CASE AbortTask
  BY <1>6 DEF AbortTask, Loop!Abort, Engine!Abort, Loop!LeaveBody, Engine!LeaveBody,
              Loop!Ended, Engine!Ended, Loop!NoFrame, Engine!NoFrame, Engine!Next
<1>7. CASE RenderTask
  <2>1. CASE TaskConnectOk
    BY <2>1 DEF TaskConnectOk, Loop!ConnectOk, Engine!ConnectOk, Engine!Connect, Engine!Next
  <2>2. CASE TaskConnectErr
    BY <2>2 DEF TaskConnectErr, Loop!ConnectErr, Engine!ConnectErr, Engine!Connect,
                Engine!Next
  <2>3. CASE TaskTick
    <3>1. Engine!Tick(SACN)
      BY <2>3 DEF TaskTick, Loop!Tick, Engine!Tick, Loop!Snapshot, Engine!Snapshot,
                  Loop!NextDeadline, Engine!NextDeadline
    <3> QED
      BY <3>1 DEF Engine!Next
  <2>4. CASE TaskSend
    BY <1>1, <2>4 DEF TaskSend
  <2>5. CASE TaskReturn
    <3>1. Engine!RenderOk(SACN) \/ Engine!RenderErr(SACN)
      BY <2>5 DEF TaskReturn, Loop!RenderOk, Engine!RenderOk, Loop!RenderErr,
                  Engine!RenderErr, Loop!LeaveBody, Engine!LeaveBody, Loop!NoFrame,
                  Engine!NoFrame, Loop!AfterError, Engine!AfterError
    <3> QED
      BY <3>1 DEF Engine!Next, Engine!RenderReturns
  <2> QED
    BY <1>7, <2>1, <2>2, <2>3, <2>4, <2>5 DEF RenderTask
<1>8. CASE UNCHANGED vars
  BY <1>1, <1>8 DEF vars
<1> QED
  BY <1>3, <1>4, <1>5, <1>6, <1>7, <1>8 DEF Next

\* With its own view of time, datagrams and aborts, the process takes only
\* steps of RenderLoop: all that is proved of run_adapter and the bus holds
\* where main.rs:171-217 uses them.
THEOREM RunsTheEngine == SafetySpec => Engine!SafetySpec
BY EngineInit, EngineSteps, PTL DEF SafetySpec, Engine!SafetySpec

\* What RenderLoop_proofs shows of every task holds of this one.
LEMMA EngineTyped == SafetySpec => []Engine!TypeOK
BY RunsTheEngine, EngineAssumptions, Engine!TypeCorrect, PTL

-----------------------------------------------------------------------------
(* The adapter is a SacnAdapter whose owner is the render task.            *)

LEMMA AdapterInit == Init => Adapter!Init
BY DEF Init, Sacn!Init, Adapter!Init, Sacn!NoContent, Adapter!NoContent,
       Sacn!NoZone, Adapter!NoZone, Sacn!NoColour, Adapter!NoColour,
       Sacn!Nothing, Adapter!Nothing, Sacn!N, Adapter!N, Sacn!universes, Adapter!universes

\* The command line stays what it was.
LEMMA ArgsTyped == SafetySpec => [](args \in RunArgs)
<1>1. Init => args \in RunArgs
  BY DEF Init
<1>2. args \in RunArgs /\ [Next]_vars => (args \in RunArgs)'
  <2> SUFFICES ASSUME args \in RunArgs, [Next]_vars
               PROVE  args' = args
    OBVIOUS
  <2> QED
    BY DEF Next, vars, main_vars, Build, Bind, Install, Arrive, Interrupt, LinkChanges, Time,
           Select, Receive, Leave, RenderTask, AbortTask, Exit
<1> QED
  BY <1>1, <1>2, PTL DEF SafetySpec

\* The layout's operators, by either way to them, are those of SacnLayout.
LEMMA SameLayout ==
    /\ \A us, p : Sacn!BuildAccepts(us, p) = Adapter!BuildAccepts(us, p)
    /\ \A u, p, n : Sacn!encode(u, p, n) = Adapter!encode(u, p, n)
    /\ \A c, k, j : Sacn!ChunkPixels(c, k, j) = Adapter!ChunkPixels(c, k, j)
BY DEF Sacn!BuildAccepts, Adapter!BuildAccepts, Sacn!encode, Adapter!encode,
       Sacn!LegalUniverse, Adapter!LegalUniverse, Sacn!MAX_PRIORITY, Adapter!MAX_PRIORITY,
       Sacn!ChunkPixels, Adapter!ChunkPixels, Sacn!Lesser, Adapter!Lesser,
       Sacn!MAX_RGB_PIXELS_PER_UNIVERSE, Adapter!MAX_RGB_PIXELS_PER_UNIVERSE

LEMMA AdapterSteps ==
    args \in RunArgs /\ Engine!TypeOK' /\ [Next]_vars => [Adapter!Next]_(Adapter!vars)
<1> SUFFICES ASSUME args \in RunArgs, Engine!TypeOK', [Next]_vars
             PROVE  [Adapter!Next]_(Adapter!vars)
  OBVIOUS
<1> USE DEF loop_vars, sacn_vars, main_vars
<1>1. CASE UNCHANGED sacn_vars
  BY <1>1 DEF Adapter!vars
<1>2. CASE Bind \/ Install \/ Interrupt \/ LinkChanges \/ Exit \/ Time \/ Select
           \/ \E d \in Datagrams : Arrive(d)
  BY <1>1, <1>2 DEF Bind, Install, Interrupt, LinkChanges, Exit, Time, Select, Receive,
                    Leave, Arrive
<1>3. CASE Build
  BY <1>3, SameLayout DEF Build, Sacn!Build, Adapter!Build, Sacn!universes, Adapter!universes,
              Adapter!Next
<1>4. ASSUME Sacn!Drop
      PROVE  Adapter!Next
  BY <1>4 DEF Sacn!Drop, Adapter!Drop, Adapter!Next
<1>5. CASE AbortTask
  BY <1>4, <1>5 DEF AbortTask
<1>6. CASE RenderTask
  <2>1. CASE TaskConnectOk
    BY <2>1 DEF TaskConnectOk, Sacn!ConnectOk, Adapter!ConnectOk, Sacn!Return,
                Adapter!Return, Adapter!Next
  <2>2. CASE TaskConnectErr
    BY <1>4, <2>2 DEF TaskConnectErr
  <2>3. CASE TaskTick
    <3>1. CASE frame'[SACN] = 0
      BY <2>3, <3>1 DEF TaskTick, Sacn!RenderNothing, Adapter!RenderNothing, Sacn!Return,
                        Adapter!Return, Adapter!Next
    <3>2. CASE frame'[SACN] # 0
      <4>1. frame'[SACN] \in 1..MaxFrames
        BY <2>3, <3>2, BoundsAssumption
           DEF TaskTick, Loop!Tick, Loop!Snapshot, Engine!TypeOK, Engine!NoFrame
      <4>2. Sacn!Render(StripZone, frame'[SACN], args.pixels)
        BY <2>3, <3>2 DEF TaskTick
      <4>3. Adapter!Render(StripZone, frame'[SACN], args.pixels)
        BY <4>2, SameLayout DEF Sacn!Render, Adapter!Render, Sacn!SendSlots, Adapter!SendSlots,
                    Sacn!BufferLengths, Adapter!BufferLengths, Sacn!N, Adapter!N,
                    Sacn!universes, Adapter!universes, Sacn!Return, Adapter!Return
      <4>4. args.pixels \in Pixels
        BY DEF RunArgs
      <4> QED
        BY <4>1, <4>3, <4>4 DEF Adapter!Next
    <3> QED
      BY <3>1, <3>2
  <2>4. CASE TaskSend
    <3>1. Sacn!SendOk => Adapter!SendOk
      BY SameLayout DEF Sacn!SendOk, Adapter!SendOk, Sacn!Encoded, Adapter!Encoded,
             Sacn!NextSequence, Adapter!NextSequence, Sacn!N, Adapter!N,
             Sacn!universes, Adapter!universes
    <3>2. Sacn!SendErr => Adapter!SendErr
      BY SameLayout DEF Sacn!SendErr, Adapter!SendErr, Sacn!Encoded, Adapter!Encoded,
             Sacn!Fail, Adapter!Fail, Sacn!universes, Adapter!universes
    <3>3. Sacn!EncodeErr => Adapter!EncodeErr
      BY SameLayout DEF Sacn!EncodeErr, Adapter!EncodeErr, Sacn!Encoded, Adapter!Encoded,
             Sacn!Fail, Adapter!Fail, Sacn!universes, Adapter!universes
    <3> QED
      BY <2>4, <3>1, <3>2, <3>3 DEF TaskSend, Adapter!Next
  <2>5. CASE TaskReturn
    BY <1>1, <2>5 DEF TaskReturn
  <2> QED
    BY <1>6, <2>1, <2>2, <2>3, <2>4, <2>5 DEF RenderTask
<1>7. CASE UNCHANGED vars
  BY <1>1, <1>7 DEF vars
<1> QED
  BY <1>2, <1>3, <1>5, <1>6, <1>7 DEF Next

\* The render task calls its adapter only as SacnAdapter expects it to be
\* called: never before build and connect, never during a tick
\* (engine/lib.rs:142-190 as a caller of adapter.rs:125-172).
THEOREM RunsTheAdapter == SafetySpec => Adapter!Spec
BY AdapterInit, AdapterSteps, ArgsTyped, EngineTyped, PTL DEF SafetySpec, Adapter!Spec

LEMMA AdapterTyped == SafetySpec => [](Adapter!TypeOK /\ Adapter!Built)
BY RunsTheAdapter, AdapterAssumptions, Adapter!TypeOKAndBuilt, PTL

-----------------------------------------------------------------------------
(* What the strip shows.                                                   *)

n == Len(config.universes)

\* The tick in progress sends the last snapshot; the universes before the
\* next one show it already, and no universe is ahead of the one before it.
InOrder ==
    /\ call = "new" => where[SACN] = "connecting"
    /\ call = "sending" =>
          /\ where[SACN] = "rendering"
          /\ content.colour = seen[SACN]
          /\ \A i \in 1..(next - 1) : Shown(i) = seen[SACN]
    /\ seen[SACN] <= current
    /\ \A j \in 1..n : Shown(j) <= seen[SACN]
    /\ \A i, j \in 1..n : i <= j => Shown(j) <= Shown(i)

Typed == args \in RunArgs /\ Engine!TypeOK /\ Adapter!TypeOK

LEMMA ShownTypes ==
    ASSUME Typed
    PROVE  /\ current \in Nat /\ seen[SACN] \in Nat
           /\ n \in Nat /\ DOMAIN sent = 1..n
           /\ \A j \in 1..n : Shown(j) \in Nat
           /\ call = "sending" => next \in 1..n /\ content.colour \in Nat
<1>1. current \in Nat /\ seen[SACN] \in Nat
  BY BoundsAssumption DEF Typed, Engine!TypeOK
<1>2. config \in [universes : Seq(Nat), priority : Nat]
  BY AdapterAssumptions DEF Typed, Adapter!TypeOK
<1>3. n \in Nat /\ Adapter!N = n
  BY <1>2 DEF n, Adapter!N, Adapter!universes
<1>4. sent \in [1..n -> Adapter!Datagrams \cup {Adapter!Nothing}]
  BY <1>3 DEF Typed, Adapter!TypeOK
<1>5. ASSUME NEW j \in 1..n
      PROVE  Shown(j) \in Nat
  <2>1. sent[j] \in Adapter!Datagrams \cup {Adapter!Nothing}
    BY <1>4
  <2>2. CASE sent[j] \in Adapter!Datagrams
    BY <2>2, BoundsAssumption DEF Shown, Adapter!Datagrams
  <2>3. CASE sent[j] = Adapter!Nothing
    BY <2>3 DEF Shown, Adapter!Nothing
  <2> QED
    BY <2>1, <2>2, <2>3
<1>6. call = "sending" => next \in 1..n /\ content.colour \in Nat
  BY <1>3, BoundsAssumption DEF Typed, Adapter!TypeOK, Adapter!Contents
<1> QED
  BY <1>1, <1>3, <1>4, <1>5, <1>6

\* A step either sends one universe the content of its tick, or leaves all
\* that was sent alone.
LEMMA SentEffect ==
    ASSUME Typed, [Next]_vars
    PROVE  /\ config' = config
           /\ \/ sent' = sent
              \/ RenderTask /\ TaskSend /\ Sacn!SendOk
<1> USE DEF loop_vars, sacn_vars, main_vars
<1>1. CASE Bind \/ Install \/ Interrupt \/ LinkChanges \/ Exit \/ Time \/ Select
           \/ (\E d \in Datagrams : Arrive(d)) \/ UNCHANGED vars
  BY <1>1 DEF Bind, Install, Interrupt, LinkChanges, Exit, Time, Select, Receive,
              Leave, Arrive, vars
<1>2. CASE Build \/ AbortTask
  BY <1>2 DEF Build, AbortTask, Sacn!Build, Sacn!Drop
<1>3. CASE RenderTask /\ (TaskConnectOk \/ TaskConnectErr \/ TaskReturn)
  BY <1>3 DEF TaskConnectOk, TaskConnectErr, TaskReturn, Sacn!ConnectOk, Sacn!Return,
              Sacn!Drop
<1>4. CASE RenderTask /\ TaskTick
  BY <1>4 DEF TaskTick, Sacn!Render, Sacn!RenderNothing, Sacn!SendSlots, Sacn!Return
<1>5. CASE RenderTask /\ TaskSend
  BY <1>5 DEF TaskSend, Sacn!SendOk, Sacn!SendErr, Sacn!EncodeErr, Sacn!Fail
<1> QED
  BY <1>1, <1>2, <1>3, <1>4, <1>5 DEF Next, RenderTask

\* The packet that goes out shows the last snapshot, and the tick moves on.
LEMMA SendOkEffect ==
    ASSUME Typed, InOrder, RenderTask, TaskSend, Sacn!SendOk
    PROVE  /\ call = "sending" /\ next \in 1..n /\ n' = n
           /\ \A j \in 1..n : Shown(j)' = IF j = next THEN seen[SACN] ELSE Shown(j)
           /\ call' \in {"sending", "idle"}
           /\ call' = "sending" => next' = next + 1 /\ content' = content
           /\ UNCHANGED loop_vars
<1>1. call = "sending" /\ UNCHANGED <<config, content>> /\ UNCHANGED loop_vars
  BY DEF Sacn!SendOk, TaskSend
<1>2. next \in 1..n /\ DOMAIN sent = 1..n /\ n \in Nat
  BY <1>1, ShownTypes
<1>3. sent' = [sent EXCEPT ![next] = [sequence |-> sequence, zone |-> content.zone,
                                      colour |-> content.colour]]
  BY DEF Sacn!SendOk
<1>4. sequence # -1
  BY CountersAssumption DEF Typed, Adapter!TypeOK
<1>5. \A j \in 1..n : j = next => Shown(j)' = seen[SACN]
  <2>1. sent'[next].sequence = sequence /\ sent'[next].colour = content.colour
    BY <1>2, <1>3
  <2>2. content.colour = seen[SACN]
    BY <1>1 DEF InOrder
  <2> QED
    BY <2>1, <2>2, <1>4 DEF Shown
<1>6. \A j \in 1..n : j # next => Shown(j)' = Shown(j)
  BY <1>2, <1>3 DEF Shown
<1>7. /\ call' \in {"sending", "idle"}
      /\ call' = "sending" => next' = next + 1
  BY <1>1 DEF Sacn!SendOk
<1>8. n' = n
  BY <1>1 DEF n
<1> QED
  BY <1>1, <1>2, <1>5, <1>6, <1>7, <1>8

LEMMA InitInOrder == Init => InOrder
<1> SUFFICES ASSUME Init
             PROVE  InOrder
  OBVIOUS
<1>1. call = "new" /\ where[SACN] = "connecting" /\ seen[SACN] = 0 /\ current = 0
  BY DEF Init, Loop!Init, Sacn!Init
<1>2. \A j \in 1..n : Shown(j) = 0
  BY DEF Init, Sacn!Init, Sacn!N, Sacn!universes, n, Shown, Sacn!Nothing
<1> QED
  BY <1>1, <1>2 DEF InOrder

LEMMA NextInOrder == Typed /\ Typed' /\ InOrder /\ [Next]_vars => InOrder'
<1> SUFFICES ASSUME Typed, Typed', InOrder, [Next]_vars
             PROVE  InOrder'
  OBVIOUS
<1> USE DEF loop_vars, sacn_vars, main_vars
<1>1. /\ current \in Nat /\ seen[SACN] \in Nat /\ n \in Nat
      /\ \A j \in 1..n : Shown(j) \in Nat
      /\ call = "sending" => next \in 1..n
  BY ShownTypes
<1>2. ASSUME sent' = sent
      PROVE  n' = n /\ \A j \in 1..n : Shown(j)' = Shown(j)
  BY <1>2, SentEffect DEF n, Shown
<1>3. CASE /\ UNCHANGED <<seen, where, call, content, next, sent>>
           /\ current' \in {current, current + 1}
  <2>1. n' = n /\ \A j \in 1..n : Shown(j)' = Shown(j)
    BY <1>2, <1>3
  <2>2. seen'[SACN] <= current'
    BY <1>1, <1>3 DEF InOrder
  <2>3. call' = "sending" =>
          /\ where'[SACN] = "rendering" /\ content'.colour = seen'[SACN]
          /\ \A i \in 1..(next' - 1) : Shown(i)' = seen'[SACN]
    BY <1>1, <1>3, <2>1 DEF InOrder
  <2> QED
    BY <1>1, <1>3, <2>1, <2>2, <2>3 DEF InOrder
<1>4. CASE Bind \/ Install \/ Interrupt \/ LinkChanges \/ Exit \/ Time \/ Select
           \/ (\E d \in Datagrams : Arrive(d)) \/ UNCHANGED vars
  BY <1>3, <1>4 DEF Bind, Install, Interrupt, LinkChanges, Exit, Time, Select, Receive,
              Leave, Arrive, vars, Loop!Publish, Loop!Advance
<1>5. ASSUME call' \notin {"new", "sending"}, sent' = sent, UNCHANGED <<seen, current>>
      PROVE  InOrder'
  BY <1>1, <1>2, <1>5 DEF InOrder
<1>6. CASE Build
  BY <1>5, <1>6 DEF Build, Sacn!Build
<1>7. CASE AbortTask
  BY <1>5, <1>7 DEF AbortTask, Sacn!Drop, Loop!Abort, Loop!LeaveBody
<1>8. CASE RenderTask /\ (TaskConnectOk \/ TaskConnectErr \/ TaskReturn)
  BY <1>5, <1>8 DEF TaskConnectOk, TaskConnectErr, TaskReturn, Sacn!ConnectOk, Sacn!Return,
              Sacn!Drop, Loop!ConnectOk, Loop!ConnectErr, Loop!RenderOk, Loop!RenderErr,
              Loop!LeaveBody
<1>9. CASE RenderTask /\ TaskTick
  <2>1. /\ call = "idle" /\ current' = current /\ sent' = sent
        /\ where' = [where EXCEPT ![SACN] = "rendering"]
        /\ seen' = [seen EXCEPT ![SACN] = current]
        /\ frame' = [frame EXCEPT ![SACN] = current]
    BY <1>9 DEF TaskTick, Loop!Tick, Loop!Snapshot, Sacn!Render, Sacn!RenderNothing,
                Sacn!SendSlots, Sacn!Return
  <2>2. seen'[SACN] = current /\ frame'[SACN] = current /\ where'[SACN] = "rendering"
    BY <2>1 DEF Typed, Engine!TypeOK
  <2>3. \/ call' = "idle"
        \/ call' = "sending" /\ content'.colour = current /\ next' = 1
    BY <1>9, <2>1, <2>2 DEF TaskTick, Sacn!Render, Sacn!RenderNothing, Sacn!SendSlots, Sacn!Return
  <2>4. seen[SACN] <= current
    BY DEF InOrder
  <2> QED
    BY <1>1, <1>2, <2>1, <2>2, <2>3, <2>4 DEF InOrder
<1>10. CASE RenderTask /\ TaskSend /\ ~Sacn!SendOk
  BY <1>5, <1>10 DEF TaskSend, Sacn!SendErr, Sacn!EncodeErr, Sacn!Fail
<1>11. CASE RenderTask /\ TaskSend /\ Sacn!SendOk
  <2>1. /\ call = "sending" /\ next \in 1..n /\ n' = n
        /\ \A j \in 1..n : Shown(j)' = IF j = next THEN seen[SACN] ELSE Shown(j)
        /\ call' \in {"sending", "idle"}
        /\ call' = "sending" => next' = next + 1 /\ content' = content
        /\ UNCHANGED <<current, where, seen>>
    BY <1>11, SendOkEffect
  <2>2. \A j \in 1..n : j < next => Shown(j) = seen[SACN]
    BY <1>1, <2>1 DEF InOrder
  <2>3. \A j \in 1..n : Shown(j)' <= seen[SACN] /\ Shown(j) <= Shown(j)'
    BY <1>1, <2>1 DEF InOrder
  <2>4. \A j \in 1..n : j <= next => Shown(j)' = seen[SACN]
    BY <1>1, <2>1, <2>2
  <2>5. \A i, j \in 1..n : i <= j => Shown(j)' <= Shown(i)'
    BY <1>1, <2>1, <2>3, <2>4 DEF InOrder
  <2> QED
    BY <1>1, <2>1, <2>3, <2>4, <2>5 DEF InOrder
<1> QED
  BY <1>4, <1>6, <1>7, <1>8, <1>9, <1>10, <1>11 DEF Next, RenderTask

LEMMA AlwaysInOrder == SafetySpec => [](Typed /\ InOrder)
<1>1. Typed /\ InOrder /\ Typed' /\ [Next]_vars => InOrder'
  BY NextInOrder
<1>2. args \in RunArgs /\ Engine!TypeOK /\ Adapter!TypeOK <=> Typed
  BY DEF Typed
<1> QED
  BY <1>1, <1>2, InitInOrder, ArgsTyped, EngineTyped, AdapterTyped, PTL DEF SafetySpec

LEMMA InitStrip == Init => Strip!Init
<1> SUFFICES ASSUME Init
             PROVE  Strip!Init
  OBVIOUS
<1>1. current = 0 /\ \A j \in 1..n : Shown(j) = 0
  BY DEF Init, Loop!Init, Sacn!Init, Sacn!N, Sacn!universes, n, Shown, Sacn!Nothing
<1>2. n \in Nat
  <2>1. config \in [universes : Seq(Nat), priority : Nat]
    BY AdapterAssumptions DEF Init
  <2> QED
    BY <2>1 DEF n
<1>3. [j \in 1..n |-> Shown(j)] \in [1..n -> {0}]
  BY <1>1
<1>4. [j \in 1..n |-> Shown(j)] \in Seq({0})
  BY <1>2, <1>3
<1> QED
  BY <1>1, <1>4 DEF Strip!Init, n

LEMMA NextStrip == Typed /\ InOrder /\ [Next]_vars => [Strip!Next]_(Strip!vars)
<1> SUFFICES ASSUME Typed, InOrder, [Next]_vars
             PROVE  [Strip!Next]_(Strip!vars)
  OBVIOUS
<1> DEFINE shown == [j \in 1..n |-> Shown(j)]
<1> USE DEF loop_vars, sacn_vars, main_vars
<1>1. /\ current \in Nat /\ seen[SACN] \in Nat /\ n \in Nat
      /\ \A j \in 1..n : Shown(j) \in Nat
  BY ShownTypes
<1>2. CASE sent' = sent
  <2>1. shown' = shown
    BY <1>2, SentEffect DEF n, Shown
  <2>2. current' = current \/ current' = current + 1
    BY DEF Next, vars, Build, Bind, Install, Arrive, Interrupt, LinkChanges, Time, Select,
           Receive, Leave, RenderTask, AbortTask, Exit, Loop!Publish, Loop!Advance,
           Loop!Abort, Loop!LeaveBody, TaskConnectOk, TaskConnectErr, TaskTick, TaskSend,
           TaskReturn, Loop!ConnectOk, Loop!ConnectErr, Loop!Tick, Loop!RenderOk,
           Loop!RenderErr
  <2> QED
    BY <2>1, <2>2 DEF Strip!Next, Strip!Receive, Strip!vars, n
<1>3. CASE RenderTask /\ TaskSend /\ Sacn!SendOk
  <2>1. /\ call = "sending" /\ next \in 1..n /\ n' = n
        /\ \A j \in 1..n : Shown(j)' = IF j = next THEN seen[SACN] ELSE Shown(j)
        /\ current' = current
    BY <1>3, SendOkEffect
  <2>2. shown' = [shown EXCEPT ![next] = seen[SACN]]
    BY <2>1
  <2>3. shown[next] <= seen[SACN]
    BY <2>1 DEF InOrder
  <2>4. seen[SACN] <= (IF next = 1 THEN current ELSE shown[next - 1])
    <3>1. CASE next = 1
      BY <3>1 DEF InOrder
    <3>2. CASE next # 1
      <4>1. next - 1 \in 1..n /\ next - 1 \in 1..(next - 1)
        BY <1>1, <2>1, <3>2
      <4>2. Shown(next - 1) = seen[SACN]
        BY <2>1, <4>1 DEF InOrder
      <4> QED
        BY <1>1, <3>2, <4>1, <4>2
    <3> QED
      BY <3>1, <3>2
  <2>5. seen[SACN] \in shown[next]..(IF next = 1 THEN current ELSE shown[next - 1])
    <3>1. shown[next] \in Nat /\ (next # 1 => shown[next - 1] \in Nat)
      BY <1>1, <2>1
    <3> QED
      BY <1>1, <2>3, <2>4, <3>1
  <2>6. next \in DOMAIN shown
    BY <2>1
  <2> QED
    BY <2>1, <2>2, <2>5, <2>6 DEF Strip!Next, Strip!Show, Strip!Ahead, n
<1> QED
  BY <1>2, <1>3, SentEffect

\* Whoever watches the strip sees the received frames, in order, each from
\* its first universe on, through all failures of the network, aborts and
\* interrupts (main.rs:146-219, adapter.rs:100-120).
THEOREM ShowsTheStrip == SafetySpec => ImplementsStripShow
<1>1. Typed /\ InOrder /\ [Next]_vars => [Strip!Next]_(Strip!vars)
  BY NextStrip
<1> QED
  BY <1>1, InitStrip, AlwaysInOrder, PTL DEF SafetySpec, ImplementsStripShow, Strip!Spec

-----------------------------------------------------------------------------
(* Errors and counters.                                                    *)

\* render is called with an open socket, for the strip's zone.
SocketInv ==
    /\ OnlyIoErrors
    /\ call = "new" => where[SACN] = "connecting"
    /\ call = "idle" /\ where[SACN] \in {"waiting", "rendering"} => socket
    /\ call = "sending" => content.zone = StripZone /\ where[SACN] = "rendering"

LEMMA InitSocket == Init => SocketInv
BY DEF Init, Sacn!Init, Loop!Init, SocketInv, OnlyIoErrors

LEMMA NextSocket ==
    Typed /\ Adapter!RenderFailsOnlyAtTheSocket /\ SocketInv /\ [Next]_vars => SocketInv'
<1> SUFFICES ASSUME Typed, Adapter!RenderFailsOnlyAtTheSocket, SocketInv, [Next]_vars
             PROVE  SocketInv'
  OBVIOUS
<1> USE DEF loop_vars, sacn_vars, main_vars
<1>1. CASE UNCHANGED <<where, result, call, socket, content>>
  BY <1>1 DEF SocketInv, OnlyIoErrors
<1>2. CASE Bind \/ Install \/ Interrupt \/ LinkChanges \/ Exit \/ Time \/ Select
           \/ (\E d \in Datagrams : Arrive(d)) \/ UNCHANGED vars
  BY <1>1, <1>2 DEF Bind, Install, Interrupt, LinkChanges, Exit, Time, Select, Receive,
              Leave, Arrive, vars, Loop!Publish, Loop!Advance
<1>3. CASE Build
  BY <1>3 DEF Build, Sacn!Build, SocketInv, OnlyIoErrors
<1>4. ASSUME call' = "dropped", result' = result
      PROVE  SocketInv'
  BY <1>4 DEF SocketInv, OnlyIoErrors
<1>5. CASE AbortTask
  BY <1>4, <1>5 DEF AbortTask, Sacn!Drop
<1>6. CASE RenderTask /\ (TaskConnectOk \/ TaskConnectErr)
  BY <1>4, <1>6 DEF TaskConnectOk, TaskConnectErr, Sacn!ConnectOk, Sacn!Return, Sacn!Drop,
                    SocketInv, OnlyIoErrors
<1>7. CASE RenderTask /\ TaskTick
  <2>1. call = "idle" /\ socket
    BY <1>7 DEF TaskTick, Loop!Tick, Sacn!Render, Sacn!RenderNothing, SocketInv
  <2>2. where'[SACN] = "rendering"
    BY <1>7 DEF TaskTick, Loop!Tick, Typed, Engine!TypeOK
  <2>3. CASE Sacn!RenderNothing
    BY <2>1, <2>3 DEF Sacn!RenderNothing, Sacn!Return, SocketInv, OnlyIoErrors
  <2>4. CASE Sacn!Render(StripZone, frame'[SACN], args.pixels)
    <3>1. Len(Sacn!BufferLengths(args.pixels)) = Sacn!N
      <4>1. args.pixels \in Nat
        BY PixelsAssumption DEF Typed, RunArgs
      <4>2. Adapter!N \in Nat
        BY AdapterAssumptions, Adapter!ConfigTypes DEF Typed, Adapter!TypeOK
      <4>3. Len(Adapter!BufferLengths(args.pixels)) = Adapter!N
        BY <4>1, <4>2, AdapterAssumptions, Adapter!BufferLengthsType
      <4> QED
        BY <4>3, SameLayout DEF Sacn!BufferLengths, Adapter!BufferLengths, Sacn!N, Adapter!N,
                    Sacn!universes, Adapter!universes
    <3>2. /\ call' = "sending" /\ result' = result
          /\ content' = [zone |-> StripZone, colour |-> frame'[SACN]]
      BY <2>1, <2>4, <3>1 DEF Sacn!Render, Sacn!SendSlots
    <3> QED
      BY <2>2, <3>2 DEF SocketInv, OnlyIoErrors
  <2> QED
    BY <1>7, <2>3, <2>4 DEF TaskTick
<1>8. CASE RenderTask /\ TaskSend
  <2>1. call = "sending" /\ content.zone = StripZone /\ where[SACN] = "rendering"
    BY <1>8 DEF TaskSend, SocketInv
  <2>2. Sacn!Encoded
    <3>1. Adapter!Encoded
      BY <2>1 DEF Adapter!RenderFailsOnlyAtTheSocket, Adapter!NoZone, StripZone
    <3> QED
      BY <3>1, SameLayout DEF Sacn!Encoded, Adapter!Encoded, Sacn!universes,
                              Adapter!universes
  <2>3. socket
    BY <2>1 DEF Typed, Adapter!TypeOK
  <2>4. Sacn!SendOk \/ Sacn!SendErr
    BY <1>8, <2>2 DEF TaskSend
  <2>5. /\ UNCHANGED <<where, socket, content>>
        /\ \/ result' = result /\ call' = "sending"
           \/ result' \in {"ok", "Io"} /\ call' = "idle"
    BY <1>8, <2>1, <2>4 DEF TaskSend, Sacn!SendOk, Sacn!SendErr, Sacn!Fail
  <2> QED
    BY <2>1, <2>3, <2>5 DEF SocketInv, OnlyIoErrors
<1>9. CASE RenderTask /\ TaskReturn
  <2>1. call = "idle" /\ where[SACN] = "rendering" /\ UNCHANGED sacn_vars
    BY <1>9 DEF TaskReturn, Loop!RenderOk, Loop!RenderErr
  <2> QED
    BY <2>1 DEF SocketInv, OnlyIoErrors
<1> QED
  BY <1>2, <1>3, <1>5, <1>6, <1>7, <1>8, <1>9 DEF Next, RenderTask

\* No misconfiguration surfaces as a tick's error: all a running adapter
\* meets is the socket's failures (main.rs:155-170, adapter.rs:100-117).
THEOREM ErrorsAreTheSockets == SafetySpec => []OnlyIoErrors
<1>1. SafetySpec => []Adapter!RenderFailsOnlyAtTheSocket
  BY RunsTheAdapter, AdapterAssumptions, Adapter!RenderNeverMeetsEncodeError, PTL
<1>2. SocketInv => OnlyIoErrors
  BY DEF SocketInv
<1> QED
  BY <1>1, <1>2, InitSocket, NextSocket, AlwaysInOrder, PTL DEF SafetySpec

LEMMA RemainderUnique ==
    ASSUME NEW t \in Nat \ {0}, NEW p \in Nat, NEW q \in Nat,
           NEW r \in 0..(t - 1), NEW s \in 0..(t - 1), t * p + r = t * q + s
    PROVE  r = s
<1>1. ASSUME NEW a \in Nat, NEW b \in Nat, a < b
      PROVE  t * a + t <= t * b
  <2>1. (a + 1) * t <= b * t
    BY <1>1, Monotone
  <2> QED
    BY <2>1
<1>2. t * p \in Nat /\ t * q \in Nat
  OBVIOUS
<1>3. CASE p < q
  BY <1>1, <1>2, <1>3
<1>4. CASE q < p
  BY <1>1, <1>2, <1>4
<1>5. CASE p = q
  BY <1>2, <1>5
<1> QED
  BY <1>3, <1>4, <1>5

LEMMA Successor ==
    ASSUME NEW t \in Nat \ {0}, NEW c \in Nat, NEW d \in Nat, d = c + 1
    PROVE  ((c % t) + 1) % t = d % t
<1>1. PICK p \in Nat, r \in 0..(t - 1) : c = t * p + r /\ r = c % t
  BY DivMod
<1>2. PICK q \in Nat, s \in 0..(t - 1) : d = t * q + s /\ s = d % t
  BY DivMod
<1>3. CASE r = t - 1
  <2>1. t * (p + 1) = t * p + t /\ p + 1 \in Nat
    OBVIOUS
  <2>2. t * (p + 1) + 0 = t * q + s
    BY <1>1, <1>2, <1>3, <2>1
  <2>3. s = 0
    <3>1. 0 \in 0..(t - 1)
      OBVIOUS
    <3> QED
      BY <1>2, <2>1, <2>2, <3>1, RemainderUnique
  <2>4. (r + 1) % t = 0
    BY <1>3
  <2> QED
    BY <1>1, <1>2, <2>3, <2>4
<1>4. CASE r # t - 1
  <2>1. r + 1 \in 0..(t - 1) /\ t * p + (r + 1) = t * q + s
    BY <1>1, <1>2, <1>4
  <2>2. s = r + 1
    BY <1>2, <2>1, RemainderUnique
  <2>3. (r + 1) % t = r + 1
    BY <2>1
  <2> QED
    BY <1>1, <1>2, <2>2, <2>3
<1> QED
  BY <1>3, <1>4

\* The main task's own counters.
Counted == current \in Nat /\ tick = current % TICKS /\ TickStamps

LEMMA InitCounted == Init => Counted
<1>1. 0 % TICKS = 0
  BY CountersAssumption
<1> QED
  BY <1>1 DEF Init, Loop!Init, Counted, TickStamps

LEMMA NextCounted == Counted /\ [Next]_vars => Counted'
<1> SUFFICES ASSUME Counted, [Next]_vars
             PROVE  Counted'
  OBVIOUS
<1> USE DEF loop_vars, sacn_vars, main_vars
<1>1. CASE UNCHANGED <<current, tick, stamp>>
  BY <1>1 DEF Counted, TickStamps
<1>2. CASE /\ current' = current + 1
           /\ stamp' = tick /\ tick' = (tick + 1) % TICKS
  <2>1. current \in Nat /\ tick = current % TICKS
    BY DEF Counted
  <2>2. tick' = current' % TICKS
    <3>1. \A d \in Nat : d = current + 1 => ((current % TICKS) + 1) % TICKS = d % TICKS
      BY <2>1, Successor, CountersAssumption
    <3>2. tick' = ((current % TICKS) + 1) % TICKS /\ current' \in Nat
      BY <1>2, <2>1
    <3> QED
      BY <1>2, <3>1, <3>2
  <2>3. current' - 1 = current /\ current' \in Nat
    BY <1>2, <2>1
  <2>4. stamp' = (current' - 1) % TICKS
    BY <1>2, <2>1, <2>3
  <2> QED
    BY <2>2, <2>3, <2>4 DEF Counted, TickStamps
<1>3. CASE Select
  BY <1>1, <1>2, <1>3 DEF Select, Receive, Leave, Loop!Publish
<1>4. CASE ~Select
  BY <1>1, <1>4 DEF Next, vars, Build, Bind, Install, Arrive, Interrupt, LinkChanges, Time,
           RenderTask, AbortTask, Exit, Loop!Advance,
           Loop!Abort, Loop!LeaveBody, TaskConnectOk, TaskConnectErr, TaskTick, TaskSend,
           TaskReturn, Loop!ConnectOk, Loop!ConnectErr, Loop!Tick, Loop!RenderOk,
           Loop!RenderErr
<1> QED
  BY <1>3, <1>4

\* Published frames are numbered one by one, whatever datagrams are refused
\* in between and however often the counter wraps (main.rs:191-209).
THEOREM TicksCountFrames == SafetySpec => []TickStamps
<1>1. Counted => TickStamps
  BY DEF Counted
<1> QED
  BY <1>1, InitCounted, NextCounted, PTL DEF SafetySpec

\* The main task's variables have their types.
MainTyped ==
    /\ main \in {"building", "binding", "installing", "receiving",
                 "leaving", "failing", "exited", "killed"}
    /\ interrupted \in BOOLEAN
    /\ datagrams \in Seq(Datagrams) /\ Len(datagrams) <= MaxQueue
    /\ tick \in 0..(TICKS - 1)
    /\ stamp \in 0..(TICKS - 1)
    /\ link \in BOOLEAN

LEMMA InitMainTyped == Init => MainTyped
<1>1. 0 \in 0..(TICKS - 1) /\ 0 <= MaxQueue
  BY CountersAssumption, BoundsAssumption
<1>2. <<>> \in Seq(Datagrams) /\ Len(<<>>) = 0
  OBVIOUS
<1> QED
  BY <1>1, <1>2 DEF Init, MainTyped

LEMMA NextMainTyped == MainTyped /\ [Next]_vars => MainTyped'
<1> SUFFICES ASSUME MainTyped, [Next]_vars
             PROVE  MainTyped'
  OBVIOUS
<1> USE DEF loop_vars, sacn_vars, main_vars
<1>1. CASE Build \/ Bind \/ Install \/ Interrupt \/ LinkChanges \/ Exit \/ Time
           \/ RenderTask \/ AbortTask \/ UNCHANGED vars
  BY <1>1 DEF MainTyped, Build, Bind, Install, Interrupt, LinkChanges, Exit, Time,
              RenderTask, AbortTask, vars
<1>2. ASSUME NEW d \in Datagrams, Arrive(d)
      PROVE  MainTyped'
  <2>1. datagrams' = Append(datagrams, d) /\ Len(datagrams) < MaxQueue
    BY <1>2 DEF Arrive
  <2>2. datagrams' \in Seq(Datagrams) /\ Len(datagrams') <= MaxQueue
    BY <2>1, BoundsAssumption DEF MainTyped
  <2> QED
    BY <1>2, <2>2 DEF Arrive, MainTyped
<1>3. CASE Select
  <2>1. CASE interrupted
    BY <1>3, <2>1 DEF Select, Leave, MainTyped
  <2>2. CASE ~interrupted
    <3>1. datagrams' \in Seq(Datagrams) /\ Len(datagrams') <= MaxQueue
      BY <1>3, <2>2, BoundsAssumption DEF Select, Receive, MainTyped
    <3>2. (tick + 1) % TICKS \in 0..(TICKS - 1)
      BY CountersAssumption DEF MainTyped
    <3> QED
      BY <1>3, <2>2, <3>1, <3>2 DEF Select, Receive, MainTyped
  <2> QED
    BY <2>1, <2>2
<1> QED
  BY <1>1, <1>2, <1>3 DEF Next

\* Every variable of the process keeps its type; in particular no tick ever
\* reaches an adapter that has no socket or the wrong number of buffers.
THEOREM ProcessTypeCorrect == SafetySpec => []TypeOK
<1>1. Engine!TypeOK => Loop!TypeOK
  BY DEF Engine!TypeOK, Loop!TypeOK, Loop!Looping, Engine!Looping, Loop!Ended, Engine!Ended,
         Loop!NoFrame, Engine!NoFrame
<1>2. Adapter!TypeOK => Sacn!TypeOK
  BY DEF Adapter!TypeOK, Sacn!TypeOK, Adapter!Contents, Sacn!Contents, Adapter!NoContent,
         Sacn!NoContent, Adapter!Datagrams, Sacn!Datagrams, Adapter!Nothing, Sacn!Nothing,
         Adapter!NoZone, Sacn!NoZone, Adapter!NoColour, Sacn!NoColour, Adapter!N, Sacn!N,
         Adapter!universes, Sacn!universes
<1>3. Typed /\ MainTyped => TypeOK
  BY <1>1, <1>2 DEF Typed, MainTyped, TypeOK
<1> QED
  BY <1>3, AlwaysInOrder, InitMainTyped, NextMainTyped, PTL DEF SafetySpec

\* What is proved of the adapter and of the render loop alone holds of them
\* in the process: torn ticks are accounted for, no two ticks are closer than
\* the interval allows, no frame is held between ticks.
THEOREM ComponentsKeepTheirWord ==
    SafetySpec =>
        /\ []Adapter!SequenceAccounted
        /\ []Adapter!OneTickUnlessTorn
        /\ []Engine!DeadlineWindow
        /\ []Engine!FramePinnedOnlyWhileRendering
        /\ Engine!TickSpacing
BY RunsTheAdapter, AdapterAssumptions, Adapter!SequenceIsAccounted, Adapter!OneTickAtATime,
   RunsTheEngine, EngineAssumptions, Engine!DeadlinesInWindow, Engine!FramesAreLetGo,
   Engine!TicksAreSpaced, PTL
=============================================================================
