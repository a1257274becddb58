-------------------------- MODULE RenderLoop_proofs --------------------------
(***************************************************************************)
(* Proofs about RenderLoop for any set of adapters, any policies, periods  *)
(* and tolerance, and any number of published frames.                      *)
(***************************************************************************)
EXTENDS RenderLoop, TLAPS

\* The assumptions on the constants, for the steps that need them.
LEMMA ConstantTypes ==
    /\ Healthy \subseteq Adapters
    /\ Policy \in [Adapters -> Policies]
    /\ Period \in [Adapters -> Nat \ {0}]
    /\ Slack \in Nat
    /\ MaxFrames \in Nat
BY HealthyAssumption, PolicyAssumption, PeriodAssumption, SlackAssumption,
   MaxFramesAssumption

\* The interval's next deadline is in range, at most a period away, and no
\* more than Slack short of a period away.
LEMMA NextDeadlineBounds ==
    ASSUME NEW a \in Adapters, TypeOK, due[a] <= 0
    PROVE  /\ NextDeadline(a) \in -(Slack + 1)..Period[a]
           /\ NextDeadline(a) >= Period[a] - Slack
<1>1. /\ Period[a] \in Nat \ {0}
      /\ Slack \in Nat
      /\ due[a] \in -(Slack + 1)..Period[a]
  BY ConstantTypes DEF TypeOK
<1> QED
  BY <1>1 DEF NextDeadline

-----------------------------------------------------------------------------
LEMMA InitTypeOK == Init => TypeOK
BY ConstantTypes DEF Init, TypeOK, Looping, Ended, NoFrame

LEMMA NextTypeOK == TypeOK /\ [Next]_vars => TypeOK'
<1> SUFFICES ASSUME TypeOK, [Next]_vars
             PROVE  TypeOK'
  OBVIOUS
<1> USE ConstantTypes
<1>1. CASE Publish
  BY <1>1 DEF TypeOK, Publish
<1>2. CASE Advance
  <2>1. \A a \in Adapters : due'[a] \in -(Slack + 1)..Period[a]
    BY <1>2 DEF TypeOK, Advance
  <2>2. \A a \in Adapters : since'[a] \in 0..Period[a]
    BY <1>2 DEF TypeOK, Advance
  <2>3. due' \in [Adapters -> Int] /\ since' \in [Adapters -> Nat]
    BY <1>2, <2>1, <2>2 DEF Advance, TypeOK
  <2> QED
    BY <1>2, <2>1, <2>2, <2>3 DEF TypeOK, Advance
<1>3. ASSUME NEW a \in Adapters, Connect(a)
      PROVE  TypeOK'
  BY <1>3 DEF TypeOK, Connect, ConnectOk, ConnectErr, Looping, Ended
<1>4. ASSUME NEW a \in Adapters, Tick(a)
      PROVE  TypeOK'
  <2>1. NextDeadline(a) \in -(Slack + 1)..Period[a]
    BY <1>4, NextDeadlineBounds DEF Tick
  <2>2. /\ due' \in [Adapters -> Int]
        /\ \A b \in Adapters : due'[b] \in -(Slack + 1)..Period[b]
    BY <1>4, <2>1 DEF Tick, TypeOK
  <2> QED
    BY <1>4, <2>2 DEF Tick, TypeOK, Snapshot, Looping, Ended
<1>5. ASSUME NEW a \in Adapters, RenderReturns(a)
      PROVE  TypeOK'
  BY <1>5 DEF TypeOK, RenderReturns, RenderOk, RenderErr, AfterError, LeaveBody,
              Looping, Ended, NoFrame
<1>6. ASSUME NEW a \in Adapters, Disconnect(a)
      PROVE  TypeOK'
  BY <1>6 DEF TypeOK, Disconnect, DisconnectOk, DisconnectErr, Looping, Ended
<1>7. ASSUME NEW a \in Adapters, Abort(a)
      PROVE  TypeOK'
  BY <1>7 DEF TypeOK, Abort, LeaveBody, Looping, Ended, NoFrame
<1>8. CASE UNCHANGED vars
  BY <1>8 DEF TypeOK, vars
<1> QED
  BY <1>1, <1>2, <1>3, <1>4, <1>5, <1>6, <1>7, <1>8 DEF Next

\* The model's variables keep their types for every instance of the engine.
THEOREM TypeCorrect == SafetySpec => []TypeOK
BY InitTypeOK, NextTypeOK, PTL DEF SafetySpec

-----------------------------------------------------------------------------
LEMMA InitDeadlineWindow == Init => DeadlineWindow
<1> SUFFICES ASSUME Init, NEW a \in Adapters
             PROVE  /\ since[a] < Period[a] - Slack
                         => since[a] + due[a] >= Period[a] - Slack
                    /\ due[a] > 0 => since[a] + due[a] <= Period[a]
  BY DEF DeadlineWindow
<1>1. due[a] = 0 /\ since[a] = Period[a]
  BY DEF Init
<1>2. Period[a] \in Nat /\ Slack \in Nat
  BY ConstantTypes
<1> QED
  BY <1>1, <1>2

LEMMA NextDeadlineWindow ==
    TypeOK /\ DeadlineWindow /\ [Next]_vars => DeadlineWindow'
<1> SUFFICES ASSUME TypeOK, DeadlineWindow, [Next]_vars
             PROVE  DeadlineWindow'
  OBVIOUS
<1> USE ConstantTypes
<1>1. CASE Advance
  <2> SUFFICES ASSUME NEW a \in Adapters
               PROVE  /\ since'[a] < Period[a] - Slack
                           => since'[a] + due'[a] >= Period[a] - Slack
                      /\ due'[a] > 0 => since'[a] + due'[a] <= Period[a]
    BY DEF DeadlineWindow
  <2>1. /\ due[a] \in Int /\ since[a] \in Nat /\ Period[a] \in Nat /\ Slack \in Nat
        /\ since[a] <= Period[a]
    BY DEF TypeOK
  <2>2. /\ due'[a] = IF due[a] > -(Slack + 1) THEN due[a] - 1 ELSE due[a]
        /\ since'[a] = IF since[a] < Period[a] THEN since[a] + 1 ELSE since[a]
    BY <1>1 DEF Advance
  <2>3. /\ since[a] < Period[a] - Slack => since[a] + due[a] >= Period[a] - Slack
        /\ due[a] > 0 => since[a] + due[a] <= Period[a]
    BY DEF DeadlineWindow
  <2> QED
    BY <2>1, <2>2, <2>3
<1>2. ASSUME NEW a \in Adapters, Tick(a)
      PROVE  DeadlineWindow'
  <2>1. /\ NextDeadline(a) >= Period[a] - Slack
        /\ NextDeadline(a) \in -(Slack + 1)..Period[a]
    BY <1>2, NextDeadlineBounds DEF Tick
  <2>2. /\ due' = [due EXCEPT ![a] = NextDeadline(a)]
        /\ since' = [since EXCEPT ![a] = 0]
    BY <1>2 DEF Tick
  <2> QED
    BY <2>1, <2>2 DEF DeadlineWindow, TypeOK
<1>3. CASE UNCHANGED <<due, since>>
  BY <1>3 DEF DeadlineWindow
<1> QED
  BY <1>1, <1>2, <1>3
     DEF Next, vars, Publish, Connect, ConnectOk, ConnectErr, RenderReturns, RenderOk,
         RenderErr, LeaveBody, Disconnect, DisconnectOk, DisconnectErr, Abort

\* The deadline of every interval stays within Slack below, and at most, a
\* period after the task's last tick (engine/lib.rs:147-149).
THEOREM DeadlinesInWindow == SafetySpec => []DeadlineWindow
BY InitTypeOK, NextTypeOK, InitDeadlineWindow, NextDeadlineWindow, PTL DEF SafetySpec

LEMMA TickIsSpaced ==
    ASSUME NEW a \in Adapters, TypeOK, DeadlineWindow, Tick(a)
    PROVE  since[a] >= Period[a] - Slack
<1>1. due[a] \in Int /\ since[a] \in Nat /\ Period[a] \in Nat /\ Slack \in Nat
  BY ConstantTypes DEF TypeOK
<1>2. since[a] < Period[a] - Slack => since[a] + due[a] >= Period[a] - Slack
  BY DEF DeadlineWindow
<1> QED
  BY <1>1, <1>2 DEF Tick

\* However long a render or the runtime stalls a task, two of its ticks are
\* a period, less the forgiven lateness, apart (engine/lib.rs:130-132).
THEOREM TicksAreSpaced == SafetySpec => TickSpacing
<1>1. TypeOK /\ DeadlineWindow =>
          [\A a \in Adapters : Tick(a) => since[a] >= Period[a] - Slack]_vars
  BY TickIsSpaced
<1> QED
  BY <1>1, TypeCorrect, DeadlinesInWindow, PTL DEF TickSpacing

-----------------------------------------------------------------------------
LEMMA InitDeviceProtocol == Init => DeviceProtocol
BY DEF Init, DeviceProtocol, Looping

LEMMA NextDeviceProtocol ==
    TypeOK /\ DeviceProtocol /\ [Next]_vars => DeviceProtocol'
<1> SUFFICES ASSUME TypeOK, DeviceProtocol, [Next]_vars
             PROVE  DeviceProtocol'
  OBVIOUS
<1> USE ConstantTypes DEF TypeOK, DeviceProtocol, Looping, Ended
<1>1. ASSUME NEW a \in Adapters, Connect(a)
      PROVE  DeviceProtocol'
  BY <1>1 DEF Connect, ConnectOk, ConnectErr
<1>2. ASSUME NEW a \in Adapters, Tick(a)
      PROVE  DeviceProtocol'
  BY <1>2 DEF Tick
<1>3. ASSUME NEW a \in Adapters, RenderReturns(a)
      PROVE  DeviceProtocol'
  BY <1>3 DEF RenderReturns, RenderOk, RenderErr, AfterError, LeaveBody
<1>4. ASSUME NEW a \in Adapters, Disconnect(a)
      PROVE  DeviceProtocol'
  BY <1>4 DEF Disconnect, DisconnectOk, DisconnectErr
<1>5. ASSUME NEW a \in Adapters, Abort(a)
      PROVE  DeviceProtocol'
  BY <1>5 DEF Abort, LeaveBody
<1>6. CASE UNCHANGED <<pc, device>>
  BY <1>6
<1> QED
  BY <1>1, <1>2, <1>3, <1>4, <1>5, <1>6 DEF Next, vars, Publish, Advance

\* connect, then renders, then at most one disconnect, and under
\* LogAndContinue no error ends the loop (engine/lib.rs:151-184).
THEOREM ProtocolKept == SafetySpec => []DeviceProtocol
BY InitTypeOK, NextTypeOK, InitDeviceProtocol, NextDeviceProtocol, PTL DEF SafetySpec

-----------------------------------------------------------------------------
LEMMA InitFramePinned == Init => FramePinnedOnlyWhileRendering
BY DEF Init, FramePinnedOnlyWhileRendering

LEMMA NextFramePinned ==
    TypeOK /\ FramePinnedOnlyWhileRendering /\ [Next]_vars
        => FramePinnedOnlyWhileRendering'
<1> SUFFICES ASSUME TypeOK, FramePinnedOnlyWhileRendering, [Next]_vars
             PROVE  FramePinnedOnlyWhileRendering'
  OBVIOUS
<1> USE DEF TypeOK, FramePinnedOnlyWhileRendering, Ended
<1>1. ASSUME NEW a \in Adapters, Connect(a)
      PROVE  FramePinnedOnlyWhileRendering'
  BY <1>1 DEF Connect, ConnectOk, ConnectErr
<1>2. ASSUME NEW a \in Adapters, Tick(a)
      PROVE  FramePinnedOnlyWhileRendering'
  BY <1>2 DEF Tick
<1>3. ASSUME NEW a \in Adapters, RenderReturns(a)
      PROVE  FramePinnedOnlyWhileRendering'
  BY <1>3 DEF RenderReturns, RenderOk, RenderErr, AfterError, LeaveBody
<1>4. ASSUME NEW a \in Adapters, Disconnect(a)
      PROVE  FramePinnedOnlyWhileRendering'
  BY <1>4 DEF Disconnect, DisconnectOk, DisconnectErr
<1>5. ASSUME NEW a \in Adapters, Abort(a)
      PROVE  FramePinnedOnlyWhileRendering'
  BY <1>5 DEF Abort, LeaveBody
<1>6. CASE UNCHANGED <<pc, frame, seen>>
  BY <1>6
<1> QED
  BY <1>1, <1>2, <1>3, <1>4, <1>5, <1>6 DEF Next, vars, Publish, Advance

\* A task that is not rendering keeps no frame alive (engine/lib.rs:161-176).
THEOREM FramesAreLetGo == SafetySpec => []FramePinnedOnlyWhileRendering
BY InitTypeOK, NextTypeOK, InitFramePinned, NextFramePinned, PTL DEF SafetySpec

-----------------------------------------------------------------------------
(* The engine implements LatestFrame.                                      *)

LEMMA InitLF == Init => LF!Init
BY DEF Init, LF!Init, Looping

LEMMA NextLF == TypeOK /\ [Next]_vars => [LF!Next]_LF!vars
<1> SUFFICES ASSUME TypeOK, [Next]_vars
             PROVE  [LF!Next]_LF!vars
  OBVIOUS
<1> USE DEF TypeOK, Looping, Ended
<1>1. CASE Publish
  BY <1>1 DEF Publish, LF!Next, LF!Publish
<1>2. CASE Advance
  BY <1>2 DEF Advance, LF!vars
<1>3. ASSUME NEW a \in Adapters, Tick(a)
      PROVE  LF!Read(a)
  BY <1>3 DEF Tick, Snapshot, LF!Read
<1>4. ASSUME NEW a \in Adapters, Connect(a)
      PROVE  LF!Leave(a) \/ UNCHANGED LF!vars
  <2>1. CASE ConnectOk(a)
    BY <1>4, <2>1 DEF ConnectOk, LF!vars
  <2>2. CASE ConnectErr(a)
    BY <1>4, <2>2 DEF ConnectErr, LF!Leave
  <2> QED
    BY <1>4, <2>1, <2>2 DEF Connect
<1>5. ASSUME NEW a \in Adapters, RenderReturns(a)
      PROVE  LF!Leave(a) \/ UNCHANGED LF!vars
  <2>1. CASE pc' = [pc EXCEPT ![a] = "waiting"]
    BY <1>5, <2>1 DEF RenderReturns, RenderOk, RenderErr, LeaveBody, LF!vars
  <2>2. CASE pc' = [pc EXCEPT ![a] = "disconnecting"]
    BY <1>5, <2>2 DEF RenderReturns, RenderOk, RenderErr, LeaveBody, LF!Leave
  <2> QED
    BY <1>5, <2>1, <2>2 DEF RenderReturns, RenderOk, RenderErr, AfterError, LeaveBody
<1>6. ASSUME NEW a \in Adapters, Disconnect(a)
      PROVE  UNCHANGED LF!vars
  BY <1>6 DEF Disconnect, DisconnectOk, DisconnectErr, LF!vars
<1>7. ASSUME NEW a \in Adapters, Abort(a)
      PROVE  LF!Leave(a)
  BY <1>7 DEF Abort, LeaveBody, LF!Leave
<1>8. CASE UNCHANGED vars
  BY <1>8 DEF vars, LF!vars
<1> QED
  BY <1>1, <1>2, <1>3, <1>4, <1>5, <1>6, <1>7, <1>8 DEF Next, LF!Next

\* Snapshots are the newest frame, no reader meets an older frame again, and
\* no reader holds up the producer (engine/lib.rs:27-38).
THEOREM RefinesLatestFrame == SafetySpec => ImplementsLatestFrameSafety
<1>1. SafetySpec => LF!Init /\ [][LF!Next]_LF!vars
  BY InitLF, NextLF, TypeCorrect, PTL DEF SafetySpec
<1> QED
  BY <1>1 DEF ImplementsLatestFrameSafety, LF!SafetySpec
=============================================================================
