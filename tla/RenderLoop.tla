----------------------------- MODULE RenderLoop -----------------------------
(***************************************************************************)
(* The engine: the snapshot bus and one run_adapter task per adapter       *)
(* (audiophore-engine/src/lib.rs).                                         *)
(*                                                                         *)
(* The producer swaps the bus's frame for a newer one.  Each task connects *)
(* its adapter, then waits for its interval, takes a snapshot, renders it, *)
(* and starts over; a failed connect ends it at once, a failed render ends *)
(* it only under LogAndStop, and then it disconnects.  The runtime may     *)
(* abort a task wherever it awaits.                                        *)
(*                                                                         *)
(* A frame is its version, the number of frames published up to it.  The   *)
(* code between two awaits is one action: the only shared state it touches *)
(* is the bus, once, in an atomic load.  Time is counted per task: due is  *)
(* the time left until the interval's deadline (negative once it is past)  *)
(* and since the time gone by after the last tick.  Both stop counting     *)
(* where more makes no difference, so time itself needs no bound.          *)
(***************************************************************************)
EXTENDS Integers

CONSTANTS
    Adapters,   \* the adapters that have a task
    Healthy,    \* the adapters whose connect and render always come back
    Policy,     \* Policy[a]: the task's RenderErrorPolicy
    Period,     \* Period[a]: the adapter's native_rate
    Slack,      \* lateness the interval forgives before it calls a tick missed
    MaxFrames   \* bound: how many frames the producer publishes

Policies == {"LogAndContinue", "LogAndStop"}

ASSUME HealthyAssumption == Healthy \subseteq Adapters
ASSUME PolicyAssumption == Policy \in [Adapters -> Policies]
ASSUME PeriodAssumption == Period \in [Adapters -> Nat \ {0}]
ASSUME SlackAssumption == Slack \in Nat
ASSUME MaxFramesAssumption == MaxFrames \in Nat

NoFrame == -1

VARIABLES
    current,    \* version of the frame in the bus
    pc,         \* pc[a]: where task a awaits, or how it ended
    frame,      \* frame[a]: the snapshot the task holds, or NoFrame
    seen,       \* seen[a]: version of the task's last snapshot
    device,     \* device[a]: what the adapter has told its device
    due,        \* due[a]: time left until the interval's deadline
    since       \* since[a]: time since the task's last tick, at most Period[a]

vars == <<current, pc, frame, seen, device, due, since>>

Ended == {"refused", "stopped", "aborted"}
Looping == {"waiting", "rendering"}

TypeOK ==
    /\ current \in 0..MaxFrames
    /\ pc \in [Adapters -> Looping \cup Ended \cup {"connecting", "disconnecting"}]
    /\ frame \in [Adapters -> 0..MaxFrames \cup {NoFrame}]
    /\ seen \in [Adapters -> 0..MaxFrames]
    /\ device \in [Adapters -> {"unlinked", "linked", "released"}]
    /\ due \in [Adapters -> Int]
    /\ \A a \in Adapters : due[a] \in -(Slack + 1)..Period[a]
    /\ since \in [Adapters -> Nat]
    /\ \A a \in Adapters : since[a] \in 0..Period[a]

Init ==
    /\ current = 0
    /\ pc = [a \in Adapters |-> "connecting"]
    /\ frame = [a \in Adapters |-> NoFrame]
    /\ seen = [a \in Adapters |-> 0]
    /\ device = [a \in Adapters |-> "unlinked"]
    /\ due = [a \in Adapters |-> 0]
    /\ since = Period

-----------------------------------------------------------------------------
(* The bus.                                                                *)

\* Bus::publish: the swap waits for no reader.
Publish ==
    /\ current < MaxFrames
    /\ current' = current + 1
    /\ UNCHANGED <<pc, frame, seen, device, due, since>>

\* Fault: the load still returns the frame the last swap replaced.
StaleSnapshot == IF current > 0 THEN current - 1 ELSE 0

\* Bus::snapshot: an atomic load of the newest frame.
Snapshot == current

-----------------------------------------------------------------------------
(* Time and tokio's interval.                                              *)

\* The clock moves on for every interval at once.
Advance ==
    /\ due' = [a \in Adapters |->
                  IF due[a] > -(Slack + 1) THEN due[a] - 1 ELSE due[a]]
    /\ since' = [a \in Adapters |->
                  IF since[a] < Period[a] THEN since[a] + 1 ELSE since[a]]
    /\ UNCHANGED <<current, pc, frame, seen, device>>

\* Fault: the interval's default, MissedTickBehavior::Burst.
BurstDeadline(a) == due[a] + Period[a]

\* Fault: a missed tick costs a period more.
SkippingDeadline(a) ==
    IF due[a] < -Slack THEN 2 * Period[a] ELSE due[a] + Period[a]

\* MissedTickBehavior::Delay: a tick later than Slack moves the schedule,
\* an earlier one keeps it.
NextDeadline(a) ==
    IF due[a] < -Slack THEN Period[a] ELSE due[a] + Period[a]

-----------------------------------------------------------------------------
(* run_adapter, from await to await.                                       *)

ConnectOk(a) ==
    /\ pc[a] = "connecting"
    /\ pc' = [pc EXCEPT ![a] = "waiting"]
    /\ device' = [device EXCEPT ![a] = "linked"]
    /\ UNCHANGED <<current, frame, seen, due, since>>

\* Fault: the error is logged and the loop entered all the same.
ConnectErrIgnored(a) ==
    /\ pc[a] = "connecting"
    /\ pc' = [pc EXCEPT ![a] = "waiting"]
    /\ UNCHANGED <<current, frame, seen, device, due, since>>

ConnectErr(a) ==
    /\ pc[a] = "connecting"
    /\ pc' = [pc EXCEPT ![a] = "refused"]
    /\ UNCHANGED <<current, frame, seen, device, due, since>>

\* Fault: the snapshot is taken under a lock that a render holds.
TickLocked(a) ==
    /\ pc[a] = "waiting"
    /\ due[a] <= 0
    /\ \A b \in Adapters : pc[b] # "rendering"
    /\ due' = [due EXCEPT ![a] = NextDeadline(a)]
    /\ since' = [since EXCEPT ![a] = 0]
    /\ frame' = [frame EXCEPT ![a] = Snapshot]
    /\ seen' = [seen EXCEPT ![a] = Snapshot]
    /\ pc' = [pc EXCEPT ![a] = "rendering"]
    /\ UNCHANGED <<current, device>>

\* Fault: the snapshot is taken once and kept for the ticks that follow.
TickCached(a) ==
    LET got == IF seen[a] > 0 THEN seen[a] ELSE Snapshot IN
    /\ pc[a] = "waiting"
    /\ due[a] <= 0
    /\ due' = [due EXCEPT ![a] = NextDeadline(a)]
    /\ since' = [since EXCEPT ![a] = 0]
    /\ frame' = [frame EXCEPT ![a] = got]
    /\ seen' = [seen EXCEPT ![a] = got]
    /\ pc' = [pc EXCEPT ![a] = "rendering"]
    /\ UNCHANGED <<current, device>>

\* Fault: a reader that has seen the newest frame gets the other of the
\* bus's two buffers.
TickFlipping(a) ==
    LET got == IF seen[a] = Snapshot /\ Snapshot > 0 THEN Snapshot - 1 ELSE Snapshot IN
    /\ pc[a] = "waiting"
    /\ due[a] <= 0
    /\ due' = [due EXCEPT ![a] = NextDeadline(a)]
    /\ since' = [since EXCEPT ![a] = 0]
    /\ frame' = [frame EXCEPT ![a] = got]
    /\ seen' = [seen EXCEPT ![a] = got]
    /\ pc' = [pc EXCEPT ![a] = "rendering"]
    /\ UNCHANGED <<current, device>>

\* The interval fires; the task takes its snapshot and calls render.
Tick(a) ==
    /\ pc[a] = "waiting"
    /\ due[a] <= 0
    /\ due' = [due EXCEPT ![a] = NextDeadline(a)]
    /\ since' = [since EXCEPT ![a] = 0]
    /\ frame' = [frame EXCEPT ![a] = Snapshot]
    /\ seen' = [seen EXCEPT ![a] = Snapshot]
    /\ pc' = [pc EXCEPT ![a] = "rendering"]
    /\ UNCHANGED <<current, device>>

\* Fault: the snapshot is declared outside the loop and outlives its body.
LeaveBodyHolding(a, next) ==
    /\ pc' = [pc EXCEPT ![a] = next]
    /\ UNCHANGED <<current, frame, seen, device, due, since>>

\* The end of the loop's body: the snapshot is dropped with its scope.
LeaveBody(a, next) ==
    /\ pc' = [pc EXCEPT ![a] = next]
    /\ frame' = [frame EXCEPT ![a] = NoFrame]
    /\ UNCHANGED <<current, seen, device, due, since>>

\* Fault: the task sleeps a period after each render, with no interval.
RenderOkThenSleep(a) ==
    /\ pc[a] = "rendering"
    /\ pc' = [pc EXCEPT ![a] = "waiting"]
    /\ frame' = [frame EXCEPT ![a] = NoFrame]
    /\ due' = [due EXCEPT ![a] = Period[a]]
    /\ UNCHANGED <<current, seen, device, since>>

RenderOk(a) ==
    /\ pc[a] = "rendering"
    /\ LeaveBody(a, "waiting")

\* Fault: the policy is not looked at.
AfterErrorStop(a) == "disconnecting"

\* Where the policy sends a task whose render failed.
AfterError(a) ==
    IF Policy[a] = "LogAndStop" THEN "disconnecting" ELSE "waiting"

RenderErr(a) ==
    /\ pc[a] = "rendering"
    /\ LeaveBody(a, AfterError(a))

DisconnectOk(a) ==
    /\ pc[a] = "disconnecting"
    /\ pc' = [pc EXCEPT ![a] = "stopped"]
    /\ device' = [device EXCEPT ![a] = "released"]
    /\ UNCHANGED <<current, frame, seen, due, since>>

DisconnectErr(a) ==
    /\ pc[a] = "disconnecting"
    /\ pc' = [pc EXCEPT ![a] = "stopped"]
    /\ UNCHANGED <<current, frame, seen, device, due, since>>

\* JoinHandle::abort: the task is dropped where it awaits, and with it the
\* snapshot; nothing else of run_adapter runs.
Abort(a) ==
    /\ pc[a] \notin Ended
    /\ LeaveBody(a, "aborted")

-----------------------------------------------------------------------------
Connect(a) == ConnectOk(a) \/ ConnectErr(a)
RenderReturns(a) == RenderOk(a) \/ RenderErr(a)
Disconnect(a) == DisconnectOk(a) \/ DisconnectErr(a)

Next ==
    \/ Publish
    \/ Advance
    \/ \E a \in Adapters :
          \/ Connect(a)
          \/ Tick(a)
          \/ RenderReturns(a)
          \/ Disconnect(a)
          \/ Abort(a)

SafetySpec == Init /\ [][Next]_vars

(***************************************************************************)
(* Time passes and tokio polls a task that is ready.  That connect, render *)
(* and disconnect come back is assumed of the Healthy adapters alone; the  *)
(* others may hang in any of them.                                         *)
(***************************************************************************)
Fairness ==
    /\ WF_vars(Advance)
    /\ \A a \in Adapters : WF_vars(Tick(a))
    /\ \A a \in Healthy :
          WF_vars(Connect(a)) /\ WF_vars(RenderReturns(a)) /\ WF_vars(Disconnect(a))

Spec == SafetySpec /\ Fairness

-----------------------------------------------------------------------------
(* What the engine promises.                                               *)

\* The interval's deadline and the last tick stay in step: the next tick
\* comes due no sooner than Slack before, and no later than, one period
\* after the last tick.  (A render of any length moves neither bound:
\* engine/lib.rs:130-132 without Slack, native_rate honoured.)
DeadlineWindow ==
    \A a \in Adapters :
        /\ since[a] < Period[a] - Slack => since[a] + due[a] >= Period[a] - Slack
        /\ due[a] > 0 => since[a] + due[a] <= Period[a]

\* A stalled adapter is not rendered in a burst when it comes back: two
\* ticks of a task are a period, less the forgiven lateness, apart.
TickSpacing ==
    [][\A a \in Adapters : Tick(a) => since[a] >= Period[a] - Slack]_vars

\* engine/lib.rs:130-132 as it is written, "a stalled adapter does *not*
\* stampede multiple renders to catch up": no two ticks at one instant.
NoStampede ==
    [][\A a \in Adapters : Tick(a) => since[a] > 0]_vars

\* An adapter is rendered only between its connect and its disconnect, its
\* disconnect is called only from the loop's own end, and only LogAndStop
\* lets a failed render end the loop.
DeviceProtocol ==
    \A a \in Adapters :
        /\ pc[a] \in Looping \cup {"disconnecting"} => device[a] = "linked"
        /\ device[a] = "unlinked" => pc[a] \in {"connecting", "refused", "aborted"}
        /\ device[a] = "released" => pc[a] = "stopped"
        /\ pc[a] \in {"disconnecting", "stopped"} => Policy[a] = "LogAndStop"

\* A task keeps a frame alive only while it renders it, and renders what it
\* saw: a waiting or ended task never holds on to an old frame.
FramePinnedOnlyWhileRendering ==
    \A a \in Adapters :
        frame[a] = IF pc[a] = "rendering" THEN seen[a] ELSE NoFrame

\* Whatever the other tasks do, hang included, a healthy task gets to every
\* published frame or to a newer one, unless it ends.
Freshness ==
    \A a \in Healthy : \A v \in 1..MaxFrames :
        current >= v ~> (seen[a] >= v \/ pc[a] \in Ended)

\* A healthy task renders again and again, published or not, or it ends.
KeepsRendering ==
    \A a \in Healthy : []<>(pc[a] = "rendering") \/ <>(pc[a] \in Ended)

\* The bus and its tasks are a LatestFrame: snapshots are the newest frame,
\* no reader's pace holds up the producer or another reader.
LF == INSTANCE LatestFrame WITH
          Readers <- Adapters,
          Prompt <- Healthy,
          latest <- current,
          attached <- {a \in Adapters : pc[a] \in Looping \cup {"connecting"}}

ImplementsLatestFrameSafety == LF!SafetySpec
ImplementsLatestFrame == LF!Spec
=============================================================================
