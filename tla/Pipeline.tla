------------------------------ MODULE Pipeline ------------------------------
(***************************************************************************)
(* The audiophore process (audiophore-cli/src/main.rs): the run command,   *)
(* which wires OSC ingress, mapping, bus, render loop and sACN adapter     *)
(* together, and the monitor command, which has the ingress alone.         *)
(*                                                                         *)
(* The main task builds the adapter, spawns its render loop, binds the OSC *)
(* socket, and then takes datagrams or the interrupt from its select loop. *)
(* The render task is RenderLoop's with one adapter, and the adapter is    *)
(* SacnAdapter: where the task awaits its adapter, it is the adapter that  *)
(* moves.  A frame is its number, as in RenderLoop; the colour of a tick's *)
(* packets is the number of the frame they were made of.                   *)
(***************************************************************************)
EXTENDS SacnLayout, FiniteSets

CONSTANTS
    Commands,       \* the subcommands: "run", "monitor"
    Pixels,         \* values of --pixels
    StartUniverses, \* values of --start-universe
    Period,         \* the adapter's native_rate
    Slack,          \* lateness tokio's interval forgives
    SEQUENCES,      \* sequence numbers: 256 for a u8
    TICKS,          \* tick numbers: 2^64 for a u64
    MaxFrames,      \* bound: datagrams that make a frame
    MaxQueue        \* datagrams the OSC socket holds

ASSUME CommandsAssumption == Commands \subseteq {"run", "monitor"}
ASSUME PixelsAssumption == Pixels \subseteq Nat
ASSUME StartAssumption == StartUniverses \subseteq 0..U16_MAX
ASSUME RateAssumption == Period \in Nat \ {0} /\ Slack \in Nat
ASSUME CountersAssumption == SEQUENCES \in Nat \ {0, 1} /\ TICKS \in Nat \ {0}
ASSUME BoundsAssumption == MaxFrames \in Nat /\ MaxQueue \in Nat \ {0}

SACN == "sacn"
StripZone == "strip"
DEFAULT_PRIORITY == 100

RunArgs == [command : Commands, pixels : Pixels, start_universe : StartUniverses]

\* What run_pipeline gives the adapter's builder.
AdapterConfig(a) ==
    [universes |-> universes_for(a.pixels, a.start_universe),
     priority |-> DEFAULT_PRIORITY]

VARIABLES
    args,           \* the command line
    main,           \* where the main task is, or how the process ended
    interrupted,    \* has a ctrl-c reached the handler
    datagrams,      \* what waits in the OSC socket
    tick,           \* the next frame's tick number
    stamp,          \* the tick number of the frame in the bus
    link            \* does the network take the adapter's packets

\* The render task, as RenderLoop has it, its pc called where.
VARIABLES current, where, frame, seen, device, due, since

\* The adapter, as SacnAdapter has it, its pc called call.
VARIABLES config, call, result, socket, sequence, buffers, content, next, sent, torn

Loop == INSTANCE RenderLoop WITH
            pc <- where,
            Adapters <- {SACN},
            Healthy <- {SACN},
            Policy <- [a \in {SACN} |-> "LogAndContinue"],
            Period <- [a \in {SACN} |-> Period]

Sacn == INSTANCE SacnAdapter WITH
            pc <- call,
            Configs <- {AdapterConfig(a) : a \in RunArgs},
            Zones <- {StripZone},
            Own <- {StripZone},
            Colours <- 1..MaxFrames,
            PixelCounts <- Pixels,
            DirectSlots <- {}

loop_vars == <<current, where, frame, seen, device, due, since>>
sacn_vars == <<config, call, result, socket, sequence, buffers, content, next, sent, torn>>
main_vars == <<args, main, interrupted, datagrams, tick, stamp>>
vars == <<args, main, interrupted, datagrams, tick, stamp, link,
          loop_vars, sacn_vars>>

Datagrams == {"frame", "error"}

TypeOK ==
    /\ args \in RunArgs
    /\ main \in {"building", "binding", "installing", "receiving",
                 "leaving", "failing", "exited", "killed"}
    /\ interrupted \in BOOLEAN
    /\ datagrams \in Seq(Datagrams) /\ Len(datagrams) <= MaxQueue
    /\ tick \in 0..(TICKS - 1)
    /\ stamp \in 0..(TICKS - 1)
    /\ link \in BOOLEAN
    /\ Loop!TypeOK
    /\ Sacn!TypeOK

Init ==
    /\ args \in RunArgs
    /\ main = IF args.command = "run" THEN "building" ELSE "binding"
    /\ interrupted = FALSE
    /\ datagrams = <<>>
    /\ tick = 0
    /\ stamp = 0
    /\ link = TRUE
    /\ Loop!Init
    /\ Sacn!Init
    /\ config = AdapterConfig(args)

Running == main \notin {"exited", "killed"}

\* The render task is spawned and has not ended.
TaskAlive == call \in {"idle", "sending"}

-----------------------------------------------------------------------------
(* The main task, up to its loop.                                          *)

\* The adapter is built and its render loop spawned, or run_pipeline returns.
Build ==
    /\ main = "building"
    /\ Sacn!Build
    /\ main' = IF call' = "idle" THEN "binding" ELSE "failing"
    /\ UNCHANGED <<args, interrupted, datagrams, tick, stamp, link, loop_vars>>

\* Listener::bind and local_addr.
Bind ==
    /\ main = "binding"
    /\ main' \in {"installing", "failing"}
    /\ UNCHANGED <<args, interrupted, datagrams, tick, stamp, link,
                   loop_vars, sacn_vars>>

\* The select loop's first poll of ctrl_c installs the handler.
Install ==
    /\ main = "installing"
    /\ main' \in {"receiving", "failing"}
    /\ UNCHANGED <<args, interrupted, datagrams, tick, stamp, link,
                   loop_vars, sacn_vars>>

-----------------------------------------------------------------------------
(* The environment.                                                        *)

\* A datagram reaches the OSC socket: one that makes a frame, or one that
\* the listener refuses (an error of the socket itself counts as one).
Arrive(d) ==
    /\ main \in {"installing", "receiving"}
    /\ Len(datagrams) < MaxQueue
    /\ d = "frame" =>
          current + Cardinality({i \in DOMAIN datagrams : datagrams[i] = "frame"}) < MaxFrames
    /\ datagrams' = Append(datagrams, d)
    /\ UNCHANGED <<args, main, interrupted, tick, stamp, link, loop_vars, sacn_vars>>

\* A ctrl-c: until the handler is installed it ends the process.
Interrupt ==
    /\ Running
    /\ IF main \in {"building", "binding", "installing", "failing"}
       THEN main' = "killed" /\ UNCHANGED interrupted
       ELSE interrupted' = TRUE /\ UNCHANGED main
    /\ UNCHANGED <<args, datagrams, tick, stamp, link, loop_vars, sacn_vars>>

\* The network goes down or comes back.
LinkChanges ==
    /\ Running
    /\ link' = ~link
    /\ UNCHANGED <<main_vars, loop_vars, sacn_vars>>

Time ==
    /\ Running
    /\ Loop!Advance
    /\ UNCHANGED <<main_vars, link, sacn_vars>>

-----------------------------------------------------------------------------
(* The select loop.                                                        *)

\* Fault: a datagram that is no frame uses up a tick number.
ReceiveCountingErrors ==
    /\ datagrams # <<>>
    /\ datagrams' = Tail(datagrams)
    /\ tick' = (tick + 1) % TICKS
    /\ IF Head(datagrams) = "frame" /\ args.command = "run"
       THEN Loop!Publish /\ stamp' = tick
       ELSE UNCHANGED <<stamp, loop_vars>>
    /\ UNCHANGED <<args, main, interrupted, link, sacn_vars>>

\* A frame is mapped, published and counted (monitor prints it); an error
\* is logged.
Receive ==
    /\ datagrams # <<>>
    /\ datagrams' = Tail(datagrams)
    /\ IF Head(datagrams) = "frame" /\ args.command = "run"
       THEN Loop!Publish /\ stamp' = tick /\ tick' = (tick + 1) % TICKS
       ELSE UNCHANGED <<stamp, tick, loop_vars>>
    /\ UNCHANGED <<args, main, interrupted, link, sacn_vars>>

\* The break out of the loop.
Leave ==
    /\ main' = "leaving"
    /\ UNCHANGED <<args, interrupted, datagrams, tick, stamp, link,
                   loop_vars, sacn_vars>>

\* Fault: the other branch is polled first.
SelectReceiveFirst ==
    /\ main = "receiving"
    /\ IF datagrams # <<>> THEN Receive ELSE interrupted /\ Leave

\* biased: the interrupt goes first.
Select ==
    /\ main = "receiving"
    /\ IF interrupted THEN Leave ELSE Receive

-----------------------------------------------------------------------------
(* The render task.  It needs nothing of the main task until that aborts   *)
(* it, or the runtime drops it when the main task returns.                 *)

TaskConnectOk == Running /\ Loop!ConnectOk(SACN) /\ Sacn!ConnectOk

\* run_adapter returns, and drops the adapter it owns.
TaskConnectErr == Running /\ Loop!ConnectErr(SACN) /\ Sacn!Drop

\* Fault: a frame that was taken before is not sent again.
TaskTickOnChange ==
    /\ Running
    /\ Loop!Tick(SACN)
    /\ IF frame'[SACN] \in {0, seen[SACN]}
       THEN Sacn!RenderNothing
       ELSE Sacn!Render(StripZone, frame'[SACN], args.pixels)

\* The interval fires; the snapshot is rendered.  The frame that seeds the
\* bus has no payload, every later one has the strip's.
TaskTick ==
    /\ Running
    /\ Loop!Tick(SACN)
    /\ IF frame'[SACN] = 0
       THEN Sacn!RenderNothing
       ELSE Sacn!Render(StripZone, frame'[SACN], args.pixels)

\* One universe's packet.
TaskSend ==
    /\ Running
    /\ call = "sending"
    /\ IF ~Sacn!Encoded THEN Sacn!EncodeErr
       ELSE IF link THEN Sacn!SendOk ELSE Sacn!SendErr
    /\ UNCHANGED loop_vars

\* render has returned to run_adapter.
TaskReturn ==
    /\ Running
    /\ call = "idle"
    /\ IF result = "ok" THEN Loop!RenderOk(SACN) ELSE Loop!RenderErr(SACN)
    /\ UNCHANGED sacn_vars

\* One step of the task.
RenderTask ==
    /\ \/ TaskConnectOk
       \/ TaskConnectErr
       \/ TaskTick
       \/ TaskSend
       \/ TaskReturn
    /\ UNCHANGED <<main_vars, link>>

\* The abort reaches the task where it awaits, inside a tick as well.
AbortTask ==
    /\ main \in {"leaving", "failing"}
    /\ Loop!Abort(SACN)
    /\ Sacn!Drop
    /\ UNCHANGED <<main_vars, link>>

\* The process ends once the runtime has dropped its tasks.
Exit ==
    /\ main \in {"leaving", "failing"}
    /\ ~TaskAlive
    /\ main' = "exited"
    /\ UNCHANGED <<args, interrupted, datagrams, tick, stamp, link,
                   loop_vars, sacn_vars>>

-----------------------------------------------------------------------------
Next ==
    \/ Build
    \/ Bind
    \/ Install
    \/ \E d \in Datagrams : Arrive(d)
    \/ Interrupt
    \/ LinkChanges
    \/ Time
    \/ Select
    \/ RenderTask
    \/ AbortTask
    \/ Exit

SafetySpec == Init /\ [][Next]_vars

(***************************************************************************)
(* Time passes, and tokio polls whatever is ready: the main task, the      *)
(* render task, whose connect and sends come back, and the abort.  No      *)
(* datagram and no interrupt need ever come, and the network may stay down.*)
(***************************************************************************)
Fairness ==
    /\ WF_vars(Time)
    /\ WF_vars(Build) /\ WF_vars(Bind) /\ WF_vars(Install)
    /\ WF_vars(Select)
    /\ WF_vars(RenderTask)
    /\ WF_vars(AbortTask)
    /\ WF_vars(Exit)

Spec == SafetySpec /\ Fairness

-----------------------------------------------------------------------------
(* What the process promises.                                              *)

\* The frame the j-th universe of the strip shows.
Shown(j) == IF sent[j].sequence = -1 THEN 0 ELSE sent[j].colour

\* The render task is over.
TaskEnded == where[SACN] \in Loop!Ended \/ main = "killed"

\* The strip shows received frames only, in order, and never a frame's later
\* part without its first, whatever the network, the interrupt and the
\* interval do in between (main.rs:146-219, engine/lib.rs:160-190,
\* adapter.rs:100-120).
Strip == INSTANCE StripShow WITH
             latest <- current,
             shown <- [j \in 1..Len(config.universes) |-> Shown(j)]

ImplementsStripShow == Strip!Spec

\* Once connected the adapter's calls fail at the socket alone: what the
\* builder accepted is never refused later, and the loop never renders
\* before connect, so LogAndContinue never hides a misconfiguration
\* (main.rs:155-170, adapter.rs:100-117).
OnlyIoErrors == result \in {"none", "ok", "Io"}

\* Tick numbers count the published frames without a gap, refused datagrams
\* in between use up none (main.rs:192-212, core/lib.rs:164).
TickStamps == current > 0 =>
    /\ stamp = (current - 1) % TICKS
    /\ tick = current % TICKS

\* Once the handler is installed an interrupt ends the process, under any
\* flood of datagrams and in the middle of any tick (main.rs:193-218).
InterruptEnds == interrupted ~> main = "exited"

\* When the network stays up, the whole strip comes to show each frame or a
\* newer one: no failed tick before stops the task or leaves a universe
\* behind (main.rs:165-169, engine/lib.rs:161-176).
StripCatchesUp ==
    <>[]link =>
        \A v \in 1..MaxFrames :
            current >= v ~>
                \/ \A j \in 1..Len(config.universes) : Shown(j) >= v
                \/ TaskEnded

\* The receivers hear of the adapter for ever, new frames or not: with the
\* network up it completes tick after tick once there is a frame
\* (engine/lib.rs:161-176, main.rs:202-212).
KeepsSending ==
    <>[]link /\ <>(current > 0) =>
        \/ \A n \in 0..(SEQUENCES - 1) : []<>(sequence = n)
        \/ <>TaskEnded
=============================================================================
