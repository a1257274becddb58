# A TLA+ model of audiophore

audiophore turns the OSC stream of an audio analyser (Synesthesia) into pixels
on a network-controlled LED strip: datagrams come in over UDP, become an
`AudioFrame`, are mapped to a `ResolvedFrame`, published on a bus, and rendered
by adapters, each on its own clock. At milestone M1 there is one adapter, for
E1.31 (sACN), and one command that wires everything together.

All source paths below are under `src/crates/`.

## 1. Inventory

| Component | Source | State | Operations | Hard about it |
|---|---|---|---|---|
| OSC ingress | `audiophore-audio/src/lib.rs` | the socket, a builder, a buffer | `bind`, `recv`, `recv_with_packet`, `dispatch_packet` | nested bundles, malformed datagrams, order of the dispatch arms |
| Frame builder | `audiophore-audio/src/frame.rs` | the last value of every field | the setters, `snapshot` | NaN, infinite and out-of-range values; nothing may be lost between datagrams |
| M1 mapping | `audiophore-engine/src/mapping.rs` | none | `map_m1` | clamping, zones of other kinds |
| Snapshot bus | `audiophore-engine/src/lib.rs:27-108` | one atomic pointer to the newest frame | `publish`, `publish_arc`, `snapshot` | one writer, many readers, no locks; readers skip frames but never go back |
| Render loop | `audiophore-engine/src/lib.rs:142-185` | the adapter, its interval, the frame being rendered | `run_adapter` | late ticks, hanging adapters, two error policies, abort at any await |
| Adapter interface | `audiophore-adapter-core/src/lib.rs` | none | `connect`, `render`, `disconnect` | who may call what, when |
| sACN adapter | `audiophore-adapter-sacn/src/adapter.rs` | socket, sequence number, configuration | `build`, `connect`, `render`, `send_slots`, `disconnect` | several datagrams per frame, any of which may fail; a number that wraps |
| E1.31 packets | `audiophore-adapter-sacn/src/packet.rs` | a scratch buffer | `encode`, `multicast_v4`, `gamma_encode` | three nested lengths, limits checked twice |
| `run` command | `audiophore-cli/src/main.rs:132-219` | the tick counter, the adapter's task | `universes_for`, `run_pipeline` | startup that may fail half way, biased select, ctrl-c before and after its handler is there, abort in the middle of a tick |
| `monitor` command | `audiophore-cli/src/main.rs:227-303` | a listener | `run_monitor`, `walk_for_raw` | the same select loop; the raw dump is a second walk over the packet |
| Core types | `audiophore-core/src/lib.rs` | none | none | none |
| Desktop UI | `audiophore-ui/` | none | none | a static page in a window, not connected to the engine |

How they interact. The `run` command's task owns the listener and is the bus's
only producer: it awaits a datagram (or ctrl-c), maps the frame and publishes
it. Every adapter has a task of its own, `run_adapter`, which shares nothing
with the producer but the bus, reads it once per tick, and calls its adapter's
methods one at a time. Tasks run on several threads and interleave at awaits;
code between two awaits touches shared state at most once, in an atomic load or
store. Shutdown is `JoinHandle::abort`: the render loop is dropped wherever it
awaits.

What makes each part correct:

- *bus and render loop*: a snapshot is the newest frame; nobody's pace, not even
  a hanging adapter, shows in what the producer or another reader may do; a
  healthy adapter gets to every frame or a newer one; ticks keep to the
  adapter's rate and never burst; an adapter is called only in the order
  connect, render, disconnect; nobody keeps a frame alive that is not rendering.
- *strip layout and packets*: the strip is spread over consecutive universes
  without gap, overlap or loss; every byte arrives in the place where a receiver
  looks for it; headers agree with lengths; what the builder accepts is never
  refused later.
- *sACN adapter*: one sequence number per tick, right for every universe, over
  errors, reconnects and wrapping; a tick is seen as a whole unless it failed.
- *ingress*: every field stays in range whatever arrives; the last usable value
  of each field is what a frame shows; the raw dump tells the order in which
  messages were applied.
- *mapping*: exactly the zones that are strips are resolved; a beat is visible
  however quiet the music; no channel gets darker when its inputs do not fall.
- *ingress and mapping together*: whatever arrives, published colours are
  numbers in range; what a datagram says last about the beat is on the strip in
  the next frame; no channel changes that no message was about.
- *mapping, gamma curve and partition together*: receivers show the frame, each
  byte at its pixel's place, and no slot behind the strip is ever lit.
- *the process*: the strip shows received frames in order, across universes as
  well, whatever fails; frames are numbered without gaps; after an outage the
  strip catches up; an interrupt ends the process under any load.

`PROJECT.json` lists the hazards at their lines, each with the properties that
would notice it going wrong, or why none does yet.

## 2. Modules

| Module | Models | Checked by |
|---|---|---|
| `LatestFrame` | what the bus promises: an abstract specification | refined by `RenderLoop` |
| `RenderLoop` | `Bus`, `run_adapter`, tokio's interval | `MCRenderLoop`, `RenderLoop_proofs` |
| `SacnLayout` | `universes_for`, `build`'s checks, `partition_rgb`, `encode`'s checks, fields and lengths, `multicast_v4` | `MCSacnLayout`, `SacnLayout_proofs`, `MCSacnLayout_proofs` |
| `SacnAdapter` | one `SacnAdapter`; extends `SacnLayout` | `MCSacnAdapter`, `SacnAdapter_proofs` |
| `Floats` | the `f32` values ingress and mapping meet, and `clamp` | with its users |
| `OscIngress` | `Listener`, `dispatch_packet`, `AudioFrameBuilder`, `walk_for_raw`; extends `Floats` | `MCOscIngress`, `OscIngress_proofs` |
| `Mapping` | `map_m1`, `build_strip_pixels`; extends `Floats` | through `Lights` and `Colours` |
| `Lights` | the `run` loop with its data, from datagrams to published frames; extends `OscIngress` and `Mapping` | `MCLights`, `Lights_proofs` |
| `Colours` | mapping, `render`'s choice, `gamma_encode`, `partition_rgb` in a row; extends `Mapping` and `SacnLayout` | `MCColours`, `Colours_proofs` |
| `StripShow` | what the `run` command promises: an abstract specification | refined by `Pipeline` |
| `Pipeline` | both commands as processes, composed of `RenderLoop` and `SacnAdapter` | `MCPipeline`, `Pipeline_proofs` |

Operators whose comment starts with "Fault:" are bugs the code does not have,
each a variant of the definition below it: a dropped guard, a missing reset, an
off-by-one. Putting one in the place of its definition must break a property;
`PROJECT.json` says which. No specification uses them.

### RenderLoop

A frame is its version, the number of frames published up to it; `current` is
the bus. Each task has `pc` (the await it is at, or how it ended), `frame` (the
`Arc` it holds), `seen` (the version of its last snapshot), `device` (what the
adapter has been told: record of the calls, not a variable of the code) and its
interval. The actions are the stretches of `run_adapter` between awaits:
`ConnectOk`/`ConnectErr` (lines 151-159), `Tick` (162-164, from the interval
firing to the call of `render`), `RenderOk`/`RenderErr` (164-176),
`DisconnectOk`/`DisconnectErr` (178-184) and `Abort`. `Publish` is the
producer's atomic swap.

Time. The interval is tokio's, modelled from its documentation and from how it
is configured on line 149: a tick that is late by more than a tolerance (5 ms in
tokio, `Slack` here) moves the schedule to one period from now, an earlier one
keeps it. `due` is the time left to the deadline and may be negative; `since`
is the time since the last tick. `Advance` moves both for all tasks. `due`
stops at `-(Slack + 1)` (later than that is all the same to `NextDeadline`) and
`since` at the period (no property distinguishes more), so time needs no bound.

### SacnLayout

Pure operators. A pixel is its position in the strip, a buffer the sequence of
`<<pixel, channel>>` pairs of its bytes, so "in the right place" is a statement
about positions, and colours and the gamma curve play no part. Universe numbers
saturate at `U16_MAX` as `saturating_add` does. A packet is the sequence of
`<<field, i>>`, the i-th byte of a field, put together in the order of `encode`'s
calls and then patched at the offsets `encode` names; its lengths are computed
from the same offsets. The values of constant fields are left out.
`MCSacnLayout` enumerates strips, first universes and priorities.

### SacnAdapter

The adapter's fields are `config`, `socket`, `sequence`; `buffers`, `content`
and `next` are the locals of a `send_slots` in progress. Every `send_to` is an
await, so each datagram is a step: `SendOk`, `SendErr`, `EncodeErr`. `Render`
and `SendDirect` are the code up to the first of them, with the early returns
for a wrong number of buffers and a closed socket. `&mut self` allows one call
at a time, in any order the owner likes; `Drop` is the owner's task being
aborted. `sent` and `torn` record what has left the socket, for the properties.

A frame's first `Pixels` payload is that of any zone, as the iteration order of
a `HashMap` is; `RenderNothing` is a frame without one.

### OscIngress

The builder is a function from fields to values. A float is a whole number of
units or NaN, with the infinite ones at the ends; conversions from double and
integer round and saturate. Decoding is external (`rosc`): a datagram is either
refused as a whole (`RecvErr`) or taken apart into messages and bundles of
packets. The walk over it is one step per call of `apply_packet`; `todo` is what
the loops of the enclosing calls have still to visit. There is no await in the
walk, so no other action is enabled before it ends in `RecvOk` (with a snapshot)
or `DispatchOk` (without). `Set` is a setter called by hand, as tests and tools
do: it is the only way to `t`, `beat_phase` and `fade`, which no message reaches.
`applied` records the messages in the order they were applied, to compare with
`walk_for_raw`, the monitor's own walk over the same packet, which is recursive.
That it ends is `rosc`'s doing: the packets of a bundle are read out of the
bundle's own bytes, so they are shorter than it is (`Size`, `SizeAssumption`).

### Mapping and Colours

A level is a whole number of units, `ONE` of them to 1.0. A channel is exact, in
tenths of a squared unit (the flash is 0.3 of a beat), so `FULL = 10 * ONE * ONE`
is 1.0. NaN and the infinite values go through products, sums and `clamp` as
`f32` has it: NaN survives a clamp, an infinite level at no intensity is NaN.
Rounding is left out; it keeps the order of values, which is what the properties
are about. `NoNumber` names the inputs that are no colour at all: one of them is
NaN, or the level is infinite in the dark. `FlashVisible` says that these and
only these give NaN, and judges every other channel, with negative, too large
and infinite inputs; `NeverDarker` compares any two of those. A frame in which
every zone was dropped is judged by `ZonesResolved` like any other.

`Colours` makes one step of a frame: one input changes, the frame is mapped and
rendered, and each receiver overlays the slots it gets over those it has (a short
packet leaves the rest alone, adapter.rs:179-181). The gamma curve is any
monotone function from 0 to 255; the run uses the code's values. What lies
between the stages (bus, clocks, socket) is the other modules' matter.

### Lights

The first half of the same way: the `run` loop awaits `recv` (`Listen`: a walk's
step, or a failure, after which the loop goes round), maps the frame it returns
and puts it on the bus (`Publish`, one step with `recv`'s return, as there is no
await between them). Ingress runs inside it restricted to what the command does:
no setter by hand, never `dispatch_packet`. `Colours` is checked with NaN and
infinite inputs as well, which the mapping lets through; `ColoursInRange` says
that the builder never hands it any. `Pipeline` has the same loop with its
startup, interrupt and end, and a number for a frame.

### Pipeline and StripShow

`Pipeline` instantiates `RenderLoop` with one adapter and `SacnAdapter`, and
calls them as the code does: where the render task awaits its adapter, it is the
adapter that moves (`TaskTick` starts a tick of both, `TaskSend` is one datagram,
`TaskReturn` gives the result to the loop's policy). Its own variables are the
main task's: `main` (where in `run_pipeline` or `run_monitor` it is), `tick`,
`stamp` (the number of the frame in the bus), the socket's queue `datagrams`, the
interrupt, and `link`, whether the network takes packets. `main` is `"failing"`
after an error that makes the command return, `"leaving"` after the interrupt; in
both the render task may still take steps until the abort reaches it or the
runtime drops it, between two datagrams of a tick as well. Until the handler is
installed an interrupt kills the process.

A frame is its number. `StripShow` has two variables, the number of frames
received and the frame each universe shows; a universe may move to any newer
frame that the universe before it shows already. `Pipeline` implements it with
`latest <- current` and, for each universe, the frame its last packet was made
of. "Shows" means: its packet has left the socket; that UDP may still lose it is
why `KeepsSending` matters.

## 3. Runs

| Run | Instance | Shows |
|---|---|---|
| `render_loops` | two adapters of periods 2 and 3, tolerance 1, one of each policy, 3 frames; the second adapter may hang | `DeadlineWindow`, `TickSpacing`: no burst and no lost period, however late a render comes back. `DeviceProtocol`, `FramePinnedOnlyWhileRendering`: order of calls, and no frame held outside a render, over errors and aborts. `Freshness`, `KeepsRendering` for the healthy one; the engine implements `LatestFrame` with its fairness |
| `render_fast` | period 1, tolerance 2 | *violates* `NoStampede` (see findings) |
| `layout_small` | 2 pixels a universe, at most 3 universes, legal numbers 1..6, saturation at 8, strips up to 20 pixels | `StripSpread`, `PartitionInPlace` on both sides of every limit; `PacketAtOffsets` for names shorter and longer than their field |
| `layout_real` | the code's limits, every strip up to 11060 pixels (65 universes and a bit) and first universes around the last legal one | `EncodeNeverRejects`, `HeadersAgree` |
| `adapter_render` | up to 3 universes of 2 pixels, sequence wraps at 3, two colours; accepted and refused configurations; `send_slots` called directly with misfitting buffers | `SequenceAccounted`, `OneTickUnlessTorn`, `ConsecutiveUnlessTorn`, `RenderFailsOnlyAtTheSocket` with a failure at any send, encode, bind, or a drop |
| `adapter_reuse` | two universes | *violates* `SequencePerTick` (see findings) |
| `adapter_zones` | two zones in a frame, an adapter built for one | *violates* `RendersOwnZones` (see findings) |
| `osc_walk` | messages to nine addresses and bundles nested up to three deep, every kind of argument, two datagrams or setter calls, any number of refused datagrams | `FieldsInRange`, `LastWriterWins`, `RawDumpAsApplied` |
| `osc_time` | the same, without setter calls: the program makes none | *violates* `FramesAreTimed` (see findings) |
| `lights` | two units to 1.0, three datagrams out of seventeen (a band, the intensity or the beat, NaN, negative, infinite and unusable arguments, bundles that say a thing twice or nothing), any number refused, strips of 0 and 2 pixels, ticks of 3 | `ColoursInRange`, `BeatLightsStrip`, `OnlySaidChannelsChange` |
| `colours` | two units to 1.0, values below, at and above every clamp, infinite and NaN; five zone lists (too long a strip, other kinds and shapes, an id used twice, two strips, none); two universes of 2 pixels | `ZonesResolved`, `FlashVisible`, `NeverDarker`, `ReceiversShowFrame` |
| `pipeline` | both commands; strips of 0, 3, 5 and 7 pixels (1, 2, 3 and too many universes), first universes 1 and 5 (legal numbers run out); 2 frames, any number of refused datagrams; sequence of 2, ticks of 2, so both counters wrap | `ImplementsStripShow`, `OnlyIoErrors`, `TickStamps`, and under fairness `InterruptEnds`, `StripCatchesUp`, `KeepsSending` |

Why the bounds are enough. In `RenderLoop` tasks interact only through the
number in the bus, so two of them show every interference; periods 2 and 3 with
tolerance 1 make on-time, forgiven and missed ticks happen, and three frames let
a reader see, skip and fall behind. In `SacnAdapter` three universes have a
first, a middle and a last one, and a sequence of three wraps after a failed
tick and before its repetition. `layout_small` shrinks every limit so that each
is crossed from both sides; `layout_real` runs the real ones. `MaxCalls = 2` in
`osc_walk` lets one datagram overwrite or keep what another wrote; the range
invariant, which needs more, is proved. In `colours` any two values of one input
follow each other and a strip of five pixels is one too long for its two
universes. In `lights` three datagrams are what it takes to say something, leave
it unsaid, and have the loss show between two published frames; all three
properties are proved for any number. In `pipeline` one frame can be on the wire
while the next is published, and two suffice to show order, catching up and going
back, and to wrap a tick counter of two; the safety properties are proved for any
number.

Deadlock is checked wherever the system cannot stop. It is off for the sACN
runs and for `pipeline`: a refused or dropped adapter does nothing more, a
process that has ended stays so, and the enumeration in `MCSacnLayout` ends at
its last strip.

### Fairness

`RenderLoop!Spec` assumes that time passes, that a task whose interval is due is
polled (tokio schedules every woken task), and, for the adapters in `Healthy`
only, that `connect`, `render` and `disconnect` come back. Nothing is assumed of
the producer, of which results calls have, of aborts, or of the other adapters.
That is as much as the code can rely on: UDP sends complete or fail, while
another adapter's `render` may be anything. The theorems and `render_fast` need
no fairness: they are about `SafetySpec`.

`Pipeline!Spec` assumes that time passes, that tokio polls a task that is ready
(main task, render task), that a bind, a connect and a send come back with some
result, that an abort is carried out and that the process then ends. No datagram
and no interrupt need ever come, and the network may stay down: `StripCatchesUp`
and `KeepsSending` have "from some time on the network is up" as hypothesis. The
bias of the select is in the action, not in the fairness, and `InterruptEnds`
needs it.

### Findings

Four statements of the repository that the model refutes; each has a run.

1. `audiophore-engine/src/lib.rs:130-132` says a stalled adapter does not
   stampede renders to catch up. With a period below tokio's tolerance of 5 ms
   (`--fps` above 200) `Delay` never delays, and renders follow each other
   without a pause. For longer periods the statement is `TickSpacing`, checked
   and proved.
2. `audiophore-adapter-sacn/src/adapter.rs:472-474` says the sequence number
   increments per tick. A tick that fails behind its first universe does not
   count, and the next one sends the universes before it the same number again.
   `SequenceAccounted` says exactly which universes can see that.
3. `audiophore-core/src/lib.rs:160-161` says adapters look up the payloads of
   their zones. The sACN adapter takes the first pixel payload of any zone (its
   own comment calls that a limit of M1).
4. `audiophore-core/src/lib.rs:18` and `:166` say a frame's `t` is the seconds
   since engine start. Nothing in the program calls `set_t`
   (`audiophore-audio/src/frame.rs:72`) and no message reaches it: `t` is 0 in
   every frame.

## 4. Proofs

TLAPS checks the theorems for every value of the constants that satisfies the
named assumptions next to their declarations: any set of adapters, any positive
periods, any tolerance; slots per universe between 3 and 512 and any consistent
universe limits; any number (at least 2) of sequence numbers; any packets whose
bundles hold packets smaller than themselves.

- `RenderLoop_proofs`. `TypeOK` is inductive and contains the bounds on `due`
  and `since`. `DeadlineWindow` is inductive with it: `Advance` moves a unit
  from `due` to `since` and keeps their sum until one of them stops, and `Tick`
  sets the sum to what `NextDeadlineBounds` says. `TicksAreSpaced` is read off:
  a tick has `due <= 0`, so `since` is at least the period less the tolerance.
  `DeviceProtocol` and `FramePinnedOnlyWhileRendering` are inductive by
  themselves. `RefinesLatestFrame` maps every step to a step or a stutter of
  `LatestFrame`, with `Tick` as `Read` and the ways out of the loop as `Leave`.
- `SacnLayout_proofs`. Bounds on the number of universes and on chunks
  (`UniverseCountEnough`, `ChunkBounds`) give `StripIsSpread` and
  `EncodeAccepts`; `PartitionKeepsPlace` is the division theorem applied twice,
  once for pixels to universes and once for bytes to pixels. A universe list
  that saturated contains 65535, which the builder refuses: hence no gap.
  The packet's fields follow, for a name and a slot buffer of any length. A
  packet is three layers joined and three patches: joining keeps what each part
  holds at a place shifted by the sizes before it (`Joined`), a patch keeps every
  piece that is clear of its two bytes (`Patched`). `NamePiece` gives the name's field its
  fixed size, without which nothing behind it would have a place. From these
  `PacketPieces`, and field by field `FieldsAlwaysAtOffsets`.
- `SacnAdapter_proofs`. The strengthening is `Built`: an adapter beyond `build`
  has a configuration that `BuildAccepts` holds of, and buffers made by render
  have the lengths of `BufferLengths`. With `EncodeAccepts` no step of a
  rendered tick can be refused. `SequenceIsAccounted` and `OneTickAtATime` are
  inductive with `TypeOK` and `Built`; `SendOkEffect` and `QuietEffect` say once
  what a send, and every other step, changes of what they speak of.
- `OscIngress_proofs`. `FieldsInRange` is inductive with `TypeOK`, which knows
  that `todo` holds packets only; `FirstFloatType` and `WrittenInRange` follow a
  value from a message's argument to a field. `AppliedSoFar` says at every point
  of a walk that each field is what the last usable message applied so far said
  of it, or what it was before; it is inductive because `RouteIsAddress` and
  `WritesApplied` reduce a step to its effect on one field, and
  `BuilderFollowsMessages` states it.
  `RawDumpIsAsApplied` is about `walk_for_raw`, a function defined by its own
  value on smaller packets. That such a function exists and obeys its equation
  is `Recursion`: for every bound the elements below it have exactly one
  solution (`PartsExist`, `PartsAgree`, by taking the smallest counterexample),
  and the solutions put together are one for all. `WalkEquation` is its instance,
  with `Size` as the measure. `FlattenSteps` does the same for `FlattenSeq`,
  which counts down on positions, and gives `FlattenConcat`: walking two lists of
  packets one after the other is walking their concatenation (`WalkOfConcat`).
  The inductive invariant `DumpSoFar` is then one equation: the dump of the
  datagram is what was applied followed by the dump of what is still in `todo`.
  A message moves from the second part to the first, a bundle is replaced in the
  second by its content, which has the same dump. At the end `todo` is empty.
  `LastWriterAlwaysWins` is `AppliedSoFar` at that moment, with the messages
  applied being the datagram's own in the order written: it has no hypothesis.
- `Lights_proofs`. Every step of the loop is one of ingress (`LoopRunsIngress`),
  so its theorems hold in it. The strengthening is `Lit`: between datagrams the
  builder is the last frame, during a walk `before` is, and the bus holds the
  mapping of that frame. `ChannelLit` bounds a channel made of values from 0.0 to
  1.0, by 1.0 and by the flash. `ColoursStayInRange` is `FieldsStayInRange`
  carried through it; `BeatAlwaysLightsStrip` and `OnlySaidChannelsEverChange`
  apply `LastWriterAlwaysWins` to the fields a channel is made of.
- `MCSacnLayout_proofs`. The states of the enumeration are strips, universes and
  priorities of the right type for any bounds, so the theorems about operators
  give the runs' invariants.
- `Colours_proofs`, for any unit, any rising curve, any zone lists. `Mapped` (the
  frame is `map_m1` of the inputs) is inductive and says of every pixel that it
  is `Pixel(audio)` (`Coloured`). That `LastStrip` is the last needs a greatest
  element of a set of indices, which `Least` gets from the library's theorem that
  `<` is well-founded; `MapResolves` then gives `StripsAreResolved`. `ChannelIs`
  computes a channel from any inputs that make a number; `ScaledIs` and
  `ScaledGrows` bound and order its product, infinite levels included, from which
  `FlashIsVisible` and `ColoursNeverDarker` are arithmetic. For
  `ReceiversShowTheFrame` the strengthening is `Wired`: every slot of the last
  frame's payload is in place, and with one strip no receiver holds more slots
  than the strip has there; without the latter an overlay could keep an old tail.
  `SlotAtPlace` inverts the partition.
- `Pipeline_proofs`. Every step of the process is a step of `RenderLoop` and of
  `SacnAdapter` or leaves them alone (`RunsTheEngine`, `RunsTheAdapter`): here it
  matters that the loop never renders before connect or during a tick. The
  components' proofs, instantiated, then hold of the process
  (`ComponentsKeepTheirWord`). `ShowsTheStrip` has `InOrder` as its inductive
  invariant: the loop has seen no frame that is not published, no universe shows
  a newer one than the loop has seen or than the universe before it, and a tick
  on its way is of the frame the loop has seen, which the universes before `next`
  show already. The last part is what makes a send a `Show`, and it survives
  because the loop takes a newer frame only when no tick is on its way.

Model-checked only: the liveness properties `Freshness`, `KeepsRendering`,
`InterruptEnds`, `StripCatchesUp` and `KeepsSending`, and the fairness half of
`ImplementsLatestFrame` (temporal reasoning about `ENABLED` is beyond the
prover; that every step of the engine is a step or a stutter of `LatestFrame` is
proved). Induction over data goes through where it can be put as a smallest
counterexample in a set of numbers, as in `Recursion`.

## 5. Not modelled

- Bytes and wording: the values of constant header fields, how a name's
  characters are encoded, the rounding of floats, log output, error texts, the
  monitor's columns.
- The UI, benches, fuzz target, scripts and CI: no part of the pipeline.
- `SceneState`, `LaserPoint` and the payloads other than `Pixels`: types no part
  of the program makes a value of.
- `rosc`, tokio, arc-swap and the operating system's sockets are external and
  modelled as they are used. A UDP datagram that is lost or late on the network
  cannot be told apart by the code, and no property speaks of it; IPv6 targets are
  a network that is down.

## 6. Plan

The order is by how much of the system's behaviour depends on a part.

1. *(done)* `LatestFrame`, `RenderLoop` and the refinement; their proofs.
2. *(done)* `SacnLayout` with the packet's fields, `SacnAdapter`; their proofs.
3. *(done)* `OscIngress`; the range invariant proved; the raw dump.
4. *(done)* `Mapping` and `Colours`; all four properties proved.
5. *(done)* `StripShow`, `Pipeline`, its refinement and safety properties proved.
6. *(done)* The packet's fields and the last writer of a datagram proved.
7. *(done)* The raw dump proved for packets nested in any way, and with it the
   last writer without a hypothesis; `Lights`, which carries both to the
   published colours, its three properties proved.
8. Open: the values of the header's constant fields; more than one adapter in
   `Pipeline`, once a command starts more than one.
