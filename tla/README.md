# Specifications of sim-stream-host

TLA+ models of the stream host library: the parts of it that keep state, share
it between callbacks, clones, callers and providers, and have to keep promises
over long sequences of calls. TLC checks every model on a small instance; TLAPS
proves the most important results for all values of the constants.

Paths below are relative to the repository root. `PROJECT.json` maps every
definition to the lines it stands for.

## 1. The system

The library opens host streams (audio, MIDI, device sensors), carries their
packets through bounded buffers, and talks to external devices under consent
and explicit authority.

| component | source | state | operations | who interacts |
|---|---|---|---|---|
| process ring | `src/ring.rs` | slots, head, len, closed, statistics | `try_push`, `try_pop`, `close`, `cancel` | one owner; the boundary of a process site |
| host stream | `src/backend.rs`, `src/queue.rs`, `src/cassette.rs`, `src/rtp_midi.rs` | a shared `StreamValue` behind the queue; an `Rc` driver handle with a `closed` flag; a cassette | open, clone, drop, `close`, `cancel`, callbacks, `drain`, `replay` | callback threads push while the host thread closes, the graph drains and a cassette replays |
| content store | `src/store_evict.rs`, `src/glasses.rs`, the two `camera.rs` | byte counter, frames by key, eviction order | `insert`, `sweep_retention`, camera pulls | each pull and sweep is given the receipts its caller can see |
| effect contract and session | `src/device.rs` | receipts by key, invocation counts, stopped, sequence | `invoke`, `start`, `stop`; `authorize` is shared by all device sessions | callers arm, invoke, retry |
| Halo session | `crates/sim-lib-stream-halo` | committed cells, samples, started | open, `poll`, `start`, `stop`, `invoke` | the display only changes through the packets sent |
| host open | `src/registry.rs`, `src/model.rs`, `src/catalog.rs`, `src/fake.rs` | registered backends and providers, recorded effects | `plan_open`, `enforce`, `open`, `open_checked` | backends are asked for their devices several times during one open |
| audio router | `src/router.rs`, `src/provider.rs` | sites by key, with owner | register, reload, unregister, load, select, open a placement | providers compete for site keys |
| device catalog | `src/catalog.rs`, `src/audio.rs`, `src/config_probe.rs` | record providers in order: modeled rows, copies of the router and of a registry, native MIDI | add a provider, enumerate, `open_checked`, `backend_names`, the probe | its copies outlive what they were copied from |
| live MIDI site | `src/midi_live_eval_site.rs` | a live session and an evaluation site | adopt, close | wraps a site the catalog opened |
| wrist and VITURE sessions | `crates/sim-lib-stream-wristbridge`, `crates/sim-lib-stream-viture`, `src/device.rs` | event queues, sequence counters, commands sent, started; an observation cassette | open, `poll`, typed poll, `start`, `stop`, `invoke` | a physical session that may fail |
| LAN placement, stream shapes, watch consent, manifests, glasses placement | `src/placement/lan.rs`, `src/config.rs`, `src/watch.rs`, `src/device.rs`, `src/glasses_placement.rs` | none | decisions on one request | their answers decide what other parts may do |
| cards, inventory, configuration text, xtask | `src/capability.rs`, `src/config.rs`, ... | none | descriptions for display, parsing and printing, tooling | - |

### What is hard here

* **Interleaving.** A queue handle is cloned into native callbacks. They push
  while a driver is still being built, while the stream closes, and while the
  driver is being stopped. A cassette replay may race them.
* **Shared ownership.** Clones of an opened stream share one driver; each may
  close, cancel or drop it, and the shutdown itself may fail.
* **Stale state.** Opening a device plans from one enumeration, records effects
  and opens from another. A sweep is given other consent receipts than the pulls.
  Each display diff is computed from the session's own record of the display.
* **Bookkeeping.** The store keeps a counter, a map and an order queue in step;
  the ring a window and saturating counters; the scheduler two lists of cells
  and the committed state.
* **Retries.** Effects are invoked again after a lost answer, a refusal or a
  restart, under idempotence keys and invocation bounds.
* **Partial failure.** A provider load, a driver shutdown, a replay or an
  `enforce` stops half-way and what it did so far stays.

The correctness properties of each part are in section 3. The hazards, each at
its line, are in `PROJECT.json`, with the properties that cover them or the
reason why none does.

## 2. Modules

| module | models | abstract specification |
|---|---|---|
| `ProcessRing` | `ProcessSharedRing`: slots, head, len; `cancel` pop by pop | `BoundedFifo`: a sequence with a bound |
| `HostStream` | queue, handles, driver, callbacks, replay, RTP-MIDI port | - |
| `EvictionOrder` | the order queue and its bytes, shared by the next two | - |
| `ContentStore` | `BoundedContentStore`, consent gate, camera pulls, sweeps | `AgeBoundedStore`: keys in order and their bytes; frames leave from the old end only, as far as needed |
| `EffectContract` | `EffectDescriptor::authorize` as an operator | - |
| `EffectSession` | `FakeEffectSession` and its callers; extends `EffectContract` | - |
| `HaloSession` | the Halo session with the Lua frame scheduler | - |
| `HostOpen` | registry and catalog opens with the open plan, while devices move | - |
| `AudioRouter` | the router and provider loading | - |
| `DeviceCatalog` | the catalog beside the router (it extends `AudioRouter`): snapshots, opens from them, live MIDI sites, placements, the probe | - |
| `DeviceSession` | the wrist and VITURE sessions and the observation cassette: bring-up guard, import numbering, typed polls, physical session | - |
| `LanPlacement` | modes, delay arithmetic, bridges and the rewritten envelopes, as operators | - |
| `HostPolicies` | the decisions that keep no state, one call per behaviour; extends `LanPlacement` | their definitions, of the delay in musical time |
| `MC*` | the constants' values for TLC | |
| `*_proofs` | theorems and their proofs | |

Every action is one handler of the code with everything it calls; where the
code can be overtaken (another thread pushes, a device moves) a call is split
at exactly those points: `close` and `cancel` into the queue call, the flag and
the driver; `open_checked` into plan, each recorded effect, second plan and
open; `replay` into its items; `cancel` of the ring into its pops. Everything
that holds `&mut` is one step, and so are the catalog's calls, which borrow the
catalog and the router for as long as they run; selecting a placement and
opening it are two calls, so the router may change between them. Variables marked *history* are not in the
code; they record what happened so that properties can speak of it.

A definition whose comment starts with `Fault:` is a deliberately wrong variant
of the one it precedes, used to show that a property notices such a mistake.
It is never part of `Spec`.

### External code

`StreamValue` (sim-lib-stream-core), the consent check and ledger
(sim-lib-stream-consent), capabilities and effect resolution (sim-kernel), the
native drivers and devices are not in this repository. They are modelled from
how this code uses them: a bounded buffer with an overflow policy, a set of
receipts of which each call sees some, a capability that is or is not held, a driver that stops or
fails, a device that is plugged in, unplugged or reconfigured, an evaluation site that
may refuse a session or fail to close.

## 3. Runs

| run | shows | instance |
|---|---|---|
| `ring` | the filled slots are the window `[head, head+len)`; counters account for every item; the ring implements `BoundedFifo`; a `cancel` that keeps being scheduled ends empty and closed | 3 slots, 2 items, statistics saturating at 4 |
| `host_stream` | one shutdown however many clones close; nothing enters the queue once the driver is asked to stop; the replay report is exact at every moment; each producer's packets arrive in order | capacity 2, one callback with two packets, a cassette of up to two items, two handles, three overflow policies |
| `content_store` | counter, map and order agree; returned evictions are complete; frames are held only under their own session's camera receipt; a sweep forgets exactly the frames with no window left, of any slice of receipts; eviction is by age and no further than needed | 3 bytes, 3 keys, 2 sessions, 4 receipts of which a sweep sees up to 2, ticks 0, 2 and 3, rates 0 and 400, products saturating at 2600 |
| `effects` | bound, one run per key, receipts name the run, what a caller holds as its answer is a run under its own key and no answer without a key is shared, a stopped session is silent and receipts never change | 2 callers, 2 keys and no key, 2 effects of 2 runs each, time 0..2 |
| `halo` | packets within the budget; nothing urgent waits behind decoration; what a packet deferred is exactly what the display still lacks; convergence; samples in order | 3 cells, budget 6, 3 frame changes |
| `host_open` | the effects on record are those of the device that was opened | 2 backends offering the same device id, 2 moves, 2 opens |
| `device_catalog` | rows change owner only by way of being unregistered; a failed load leaves a declared prefix; an unload after a load gives back the rows the load found; what the catalog opens is what it authorized, though one id is listed several times; a site nobody holds was closed; a placement reaches the owner it was selected from unless its key was free since, and no older site; backend names and the probe's candidates are exact | 2 providers and the host, 2 keys, 2 builds of sites, 2 record providers, 1 site opened |
| `device_sessions` | sent commands are the acknowledged ones, applied in order; samples are numbered and replayed without a gap or lost only in decoding; an acknowledged device that runs belongs to a started session | 2 sessions of one provider on any route, 2 commands of ten payloads on both sides of each limit, sequence numbers up to 2 of which 1 is signed, 4 polls of a physical session |
| `policies` | a pinned fragment is never placed in silence; delays are exact below the saturation and there is none only at a tempo of zero; shapes are consistent; an admitted manifest resolves | every call over small inputs, LAN modes with any public values |

Why the bounds are enough. Each instance has at least two of every actor or
item whose interaction is the question, and limits small enough to be hit: the
ring wraps with room on both sides of the head, the queue of capacity 2 fills
with two producers, the store must evict one and two frames for one insert, the
effect bounds are two with three possible users of each, the Halo budget
holds one large cell or two small ones and one cell never fits. Rates of zero
and ticks that run backwards are among the sweeps; the receipts have one sequence
and different windows, so that the first in a slice matters, and 3000 is beyond
the word. The catalog's two providers
offer the same key to the router, the registry exports it too, and a native port
has the id of a modeled one, so that every id that can be listed twice is. The
builds alternate between hardware that plays and modeled sites that record, so
copies of one id may differ in direction and in backend.

The policies stand on integers cut down: `CountMax` = 7 for u32, `WordMax` =
1700 for u64, 4 beats in a bar, a minute of 60 ms. What matters is kept: at the
four beats of the constructor a u32 of bars in milliseconds is still a u64
(`LanAssumption`, a fact of the code's numbers), at other beats it need not be,
and divisions by 7 and 60 leave every remainder. The variants of
`LanPlacementMode` and their fields are public (`src/placement/lan.rs:47-68`), so
`PlanLan` plans modes of any values and not those of the constructors alone. For
a tempo of zero `bar_delay_millis` divides by zero and panics: the model reports
no delay there, `plan` itself still returns Ok, and `to_expr` of such a report
panics too. `DelayExact` is proved for all widths with that room.

In the store `WordMax` is the u64 of the age's product; the byte budget is below
it (`StoreAssumption`), so the byte counter itself never saturates. A call sees
slices of up to `MaxVisible` receipts, in any order. `MaxSeq` and
`MaxSigned` stand for the largest u64 and i64, so that a number can be beyond
the second and within the first; `Foreign` are recorded samples of another kind
than the poller decodes.

Other assumptions, each named in its module: no transport is called "modeled",
which is the probe's word for the fallback (`CatalogAssumption`); the card of a
site has the key of the site, as `ModeledAudioSite` derives it; a registry is one
of a given set of exports; the cells of a Halo display are finitely many, being a
region of an enum and a 16-bit index (`HaloAssumption`); no imported file has
more events than an i64 counts (`DeviceAssumption`); no memory holds such a
file. An open that is refused changes nothing and is no
step. `StubProvider` (`src/device.rs`) refuses every open and keeps nothing.
Time stamps of an effect request are its caller's; the session compares them and
keeps none, so no property is stated of them. Callback threads are not named "tape", the model's producer for the cassette
(`StreamAssumption`).

Types are stated where proofs need them (`TypeOK` of the ring, the effects and
host open; `Typed`, `Shape`, `Consistent`, `RouterTyped` and the like in the
proof modules) and proved rather than run.

### Runs that find a disagreement

* `host_stream_stopped`: `OkMeansStopped` is what `src/backend.rs:34` and `:40`
  say. `shutdown_once` sets its flag before it calls the driver, so after a
  failed shutdown every later close returns Ok and the driver keeps running.
* `effects_ack`: `AcknowledgedMeansRun` is what `src/device.rs:453` and `:458`
  say. The key map is shared by all effects, so a key reused for another effect
  is answered with the first one's receipt and the second never runs.
* `router_replace`: `RegisterReplaces` is what `src/provider.rs:28` says. The
  registrar refuses a key that is registered, also to its owner: in the run a
  provider owns one site, put there by `reload_owned`, and a load whose entry
  offers just that site, once, is refused.

### Deadlock

`ring` is checked for deadlock. The other systems may rightly stop (all
handles dropped, all attempts used, every sample polled, the one call
answered), so their
configurations turn the check off.

### Fairness

* `ProcessRing`: weak fairness of the pops and the end of a `cancel` that has
  begun. It is a loop in one call on one thread; nothing else can run.
* `HaloSession`: weak fairness of opening and of `Tick`. `Settles` says: if the
  owner leaves the session started, repeated ticks bring the wanted frame onto
  the display. The repetition is the host's display clock, which invokes the
  frame effect again while cells are deferred (`FrameDiff::is_complete`); the
  wanted frame changes finitely often in the instance.

No other specification assumes fairness and no other liveness is claimed.

## 4. Proofs

Every invariant and every action property that a passing run checks is proved
for all values of the constants, and both refinements are.

| module | theorem | says |
|---|---|---|
| `ProcessRing_proofs` | `RingInvariant` | `TypeOK /\ WindowFilled /\ Conservation` always |
| | `RingAccounts` | `Conservation` |
| | `RingImplementsFifo` | every behaviour of the ring is one of `BoundedFifo` |
| `HostStream_proofs` | `ShutdownInvariant` | `ShutdownOnce` always, and an Ok close has reached the driver (`OkMeansShutdownTried`) |
| | `ShutdownIsQuiet` | `QuietBeforeShutdown` |
| | `DeliveryInOrder` | `DeliveredInOrder` |
| | `ReplayIsAccounted` | `ReplayReportExact` |
| `EffectSession_proofs` | `SessionInvariant` | all invariants of the run; `SessionBounded` and `SessionReceipts` name two of them |
| | `SessionAnswers` | `AnswersAreRuns` |
| | `SessionSettled` | `StoppedAndSettled` |
| `HostOpen_proofs` | `OpenInvariant` | `OpenedAsRecorded` |
| `DeviceCatalog_proofs` | `OwnersAreStable`, `LoadsLeavePrefix`, `UnloadsUndoLoads` | `OwnerStable`, `LoadLeavesPrefix`, `UnloadUndoesLoad`, of every step of the router beside the catalog |
| | `PlacementsAreAsChosen` | `PlacedAsChosen` |
| | `SitesArePlanned`, `SitesAreReleased` | `OpenedIsPlanned`, `SitesReleased` |
| | `CandidatesAreExact` | `CandidatesExact` |
| `DeviceSession_proofs` | `RunningInvariant` | `RunningIsStarted` |
| | `ListedIsAcknowledged` | `SentIsAcknowledged` |
| | `NothingIsSkipped` | `PolledWithoutGap` |
| `ByteBudgets_proofs` | `StoreIsConsistent` | the inductive invariant of the content store; `BooksAlwaysBalance`, `EveryLossIsReported` and `FramesAreConsented` are `BooksBalance`, `MirrorExact` and `HeldUnderConsent` |
| | `SweepsAreExact` | `SweepExact` |
| | `StoreIsAgeBounded` | every behaviour of the store is one of `AgeBoundedStore` |
| | `PacketsFit`, `UrgentGoesFirst` | `WithinBudget`, `UrgentFirst` of the Halo session |
| | `NothingIsLost` | `DeferredIsRemaining` |
| | `SamplesInOrder` | `PolledInOrder` |
| `HostPolicies_proofs` | `DelayInvariant`, `PinnedInvariant` | `DelayExact`, `PinnedNeverSilent` |
| | `ManifestInvariant`, `ShapesInvariant` | `ManifestResolves`, `ShapesConsistent` |

Assumptions: only the `ASSUME`s of the modules (`Capacity` positive, and so on).
`ByteBudgets_proofs` extends `ContentStore` and `HaloSession`, which share the
lemmas on folds and have no state or constant in common; the specification of the
display session is `HaloSpec`.

**Folds.** Loops of the code are folds over sequences (`FoldLeft`) and over sets.
A lemma takes such a fold apart once, into the accumulator after each
element: the library defines it by a function on sets of positions that is the
next step applied to the value without the largest position. What the fold
computes is then an invariant of that walk, by induction on its length
(`Induction`, from the well-founded order of the natural numbers, and
`SeqInduction`). So no bound on the length of a load, a frame, an eviction
or a cassette enters any theorem.

* **Ring.** `TypeOK`, `WindowFilled` and `Conservation` are inductive together.
  The refinement maps the queue to the window read in order from the head; the
  lemmas are about modular indices (two positions closer than the capacity do
  not collide, the tail is outside the window, popping shifts the window).
* **Host stream, shutdown.** Neither property is inductive. `FlagCounts` ties the flag to
  the number of shutdowns, `ClosedFirst` says that whoever is at the driver or
  has been there closed the queue first; a closed queue stays closed and takes
  no packet, which is the lemma `ClosedPush`.
* **Host stream, delivery.** `DeliveredInOrder` says nothing of the queue, so it is
  not inductive. `OrderInv` adds that what was delivered followed by what is
  queued is one sequence in which each producer's numbers rise, and that they are
  below the number that producer hands in next. Every overflow policy removes
  packets from that sequence or appends one with the upcoming number
  (`PushInOrder`); draining moves the boundary (`FrontMoved`).
* **Host stream, replay.** The report is compared with the set of the cassette's
  packets that ever were in the queue. `ReportInv` adds that no packet beyond those
  replayed is among them (`TapeBelow`), so that the next one that enters makes the
  set larger by one.
* **Effect session.** `KeyRunsOnce` is not inductive: it needs
  `RunsRemembered`, that the key of every keyed run names a receipt. The count
  of runs of an effect is a cardinality, which the lemma on appending a run
  moves by one.
* **Host open.** `OpenInv` follows an attempt: what it has recorded and what is
  still pending make up exactly what was planned from the first backend that
  offered the device, and earlier records belong to earlier attempts. The first
  offer exists because the natural numbers are well-founded.
* **Router.** A load is a fold of registrations: after i elements the new sites are
  the first i of the offer, or the load has failed on one before and nothing has
  changed since. Ownership follows from registration refusing an occupied key. While
  a load is the last call, the rows it found of other owners are still the rows of
  other owners (`OthersOnRecord`), so an unload gives just these back.
* **Placements.** `RowsMade` says that every registered site was made before now. A
  step keeps the owner of a row, may make its site anew, or puts a new site on a
  free key (`RowsRenewed`), so a choice stands (`ChoiceStands`): while its key was
  never free the row there has the owner it was chosen with, and is never older.
* **Catalog.** A listing is a concatenation along the providers and `open` finds the
  first row with the id in it; the row is the same for the plan and for the open,
  since both go through one enumeration of one catalog. `HandlesInv` says of each
  handle what `OpenedIsPlanned` and `SitesReleased` ask.
* **Device sessions, devices.** Opening a session clears its flag, so the induction needs
  that a session not open has no running device, and that a route without a
  physical session runs none.
* **Device sessions, commands.** `Acknowledged` adds that commands are numbered in the
  order of their attempts, below the number of the next attempt, in what is listed
  as well as in what a device acted on: so the latest is none of the earlier ones
  and comes last in both.
* **Device sessions, polls.** `Exact` adds what the next poll will hand out: the
  counter of a physical session is the number of its polls, saturated, and what is
  left of an import continues what was polled.
* **Content store.** `Consistent` ties counter, map and order together (`Balanced`) and
  remembers the receipt of each held frame. A sweep lets go of just the frames whose
  first window in the slice has passed (`ExpiredExact`), in milliseconds of a product
  that is cut off at the word (`ElapsedExact`). One lemma says what a turn of the
  eviction loop does; along its turns the oldest keys go one by one until the frame
  fits, which makes their number the smallest that leaves the room. The refinement
  maps the store to its order and sizes.
* **Halo session.** A tick is one pass over the changed cells in scheduling order:
  `Scene` says that the last packet is such a pass and that the glasses show what
  is committed. Along the pass the bytes stay within the budget, a deferred cell
  found it taken by cells no less urgent, and what is committed and drawn is the
  frame wherever a cell was sent; what is left is what was deferred. For the samples,
  `Polls` says that what was polled of a kind followed by what is queued of it is
  what was recorded of it.
* **Policies.** The two saturating products saturate where the product of all three
  factors would (`SaturatesOnce`), so a delay is the capped time divided once, with
  a remainder less than the tempo. With the constructor's beats the widths leave
  room (`LanAssumption`) and nothing is capped. The envelopes are rewritten one by one, each to its own index. A registry
  has as many ids as descriptors, which for a finite sequence means that no two of
  them share one, whatever its length. The model offers registries of up to two
  descriptors with two ids, and the music vertical's four; the lemma
  (`RegistryResolves`) is about any sequence of descriptors.

Only model-checked: liveness (`CancelDrains`, `Settles`), since neither fairness
nor `ENABLED` is within the prover's reach, and the three disagreements, which
are counterexamples.

## 5. Not modelled, and why

`IngestWorn` and `PlaceGlasses` are modelled without a property: the consent for
worn events and the route table of glasses are one table and one conjunction each,
and a property could only repeat them; their refusals and routes are enumerated in
`src/watch_tests.rs` and `src/glasses_placement_tests.rs`. In `IngestWorn`,
`heart-rate` stands for every sensor the code has no case for. A Carina pose that
`carina_pose_sample` refuses is gone from the device, which is not part of
`DeviceSession`; the session is as if there had been no pose (`PollPhysical`).


* The contents of packets, samples, frames, glances, Lua text and commands:
  they are identities, sizes, kinds and sequence numbers here.
* Parsing and printing of configuration, cards, inventories and the cookbook:
  text or expressions in, text or expressions out. Of a card the catalog's model
  keeps what a direction is computed from.
* Transports (`ble.rs`, `relay.rs`, `zepp.rs`): lists of samples. The pose
  arithmetic of the VITURE session. Decoding of
  imported rows and of command fields: a line is what the parser sees in it, a
  command is an identity and whether it needs the device.
* xtask: repository tooling.

## 6. Plan

The order so far: the ring and its abstract queue, the host stream, the content
store and its abstract store, the effect contract and session, the Halo display,
host open, the audio router, the device sessions with typed polls, the device
catalog with live MIDI sites and the probe, LAN placement and the other
decisions. What is left, by importance:

1. **Catalog and moving devices.** `HostOpen` lets devices move between the plan
   and the open and `DeviceCatalog` keeps copies; a module with both would say how
   stale a copy may be when it is opened.
2. **Properties for proofs to come.** Eight modules hold theorems and every safety
   property has one; what is proved next comes with the abstract specifications
   and properties below.

Abstract specifications still to state: a stream that is open, closing or closed
and whose driver is stopped once, for `HostStream`; a register of owned rows,
for `AudioRouter`; a journal of acknowledged commands, shared by
`EffectSession` and `DeviceSession`.

Properties still to state: samples after `stop` (`src/device.rs:155` says it
stops sample processing; the wrist and VITURE sessions go on delivering), and
what a descriptor that requires a key promises about retries
(`src/device.rs:211`).
