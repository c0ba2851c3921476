# Urdr in TLA+

Urdr is a deterministic simulation laboratory: a seeded world kernel runs a
roster of modelled components, every nondeterministic decision is a recorded
choice, and a failing run is searched for, shrunk, certified and replayed byte
for byte. This directory holds TLA+ modules for the parts of it whose
correctness is a matter of *order and state* (the kernel, the fault and network
models, the driver, the event log and its verification, shrinking, the adapter
protocol) and for the pure algorithms those rest on (codecs, property
evaluation, the NetKAT policy), TLC configurations that check them on small
instances, and proofs that TLAPS checks for every instance.

The values the program passes around (canonical records, names, packets) are
members of small sets here, outside the codec modules. What the properties need
of a value is kept: the byte order that lists must ascend in, whether it
encodes, whether it claims a reserved authority. Wording and hashes are left
out.

Paths below are relative to the repository; `PROJECT.json` maps every definition
to the lines it translates. A definition under a comment that starts with
`Fault:` is not code: it is the mutated form of the definition after it, used to
show that a property can fail.

## 1. The system and its parts

### How the parts interact

    scenario declaration ──> roster, routes, budgets, properties
                                   │
    run driver ── schedule/advance ──> world kernel ──> component handlers
        ^  │                             │  ^               (net, timer, fault,
        │  └─ draws from ── search ──>   │  └─ routed facts   crash wrapper around
        │     strategy streams          │     at once        scenario processes)
        └────── menus, facts, transcript ┘
    run driver ──> properties and queries ──> failure signature
    failing transcript ──> shrink (oracle = replay + properties) ──> certificate
    certificate + event log ──> replay verification
    UAP endpoint (Python adapters): frames ──> transport ──> endpoint ──> backend

The Shen side is single-threaded and pure: a reduction takes a world and an
input and returns a world or an error. What makes it hard is the *order* in
which submitted inputs, routed deliveries, menus and their answers meet in one
queue, and that everything not recorded must be derived again identically.
The Python side is a protocol endpoint: a caller retries, cuts, repeats and
reorders, and a backend may fail.

### Inventory

| part | state it keeps | operations | what is hard | correct when |
|---|---|---|---|---|
| World kernel `shen/world/world.shen` | time, next identifier, pending queue, cascade count, stream counters, component states, facts, verdicts, transcript | schedule, advance, rollback; dispatch of choice, component, command, property and branch events; route, replay | routed deliveries between submitted ones, a budget that trips half way, replay of what was never recorded | one total order of events; none lost; cascades finite; refused steps leave nothing; replay gives the world back |
| Component contract `component.shen` | none | validation of a handler's result | a handler is any code | no value in the world claims a kernel authority, everything is stamped with its own event |
| PRNG `prng.shen` | a counter per stream | draw by rejection, coordinates | two draws of one coordinate | streams are isolated by path |
| Fault model, crash wrapper `models/fault.shen` | active faults per domain; running/crashed, absorbed count, inner state | activate, deactivate, pulse; crash, restart, absorb | overlapping domains, inputs that arrive at a crashed process | faults arrive where they were decided to, a restarted process knows nothing of its former life |
| Network model `models/net.shen`, `mask.shen` | masks in force, queue per link | send, deliver, duplicate, drop, mask, unmask | a packet is judged when delivered, not when sent; alternatives name indices | no delivery crosses a mask, packets are conserved, menus are exact |
| Timer model `models/timer.shen` | armed deadlines | set, cancel, fire, poll | cancel and fire at one instant | each deadline ends once and never early |
| Partition-retry scenario `run/models/partition-retry.shen` | client, relay, server, network, fault processes | their inputs | the mask and the reply in one queue | one request in flight; the fault's decision alone decides the outcome |
| Run driver `run/run.shen` | attempt, steps, open menus, counter, summary | boot, advance, resolve, deliver, judge, abort | budgets, menus published while others are answered | exact budgets, each menu answered once in order, draws never repeated, the certificate replays, the run ends |
| Search `search/search.shen` | strategy streams, attempt | draw, explore loop, records | counter ranges | no coordinate reused (partly modelled, in the driver) |
| Shrink `shrink/shrink.shen` | transcript in hand, class, indices | classify, delete, restart | indices move with every acceptance | the failure persists, each class exhausted, it ends within a square |
| Event log, replay, certificate `eventlog.shen`, `replay.shen`, `certificate.shen` | records chained by state roots | record, link, root, verify, classify the first divergence | overlapping classes of divergence; identifiers of the world and of the log drift apart | causes are traced, an alteration is classified by its first difference, a diverging engine is caught at the first record that binds the difference |
| Properties, queries `properties/*.shen` | none | evaluate a formula on a trace, search a goal | deadlines and windows at their last instant, facts of one instant | a verdict about what has happened is never taken back (queries: not modelled) |
| NetKAT and the witness bridge `netkat.shen`, `netkat-witness.shen` | none | validate, denote, compare and reach; replay a witness | stars, negations, packets that wait already | the denotation is the meaning of the term, a verdict is true of the running network |
| NetworkPolicy `netpol.shen` | none | compile admission | default-deny, overlapping selectors | not modelled |
| Scenario declarations, grammar, registry | none | validate, expand, bind | cross references | handlers by kind; the rest is not modelled |
| UAP endpoint `adapters/common/uap/protocol.py` | sessions, request fingerprints, idempotency entries | hello, command, poll, collect | retries before and after completion, failure or reclaim | an effect happens once per key; observations agree; errors are confined |
| UAP transport `adapters/common/uap/transport.py` | decoder buffer, failed flags | feed, finish, serve, exchange | every chunking of every stream | chunking changes no effect, answers in order, fails closed |
| Canonical values `adapters/common/uap/codec.py`, reference codec `spikes/m0-candidates/canonical-rfc9804/codec.py` | buffer of the incremental decoder | encode, decode, frame, feed | limits kept by one direction only, second spellings, chunks | encoding and decoding are inverses, the two codecs agree on values and errors, frames delimit themselves |
| Integers `integer.shen` | none | base 10000 arithmetic | carries | the text and the limbs of an integer, as the codecs hold it; the arithmetic is not modelled |
| Scripts, other spikes, `SPEC.md` guests/broker/snapshots | – | – | – | not modelled: no state of the program, or no code at all |

`PROJECT.json` lists each with its status and reason, and under `hazards` the
behaviours above at the line where each one bites.

## 2. The modules and the code

    Component, Prng ─> Reducer ─> World
    Reducer ─> EventLog ─> ReplayVerify;   World + ReplayVerify ─> Recording ─┐
    Verdicts;                              World + Verdicts ─> Judgement ─────┴─> MCWorld
    Reducer ─> Driver ─> MCDriver
    Driver + PartitionRetry + Crash + Verdicts ─> PartitionScenario
    ModelCommon ─> Netkat, Timer, NetModel;   NetModel ─> FaultModel
    NetModel + Netkat ─> NetPolicy
    World + Timer + Crash ─> Lifetimes;   Lifetimes + FaultModel ─> Models
    Models + NetPolicy ─> Witness ─> MCModels
    EffectOnce <─ UapEndpoint ─> MCUap      Digits ─> Framing ─> MCFraming
    Digits, Csexp ─> UapCodec, ReferenceCodec ─> Codecs ─> MCCodecs
    Shrink ─> MCShrink
    proofs: LeftFold ─> ReducerProofs, Models ─> WorldProofs (the kernel, its components)
            WorldProofs, Recording ─> RunProofs (the event log);   ReducerProofs, Driver ─> DriverProofs
            Shrink ─> ShrinkProofs;   UapEndpoint ─> UapProofs;   LeftFold, Framing ─> FramingProofs

| module | code | how it corresponds |
|---|---|---|
| `Component` | `shen/world/component.shen` | `CheckStep` applies the validations in the kernel's order; a handler's result is any record with a `type`, good or bad |
| `Prng` | `shen/world/prng.shen` | `Sample` follows rejection sampling block by block over an arbitrary function `Hash`; `Coordinates` is what identifies a draw |
| `Reducer` | `shen/world/world.shen` | pure operators: one per function of the kernel (`InsertEvent`, `Schedule`, `Advance`, `RouteEnqueue`, `ComponentCommit`, `Choose`, `ApplySelected`, `Replay`), each from a world and an input to `[world, error, choices]` |
| `World` | the callers `urdr.world.replay-h`, `urdr.run.apply` | the state machine: any input in any order, until a reduction carries an error. `dispatched` is a history variable |
| `EventLog` | `shen/world/eventlog.shen` | `Plan` reads from a world what the next input's record will say, before the input is reduced; `OfRun` is the log of a transcript, records with their parents, states and roots. A digest is represented by what it digests |
| `ReplayVerify` | `shen/world/replay.shen` | what an artifact records, the classification of a candidate transcript, the re-drive and the comparison of records, root and final state, in the code's order |
| `Recording` | users of the two | every run of the kernel with everything a verifier may be handed: altered transcripts, altered artifacts, an engine with other handlers |
| `Verdicts` | `shen/properties/properties.shen`, the signature in `shen/world/certificate.shen` | trace validation and the evaluation of each property form, with its witness |
| `Judgement` | its callers | the evaluator over every world of a run |
| `ModelCommon`, `NetModel`, `FaultModel`, `Timer`, `Crash` | `shen/world/models/*.shen` | one operator per handler, from state and input to a step |
| `NetPolicy` | `net.shen` (`active` and what it composes), `mask.shen` | the term that the network composes of its links, its masks and the baseline, and what its compilation gives |
| `Netkat` | `shen/world/netkat.shen` (its header space in `ModelCommon`) | terms, their validation and node count, denotation as a set of packets from a packet, equivalence and reachability over the declared header space |
| `Witness` | `shen/world/netkat-witness.shen` | a verdict compiled to a schedule and replayed by the network's handler from the state it is in |
| `Lifetimes` | `timer.shen`, `crash.shen` as components of a world | what a history of facts and states says of one timer and of one wrapped process, whatever else is in the world |
| `Models` | `shen/world/models/registry.shen` | dispatch by declared kind, over `World`; the properties of models at work together |
| `Driver` | `shen/run/run.shen` | one action per loop of the driver (`urdr.run.boot`, `advance`, `resolve`, `deliver`, judgement); every input goes through `Apply`, which charges, reduces, checks the event budget and collects menus |
| `PartitionRetry`, `PartitionScenario` | `shen/run/models/partition-retry.shen`, `scenarios/abstract/partition-retry.shen` | the five processes as operators, and the declared routes, budgets and properties under `Driver` |
| `UapEndpoint` | `adapters/common/uap/protocol.py` | one action, a received message with what the backend does; inside it the handlers of hello, command, poll and collect with every early return |
| `EffectOnce` | `protocol/uap.md` sections 4 and 6 | the abstract specification `UapEndpoint` refines |
| `Digits`, `Csexp` | `adapters/common/uap/codec.py` | bytes; the parser, the typing of nodes, the renderer and their limits, shared by the two codecs as the code writes them twice |
| `UapCodec` | the same, with its integers, encoder and frames | integers as sign and limbs; the encoder reads back what it wrote |
| `ReferenceCodec` | `spikes/m0-candidates/canonical-rfc9804/codec.py` | decimal integers, an encoder that counts values, the incremental frame decoder |
| `Codecs` | their callers | a value is encoded, its frame altered and sent; each codec reads what arrives |
| `Framing` | `adapters/common/uap/transport.py` | `Take` is the incremental decoder, `Feed` and `Finish` the server, `Receive` one read of any size from a socket or one call in process |
| `Shrink` | `shen/shrink/shrink.shen` | `TryCandidate` one oracle call with acceptance or refusal, `NextClass` the end of one class |
| `*Proofs`, `LeftFold` | – | lemmas and theorems |
| `MC*` | – | the instances of section 3 |

What the models keep, beside the main path:

* A refused step leaves its event popped but nothing else changed, and the
  transcript entry stays on the returned world.
* Routed deliveries and draws are not on the transcript; `Replay` derives them.
* The crash wrapper acts on a crash or restart control whatever members the
  control's value names: its route alone decides who hears it.
* A restart, whether of another domain or by pulse, brings a process back while
  a crash fault stays active; `FaultsLand` says exactly that.
* A `delay` mask admits everything; it is in force without any effect.
* The timer publishes its menu on its own inputs only, so its menu is exact at
  the time of its last input and says nothing of deadlines that time reaches
  through another component. `TimersConserved` is about what the timer does with
  an answer, whenever its menu was published; `MenusExact` judges the menus of
  the network and of the fault model.
* An exception in the transport loses the answers collected so far but not the
  effects, and leaves the server unfailed.
* The shrinker compares component names with `fault`, `net` and `timer`, where
  rosters carry `fault-0` and `net-0`; the instances use both.
* The adapters' `decode_frame` reports bytes after a frame before it reads the
  payload, the reference codec (as `canonical.shen`) after; where both faults
  are present their codes differ, and `CodecsAgree` excepts exactly that.
* The reference encoder counts values and keeps neither the decoder's limit on
  nodes nor the one on the depth of a list, so it writes frames that no decoder
  takes; `EncodingsInvert` says when.
* Verification never reads the artifact's root over the transcript. A difference
  in the number of records, and a final state that differs while every record
  agrees, are reached only by an altered artifact or (the latter) an empty
  transcript: the records bind the states they lead to.
* A re-drive that diverges and then fails reports the failure only, and which
  failure it was is read off its code: a component may use the kernel's.
* What a snapshot binds leaves out queue payloads and transcript contents, and
  neither a snapshot nor a record holds published menus, commands or the
  outcome of a draw. `DivergenceLocated` shows where a difference in these
  surfaces nevertheless.
* The registry stores the network's baseline policy unchecked; a bad one makes
  every network input that needs the policy refuse, and the model keeps that.
  Topology is a union of tests on headers, so a packet is admitted if *some*
  link carries its addresses, not only the one it is queued on.
* The code composes and compiles its policy before it looks at the input, so a
  network whose masks compile to no policy refuses every input, a poll and a
  removal of the mask too. `NetStep` reads the compiled policy of a set of masks
  from `Policies`, and `NetPolicy` says which one that is; the handler's module
  is thereby free of recursion. `NoCrossing` in turn reads what each policy
  should make of a packet from the masks' own definition (`Admits`) and from
  `BaselineMakes`, the baseline's denotation.
* The witness bridge takes the first alternative of its delivery menu. If
  packets wait on that link already, the older one is delivered and the verdict
  stays unconfirmed; `WitnessesExhibited` says when a verdict is confirmed.
  `Witness` chains the network's handler and leaves the kernel around it out: the
  bridge's world has one component and no routes.

## 3. The runs

Every run is a question. "Bounds" says what is small and why that is enough.

| run | what it shows | bounds |
|---|---|---|
| `world_routing` | `DispatchOrder`, `EventsConserved`, `CascadeBounded`, `RoutedOnce`, `ReplayAgrees`, `RefusedWhole` for three components whose routes feed each other, to one component and to a node of two; `VerdictsSettle` for properties of every form over their facts | 3 submissions at 2 instants, past and malformed ones too, advances and rollbacks anywhere; the route limit 8 is reached by the cyclic routes, so refusals by budget happen at the first, a middle and the last delivery of a step; a deadline at 0 and a window of 1 end on an instant of the run |
| `world_inputs` | `Provenance`, `NoAuthorityClaimed`, `StreamIsolation` for every form of handler result, illegal input, drawn and recorded choice, property, command and branch event; `CausesTraced`, `AlterationsClassified`, `DivergenceLocated` for the log of each of those runs | 3 submissions: two interact, one is between them; the PRNG hash makes draws reject and read a second block; every single cut, insertion, swap and change of a transcript, every forged or missing record; a second engine whose handlers keep another state, publish another fact or none, raise, or fail: its verification ends in each of the five verdicts a re-drive can have |
| `model_faults` | `FaultsLand`, `ProcessLifetimes` for two overlapping domains, crash, restart pulse, partition, a process and the network; `TimersConserved` for deadlines before, at and after their instant | 4 inputs, at most 2 ahead of the queue (`FewPending`): crash, work, restart, work needs four; of faults or of timers (`OneSubject`: the two share no state) |
| `model_net` | `NoCrossing`, `PacketsConserved`, `MenusExact` for packets that wait while masks come and go; `WitnessesExhibited` for a verdict on each policy the network gets into | 4 inputs, at most 2 ahead of the queue, and ahead only where the fault model is in between (`AheadOfFaults`: the network alone takes inputs in order); at most 3 packets wait on a link (`MaxQueue`); policies of up to 43 nodes (`MaxTermNodes`): a partition and a drop fit exactly, three masks do not, so the refusal of an oversized policy occurs |
| `driver_budgets` | `BudgetsExact`, `DrawnOnce`, `MenusAnswered`, `DiscoveryReplays`, `RunEnds`, no deadlock | 3 attempts; processes that republish their menu for ever, flood, raise, and produce traces that cannot be judged: each way an attempt can end occurs, in each order of attempts |
| `partition` | `OneInFlight`, `PartitionDiscovered` of the repository's reference scenario with its own budgets and routes, judged by `Verdicts`; the witness of the failure is the first request | the scenario's own sizes (three tries, 32 steps, 32 events), not reduced |
| `shrink` | `FailurePersists`, `EvaluationsBounded`, `ClassExhausted`, `ShrinkEnds` for every oracle | every transcript of up to 4 entries over one entry of each sort, and longer ones laid out as the driver writes them; pairs, both halves alone, and a pair made by an earlier deletion occur |
| `uap` | `ImplementsEffectOnce`, `ObservationsAgree`, `RequestsBind`, `ErrorsConfined` | every sequence of 4 messages out of 22 in two sessions with one key each: start, complete, reclaim and retry is four; every backend answer at each |
| `codecs` | `EncodingsInvert`, `CodecsAgree`, `FramesDelimit` for values of every type and for frames with a byte changed, added or taken away, before or after framing, with another frame behind, cut anywhere | frames of 30 bytes, atoms of 4, depth 3, 10 nodes, symbols of 2, integers of 3 digits in limbs of 2: values lie at each limit and one past it, and an integer has a second limb; one alteration (`MaxEdits`), over the bytes that mean something and two that do not; a tag, and true and false, is one letter |
| `framing_chunks` | `EffectsIndependentOfChunks`, `AnswersInOrder` | every stream of up to 3 pieces and every chunking of it, both transports; pieces combine into each framing error, each incomplete frame, and a payload whose answer does not fit a frame |
| `uap_start` (violated) | the sentence of `protocol/uap.md:204-205` that `start` is called once on first use: a `start` that raises is called again by the retry | 3 messages |
| `framing_codes` (violated) | the sentence of `protocol/uap.md:43-44` that chunk boundaries cannot change bytes: an over-long header ends in `frame-length` or in `frame-too-large` depending on the cut | as `framing_chunks` |

The last two are disagreements between a document and the code, listed under
`findings`. In both the effect-level promise still holds (`ImplementsEffectOnce`
counts the starts that handed over an operation; `EffectsIndependentOfChunks`).

Deadlock is checked for the driver, whose `Returned` step stands for a driver
that has returned. It is switched off where the program stops by design: the
kernel's callers stop at the first error, a stream and a message sequence end,
minimization returns. Without `CHECK_DEADLOCK` the states after the last input
would be reported.

### Fairness

Only sequential loops get any. The driver is one loop that keeps going until it
returns, so some step is always eventually taken while it has not returned:
`[]<>Ended \/ []<><<Next>>_vars`, which is `WF_vars(Next)` with its `ENABLED`
written out (evaluating `ENABLED` of a whole reduction is what makes TLC slow).
`RunEnds` rests on it: processes may offer menus for ever, the budgets end it,
and then every attempt is accounted for.
The shrinker is a function that is called and runs: `WF_vars(Next)`. No fairness
is assumed of components, of the peer of a connection or of a backend, and
nothing is claimed that would need it.

## 4. What is proved

Eight modules hold theorems: `LeftFold` (what a left fold computes),
`ReducerProofs` (lemmas on the kernel's operators), `WorldProofs`,
`RunProofs`, `DriverProofs`, `ShrinkProofs`, `UapProofs` and `FramingProofs`.
`PROJECT.json` names the results a reader should know of.

**Assumptions.** Only those the modules state with `ASSUME`, which TLC evaluates
in every run: the constants' types, that ranks of values order them, that
transcripts are sequences of inputs, that a stream is a sequence of bytes.
Handlers, route tables, registries, the hash, the oracle, property evaluation,
messages, the backend, what a payload decodes to, which responses fit a frame and
the limit of a frame are arbitrary.
Some theorems have hypotheses of their own. `RecordsHaveProvenance` supposes that
the rejection loop of a draw ends (`DrawsEnd`). `TimersAreConserved` supposes that
the timers of the roster are served by the timer's handler (`TimersServed`) and
that the byte order tells deadlines apart (`DeadlinesRanked`; `MCModels` checks
it of its deadlines). `ProcessesAreCrashAware` supposes that the processes run in
the wrapper, with an inner handler that leaves the wrapper's two words alone and
counts what it does (`ProcessesWrapped`).
The three theorems about networks suppose that the networks, and for the menus
the fault models, are served by their models (`NetServed`, `FaultServed`), which
`ModelHandler` says of the code's registry. `MenusAreExact` needs moreover that
the byte order tells apart the alternatives of one menu (`ActionsRanked`,
`AlternativesRanked`), and `NothingCrosses` that the policy of a set of masks
makes of each packet what the masks and the baseline say (`PoliciesMean`) and
that the order tells a baseline's outputs apart (`OutputsRanked`). Each of these
is an `ASSUME` of `MCModels`, evaluated over all its actions, queues, masks and
headers: `PoliciesJudge` evaluates the composed NetKAT term of every set of masks
in use on every packet. What is left open is only that the composition means
this for terms of every size, which is an induction over terms.
`FaultsTakeEffect` supposes, beside models in their places, what a roster that
uses the fault model does: its words for networks and processes are routed to
each of them and its notes to none (`FaultsAreHeard`, with one fault model, see
section 5), two faults have two mask identifiers (`MasksAreTold`), and neither the
caller nor another component gives those words (`CallersLeaveWords`,
`OthersLeaveWords`). The first three are `ASSUME`s of `MCModels`; the last holds
there because only the fault model has routes.

**Folds** (`LeftFold`). Replay, routing and commits are folds, and an induction
over data is out of the provers' reach as the library states it: its induction
theorems take a predicate as a parameter. Two things get around that. A property
of one fixed set of naturals is proved from the smallest element outside it
(`Inductive`, from the well-foundedness of `<`), with no predicate involved; and
the step of the fold is a constant of the module, so `INSTANCE LeftFold` with the
kernel's step, or the decoder's, gives the two equations of *that* fold
(`FoldedEmpty`, `FoldedMore`) from any base, which is all the proofs need: the
fold of a history that is one entry longer.

**Order and conservation** (`WorldProofs`, `Spec => []DispatchOrder`,
`Spec => []EventsConserved`). Neither is inductive. That popped events precede
pending ones needs that nothing pending lies before the current time and that
a new event comes after everything due at its instant, which needs that every
identifier in use is below the next one; conservation needs the identifiers of
the pending queue to be distinct. `QueueInvariant` is the conjunction: a
well-formed sorted queue, everything dispatched before everything pending, the
identifiers exactly those handed out. Its step has one case per action; under
`AdvanceToNextEvent` the routing is the induction over a step's deliveries,
replaced by a closed form: the fan-out of one step is a block of consecutive
identifiers inserted at one place (`RouteEnqueue`).

**Draws** (`WorldProofs`, `Spec => []StreamIsolation`). That two draws share no
coordinate needs that a draw's coordinates are told apart by their counter:
`StreamInv` adds that every draw so far took its coordinates on its own path, at
one counter below the stream's, and that the draws of a path are finitely many.
One case of `Dispatch` moves a stream, by one, and takes all its coordinates at
the counter it found, whatever the hash rejects.

**Replay** (`WorldProofs`, `Spec => []ReplayAgrees`; `DriverProofs`,
`Spec => []DiscoveryReplays`). The transcript of the world in hand, without what
was routed and drawn, replays to that world. A replay is a fold over the
transcript, so a step has to show that one more record replays to what the step
did: a submission is scheduled under the identifier and with the place it had, a
popped event is popped again because the replayed world is the recorded one. The
case that needs work is the refused step, which leaves its record on a world
without its effects: `ReplayInv` says what the replay is while no reduction has
failed and what it is in front of the one that did, and that nothing failed
before. In the driver there is no such case in a discovered run (a failed
reduction aborts the attempt), but the world must also be free of draws of its
own: `RunInv` adds that nothing pending is a drawn choice, because the driver
submits recorded ones only.

**Refusals and authorities** (`WorldProofs`, `Spec => [][...]` for
`RefusedWhole`, `Spec => []NoAuthorityClaimed`). The first is a case split over
every exit of `Advance` and `Schedule`, the second an invariant over what each
handler result must pass before it reaches the world, whatever the handler is.

**Types of a world** (`WorldProofs`, `Spec => []TypeOK`, the lemma the next
result needs). The times of what is
pending, the streams and the states keep their types because the contract has
judged every state and routes deliver at an instant in use; the transcript has
exactly one record per submission and per popped event. It rests on the queue
invariant: what an advance pops must be dispatchable.

**Cascades** (`WorldProofs`, `Spec => []CascadeBounded`, cyclic routes
included). The property counts the routed events of an instant; the code keeps a
running count and forgets it when time moves. `CascadeInv` relates them: the
routed events of the current instant are exactly as many as the count says, and
a later instant holds submissions only. The step that routes needs that the
deliveries it inserts are new (the queue invariant) and that their instant is the
current one; the step that moves time needs that nothing of an instant to come
was routed.

**Deliveries** (`WorldProofs`, `Spec => []RoutedOnce`). For one component, one
value and one instant, the events that carry the value to it are as many as the
submissions of it and the (fact, route) pairs that reach it together. `RoutedInv`
says so of the events popped and pending, for all components, values and instants
at once, since one step adds facts of one instant and deliveries of many
components. A step's deliveries are a bijective image of the pairs its facts make
(`RouteOrderIsBijection` in `ReducerProofs`): the order the code sorts them in
loses none and repeats none, because names in a registry and in a node are
distinct. A refused step adds neither a fact nor a delivery.

**Provenance** (`WorldProofs`, `Spec => []Provenance`). Facts and menus carry
the identity of the event that produced them because the kernel, not the
component, stamps them (`Accounts`). That a choice selects an alternative of its
own needs two more facts: a pending choice is still as its caller submitted it
and as the door admitted it (`Sound`, carried for every pending event by
`ProvenanceInv`), and a draw computes an index below the number of alternatives,
which is where the hypothesis comes in: `DrawsEnd` asks that for each draw a
caller submits the hash is a number and the rejection loop finds an acceptable one
among the blocks it may read. Without it the code would loop for ever; the model
would choose an arbitrary block.

**The driver** (`DriverProofs`, `Spec => []BudgetsExact`, `Spec => []DrawnOnce`,
and that every attempt is accounted for). `DriverInv` has a part for the world in
hand (the kernel's queue invariant, reused, so that an attempt's transcript has
an entry per step), one for the counter, one for the draws, one for the summary
and one for the phase. An attempt draws at most once per charged step, and the
ranges of two attempts lie `MaxSteps + 1` apart, so a draw is new in its attempt
and in the run. Exhaustion is claimed only by a summary that counted a completed
attempt.

**Menus** (`DriverProofs`, `Spec => []MenusAnswered`). The menus a run has
published are those its selections have answered, in order, followed by those
still open, and the open ones are in two places: the rest of the round in
`queue`, then what arrived meanwhile in `menus` (`Waiting`). Between a selection
and its delivery the head of `queue` is not a menu but the delivery itself, so
`CarriedInv` says apart that every past selection was followed by the delivery of
what it selected and that the last one's delivery is that head. A reduction
appends the menus it publishes at the end of both lists and none carries a time
later than the world's; a restart and an abort leave nothing open.

**Timers** (`WorldProofs`, `Spec => []TimersConserved`). Per timer, from the
handler's answers alone (`TimerMoves`): the deadlines it arms, fires and cancels
add up, a deadline fires at an instant not before its own, and an identifier is
armed once at a time (`TimerOK`). That the menu shows what is due needs a second
part, `MenuOK`: the last answered menu is what was due at the instant of the
answer. A step of the kernel either gives the timer's answer to its state and
adds one fact, or leaves both; the facts of other components do not count.

**Processes** (`WorldProofs`, `Spec => []ProcessLifetimes`). `ProcessOK`
relates the status word to the latest fact about it (crashed or restarted), the
count of absorbed inputs to the facts since, and what the process knows to what
it did since it last started. The step follows the paths of the wrapper: an input
absorbed while crashed, a crash, a restart, and an input handed to the inner
handler.

**Networks** (`WorldProofs`, `Spec => []PacketsConserved`). The handler's answers
are first read as moves (`NetMove`): a send, a packet taken or copied from its
queue, a mask installed or removed, a poll. `NetInv` has two parts. Per network,
link and packet there is a balance (`InBalance`): the `queued` facts are as many as
the positions at which it waits and the dispatches that took it off together; a
packet nobody queued is therefore never taken. And facts are dated
(`FactsDated`): each carries the identifier of a dispatched event, so that what the
next step tells is counted for that step and no other (`NextIsNew`); this is where the kernel's invariants enter, which make the
identifier of the next dispatch a fresh one. A baseline that makes many packets of
one tells many deliveries of one taken packet, which is why dispatches are counted
and not facts. The proof found one error of the model: the alternatives of
`StepUnder` were a `CASE` whose guards overlapped (a failed policy and the
input's kind), which TLC reads in order and the language does not; they are an
`IF` and a `CASE` now, in the order of `urdr.model.net.step`.

**Menus of models** (`WorldProofs`, `Spec => []MenusExact`). `MenusInv` says that
the last menu a fault model or a network published is the menu of the state it is
in: only an answer changes the state, every answer publishes, and a refusal leaves
both. That state has a compiled policy, or its step would have been refused, so
what a menu offers the handler would take; that it offers all the handler would
take, each once and in the code's order, is about `Sorted`, which is a sorting
only where the order is strict on what is sorted.

**Crossing** (`WorldProofs`, `Spec => []NoCrossing`). The property reads the masks
in force at a fact from history: those sent and told before it and not lifted in
between. The handler reads them from its state. `CrossInv` relates the two: the
masks of the state are those in force at the end of the history (`MasksIn`), a
`masked` fact names the mask it answers (`WordsMatch`), and every fact so far was judged under the masks in force at it (`Judged`). One more step leaves the
masks in force at earlier facts as they were, because its facts come after them;
it judges its own facts by the state's masks, whatever was in force when the
packet was sent or its menu published.

**Faults** (`WorldProofs`, `Spec => []FaultsLand`). The property is about an empty
queue; the invariant `LandInv` is about words on their way. Of the pending words
about one mask, or to one process, the one with the greatest identifier says what
the fault model has decided last, and when none is pending the receiver is as
decided (`Lands`). It stays so because a word is routed at the instant at which it
is given, behind every event of that instant, and time does not pass it (`Timely`,
`PopKeepsTime`): what is popped first among the words was given first, so hearing
it leaves the last one standing (`LandsHeard`), and a new word is the last one
(`LandsTold`). A network that refuses a word, as when a route carries it twice,
ends the run with an error, and then nothing is claimed. That the notes of a fault
reach no process is a condition with a point: the value of an `activated` fact
has the fault's kind under the very key that the wrapper reads its control from.

**Causes** (`RunProofs`, `Spec => []CausesTraced`). The log is a fold over the
transcript, so the log of a run one input longer is one step more
(`LogOfAppend`), and its plan, read off the world *before* the input, names the
event the reduction then pops. The property speaks of dispatches made; what makes
it inductive is the same said of dispatches to come. `LogInv` holds while no
reduction failed: a link leads from an identifier to the record of its schedule;
every pending event either repeats that record, instant included, or has no link
and carries a fact that a dispatch on the log has published (`QueueLogged`); no
two pending events, and no pending and no dispatched one, share an identifier
(`DispatchesLogged`). A dispatch without a link therefore delivers a fact of a
record in front of it, and links never join: two dispatches with one parent would
have one identifier. What a step routes is new to the links because its
identifiers are fresh.

**Alterations of the log** (`RunProofs`, `Spec => []AlterationsClassified`).
`ArtifactInv` adds to `LogInv` what the writer and the verifier rely on: every
entry of the transcript is one the writer takes and its digest tells it from
every other, the log has one record per input, and records are numbered, so a
forged record is none of the log. Then there is one lemma per alteration. A cut
and an insertion change the length; an exchange of two different entries is a
permutation of the digests and its first difference is the first of the two; a
changed entry is no permutation, since some digest occurs one time more or less.
Two lists sorted by the code are equal when each digest occurs as often in both,
which is how `Permutation` says it and how entries may be repeated. An artifact is
refused at a forged record, at the number of its records, or at the root that was
altered; one that claims an input more is refused with what the world makes of
that input.

**Another engine** (`RunProofs`, `Spec => []DivergenceLocated`). The other engine
has its own handlers and everything else in common, so `Replay` and the log are
two instances of the same modules, and the first lemmas say that they are equal
but for what a handler is asked (`SameCommit`, `SameSchedule`, `OtherAdvances`).
`DivergenceInv` relates the two along one transcript: the other log tells how the
other replay ends, and either the engines agree on every world so far and on
every record, or there was one input in front of which they agreed and behind
which their worlds and their records differ. What a record binds is a digest that
leaves the queue out; the lemma that carries the theorem is `DigestsSuffice`: two
engines that go into a step with one world and come out of it with one digest come
out with one world, because the digest tells the facts and the menus are not part
of a world, and from the facts of the step follows what was routed and where it
was inserted. Without the facts in the digest this would be false, which is what
the mutant of this property shows on the run.

**The endpoint's refinement** (`UapProofs`, `Spec => ImplementsEffectOnce`). The
invariant types the session table: an entry is held or dropped, and has a
terminal that encodes or none. The rest follows the paths of `Handle`: every
path either *settles* (at most the message's own slot moves, by finishing, by
being reclaimed or not at all, and no effect is added) or *starts* (the slot was
unused and exactly one effect is added), and each of the two maps to a step of
`EffectOnce` or to a stutter. Sessions, keys, messages, backend answers and the
number of messages are unbounded.

**The endpoint's answers** (`UapProofs`, `Spec => []ObservationsAgree`,
`Spec => []RequestsBind`, `Spec => ErrorsConfined`). All three rest on one
description of an answer, `Sound`: sessions, bindings and entries only grow, an
error leaves what exists as it was, and an observation agrees with the entry it
found and is remembered by the one it leaves. Each path of `Handle` is shown
`Sound` on the table the request is bound in, and then on the one it met.
`AnswerInv` carries it along a behaviour: every observation so far is remembered
by its slot's entry, every request answered is still bound, and a session's hello
holds its own request identifier (without which a repeated hello could be
answered although another message had taken the identifier).

**The transport** (`FramingProofs`, `Spec => []EffectsIndependentOfChunks`,
`Spec => []AnswersInOrder`). Two facts about the decoder carry both. A decision
taken on a buffer stands whatever arrives behind it (`TakeMore`): a frame taken is
the same frame, an error is an error, though perhaps another one: a header that is
refused for its length before its colon has come would be refused for its value
after it. That it would be refused at all is arithmetic: digits longer than the limit's own
make a greater number unless they start with a zero (`MoreDigits`, from the
recursion of `Decimal`). Draining is the fold of that decision, so a buffer
drained, and what it left drained together with the rest, are the whole drained
at once (`DrainMore`). The inductive invariant `FramingInv` has three cases:
while nothing failed (`Live`), what was handled followed by the frames still to
be read off the buffer and the unread bytes are the frames of the whole stream,
and the answers are exactly those of what was handled; after an error
(`Closed`), everything ahead of the error has been handled and one error frame
follows the answers; after an exception (`Broken`), a response in what was handled
did not fit, and on a socket it is the last one and nothing follows. Neither
property is inductive: both speak of effects and answers only, and what a chunk
adds to them depends on what the buffer holds. That the error *code* depends on
the chunks is the violation `framing_codes` shows; the theorems claim nothing of
it.

**Shrinking** (`ShrinkProofs`). Besides its `TypeOK`, `FailurePersists`, `ClassExhausted` and
`EvaluationsBounded` for every transcript and every oracle, from one invariant
in three parts: the shapes of the variables with what the positions kept mean;
that every refused candidate is in `answers`, so that what has left `left` was
really tried; and a potential: the evaluations so far, the triangular number of
what may still be deleted and the untried indices together never exceed the
triangular number of the original's length. An acceptance shortens the
transcript by at least one entry, which pays for the restart.

**Only model-checked**: liveness (`RunEnds`, `ShrinkEnds`: out of the prover's
reach); what is recursive over values of any depth (the codecs, what a NetKAT
term denotes, the witness bridge and `VerdictsSettle`), which are written with
`RECURSIVE` operators and so are closed to the SMT backend; and the partition
scenario, one fixed roster with fixed routes and a fixed number of retries, of
which the `partition` run explores every behaviour: a proof would only say it for
other numbers. What the theorems about networks, fault models and processes
suppose of a roster is checked by TLC where it is finite and otherwise read off
`ModelHandler`.

## 5. What is not modelled, and why

* `shen/world/integer.shen`: arithmetic limb by limb; no order of steps matters
  and golden tests pin its output. The codecs' integers are modelled, with their
  text and their limbs.
* `canonical.shen`: the golden vectors hold it to the Python codec, which is
  modelled; the two differ in text, not in rules, except where section 2 says so.
* SHA-256: an arbitrary function where its value is used.
* The strategy's preference among alternatives: the driver's model draws any
  alternative, so what it shows holds for each strategy.
* Property evaluation is an arbitrary function of the facts in `Driver` and the
  evaluator itself in `PartitionScenario` and `Judgement`. Its loader, and terms
  that look inside a value, are functions on text and left out.
* `query.shen`: a bounded search over a declared graph; it shares no state with
  the rest. Its parity with the evaluator is left to its tests.
* Scripts, gates and spikes run processes and compare files; the virtual
  machines, the packet broker and the snapshots of `SPEC.md` have no code.
* Two fault components in one world would send one mask identifier twice; no
  roster of the repository has two, and `model_*` have one.
* `netpol.shen` compiles a NetworkPolicy to a NetKAT term; what the term then
  means is modelled, the selectors are not. The codec of terms is left out too.
* The explore loop of `search.shen`: the driver's attempts took its place; the
  draw it shares with them is in `Driver`.
* The grammar, the validation of scenario declarations and of rosters, and the
  fields a certificate binds are functions on records with one outcome per
  field.

## 6. What is left

Done in the order of the first plan: kernel, models, driver and scenario,
shrinking, endpoint and transport; then event log and replay, verdicts, NetKAT
with the witness bridge, the codecs. What remains, in order of worth:

1. `Pipeline` (composes `Driver`, `Shrink`, `Reducer`): a discovered transcript
   is minimized with replay and evaluation as the oracle, and the minimized
   transcript is verified. It joins the `partition` run: the scenario's failure
   survives every accepted deletion.
2. `Admission` (`netpol.shen`): the compiled term against the policy's selectors,
   default-deny included.
3. `Query` (`query.shen`): the bounded search against reachability by
   definition. To be settled there: `urdr.query.successors` takes the error of a
   malformed edge that follows a matching one for a list of states.
4. The rest of the certificate and of the registry; the explore loop.
5. Proofs: the one request in flight of the partition scenario, for any number of
   retries.
