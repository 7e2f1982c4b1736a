# Network Congestion Fabric in TLA+

TLA+ models of the Network Congestion Fabric (`src/`), TLC configurations that
check them on small instances, and TLAPS proofs of the properties that matter
most. Source paths below are relative to the repository (`src/durability/` is
`src/src/durability/` seen from here). `PROJECT.json` maps every definition to the
lines it models, and lists runs, mutants, findings, hazards and theorems.

## The system

A coordinator process keeps the congestion state of governed network domains.
Publisher processes connect to it, register and stream evidence. The coordinator
evaluates each domain, moves its state through a hysteresis ladder and plans
interventions, which are requests to other systems. Policy, domain states, fences
and the epoch are durable.

| Component | State it keeps | Operations | Hard about it |
|---|---|---|---|
| Durable store (`durability/`) | journal file, snapshot file, in-memory document | commit (Intent, Payload, Commit, each flushed), checkpoint, open with replay | a crash or I/O error between any two writes; torn records; sequence numbers that restart |
| Hysteresis (`eval/hysteresis`) | state, candidate and streak, ticks of a domain | one step per evaluation | long sequences of samples, blackouts, restarts with a clock that starts over |
| Evaluator and planner (`eval/evaluator`) | none | evidence to severity; outcome to intents | samples of different ages, queues and publishers: staleness, contradiction, corroboration, missing metrics and resources |
| Fabric (`fabric/`) | publishers, fences, evidence window, domains, intents, last outcomes, epoch, generation | register, unregister, fence, ingest, evaluate, plan, set policy and topology, advance epoch, open, close | called by many threads; writes that fail after memory has changed; `plan` in two critical sections |
| Coordinator node (`runtime/coordinator`, `ipc/channel`) | connections and their threads | accept, serve a connection, periodic evaluation, shutdown | thread and channel lifetimes, death of an old connection after a reconnect |
| Publisher node (`runtime/publisher`) | connection, counters | connect with retries, handshake, send, await acknowledgement | lost acknowledgements, retries |
| Framing (`transport/frame`) | decoder buffer | push bytes, next frame | bounds, fail-stop |
| Propagation (`eval/propagation`) | none | bounded search over the topology | several sources, cycles, ties |
| Topology (`model/topology`) | an immutable index | validation, lookups | cycles of containment, depth bound |
| Policy, evidence, authority (`model/`) | immutable values | validation, classification | limits, margins |
| Codecs (`durability/*codec*`), pipes and processes (`ipc/`), tools (`cli/`) | none of their own | conversion, I/O | - |

Interactions. Connection threads and the evaluation thread call the fabric, whose
one mutex makes each call atomic; `plan` releases it between its two halves, and
`evaluate` followed by `plan_last` are two calls. The fabric calls the store with
the mutex held, changes its memory first and writes afterwards. A restart is
`Fabric::open`, which opens the store and demotes what it restores.

What makes them correct:

- store: what was acknowledged survives; what was not finished is never applied;
- evaluator: congestion is corroborated, contradiction is never merged, missing
  evidence is never health, a downgrade respects the margin; the topology is a
  forest and propagation finds the strongest pressure;
- domain: authority never outlives its evidence, and recovery takes the samples
  the policy demands; steady evidence is adopted in the end;
- fabric: a fenced incarnation stays out, nothing crosses an epoch, interventions
  are bound to the authority in force and fall with it;
- coordinator: a registration ends with its connection, a death is fenced and a
  departure is not, shutdown ends, and no publisher waits forever;
- framing: the frames that were sent arrive once and in order, however the stream is
  cut, and the first damaged one ends it.

## Modules

| Module | Models | Checked through | Proved in |
|---|---|---|---|
| `DocumentStore` | what the store promises its callers (abstract) | `MCDurableStore`, as `StorePromise` | `DurableStoreProofs` |
| `DurableStore` | `Store`, `Journal`, snapshot files; implements `DocumentStore` | `MCDurableStore` | `DurableStoreProofs` |
| `Hysteresis` | `HysteresisEngine::step`, demotions (operators only) | `MCDomainLifecycle`, `MCFabric`, `MCEvaluator` | `HysteresisProofs` (lemmas) |
| `DomainLifecycle` | one domain under evaluations, changes and restarts | `MCDomainLifecycle` | `DomainLifecycleProofs` |
| `Topology` | `validate_topology`, `TopologyIndex` (operators only) | `MCEvaluator` | `PropagationProofs` |
| `Propagation` | `PropagationEngine::propagate` (operators only) | `MCEvaluator` | `PropagationProofs` |
| `Evaluator` | `CongestionEvaluator::evaluate`, with the window, topology and clock that feed it | `MCEvaluator` | `EvaluatorProofs` |
| `Fabric` | `Fabric` with planner and a coarse evaluator | `MCFabric` | `FabricProofs` |
| `Coordinator` | `CoordinatorNode`, `run_publisher`, channels and listeners | `MCCoordinator` | `CoordinatorProofs` |
| `Framing` | `FrameCodec`, `FrameDecoder` | itself, with `MCFraming.cfg` | `FramingProofs` |

Definitions headed *Mutant* are plausible bugs of the definition that follows
them. No specification uses them; each is put in place of that definition to see
that a property notices (`mutants` in `PROJECT.json`).

### DurableStore

The disk is the sequence of journal records, of which the first `synced` are on
stable storage, and the last complete snapshot. A record that was cut short is a
pseudo-record, `TornHeader` or `TornPayload`, because replay treats the two
differently once other bytes follow: cut headers alone may together still be too short
for one header, which is a torn tail like any other (`ReplayStatus`). A mutation is a serial number and the slot it
writes: a key whose last write wins, or the bounded history list.

`BeginCommit`, then `AppendRecord` and `SyncRecord` for each record, then
`FinishCommit` are `Store::commit`; `AppendRefused`, `ShortWrite` and `SyncFails`
its error paths. `WriteSnapshot`, `RebaseJournal` and `FinishRebase` are
`Store::checkpoint`. `BeginOpen`, one `ReplayRecord` per record and `FinishOpen`
are `Store::open`; `OpenRefused` and `CutFails` its failures. `Crash` may fall
between any two of them and keeps any prefix of the unflushed records, the last
one perhaps in part.

Assumed of the file system: a rename is atomic, and durable once the call
returns; flushed bytes do not rot.

`DocumentStore` is the store as `Fabric` sees it: an image of keyed values, at most
one commit at a time, and a restart. A commit that was acknowledged is in every
later image unless a newer one replaced it; one that failed or was interrupted after
its Commit record may have reached the file may be there or not; nothing else is.
`StorePromise` is the refinement: `open`, `image` and `busy` are the session's
`phase`, the keyed part of its document and the mutation in flight, `reached` the
mutations whose Commit record was ever written, and the promise ends with `buried`.
It does not promise that a value once read stays. `Store::open` replays a Commit
record that is in the file without being on stable storage (a flush failed, the
process ended and the machine did not) and flushes nothing, so a session can show
the mutation and a later crash can take it away; TLC finds this when `Open` is given
monotone reads.

### Hysteresis and DomainLifecycle

`Step` is `HysteresisEngine::step` branch by branch: refusal of a tick that went
back, refusal to decide, the three ladders (`GoalFromRefusal`, escalation,
`GoalDown`), the streak (`Counted`), dwell and hold times (`Held`), commit. A
proposal is the severity for going up and the one for going down.
`DemoteAfterRecovery`, `DemoteForEpoch` and `Invalidate` are what a restart, an
epoch advance and a policy or topology change do to a domain.

`DomainLifecycle` lets one domain meet any sequence of proposals, interrupted by
policy changes, epoch advances and restarts, with writes that fail. The clock
starts over with each process. History variables count improved samples and
remember whether the domain was congested.

### Topology, Propagation and Evaluator

`Topology` has validation and lookups, over snapshots with the identities of
resources, links and paths, and the depths that resources record. `Sound` says
independently what a valid topology is (a forest by the absence of a set closed under
parents, depth by the set of ancestors, distinct names by their number). That a topology
is refused exactly when it is not sound is meant of these: capacities, latencies and the
lengths of the three vectors, which validation bounds too, are not in the model. `Propagation` has the search, one source after the other and level by
level, as folds over the neighbours in the order of the code; `Arrivals` and
`Explains` say by distance and decay what it should find, and `Matches` compares. Ratios are parts of
`Unit`, a million in the code.

`Evaluator` keeps the window with metrics, queues and ticks, one policy per
behaviour, and a topology or none. Its operators follow the sections of
`CongestionEvaluator::evaluate`: admission (`Usable`, `Readings`), contradiction
(`Disagree`, `Chosen`), classification (`Classify`, `Worst`, `Gate`, `CoverageOf`),
propagation (`Raised`), aggregation (`Aggregate`); `Evaluate` steps the domain with
`Hysteresis!Step`. `Deliver`, `Fence`, `SetTopology` and `Tick` are what the fabric
does between evaluations. That a sample is of the present epoch, registered and
newer than the one it replaces is in `Fabric`, whose samples in turn are a severity.

### Fabric

One domain, publishers with several incarnations (boots), samples that are a
severity. Actions are the calls of `Fabric`; `Evaluate(TRUE)` and `PlanHeld` are
the halves of `plan()`. The durable document is a variable of its own, `disk`,
that a write reaches, or fails to reach and may hold all the same: what
`DurableStore` shows of the store. `Deliverable` is any sample of the present
epoch or an earlier one with any tick up to now, so that delivery is arbitrarily
late, repeated and reordered. A topology with the domain is installed.

### Coordinator

A connection is a record of both its ends: what the publisher has still to send
(`script`), the frame and the answer under way, and where its thread is. The
threads are the accept loop with `run` and `stop` after it (`main`), one per
connection (`worker`), the evaluation thread (`sweeper`) and the publishers. A step
is one call that another thread can observe: looking at `stop_`, a read that blocks
or returns, serving a frame with its call of the fabric and its answer, the fence of
a death, leaving the registry, destroying the channel, cancelling one channel of a
snapshot of the registry. Of the fabric it has registrations and fences; what
evidence does is in `Fabric`, whose actions the connection threads and the sweep
call in any order.

`platform` is 0 for sockets and otherwise the number of instances of the named pipe.
They differ in three ways: `cancel_pending` ends the read that is pending on a pipe
and every later one on a socket; a pipe has one instance that listens, which accept
must replace; and a pipe may take a connection in after stop was requested. A call
through a dangling channel pointer (`CancelDestroyed`) does nothing or ends the
process.

### Framing

A byte is a pair of the frame it belongs to and its place in it. Checksums are taken
for what they are for: bytes that are not the header, or the payload, of one frame
fail. `Push` takes any number of bytes off the wire, compacts or overflows the
buffer; `DecoderNothing`, `DecoderFrame` and `DecoderError` are the three outcomes
of `next`. `Encode` is a sender that awaits its answers, as `run_publisher` does;
`Forge` and `Follow` are any other client.

## Runs

| Run | Shows | Distinct states |
|---|---|---|
| `store` | acknowledged values and history entries survive crashes, an I/O error and a checkpoint; nothing unfinished is applied, nothing twice or out of order; torn bytes behind a whole record are cut; the invariant of the proof holds; the store implements `DocumentStore` | 1.8 million |
| `domain` | no authority without new evidence; recovery needs its samples; a congested domain is not healthy at once; steady evidence prevails (liveness) | 540 000 |
| `evaluator` | congestion is corroborated, contradiction never merged, incomplete coverage never health, margins respected; topologies are refused exactly when unsound; propagation agrees with its reference and never changes the domain's own severity | 100 000 |
| `fabric_fences` | fences and epochs across restarts, with a store failure; the invariant of the proof holds | 340 000 |
| `fabric_plans` | interventions are bound to the authority in force and fall with it; no replay moves the evidence window back | 430 000 |
| `coordinator` | registrations end with their connections; deaths and only deaths are fenced; the registry of channels is sound; nothing runs when the fabric is closed | 2.1 million |
| `coordinator_ends` | shutdown ends and no publisher waits forever (liveness), on sockets and on pipes; the bound on threads | 150 000 |
| `framing` | sound frames arrive once, in order and in the end; damage and nothing else ends the stream | 140 000 |
| `store_torn_tail`, `plan_without_authority`, `silent_resource`, `endpoint` | where the code does not do what its documents say; see *Findings* | |

Bounds, and why they are enough:

- `store`: three mutations on two keys and the history list (one key is a domain,
  and one domain is the limit), so that a mutation is overwritten, an entry is
  aged out and the growth limit refuses; eight journal records, so that the third
  commit meets the full journal at its last record; two crashes, so that recovery itself is
  interrupted and the recovered store crashes again; one fault, one checkpoint.
- `domain`: `kMaxHysteresisSamples` is 3, so that a streak saturates where the slow
  policy demands as many samples; a policy with dwell and hold times and one without
  recovery, each of which may replace the other; clock 1 to 2, two changes, and a
  clock that runs past every dwell time once the evidence is steady.
- `evaluator`: two members of the domain and a resource outside it, two metrics with
  rules of either direction, one with an age limit of its own, samples that are
  severe, healthy, within the margin, apart by more than each tolerance but not
  their sum, or of one metric; a publisher ahead of the clock by more than the skew;
  two publishers of one queue and two queues of one publisher in a window of two
  samples; three ticks, so that metrics expire one after the other. The topologies
  are all containments of three resources (and of a parent that does not exist), all
  sets of links between them with and without a path that visits a resource twice,
  and each other defect once, among them links that share a name and a recorded depth
  at the bound and over it; links without a name may be many; depth 2 is the bound, so that the deepest forest of
  three just fits. Evaluations are explored with one of them and without any
  (`Explored`); propagation is compared on all of them for every assignment of
  severities.
- `fabric_fences`: two publishers with two incarnations each, one evidence slot and
  one registration, so that both limits bind; two changes (two restarts, or an
  epoch advance and a restart) and one fault.
- `fabric_plans`: two publishers that may contradict one another, re-register at
  will and count two generations and two sequence numbers beside the zero that means
  none; ages up to one tick beyond the freshness bound, one change. No write fails here:
  that interventions fall with the authority then too rests on the theorem
  (`NoOrphanedIntents`). `Mints` says which of these numbers a run lets a publisher use.
- `coordinator`: two connections that may belong to two incarnations of a publisher
  or to the same one, so that a reconnect overtakes the end of the old connection;
  five scripts, among them one with a frame more than the limit, on sockets.
- `coordinator_ends`: one thread for two connections, so that the second is refused
  or waits for the first; sockets, and a pipe with two instances, which one
  connection uses up; one accept failure is put up with, a second ends the loop.
- `framing`: headers of two bytes, payloads of up to two, reads of up to three: a
  header is cut, two frames meet in one read, and the buffer holds just the
  largest frame. Three frames, so that the buffer is reused.

`fabric_fences` and `coordinator` use symmetry of publishers, incarnations or
connections, which no action tells apart; they check no liveness.

Fairness. `domain` assumes weak fairness of the evaluation and of the
clock: `CoordinatorNode::evaluation_loop` sweeps every domain once per period,
forever, and a steady clock runs. It assumes that writes stop failing and that
restarts and changes end (`Settle`), without which nothing can be promised.
`coordinator_ends` assumes that each thread of the coordinator runs (its steps are
loops and calls that return; the blocking read is enabled only when it can return)
and that a publisher that awaits an answer reads it. Nobody has to send, to die or
to request a stop. `framing` assumes that the reader goes on.

## Proofs

Every theorem is for all values of the constants under the named `ASSUME`s, and each
proof has the same outline: an inductive invariant `IInv`, one lemma per action that
the action preserves it, and a temporal step. The invariants were checked by TLC
before they were proved. Every safety invariant and action property that a passing
run checks is proved, and so is the refinement; liveness is not.

**DurableStore.** `DurableStoreProofs` has three parts. The first: `TypeCorrect`, `Invariance`
(`Spec => []IInv`), `Durability` (`AckedValueSurvives`). That an acknowledged value
is in the document is not inductive: it depends on what replay would rebuild. `IInv`
therefore speaks of the disk: every acknowledged value is in the snapshot or under a
flushed Commit beyond the snapshot's sequence (`Recoverable`); a Commit directly
follows its Payload (`CommitShape`); behind a Commit or Rebase all sequence numbers
are larger although numbering restarts at every open (`ClosingInOrder`); payloads
are in order (`PayloadsInOrder`). Of the replay loop it says which records are
accounted for in the document (`ReplayInv`), of a commit in flight where its records
are (`FlightInv`). All of it is claimed as long as no record was appended behind torn
bytes (`buried`), which the code permits; see *Findings*.

The second part, on replay: `TornTailsAreCut`, `OnlyCommittedIsApplied`,
`HistoryStaysInOrder`. These need no such exception. Replay stops at the first torn
record, so all it applies is in the head of the file, the records before it, and
nothing is ever inserted there: `ReadInv` states order and completeness of the head
only (`HeadInv`), that both documents hold committed mutations (`DocsInv`), and that
the Commits not yet read are newer than the document's history and beyond its
sequence together with their Payload (`Unread`, in `OpenInv` and `LoopInv`), which is
why a crash between the snapshot's rename and the journal's rebase applies nothing
twice. `TailInv` adds that open leaves torn bytes only where the file begins with
them.

The third part, on what the store promises: `StoreKeepsPromise` (`Spec => StorePromise`) and
`EntriesSurvive` (`AckedEntrySurvives`). The refinement is by step simulation:
`BeginCommit`, the append of a Commit record, `FinishCommit`, the error paths,
`FinishOpen`, `Close` and `Crash` are steps of `DocumentStore`, the others stutter.
`FinishOpen` uses `IInv` for the values that must be there and `ReadInv` for those that may. The
history list needs its own account of what an acknowledged entry became: in the list,
or behind `MaxHistory` later ones (`Accounts`, `EntriesInv`).

**Hysteresis and DomainLifecycle.** `HysteresisProofs` has the lemmas about `Step`
and the demotions (what they return, when authority or Recovering is entered), used by
`DomainLifecycleProofs`, `FabricProofs` and `EvaluatorProofs`. `DomainLifecycleProofs`: `TypeCorrect`,
`AuthorityNeedsEvidence`, and the action properties `RecoveryTakesSamples` and
`ClearTakesTwoSamples`. The invariant ties what a domain remembers to what it has
seen: a streak towards Recovering counts improved samples only (`StreakOK`); an
authoritative state and the severity kept with it agree (`SeverityOK`); a domain that
was congested remembers it or has seen a better sample (`HurtOK`). An exception for
policies that recover on a single sample turned out not to be needed:
`NeverHealthyAtOnce` holds for them too, since the first better sample leads to
Recovering at most.

**Fabric.** `FabricProofs`: `FabricInvariance`, `TypeCorrect`, `Fencing`,
`EpochBinding`, `Binding`, `FreshEpochs`, and the action properties
`NoOrphanedIntents` and `NoReplay`. `FenceHolds` needs that the document holds every
acknowledged fence (`FenceInv`) and that a process starts without registrations and
evidence (`DownInv`); `EpochFresh` that the document holds the epoch in force unless
the store failed (`EpochInv`).

**Topology and Propagation.** `PropagationProofs` is about operators and has no
behaviours: `ValidIsSound` and `PropagateMatches` are for every topology, policy and
assignment of severities. Both compare an algorithm with a definition that does not
mention it.

- Induction. The library's induction theorems cannot be used here, so the lemmas about
  recursive functions and folds look at the least place where a claim would fail
  (`Least`, `UpTo`); on them rest lemmas about `FoldLeft`, `FlattenSeq`, the cardinality
  of images and the order of a set by rank (`Ranks`, `ByRank`, behind `Sorted`).
- `ValidIsSound`. The climb from a resource in a set closed under parents stays in that
  set, so it never ends at a root and is refused, although it may never come back to its
  start. Where there is no such set, the places of a climb are distinct ancestors of the
  resource, so it ends within their number.
- `PropagateMatches`. The search from one source holds, after each level, the places
  within that distance (visited) and those at exactly that distance (the frontier), all
  with the same pressure, since decay does not depend on the way (`Searched`,
  `Fringe`). A neighbour that is too weak is marked visited and not continued, which loses nothing because everything behind it
  would be weaker still. The second induction is over the sources: what a resource got
  is the strongest of those searched so far, and the last hop reported is one that the
  topology has.

**Evaluator.** `EvaluatorProofs`: `TypeCorrect`, `TopologyIsExact`, `PropagationIsExact`,
and the action properties `PropagationIsInert`, `RisesAreCorroborated`, `ClearIsCovered`,
`FallsKeepTheMargin`, `ConflictsAreNotMerged`. The invariant is short: types, a finite
window (`Min` and `Max` of readings need it), a domain that is not ahead of the clock
(`ClockAhead`), and a topology that is installed exactly if valid (`Installed`). The
work is in the sections of `evaluate`, each with a lemma on what it returns, and their composition with the lemmas on `Step`:

- `PropagationIsInert`: no member is raised above what some member has of itself
  (`Lifted`), because only members are sources and a hop never adds pressure; so the
  maxima over the members, upward and downward, stay where they are (`AggregateLifted`).
- `RisesAreCorroborated` follows the severity adopted back through `Aggregate`, `Gate` and
  `Worst` to the rules of one member. A streak collected earlier does not matter: a rise
  goes to the severity that this evaluation proposes (`EvaluatedJustified`).
- `ClearIsCovered`: a proposal that is Clear upward has no floor, so no member that is
  heard is covered in part (`MemberFacts`).
- `FallsKeepTheMargin`: the chain from a reading to the state. The threshold scaled by the
  margin and rounded is on the right side of every reading within the margin, for either
  direction of a rule (`ClassifyFacts`); the member, the aggregate and the state are each
  no lower than that (`Backing`, `MemberFacts`, `EvaluatedJustified`).
- `ConflictsAreNotMerged`: the code compares the extremes of a queue, not the two
  publishers that differ. That the extremes differ by more than the relative tolerance too,
  which grows with the larger of them, holds because the tolerance grows no faster than the
  value: the ratio is at most one (`PortionGrows`). The hypotheses `distinct = 2` and at
  most `MaxPeers` publishers of a queue are in the property: a policy that demands
  more distinct publishers lets two of them differ, and beyond `kMaxContradictionPeers` the code no
  longer looks (see *Findings*).

**Coordinator.** `CoordinatorProofs`: `TypeCorrect` with the bounds on threads and
publishers, `RegistrationsAreOwned`, `DeathsAreFenced`, `FencesAreDeserved`,
`RegistryIsAlive`, `ClosedIsQuiet`. Three of them are inductive only together: the
fence of a death ends the registration, whichever connection of the incarnation made
it, and keeps every other connection from registering it again. What ties
them to the threads is `ConnectionsOK` (a channel is in the registry exactly while its
thread is in the loop) and `ShutdownOK` (what the main thread has joined where it is).

**Framing.** `FramingProofs`: `TypeCorrect`, `FramesArriveInOrder`,
`SoundStreamsSurvive`. The invariant looks at the bytes between the decoder's position
and the sender as one sequence (`Rest`): whole frames, each in one piece, from the
first one not delivered to the last one sent (`StreamOK`). `Push` leaves it as it is,
`Encode` appends a frame and `DecoderFrame` takes one off; a frame that declares more
than it has would need a byte that is not its own. `SoundStreamsSurvive` has the
hypothesis `InFlight = 1`, which `run_publisher` justifies and without which it is
false (see below): then at most one frame is left and the buffer holds it (`Paced`).

Assumptions. Constants have their types; sets that a state draws a first element
from are not empty (`Publishers`, `Boots`, `Policies`), the clock has a first tick
(`MaxTick`), the policies an evaluator meets pass `validate_policy`, as
`Fabric::set_policy` demands, and `MaxBuffered` holds a largest frame, as the defaults in
`FrameDecoderOptions` do. The durable model takes from the file system what is listed
above.

Only model-checked is liveness, which is out of the prover's reach: `EvidencePrevails`,
`ShutdownEnds`, `PublisherNeverHangs`, `SoundFramesArrive`. The four violations are found
by TLC.

## Findings

1. A torn first record is taken for an empty journal and never cut
   (`store_torn_tail`); the next session appends behind it and the open after that
   fails.
2. An outcome from before an authority change can be planned after it
   (`plan_without_authority`).
3. A resource of which nothing usable is heard has no say in its domain: a domain
   that was congested because of it becomes Clear, while one missing metric would
   have kept it at Watch (`silent_resource`).
4. On pipes the eighth connection closes the listener and ends the coordinator,
   although 32 are allowed (`endpoint`).

Seen while modelling, without a run of their own:

- A short write leaves bytes of a record in the file and the session goes on
  (`journal.cpp:278`): what it commits behind them is reported as durable
  (`README.md:127-129`), and the next open finds a corrupt journal or, when all of it fits
  into the payload that was cut, a torn tail that it cuts. The properties on durability
  end there, as they do for finding 1 (`buried`).
- A domain that loses its evidence while Recovering is Clear after one sample
  (`hysteresis.cpp:74` looks at a severity that Recovering has lowered, against the
  comment at 80-83). `NeverHealthyAtOnce` counts the samples since the domain was
  congested and does not exclude it.
- Shutdown may cancel a channel that its thread has destroyed meanwhile
  (`coordinator.cpp:105`), after which the process may end before the fabric is closed;
  `DEADLOCK_AUDIT.md:109` says that `stop` closes it. `RegistryAlive` is about the
  registry, not about the copy that is cancelled, and `ShutdownEnds` takes the end of the
  process for an end.
- After a failed write of the epoch the one in force in memory is used again by the next
  process; `EpochFresh` makes an exception of it.
- The record of an ambiguous attempt lives in memory only, so the boot after next no
  longer has it (`store.cpp:611`; `README.md:131` says the next boot knows).
- After a restart the hysteresis compares ticks of two processes and refuses
  evaluations until the new clock has passed the old one (`hysteresis.cpp:29`;
  `evaluator.cpp:760` says they are not comparable). `domain` shows that
  evaluations resume then.
- The freshness gate of an intervention looks at the newest sample of the domain, not
  of the target (`evaluator.cpp:747`, against `README.md:71`).
- An intent names the newest snapshot of the first resource of the domain as its
  evidence, whatever its target is (`evaluator.cpp:929`, against `README.md:64-66`).
- The queue that decides a rule is the worst upward and then the newest; an older
  queue that is still within the downgrade margin is not looked at
  (`evaluator.cpp:445-450`). `MarginRespected` is about undisputed readings for
  this reason.
- A required metric that is missing floors the domain at Watch; the comment at
  `policy.hpp:43` says it makes the resource indeterminate. A domain that was Severe
  may thus fall to Watch because a metric went missing.
- Publishers beyond `kMaxContradictionPeers` (64) of one queue are left out of the
  readings, the contradiction check included; up to 4096 may register.
- Propagation never changes the state of the domain it is computed for
  (`PropagationInert`): decay cannot exceed one and only members of the domain are
  sources. The search follows a path from the first place of a resource on it only,
  and edges beyond `max_explanation_entries` are not applied.
- `max_records` of a snapshot leaves out revalidation records (`store.cpp:456-458`),
  so that an open may refuse what a checkpoint wrote.
- At `max_domains` updates of known domains are refused too (`store.cpp:268`); fences
  beyond `max_fences` are pruned oldest first (`store.cpp:126`), after which a fenced
  incarnation may register again. `requires_revalidation` is cleared by a transition
  only (`hysteresis.cpp:182`).
- The rename of a snapshot is not followed by a flush of its directory.
- A Goodbye that arrives after stop was requested is not served, and the departing
  publisher is fenced. A second Hello on a connection orphans the registration of
  the first.
- A sender that keeps frames in flight can fill the decoder's buffer with bytes that
  were consumed (`frame.cpp:219`) and is cut off; `InFlight` is 1 for this reason.
- On POSIX a `recv` interrupted by a signal is taken for the end of the stream
  (`channel.cpp:404`).

## Not modelled

- Codecs: `store_codec.cpp` and `codec.cpp` are total functions between bytes and
  values; the models carry the values. Explanations and the command line tools print
  what the modelled parts computed, and `process.cpp` starts child processes for the
  tools and tests: none has state another part reads.
- Store: read-only opens, `sync_on_append` off, `tolerate_corrupt_snapshot`, the
  limits of the lists other than domains and history, the list of attempts.
- Evaluator: requests for a single resource, which the fabric never makes, the lists
  of conflicts, stale samples and bindings and their truncation, degraded samples,
  which only explanations show, parameters and repeat intervals of interventions.
- Topology: fingerprints, capacity snapshots, the plausibility of capacities and
  latencies, and the bounds on the numbers of resources, links and paths. Only one topology per behaviour, installed before
  the first sample.
- Fabric: `evaluate(request)` with evidence of the caller, eviction beyond
  `max_explanations` and `max_active_interventions`, pruning beyond `max_fences`,
  policy version checks. `set_capacity` and `heartbeat` change nothing a property
  reads. Intents carry no expiry because the planner sets none.
- Coordinator: the report file and counters, the failure of a durable fence write, a
  second Hello on one connection, a write that blocks because the publisher does not
  read.
- Framing: `reset` and `SequenceWindow`, which only tests call; payload codecs.

## Plan

Every safety property that the passing runs check is proved. What could follow, in the
order of what it would say about the system:

1. `Fabric` over `Evaluator`: samples with metrics instead of a severity, so that
   corroboration and margins are stated of the fabric's own window, epochs and fences.
2. `set_topology` while evidence is held, and with it the sweep that reads the topology
   without the mutex (`coordinator.cpp:375`).
3. Durability of what was committed in front of torn bytes, so that the exception
   (`buried`) is made for the mutations behind them only.
4. A second Hello on a connection (`coordinator.cpp:245`).
