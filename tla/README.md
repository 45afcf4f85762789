# Gargantuan in TLA+

Gargantuan is a C++23 game engine: an authoritative server and clients that
replicate a tree of instances, an editor that serves Studio, a packaged-content
runtime that streams units in and out of the world, and the runtimes around them
(physics, rendering, GUI, animation, audio, Luau scripting). This directory is
the verification project kept beside it: TLA+ modules for the parts whose
correctness depends on the order in which things happen, TLC configurations that
check them on small instances, and TLAPS proofs of the results that matter for
every instance.

Paths below are relative to `src/src/` of the repository unless they say
otherwise. `PROJECT.json` maps every definition to its lines, and lists the runs,
their properties, the mutants that show each property can fail, the findings, the
hazards and the theorems.

## 1. Inventory

| Part | State it keeps | Operations | What is hard | What makes it correct |
|---|---|---|---|---|
| Content availability (`content/ContentAvailability.cpp`) | one record per package unit (demand counts, pins, residency, cached bytes, decoded document, root), request, slot and byte budgets, worker jobs and a completion queue | `RequestContent`, `ReleaseContent`, `PinContent`, `UnpinContent`, `RetryContent`, `Step`, `Stop`, jobs on worker threads | completions arrive out of order and after their reason is gone; five budgets taken and given back in different phases; dependency order under changing demand | units enter the world after their dependencies and leave before them; every slot and byte is given back; demand settles |
| Job system (`runtime/JobSystem.cpp`) | ring of queued jobs, active count, flags, condition variables, group counters | `Submit`, `JobGroup::Wait`, `Drain`, `Shutdown`, worker loop | lost and spurious wake-ups, growth of a wrapped ring, shutdown racing everything | first-in first-out, exactly once; fences; everybody gets out |
| Authoring history (`runtime/AuthoritativeTransactions.cpp`, `runtime/MutationGateway.cpp`, `runtime/PreparedPropertyCommit.cpp`) | undo entries and cursor, retained bytes, identity aliases, open transaction, revision | authoring commands, `Begin`/`Commit`, `Undo`, `Redo`, eviction | objects come back under new identities; a replay can fail half way; journal records of a group are captured and published later | the project at a cursor is the one committed there; a failed replay leaves nothing behind |
| Editor host (`editor/EditorHost.cpp`, `PlaySession.cpp`) | open project, saved revision, play sessions, viewports | Studio requests | snapshots in the middle of groups, dirty tracking across undo | Studio's copy stays faithful; clean means saved |
| Network scheduler (`network/Scheduler.cpp`, `SessionSendAllowance.hpp`) | per connection: six class queues, byte accounts, structural run; aggregate bytes; per-step allowance | `RegisterConnection`, `Submit`, `Flush`, `CancelConnection` | supersession in the queue, transport refusals in the middle of a flush, several flushes per step, starvation | accounts exact, nothing reliable lost or reordered, newest value wins, one budget per step, application traffic served |
| Change journal, snapshots (`runtime/ChangeJournal.cpp`, `WireJournal.cpp`, `Snapshot.cpp`) | bounded record sequence, reader cursors | append, read, resynchronise | a reader that falls behind the retained window | snapshot plus suffix equals the world |
| Replication (`network/ReplicationCoordinator.cpp`, `ReplicationPlanning.hpp`, `ReplicaApplier.cpp`, `ReplicationRelevance.cpp`) | a catalog of publication templates; per peer the known and relevant objects, pending transitions, a plan in progress, the accepted metadata and a journal cursor; the client's replica | select, plan (in slices), produce a planned or an incremental frame, commit, apply | two producers write one stream; plans go stale while they are computed; the server's belief is never confirmed | every frame is accepted, the belief is the replica, and the replica converges to what is relevant |
| Game session (`network/GameSession.cpp`) | peers and phases, registrations with five services, Remote registries, handshake clocks, queues | `Start`, `Stop`, `Poll`, `Step`, accept, ready, tear down | timeouts racing late messages, failures in the middle of an acceptance, three registries following one tree | registrations follow the phase, the ends agree, every handshake settles, every end is noticed |
| Reliable byte admission and service policies (`network/ReliableByteAdmission.hpp`, `PooledReliableServiceFeedback.hpp`, `OrdinaryServicePolicy.hpp`, `FiniteGrantServiceCurve.hpp`) | credits and grants per peer | admit, settle, feed back | credit lost on failure paths | credits conserved |
| Character networking (`network/CharacterNetwork.cpp`) | input sequence numbers, acknowledged state | send input, correct, replay | lost and reordered datagrams | acknowledgement is monotone; inputs are applied once |
| Remotes (`network/RemoteManager.cpp`) | publications and their generations, pending requests, running handlers, a dispatch queue, deferred messages, sequence numbers | publish, fire, request, cancel, reply, receive, `Pump` | late answers, deadlines, leases, disconnects with handlers running, datagrams of a former publication | each request ends exactly once with its own answer; slots come back; accounts exact |
| Residency demand policy (`content/ResidencyDemandPolicy.cpp`) | demanded units per observer | update | hysteresis against releases | its demand matches what it requested |
| Frame mailbox, shared frame ring (`editor/LatestFrameMailbox.cpp`, `SharedFrameRing.cpp`) | slots shared by two threads or processes | publish, take | torn or stale frames | a reader sees a whole frame, never an older one |
| Runtime schema (`reflection/RuntimeSchemaLifecycle.cpp`) | frozen or open registries | register, freeze | late registration | a frozen schema never changes |
| Instances, signals, tags (`classes/Instance.cpp`, `datatypes/Signal.cpp`, `runtime/TagIndex.cpp`) | the tree, connections, tag sets | reparent, destroy, connect, fire | re-entrancy from callbacks | the tree stays a tree; the index equals the tags |
| Spatial index (`runtime/SpatialRegionIndex.cpp` and projections) | cells and members | insert, move, query | incremental updates | a query equals the scan |
| Services (`services/*`), rendering publication (`render/RenderPublisher.cpp`, ...) | requests in flight, dirty sets | per service | late completions | each request answered once |
| Renderer, physics, GUI, animation, audio, importers, packaging, filesystem, platform, telemetry | GPU, solver and file state | - | numerics and I/O | out of reach of TLC |

**Interactions.** The server host steps the session, and inside the session step
producers (replication, remotes, characters) submit to the scheduler and flush
through the send allowance; it then steps content availability, which runs its
fetch and decode work on a `JobSystem` and applies completions on the owning
thread. The editor host sends Studio's requests to the mutation gateway, which
changes the instance tree, commits to the history and publishes to the journal
that Studio polls.

## 2. Plan

Done, in this order:

1. `ContentAvailability`, with `ContentResidency` as its abstract specification
   and `ContentAvailabilityProofs`;
2. `JobSystem`, with `JobPool` as its abstract specification and
   `JobSystemProofs`;
3. `AuthoringHistory` (gateway, history, prepared batches, editor save and
   snapshot, journal capture in one module because one request runs through all
   of them) and `AuthoringHistoryProofs`;
4. `NetworkScheduler` (scheduler and allowance) and `NetworkSchedulerProofs`;
5. `RemoteManager`: both ends of the Remote protocol over a reliable channel and
   lossy datagrams, and `RemoteManagerProofs`;
6. `GameSession`: handshake, registrations, steps and tear-down of a server and
   its clients, with the Remote registries under changes of the tree, and
   `GameSessionProofs`;
7. `Replication`: tree, journal, catalog, planner, both producers of frames and
   the client that applies them, for one peer.

Next:

8. reliable byte admission and pooled service (`network/ReliableByteAdmission.hpp`),
   which decides when the session defers a structural frame; then `CharacterNetwork`
   (input acknowledgement under loss);
9. journal retention and resynchronisation, and reconnection, in `Replication`;
10. `FrameRing`: mailbox and shared ring, with the memory orders of the code as
    interleavings of single accesses;
11. residency demand policy; the gateway's submit queue; schema lifecycle; signals
    and tags; entitlement and asset services; render publication.

Theorems still worth proving: `HistoryRestores` and the second half of
`AliasesNeverResurrect` of the authoring history, both up to the first roll back that
throws (section 6); `AcceptedIsReplica` of replication; `NewestWins` of the scheduler.

## 3. Modules and how they correspond to the code

**`ContentAvailability`.** A record's fields are functions over `Units`
(`direct`, `dependency`, `pins`, `residency`, `cancel`, `cached`, `prepared`,
`root`). A public call is one action, except that the work list of
`AdjustDependencies` and the loops of `Step` advance one element per action
(`phase`, `index`, `cursor`): that is what lets a worker's two steps (fetch and
decode, which reserves the decoded budget; publish, under the completion mutex)
fall between any two iterations. Callers use the API only between two `Step`s
(`ServerHost`, `ResidencyDemandPolicy` and the scale qualification do), so those
actions need `phase = "idle"`. The states Admitting and Evicting never outlive
one iteration. `MakeCacheSpace` is in closed form: the set of entries its reverse
loop drops. `Gameplay` is external: a script may destroy a unit's root at any
moment. `ManifestAssumption` is what `ParsePackageContentManifest` accepts:
dependencies exist, do not repeat and are acyclic.

**`ContentResidency`** is the promise: a set of resident members that grows by one
member whose dependencies are in it and shrinks by one nothing in it depends on.

**`Aggregates`** holds what several modules count with: the sum of a function over a
set, the weight of a sequence, and what a filter leaves of a sequence. It models no
code; it exists so that the sums can be reasoned about once.

**`JobSystem`.** Each critical section is one action; a condition variable is the
set of threads asleep on it. Jobs are numbered in the order in which they are
submitted. `status` is history. A growth that throws leaves the job counted in
its group (`"leaked"`): `Submit` calls `Add` before it allocates.
**`JobPool`** is the promise: a FIFO queue and a stage per job.

**`AuthoringHistory`.** `world` is the live tree under fresh identities, as
`ObjectId` hands them out; `history`, `cursor` and `aliases` are the history; the
journal consumer (`MirrorApply`) is external and idempotent, as the document model
of Studio is. Each authoring command, `Begin`, `Commit`, `Undo`, `Redo`, save and
snapshot is one action; a replay applies the changes of its entry one after the
other and rolls back at the first that fails. `LocalEdit` is a command of another
origin than Studio (a write, a move, a destruction): the gateway applies and journals
it at once, whether or not a group is open, and the history does not see it. In the
middle of a group its record reaches Studio before those the group holds back. No
path of the editor host makes such an edit in the middle of a group today, but the
gateway allows it and the model explores it.

**`NetworkScheduler`.** A connection is a slot and a generation; its six class queues
hold messages with a size, a key and a sequence. A flush is taken one `Send` at a
time, and the transport answers success, would-block or failure. A rejected or
dropped intent changes statistics only and is a stutter. `trace` is history: the
accepted and handed numbers (modulo `Window`), what the step has sent and whether
it was cut. `IntentAssumption` says that only sequenced traffic carries an order,
which is true of every producer; the supersession scan relies on it.

**`RemoteManager`.** One record per end of a connection holds what `PeerState`
holds: publications (known Remotes and their generation), pending requests,
handlers, deferred messages, sequence numbers and counters; the dispatch queue of
a manager is shared by its peers, as in the code. A public call, an arriving
message and each stage of `Pump` (deadlines, leases, deferred messages, the fair
rotation, one dispatch) is an action. A send has the outcomes of
`AdmitGeneratedReliable` and `SubmitEncoded` (sent, deferred, refused). A clock is
one action that lets a deadline or a lease elapse. The channel keeps reliable
messages in order; datagrams may be lost, repeated and reordered. A handler's
closure survives the connection it answers (`Answer` on a dead peer) and a new
connection numbers its requests from one again. On a client a Leave destroys the
Remote's Instance, whose destructor unregisters it. If no script holds the copy that
happens within the frame, the unpublication that follows finds nothing and the
session fails (`ClientApplies`, last disjunct); if one does, the Remote is
unpublished and stays registered until the collector takes it (`ClientReleases`,
`UnregisterRemote`), which erases its publication identity, so that the next life
starts again at one, and the session fails if the Remote comes back before that.
`trace` is history: how often and by which handler each request was completed, which
life of a Remote an end is in, and of which life the last event delivered was.

**`GameSession`.** A session is one record and its handlers are functions on it, so
that one `Poll` event or one `Step` is one action, as the code runs it on its
thread; `ServerStep` names the session after each of the phases of `Step` in order
(failures, timeouts, flush, structural pass, flush, graph synchronisation, flush).
`services` is what each connection is registered with; every acquisition of the
acceptance and of readiness may fail (`AcceptFaults`, `ReadyFaults`). A loop over the
peers is written as `Together`: the body for one peer changes that peer's entries
only, so what all of them leave is put together entry by entry. The queue of
a peer is ordered by traffic class, as the scheduler orders it. `tree` is where
each Remote Instance is, at the start in the tree or outside it; the four tree
actions run the handlers of the Instance, of the Remote and of the session in the
order the signals fire. Connections, link losses and a client that stalls are
external.

**`Replication`.** `world` and `journal` are the authoritative tree and the records
it appends, in the order `Instance` appends them. One tick is `BeginStep` (refresh
the catalog, request planning for the selection), `ServicePlanning` or
`SkipPlanning`, any number of frames and `EndStep`; edits fall between ticks, as
scripts run outside the session step. A plan has a stage (running, ready,
disposing); `MaySlice` lets a plan need several ticks, `MayDefer` lets relevance
return the previous selection. `Inputs`, `Select` and `Planned` are the stages of
the planning coroutine: dependency closure, grouping with costs, the cheapest
affordable groups, and the reference and parent fixups. `PlannedOperations` and
`OperationOf` are the two producers; `Commit` is what the server believes after the
scheduler accepted the frame. The reliable channel is ordered and lossless, so the
client applies a frame when it is sent; a frame it would refuse sets `failure`. A
frame the server itself cannot build drops the peer, as in the code.

The `MC*` modules give the constants their values. Operators named `...Variant`,
or described as a variant or a mutant in their comment, are the plausible bugs the mutants
put in the place of the definition that follows them.

## 4. Runs

| Run | Instance | Shows |
|---|---|---|
| `content_pair` | two units, one depending on the other; two workers; cache, decoded budget and per-tick budgets of one unit | coherent records, exact slots, reservations, cache and decoded budget |
| `content_triangle` | three units, one reached on two paths, bootstrap demand, unequal sizes, one worker | demand conserved, refinement of `ContentResidency`, demand settles |
| `job_pool` | two workers, four jobs, ring of two slots that may fail to grow | refinement of `JobPool`, fences, no idle capacity, accepted jobs end, `Wait` and `Drain` return |
| `authoring_history` | history of two entries, up to six identities | the project at each cursor is the one committed there; retention, aliases |
| `authoring_mirror` | groups, batches, saves, snapshots, outside edits at any time | Studio's copy stays faithful, clean means saved, a failed replay takes back what it did |
| `scheduler_mixed` | one connection, every traffic class | accounts, conservation, newest wins, structural run, step budget, nothing after a cut |
| `remote_calls` | one client, two requests over two connections, one handler slot, one fault | exact accounts, one completion per request, answers of the right handler, every request ends, every slot comes back |
| `remote_streams` | two clients, a reliable event to the server, a sequenced event either way (`OneWay`), lossy datagrams, two publications, copies that clients keep or let go of | a handler only sees newer values of the present life, the server none of an earlier one, nor a client whose publications number its lives |
| `session_life` | one client, one Remote, one fault, one change of the tree, timeouts of two ticks | registrations, agreement of the ends, no rejection of reliable traffic, published Remotes exist, handshakes settle, ends are noticed |
| `replication` | a chain of three objects, two edits of six kinds, one move of the focus, sliced plans, deferred relevance | frames accepted, belief equals replica, a settled peer sees the world |
| `replication_live` | two objects and a creatable third, two edits, one move, deferred relevance | the client converges after the last change |
| `replication_cycle` | a chain of four, two reparents, one move | **violation**: a planned frame builds a cycle at the client |

**Bounds and why they are enough.** Content: two units give every order of a
dependent and its dependency; three with two paths are the smallest case where
demand is counted twice; budgets of one make every limit bite at once; `MaxDemand`
and `MaxPins` cap repeated calls at one, and one more behaves like the first.
Jobs: a ring of two slots needs four jobs to grow while its head is in the middle;
the code starts with 64 slots. History: two retained entries suffice for eviction,
branching and an alias that survives its entry; `MaxRevision` stands for the
64-bit maximum and is reached. `authoring_mirror` keeps one entry and three
revisions: a group of two changes with an outside edit in its middle, or one outside
edit that makes the group's undo fail half-way. Scheduler: payloads of one and two bytes, ceilings
of two, a structural run of two where the code has eight, and
`CounterMax` standing for the 32-bit maximum; `Window` bounds the numbers of the
history variable and is one more than the messages that fit in a queue. One
connection leaves the aggregate ceiling to one peer; `AccountsExact` also holds with
`ThreeConnections`, `BulkIntents` and `TightLimits` (two generations of a slot and
another peer), and `ApplicationServed` with `StreamIntents` and `StreamLimits`, two
larger questions whose definitions stay in `MCNetworkScheduler`. Remotes:
one slot and two requests make the limit bite and let an answer of the first meet
the second; two connections (`MaxGenerations`) let a handler outlive its peer; two
publications let a datagram outlive one. In `remote_streams` the constraint `OneWay`
lets the server send no reliable events and the sequenced events of a connection go
one way; either way is explored. Session: a timeout of two ticks falls
between any two messages of the handshake; one fault at any of the places that may
fail; `MaxBurst` and `MaxBacklog` let messages wait across steps. The safety
properties `RegistrationsExact` and `SidesAgree` also hold with two clients, no
Remotes, two faults and timeouts of three ticks (`ClientSymmetry`), a larger run
that is not kept. Replication: three objects are the least in which a reference,
its holder and their parent differ; two edits of six kinds give every pair of
records a plan may overtake; `ReadLimit` three and allowances of one and four cut
journal batches and plans short. The focus never takes the client's own Character
out of range (`Owner = 2`) and moves once: section 6 says what lies beyond.

`CHECK_DEADLOCK FALSE` is said where the system may stop: a pool that has been
shut down, the history at its bounded identities and revisions, sessions that have
ended, and Remotes when the bounded calls are used up.

**Fairness.** Content: weak fairness of starting and continuing `Step` (the host
steps in its loop) and of each worker (its thread is scheduled and the provider
returns); none on callers, gameplay or the outcome of a fetch. Jobs: weak fairness
of each worker, of a caller inside `Wait` or `Drain` and of the rest of a started
`Shutdown`; none on submissions or spurious wake-ups. Remotes: weak fairness of
`Pump` and of the clock, strong fairness of the deadline stage of `Pump` (it runs in
every pump, though messages may use up any single one); none on handlers, callers,
sends or disconnections; `CanElapse` and `CanPump` spell out where the two weak
conditions apply (TLC compared them with `ENABLED` on every state of the run). `RequestsEnd` asks
that a client waiting for answers later waits for none, which is that each of its
finitely many requests ends. Session: weak fairness of the server's `Step` and `Poll` and
of the `Poll` and `Step` of a client that has not stalled, and of a connection
attempt being answered; the host is not obliged to start, stop or attach. Strong
fairness is not needed. Replication: the tick goes round, planning is served and a
ready frame is produced if it is possible again and again; the fairness formula
spells out the enabling conditions. `MayDefer` may defer, but not for ever.
The scheduler's module states `FairSpec` (weak fairness of
starting a step and of finishing a flush, strong fairness of ending a step, of each
peer's flush and of each send possible again and again) for `ApplicationServed`:
application traffic is served under an endless structural stream once control
traffic subsides. No run is kept for it.

## 5. Proofs

All are checked by TLAPS from the named assumptions of the modules, for every
package, limit, number of workers, connection set, intent set and bound:

- `UnitsAssumption`, `ManifestAssumption` and `LimitsAssumption` of
  `ContentAvailability`: the units are finitely many and numbered, the manifest is
  one `ParsePackageContentManifest` accepts (dependencies sorted and acyclic), and
  the limits are those the constructor checks;
- `JobAssumption` of `JobSystem`: finitely many workers and jobs, a positive initial
  capacity;
- `LimitsAssumption`, `IntentAssumption`, `ConnectionAssumption` and
  `CapacityAssumption` of `NetworkScheduler`: limits that `Limits::Validate` admits,
  intents as the producers build them, finitely many connections, and a structural
  counter that can count to its threshold;
- `RemoteBounds` of `RemoteManager`: limits and bounds are naturals, and the three
  kinds of Remotes and the other objects are disjoint;
- `SessionAssumption` of `GameSession`: a positive timeout, and bounds that are
  naturals;
- `LimitAssumption` of `AuthoringHistory`: limits and bounds are naturals, what the
  project holds when it is opened has identities, and the history's two limits are
  positive, which its constructor checks, and admit a transaction as large as one may
  be, as the constants of `AuthoritativeTransactions.hpp` do (8 MiB and 32 MiB).

TLC evaluates them in every run of the module.

**`AggregateTheorems`.** Sums over finite sets, for every function and set: they
exist, do not depend on the order of summation, follow a bijection
(`TotalReindex`), change by one summand when one value changes, and add up over the
concatenation of sequences (`SeqTotalConcat`); a filter of a sequence keeps the
elements and their order. The library's induction over finite sets takes an operator
as a parameter, which no prover here can instantiate, so the induction is stated
with the set of the subsets that satisfy the claim (`SubsetInduction`). The
accounts of content, scheduler and Remotes rest on these facts.

**`FoldTheorems`.** The other half of the same difficulty: the community modules
define `FoldLeft` by a recursion over sets of indices, for an operator given as a
parameter. The module declares that operator as a constant, shows that the recursion
has a solution, and proves its laws: empty, one element more (`FoldAppend`), one
sequence after another (`FoldConcat`), and what every operation keeps
(`FoldKeeps`). `INSTANCE FoldTheorems WITH Op <- ...` gives them for any named
operation, so what such a fold computes for every input can be proved after all.

**`JobSystemProofs`.** The inductive invariant `IndInv` says that the ring holds
exactly the jobs whose fate is "queued", each once, wherever its head is
(`RingOK`); that a running job has one worker (`WorkersOK`); and that the two
counters callers wait on count what they are meant to (`ActiveExact`,
`GroupExact`). From it follow `TypeCorrect`, `WaitFence` and `DrainBarrier` (what
holds in the very step in which `Wait` or `Drain` returns) and `RefinesPool`: the
ring, read from its head, is the FIFO queue of `JobPool`, its growth a stutter.
`NoLostWakeUp` needs one more argument: every notification leaves a worker awake for
each job it announced, and a worker only goes to sleep when nothing is queued.

**`ContentAvailabilityProofs`.** The inductive invariant is `TypeOK`,
`RecordCoherence` and `DependencyClosure` together: admission adds a unit whose
dependencies are resident, and eviction needs the coherence of records to know
that what it removes is what residency says. It gives `TypeCorrect`,
`CoherenceHolds`, `ClosureHolds` and `RefinesResidency` (every step of the service
is a step of `ContentResidency` or a stutter). `InFlightHolds` is a second
argument: what workers, queue and the unprocessed batch hold is one sequence whose
length every action changes exactly as `InFlight`. `BytesHold` is a third, over sums:
reserved and completed bytes follow that sequence, the cache is the sum over the
cached units and the decoded budget the sum over the prepared ones. `DemandHolds` is
the fourth: `DemandConserved` speaks of the states between two propagations and is
not inductive, `DemandBalanced` is: the count of a unit plus what the unexplored
part of the work list still owes it is the number of its dependents that want it,
whatever the dependency graph.

**`NetworkSchedulerProofs`.** The inductive invariant conjoins the type invariant,
the bound on the saturating counter, the fact that the counter is never behind the
true run of structural messages while an application message waits, the exclusion
of slots, and that an open flush holds exactly what the allowance has not spent.
From it: `TypeCorrect`, `StructuralRunIsBounded`, `SlotsAreExclusive`,
`StepBudgetHolds`, and the action property `CutIsFinal`.

Its second part is about accounts. `AccountsHold`: each counter of a connection is the weight
of its six queues and the aggregate the sum over connections; it is inductive once
one knows that only unreliable messages carry a key (`KeysOK`), which is what makes
supersession take its bytes from the right counter. `ReliableHolds`: the reliable
messages of a class handed over, followed by those queued, are those accepted, in
order; the numbers of the history variable go round at `Window`, so the order is
stated and proved modulo `Window`, for every `Window`.

**`RemoteManagerProofs`.** `RequestsOK` is a ledger: the ids an end has pending are
exactly those whose outcome is still "pending", each once, and older than
`NextRequestId`. Every handler keeps it or moves one id from pending to an outcome;
`CompletesOnce` (an action property: no outcome is ever overwritten) follows.

Its second part is about tables. `StateOK` relates the two managers and what travels between
them: each end's tables are sane (`EndsOK`: counters equal what they count, answers
are pending requests' own, a deferred message belongs to a live request), what is on
the wire was sent by the other end in its present connection (`LinksOK`), and each
entry of a dispatch queue is counted by the peer it belongs to (`QueuesOK`). It
implies `CountersExact` (`AccountsExact`), `AnswersOwn` (`AnswersMatch`: a request
succeeds only with what its own handler was asked to answer in this connection) and
`DeliversFresh` (`SequencedFresh`: a delivered sequenced event is newer than the last
of the life, and of no earlier life at the server, or at a client whose publications
number its lives). The proof goes handler by handler; "x advanced to y while its trace
went from t to u" (`Advances`) is the common form of a handler's effect. A publication
identity is never ahead of the life it stands for (`Current`), on the sender's side and
so in every message (`Good`); at the server the two are equal (`Numbers`, kept by every
`Moves`), because only a client unregisters Remotes that come back.

**`GameSessionProofs`.** The inductive invariant `Inv` says for each connection
(`PeerGood`) that the server's side holds exactly what its phase has acquired
(`PeerOK`), and that the phase of the server, the stage of the client, the link and
what is in flight in either direction are one of the combinations a handshake can be
in (`Pair`, `HandshakeOK`): where the accepted and ready messages of which epoch may
still be, what may follow them, and who may have gone. To this it adds that epochs are
given once (`Epochs`), that a session that does not listen holds nothing
(`IdleUnlessListening`), that nothing is left over between two calls (`Rests`), and
what a client's registries hold in each phase (`ClientOK`). Two views make the pair
tractable: `Inbound` and `Outbound` are what one end will still hear of the other,
whether it waits in the peer's queue, is handed over or lies in the inbox, so moving a
message along changes nothing. A handler that runs in the middle of a `Step` leaves
failures pending; the lemmas about handlers are therefore about any session with
`Good`, and only a whole `Poll` or `Step` restores `Rests`. A handler for one peer
changes that peer's entries only (`Tame`, `AgreeAt`), which carries every lemma from
one peer to `Together`. From `Inv` follow `TypeCorrect`, `RegistrationsCorrect`
(`RegistrationsExact`), `EndsAgree` (`SidesAgree`), `ReliableAccepted`
(`ReliableNeverRejected`) and `PublicationsCorrect` (`PublishedKnown`). Without the
messages in flight none of them is inductive: that no reliable message is rejected
depends on what the other end had acquired when it sent it.

**`AuthoringHistoryProofs`.** The inductive invariant `IInv` has four parts. `TreeOK`:
the hierarchy is a tree over identities below the next one, so a cycle check that
looks at ancestors, a destruction of a whole subtree and the attachment of a copy
under new identities each leave one. `OpenOK`: what a group holds may be committed.
`HistoryOK`: entries are well-formed, the snapshots they captured included, the cursor
lies among them and both limits and the byte account hold (`RetentionHolds`: the
suffix thrown away by a branch and the prefix evicted are taken off the account as
they were added). `CountsOK` bounds revision and saved revision.
What makes the rest go through is that every effect of the gateway is `Faithful`: it
leaves a tree, and applying its records to a copy of the old hierarchy gives the new
one. A replay, with its roll-back, is then a sequence of faithful effects, whatever
the table of aliases makes of the identities it meets (`ReplayOK`), which is why
neither undo nor redo needs to succeed for `MirrorHolds` and `CleanHolds`; the two are
action properties and are kept by one lemma per action together with `IInv`. An
outside edit in the middle of a group is published before the group's records; each of
them commutes with it (`PublishApart`, `PublishWithout`) unless it is about what the
edit changed, which `Overtakes` says and `MirrorKeeps` leaves out. A
snapshot in the middle of a group gives Studio the hierarchy and the group's records
come later: that they change nothing the second time is `PublishTwice`, records being
idempotent and the last word about each field theirs.
`AliasesResolve` needs a further invariant: every alias leads from an identity to a
younger one (`Rising`), because what an entry captured is older than what a restore
hands out; a walk that climbs within the identities handed out ends, and it ends
within the number of aliases, which is the bound `ResolveIdentity` puts on itself.
`RevisionsHold` states `OneRevisionPerEntry`, and its proof corrected the property: a
full history of equal entries may give way to one more of them and look the same,
though the revision moved.

**Only model-checked.** Liveness, which needs ENABLED. Of the authoring history,
`HistoryRestores`, `FailureIsAtomic` and the second half of `AliasesNeverResurrect` (no
replaced identity is live, because an undo destroys all that its entry created). They
hold within the bounds of their runs and are no theorems: beyond those bounds a roll
back can throw (`RollBackSucceeds`, section 6), and then `HistoryRestores` fails. What could
be proved is that it holds up to the first throw. That needs a simulation, across the
aliases, between the hierarchy at a commit and the present one, and is left open.
`Replication` in all its properties; two of them fail beyond the bounds of the runs
(section 6), so the theorems would be about those bounds. `NewestWins` of the
scheduler (a statement about numbers that wrap round `Window`, in a queue where the
newest may have overtaken). `TypeOK` of content, jobs and scheduler,
`OneActivePerSlot`, `DrainIsABarrier`, `DependencyClosure` and `OneRevisionPerEntry`
are the reverse: proved, and not part of a run.

## 6. Findings

**Shown by a run.** `replication_cycle`: with 1 > 2 > 3 known to the client, 3 is
moved to 1 and then 2 below 4, which was below 3. The planned frame publishes 4
under 3 and moves 2 under 4, but leaves the move of 3, a known child between known
parents, to the journal (`network/ReplicationPlanning.hpp:222-234, 342`). The client
still holds 3 under 2, refuses the frame as a cycle and the connection ends.
`devdocs/CurrentArchitecture/ReplicationFoundation3J.md:442-443` promises
dependency-valid frames.

**Reproduced with a configuration of their own.** Each of these properties is a
definition of its module, and TLC refutes it in a few seconds under the bounds
given; no configuration is kept for them.

| Property | Where the code falls short | What happens | Bounds |
|---|---|---|---|
| `DrainLeavesNoRequest` | `content/ContentAvailability.cpp:1151` | `MakeCacheSpace` resets a released request without taking it out of `Pending`, which stays one too high for good | as `content_pair`, with `NoDependencies`, one worker, one in flight, no pins |
| `DrainReturns` | `runtime/JobSystem.cpp:124` | `Shutdown(false)` empties the queue without notifying `Drained`; a `Drain` asleep on queued jobs is never woken | as `job_pool`, with two jobs in `OneGroup` and no allocation failure |
| `ReplaySucceeds` | `runtime/AuthoritativeTransactions.cpp:258` | an identity captured between two redos of a creation is not remapped; the edit can no longer be redone | requests `SetProperty`, `Create`, `History`; no loaded object, `MaxId` 4, `MaxRevision` 7, one persistence object |
| `MirrorConverges` | `runtime/MutationGateway.cpp:1198` | a redo that fails after it destroyed an object restores it under a new identity and drops the records that would say so | requests `SetProperty`, `Create`, `Destroy`, `Transaction`, `History`; `MaxId` 7, `MaxRevision` 8, two persistence objects |
| `MirrorNeverOvertaken` | `runtime/MutationGateway.cpp:227` | a group writes a value, code of another origin writes a later one, which is journaled at once; the commit then publishes the group's value, and Studio shows the older one | as `authoring_mirror` |
| `FailureRestores` | `runtime/MutationGateway.cpp:1187` | a failed undo that had destroyed an object rebuilds it from the snapshot of the entry: what an outside edit did to the object is lost, at an unchanged revision, so a project may also show as clean when it is not (`AuthoritativeTransactions.md`: "Incompatible state returns a structured failure without moving the cursor or revision") | as `authoring_mirror`, with `MaxRevision` 4 |
| `RollBackSucceeds`, and with it `HistoryRestores` | `runtime/MutationGateway.cpp:1187`, `runtime/AuthoritativeTransactions.cpp:258` | the same missing remap makes a roll back throw, without any outside edit: a redo destroys a child, fails on the identity without an alias, and cannot put the child back below that identity; the child is gone, the cursor and the revision have not moved | one loaded object, `MaxId` 6, three persistence objects, two changes per transaction, four retained entries, along the steps listed below the table |
| `ReliableOrder` | `network/RemoteManager.cpp:1331` | a peer that has had its share of a `Pump` gets its oldest message moved behind its later ones | two clients, one reliable event, `EverythingVisible`, three events, `MaximumMessages` 2, three per tick, no faults |
| `RepublishedFresh` | `network/RemoteManager.cpp:853` | a Leave destroys the client's copy of a Remote; once its scripts let go of it, `UnregisterRemote` erases the publication identity, the next life starts at one again while the server counts on, and a late datagram the server sent in its first life is delivered in the second (`devdocs/CurrentArchitecture/LuauRemotes.md:175-178`: "an old high sequence cannot supersede or poison the new publication's low sequence"); from then on the client rejects what the server sends under the newer identity | one client, one transient sequenced Remote, `Callers` the server, one sequence, two publications, no events |
| `RemotesOutliveTreeChanges` | `network/GameSession.cpp:298` | destroying a Remote on the server fails the session: it is unregistered twice; reparenting one leaves it bound but unregistered | as `session_life` |
| `QuiescentAgrees` | `network/ReplicationCoordinator.cpp:2303` | a change of an object whose Leave is pending is skipped; desired again before the Leave is sent, the object never gets it (`ReplicationFoundation3J.md`: "pending ordinary Leave plus renewed desire remains in the same materialization lifetime") | as `replication`, with `Owner = 1`, two moves and one edit of the name |
| `FramesAccepted` | `network/ReplicationPlanning.hpp:104` | a deferred selection still names an object that was detached from the tree, and the frame that follows has two roots | as `replication`, with "detach" among the `Edits` |

The steps for `RollBackSucceeds`, too many for a search through all behaviours: create
p; move the loaded x below p; undo both, redo both (p is now a younger identity, p'); in
one group, destroy x and set a property of p', both captured as p'; undo all three, redo
the first two; the creation is now p'', `RemapIdentity` has recorded p'' for p but not
for p', and the third redo destroys x and throws. A module with `Next` restricted to the
action of each step shows it at once. With an outside move two edits suffice, as
`authoring_mirror` with `MaxRevision` 4: a group writes the loaded object and creates
another below it, and is committed; code outside moves the new object to the root and
destroys the loaded one; the undo destroys the new object, finds the write stale, and
cannot put the object back below a parent that is gone.

The passing runs stay on this side of the last two rows: the client's own Character is
always desired, the focus moves once, and an edit keeps objects attached.

Two observations without a property: a unit that does not fit the cache fails for
good until `RetryContent`, and a job whose body throws would keep its slot (the
provider contract does not throw).

## 7. Not modelled

Timings, metrics and diagnostics; digests, JSON and binary encodings; manifest
parsing beyond what it accepts; provider internals. In the history: wire-property
commands, object-reference values, the gateway's submit queue, owners and
sessions, transient properties, the depth limit. In the scheduler: the
reliable-grant activation and the cumulative service counter. In the Remotes:
`UnregisterRemote` on the server (a script destroys a live Remote; `GameSession` has
it), the broadcast budget, the rejection for want of a handler, the
Luau binding. In the session: byte admission and pooled service, Characters, the
ordinary service policy, generations of a connection identity, the branch taken at
the maximum number of peers (modelled, not reached by one client), and batches of
several events in one `Poll`, which the interleaving of single events stands for.
In replication: frame byte limits, journal retention and resynchronisation, frozen
quotes, `RemovePeer` and reconnection, hard references (no native property declares
one), server-only services, attributes and extension values, several peers sharing
one planning budget (the effect of the others is `SkipPlanning`). Of the rest of the
engine, what section 2 plans, and, for good, numerics (physics, animation, layout),
GPU and audio back ends, importers, packaging, filesystem and platform code, which
hold no protocol state or lie outside what a model checker can enumerate.
