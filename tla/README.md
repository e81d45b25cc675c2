# Verification of the diffusion serving engine

TLA+ specifications of the serving side of the diffusion engine
(`src/python/sglang/multimodal_gen/runtime`): disaggregated serving, one role
instance with its threads and ranks, and the server without disaggregation with
its batching, GPU residency and weight updates. They are model-checked with TLC
on small instances and, for the properties that matter most, proved with TLAPS
for instances of every size.

## 1. The system and its parts

A diffusion request runs in three stages: a text **encoder**, a **denoiser** and
a **decoder**. In the disaggregated deployment every stage is a pool of
processes, and one orchestrator moves requests between the pools.

| Part | Code | Module | State |
|---|---|---|---|
| Request state machine | `request_state.py` | `RequestTracker` | modelled |
| Dispatch policies | `dispatch_policy.py` | `DispatchPolicy`, `DispatchPolicyCheck` | modelled |
| Control messages | `transport/protocol.py` | `DisaggProtocol` | modelled |
| Orchestrator (`DiffusionServer`) | `orchestrator.py` | `DiffusionServer` | modelled |
| Role instances | `scheduler_mixin.py` | `RoleInstances`, `ReceiverThreads`, `RankLoops`, `ReceiverInstance` | rank 0 of all roles; threads, streams and ranks of a denoiser |
| Transfer manager, buffer | `transport/manager.py`, `buffer.py` | `RoleInstances`, `ReceiverThreads` | slots and streams, no byte layout |
| Buddy allocator | `transport/allocator.py` | - | its interface only |
| Frontend clients | `scheduler_client.py` | `DisaggSystem` | the REQ socket |
| Monolithic scheduler, dynamic batching | `managers/scheduler.py`, `dynamic_batch_admission.py` | `BatchScheduler`, `BatchAdmission`, `Server` | queue, batches, answers |
| Weight updates | `loader/weights_updater.py`, `managers/gpu_worker.py` | `WeightsUpdater`, `Server` | update and rollback |
| Component residency | `memory_managers/component_manager.py`, `component_resident_strategies.py` | `ComponentResidency`, `Server` | three of the strategies |
| Layerwise offload | `memory_managers/layerwise_offload.py` | `ComponentResidency` | a strategy, without its streams |
| Step caches (TeaCache) | `cache/` | - | numerical decisions |
| Transfer engine, codec, metrics | `transport/engine.py`, `codec.py`, `metrics.py` | - | I/O |
| Pipelines, models, layers, kernels | `pipelines_core`, `models`, `layers`, `sgl-kernel` | - | numerical code |
| Language-model runtime, gateway | `sglang/srt`, `sgl-model-gateway` | - | other system |

How they interact. A client sends a request over a ZeroMQ REQ socket. The
orchestrator records it, queues it for an encoder and, once the chosen instance
has a free slot, sends it there. The encoder stages its output in its transfer
pool and reports STAGED; the request waits for a denoiser. The orchestrator then
names a receive slot: a preallocated one it knows of (*fast path*), or one it
asks the receiver for (*slow path*, ALLOC and ALLOCATED). The sender's RDMA
thread copies the data (PUSH, PUSHED), the receiver is told READY, loads the
data, runs its model and reports DONE. The same hop follows from denoiser to
decoder, and the decoder's raw result frames end the request. Any stage may
report an error instead, and the orchestrator expires requests that exceed
`--disagg-timeout`, wherever they are. Messages about an expired request keep
arriving and are handled: most of the difficulty lies there.

Without disaggregation one scheduler per GPU runs the whole pipeline. Rank 0
reads requests and broadcasts them; every rank picks the next batch from its own
copy of the queue, and rank 0 answers. The worker below takes a batch through
the pipeline; it may keep components on the CPU and bring them to the GPU for
their use. Between two batches the weights can be replaced.

## 2. The modules

- **`RequestTracker`**: a tracker maps an id to its record or to `None`;
  `Submit`, `Transition`, `TransitionAt`, `Remove` and `FindTimedOut` are the
  calls of the class. Its `ValueError`s are swallowed by every caller, so an
  illegal call returns the tracker unchanged.
- **`DispatchPolicy`**: each policy as a relation between counter, free slots
  and the chosen instance (`Selects`, `CursorAfter`, `CursorAfterNone`).
  **`DispatchPolicyCheck`** holds the loops of `select_with_capacity` as
  recursive functions and compares both.
- **`DisaggProtocol`**: the deployment constants, the messages and `net`, the
  set of messages under way. ZeroMQ keeps the order of one connection, but a
  result socket merges the connections of all instances and of their RDMA
  threads; the model lets messages overtake each other freely, which allows
  every order the code can see and more.
- **`DiffusionServer`**: one variable per field of the class (`tracker`,
  `pending`, `free`, `tta`, `cursor`, `transfer`, `peers`), one action per
  handler and per turn of a drain loop. `todo` holds the sockets that were ready
  at the poll and are still to be served in this iteration, in the order of
  `_event_loop`; `Poll` starts an iteration when the drain has ended, and expires
  requests. A queue is a set of entries that each know who is ahead of them.
  Time is counted in submissions: `Tick` makes the oldest one overdue, so a
  timeout can strike at any poll. `running`
  becomes FALSE when an exception leaves the loop.
- **`RoleInstances`**: the pool (`allocated`), `_staged`, `_pending_receives`
  and the contents (`mem`) of every instance; one action per message that a
  thread handles. Data is abstracted to whose output of which stage it is, so
  that a mix-up of slots shows. `Faults` selects failing models (`compute`),
  failing pushes (`rdma`) and raising handlers (`exception`).
- **`DisaggSystem`**: clients, server and instances composed; properties,
  fairness, and the mapping to **`GenerationService`**, the abstract service a
  client sees: one reply per request, never unasked, and always.
- **`DisaggInvariant`**, **`DisaggOwnership`**: the inductive invariants.
- **`DisaggTrackerProofs`**, **`DisaggSlotProofs`**, **`DisaggPoolProofs`**,
  **`DisaggOwnershipProofs`**, **`DisaggDataProofs`**, **`DisaggProofs`**: the
  proofs (section 5).
- **`MCDisaggSystem`** and the other `MC` modules: constants for TLC.

One role instance:

- **`ReceiverThreads`**: rank 0 of one denoiser. Its recv thread, main thread,
  RDMA thread, transfer stream and compute stream are separate actors, where
  `RoleInstances` handles a message in one step. The environment offers data on a
  preallocated slot or asks for a slot first. The recv thread may raise and drop a
  READY (`PrefetchRaises`), staging may raise after it took its block (`Raise`,
  `leaked`), and a push may fail or raise (`RdmaPush`); what the code does not
  give back then stays taken. **`ReceiverInvariant`** holds the inductive
  invariants.
- **`RankLoops`**: rank 0 and the other ranks of one instance, what rank 0
  broadcasts, and the end of a loop after too many exceptions. In a forward pass
  a rank comes to a collective and waits (`Wait0`, `Wait`), or fails and goes on
  (`FailPass0`, `FailPass`); the pass ends when all ranks are at the collective
  (`Forward`). A request fails on all ranks or, for a rank in `FailAlone`, on that
  rank only, and `apart` records the latter. **`LoopErrors`** is the except branch
  both modules share.
- **`ReceiverInstance`**: the two composed. What the main thread of rank 0 does
  with an item of its queue is also a step of `RankLoops`, and it goes on with the
  result of a pass when `RankLoops` lets rank 0 leave it.
- **`ReceiverProofs`**: the proofs about the three.

The server without disaggregation:

- **`Deployment`**: how a server was started and what its clients will send. It
  is a variable that never changes, so one run covers several deployments.
- **`BatchAdmission`**: the rules and the cost that limit a batch.
  **`BatchScheduler`**: `event_loop` on every rank, from `Recv` to the answer,
  with warm-up copies, groups, control requests, the batching delay and failing
  sockets. Outputs are known by their request, so a wrong split of a merged
  result shows.
- **`ComponentResidency`**: the manager's bookkeeping (`active`, `future`,
  `prefetched`, `seen`) and, per component, whether it is on the CPU, on the GPU
  or still being copied. `FinishRequest` may come at any point, since the
  executor calls it in a `finally` block; its loop takes one step per component.
- **`WeightsUpdater`**: `update_weights_from_disk` one tensor at a time. The
  weights of a parameter are the checkpoint they come from. The reader deletes a
  damaged file, as the code does.
- **`Server`**: the three composed. A forward pass of the scheduler is a request
  of the residency manager (`StartForward`, `RunPipeline`, `EndForward`), or one
  step when every component is resident; an update request is a run of the
  updater (`StartUpdate`, `RunUpdate`), and its result is the scheduler's answer.
  Files are damaged while an update is to read them (`DamageFile`).
- **`ServerProofs`**: the proofs about residency and weights.

Operators that no action uses (`KeepPending`, `GiveBackAllButEncoder`,
`FastPathAnySize`, ...) are mutations: plausible errors, each of which makes one
property fail. `PROJECT.json` pairs them with the property, and maps every
definition to the lines it models.

## 3. What TLC checks

| Run | Deployment | Shows |
|---|---|---|
| `dispatch_policy` | 3 instances, 2 slots each | the relations are what the loops compute; a contending instance is passed over at most N-1 times |
| `serving` | 1+1+1 instances, 2 requests, sizes 1 and 2 | without timeouts and faults: no slot leaks, READY finds the right data, pools are restored when idle, every request is served |
| `timeouts_and_faults` | 1+1+1, 2 requests and a control message | with timeouts, failing models and raising handlers: counters in range, tracker consistent, no client gets another's result, and the frontend implements `GenerationService` with its liveness |
| `two_instances` | 2+2+1, `max_free_slots`, sizes 1 and 2, timeouts | late messages and RDMA writes go where they belong, a preallocated slot has one owner; the slot invariant holds |
| `duplicate_ids` | 3 clients, two with the same id | tracker and pending clients stay consistent; the invariant of the refinement proof holds |
| `role_instance` | a denoiser with 2 ranks, 3 requests, 1 preallocated slot, 1 pool block, a queue of 1 | what is reported as done was computed on its own data, every missing block is accounted for, collectives match and passes complete until a rank fails alone, an exception costs only its own request; the invariants `OwnDataInv` and `StepInv` hold |
| `server` | nine deployments, see below | clients get their own outputs once, batches keep to limits and order, ranks agree, components in use are ready, two-sided requests never have both denoisers on the GPU, a failed update restores what was served, everything is answered |

Bounds and why they are enough. Two requests are the fewest that compete for a
slot, a queue position, a pool block and a preallocated slot; a third client
brings a control message or a repeated id. With capacity 1 the first request
fills its instance, so the second one queues. One preallocated slot and sizes
around its size reach the fast path, the slow path and the recycling of a slot.
Two instances of a role are needed for a message to reach the wrong one. The
state space needs no further bound: a client sends once, and `Tick` never
overtakes `now`. `two_instances` checks safety only and uses the symmetry of the
clients with their ids; the runs that check liveness use none.

Three requests in `role_instance` are one computing, one queued and one arriving.
One pool block besides the preallocated slot makes an ALLOC fail while the
block holds staged output, and a queue of one makes the recv thread block.
`MaxErrors` is 2, so a loop survives one exception and ends with the second;
`MaxWork` bounds the requests rank 0 takes, `MaxAhead` the broadcasts another rank
has not received yet. `FailAlone` is rank 0, the one rank that runs stages the
other does not.

The deployments of `server` (`MCServer`) are chosen by what interacts:

1. one rank with a batching delay and four requests of two signatures, so that a
   batch fills up and leaves a compatible and an incompatible one behind;
2. two ranks with a warm-up and a control request;
3. one rank with failing sockets, a group, a request with an image, a shutdown;
4. a warm-up of one step, the default, and a request on a Wan-like timeline with
   two denoisers, under 18 assignments of strategies;
5. the same with a warm-up of two steps, which uses both denoisers, under 9;
6. two requests whose timesteps may lie on one side of the boundary, under 9;
7. and 8. two updates with one damaged file, of all modules and of some. The four
   checkpoints are one to start from, one that fits, one with a tensor of the
   wrong shape and one with a single, incomplete module;
9. an update and a request that needs an offloaded component.

No symmetry is used in `role_instance` and `server`, since both check liveness.

Fairness. `_event_loop` is a loop that polls with a timeout, so it keeps taking
steps (`ServerFairness`), and the clock advances (`TimeFairness`). That every
client is *answered* rests on these two alone: the timeout answers for a role
that never does. That every request is *served* also needs the threads of the
instances to keep taking messages (`RolesFairness`); that is assumed only in
`serving`, which has no faults. `role_instance` and `server` assume weak fairness
of the threads, which are loops around calls that block or time out, of the CUDA
streams, which run what is enqueued, of the other ranks, which receive what was
broadcast, and of the worker, whose pipeline has finitely many uses and whose
files have finitely many parameters. Clients, the transfers of other instances,
failing sockets and damaged files have none. In `role_instance` fairness is of
`Work`, what rank 0 does with what has arrived, taken together, and of each other
rank. A collective ends once all ranks have come to it, and not before.

## 4. Where code and documentation disagree

Each of these runs states what a comment or help text of the repository says and
is violated by what the code does; `PROJECT.json` quotes the lines.

- `timeout_leak`: a request that expires while it waits for the next role, or
  while its push is under way, never gives back its sender's slot.
- `encoder_error_leak`: an encoder error is answered without giving back the
  encoder slot.
- `push_failure`: PUSHED is sent whether or not the push succeeded, so the
  receiver may compute on whatever its slot holds.
- `late_allocated`: an ALLOCATED for an expired request is forwarded to an
  encoder with the index of a denoiser; with more denoisers than encoders the
  exception ends the event loop and nobody is answered any more.
- `rank_fails_alone`: a stage that only the main rank executes, as decoding does
  with CFG parallelism, raises on rank 0. The worker catches the exception and
  rank 0 goes on, while the other ranks stay at the barrier behind the stage. The
  model gives the barrier no timeout; in the code `dist_timeout`, an hour by
  default, ends the wait. The quoted line has rank 0 broadcast "so non-rank-0
  doesn't hang". It says so of control messages; nothing serves that aim here.

Further conditions under which the passing runs state their properties, because
the code does not keep them otherwise. The comments of the properties and the
hazards in `PROJECT.json` name them.

- `RanksAgree` and `AlwaysReplied` are checked with a batching delay on one rank
  and without it on two. Each rank compares the delay with its own clock, so with
  both one rank can dispatch while the other decides to wait; TLC refutes both
  properties for two ranks with a delay.
- `RolledBackMeansRestored` and `ServesOneCheckpoint` speak of histories in which
  `model_path` is where every module came from. After an update of some modules
  a rollback loads the others from a checkpoint they did not have, or skips them.
- `HeavyAlone` speaks of requests with timesteps on both sides of the boundary and
  of the time between requests. A request that uses a single denoiser, and a
  warm-up of the default single step is one, has both on the GPU while it ends:
  `finish_active_use` (`denoising.py:1310`) prefetches `transformer_2`, and
  `finish_request` (`component_manager.py:468`) brings `transformer` back before
  it releases the other. The comment at `component_manager.py:386` wants to "avoid
  making two vanilla-offloaded heavy components resident".
- `RanksInStep`, `StepInv`, `ForwardCompletes` and `AnsweredUnlessRaised` claim
  nothing once a rank has failed alone. The last two claim nothing once a loop has
  ended either. The ranks other than 0 never reset their error counter, so one of
  them can end after errors that are not consecutive.
- Blocks are lost for good in three ways: staging raises after it took its block,
  a push fails or raises (`free_staged` is called on success only), and a READY is
  dropped because its load could not be started. `BlocksAccountedFor` does not say
  that pools are restored; it says that each such event costs one block at most,
  and that of its own request.
- Idle preallocated slots drop out of the server's free list: a decoder's is never
  recycled, and a denoiser's is recycled with the size of its last data. So the
  slow path is taken although a large enough slot is idle. No property depends
  on it.
- A slot is sized without the padding between tensors; near a power of two
  staging raises. The model has no byte layout; the exception it leads to is one
  of those `RankLoops` allows.

## 5. What is proved

*Disaggregated serving* (`DisaggProofs`, `DisaggDataProofs`), for every set of
clients, number of instances, capacity, pool size and policy, with timeouts and
with every fault of section 2:

| Theorem | States | Assumes |
|---|---|---|
| `SlotsStayWithinCapacity` | no free-slot counter leaves 0 .. capacity, although PUSHED, DONE, results and timeouts all give slots back | distinct ids |
| `ServerViewConsistent` | `TrackerConsistent`: an answer is owed exactly while the request is tracked, queues match records | distinct ids |
| `OwnershipHolds` | no two requests share a block or a preallocated slot, and a message leads only to blocks of its request | distinct ids |
| `PreallocSlotOwnedOnce`, `PushesGoToOwnSlots`, `WorkIsAtRecordedInstance` | the three properties of `two_instances` that follow from it | distinct ids |
| `DataStaysInPlace`, `ReadyMeansArrived`, `ClientsGetOwnResults` | data stays in blocks of its request; READY finds it; a client gets its own result | distinct ids, no failing push |
| `SystemImplementsService` | no client is answered twice or unasked | - |

That no push fails is needed: `push_failure` (section 4) refutes `ReadyDataArrived`
without it. `SlotInvariantHolds` and `PendingClientsWait` state two of the
inductive invariants.

*A role instance* (`ReceiverProofs`), for every set of requests, pool, queue and
number of ranks, with exceptions and failing pushes:

- `AlwaysOwnData`: what is reported as done was computed on the data sent for it,
  under every interleaving of threads and streams.
- `BlocksAlwaysAccountedFor`: every block that is taken belongs to one request,
  which is under way or lost the block as section 4 describes.
- `RanksStayInStep`: until a rank fails alone, a rank in a collective waits there
  for the request of rank 0. Ranks enter, fail in and leave a pass one by one.
- `InstanceOwnData`, `InstanceBlocks`, `InstanceRanksInStep`: the composed
  instance keeps the three.

*The server without disaggregation* (`ServerProofs`), for every pipeline,
deployment, set of modules and checkpoints:

- `ActiveComponentIsReady`, `RequestsLeaveNothingBehind`: a component in use is on
  the GPU; between requests nothing is there without a reason.
- `SuccessMeansLoaded`, `RollbackMeansRestored`: what an update answers is so.
- `OneCheckpointServed`: the weights served are those of one checkpoint. It
  assumes that a checkpoint with all modules has all parameters (`WholeFiles`).

*The slot argument.* That counters are in range is not inductive: a handler
decides from the state of the record which slot to give back, so one must know
that the message at hand belongs to that state. `SlotInvariant` adds that a
request has at most one *token*, a message or a queue entry (`OneToken`), that a
tracked request is in the state its token says (`TokenState`), that ids not yet
read from the frontend occur nowhere (`FreshRequests`), that a transfer state
exists past the encoder (`TransferKept`), and `SlotBound`: free slots plus the
requests that hold one are at most the capacity. It is an inequality because
timeouts and encoder errors lose slots (section 4); equality is checked by TLC
in `serving`, where neither occurs. Every action then either moves one token and
leaves other requests alone (`OthersKept`, `MovedOnce`, `TokenMoves`), or drops
records (`PollKeepsInvariant`); slots given back or taken are counted by
`SlotGivenBack`, `SlotTaken` and `BoundGiveBack`. Distinct ids are needed: a
client that reuses the id of an expired request gives it two tokens.

Facts about cardinalities are a hypothesis of the lemmas (`Counting`), which
`CountingHolds` derives from the library.

*The tracker argument.* `AllConsistent` says of every id what `TrackerConsistent`
needs; that a dispatch or a result finds the record in the state it expects comes
from `SlotInvariant`.

*The ownership argument.* `OwnershipInvariant` says which request each block
belongs to: by `_staged`, by `_pending_receives`, or by a claim on a preallocated
slot in a transfer state, a READY or a PUSH (`PoolsApart`, `ClaimsApart`), and what
each kind of message may name (`TokensOK`). A timeout drops the record but not the
messages, so claims are read off the messages as well. `DataInvariant` then
follows the contents: a block is written only by the push or the staging of the
request that owns it.

*The refinement argument.* `AnswerInvariant` says that `_pending` names only
clients that wait, each under the id it sent. Hence popping an id answers at
most one client and that client for the first time; a timeout sweep answers
several at once, which the abstract `Answer` allows.

*The receiver argument.* The receive slot is freed before its load has run, so
the allocator does not protect the data. `OwnDataInv` says what does: a message
is in one place (`OnePlace`), slots in use are distinct, and stay allocated until
the computation starts (`SlotsHeld`), sent data is in the slot or already loaded
(`DataKept`), a staging is in the transfer stream behind the load of its own
request and into a block nobody else uses (`StreamsOrdered`), and a running
request has run on its data or not yet (`ComputedOnce`). The crucial step is
`HandleAlloc`: only the main thread hands out blocks, and it is not computing
then.

*The block argument.* `PoolInv` names the one block a request has: its receive
slot until its computation starts, the block of its output from staging to the
push, or the one left behind when staging raised. It needs `OwnDataInv` for
knowing where a request is.

*The rank argument.* Ranks leave a pass that fails on all of them at different
times, so rank 0 may be ahead. `StepInv` says that a broadcast which makes a rank
wait in a collective is the last one sent to it and names the request of rank 0
(`JoiningIsLast`): rank 0 cannot end that pass, or send anything, before that rank
has come to the collective. A broadcast of a request that fails has no such bound.
That is lost when a request fails on some ranks only, hence `~apart`.

*The residency argument.* `ResidencyInv` says that whatever is on the GPU without
a reason to stay is among the uses that `finish_request` will visit, at each point
of a request and of that loop.

*The weights argument.* `WeightsInv` compares the weights with those from before
the update: while loading, what is loaded is new and the rest old (`LoadInv`);
while rolling back, what still differs is still to come (`RollbackInv`). The
invariant `OneInv` adds that between updates all of it comes from `model_path`.

*The composition.* Every step of `ReceiverInstance` is a step of
`ReceiverThreads` or leaves its variables alone (`ThreadsStep`), and the same
holds for `RankLoops` (`RanksStep`). So the instance implements both
specifications and inherits their theorems.

Assumptions: `DeploymentAssumption` (finitely many ids, at least one instance of
each role, the types of the constants), `ServerAssumption`, `FaultsAssumption`,
`NoneAssumption` (Python's `None` is no record), `ReceiverAssumption` (no slot is
called "no slot"), `RankAssumption`, `MaxErrorsAssumption` and those of the server
(targets of an update are lists, and the checkpoint the server started from is
complete and fits). TLC evaluates all of them.

Only TLC checks:

- liveness (`EveryRequestServed`, the liveness part of `ImplementsService`,
  `AnsweredUnlessRaised`, `ForwardCompletes`, `AlwaysReplied`), which is out of the
  prover's reach;
- the loops of the policies, which are recursive;
- `SlotConservation` and `PoolsRestoredWhenIdle`, equalities that the code keeps
  only without timeouts and errors;
- the properties of `BatchScheduler`, which rest on what folds over sequences
  compute, and that needs induction over data;
- `HeavyAlone`, whose invariant would depend on the order of one timeline;
- `TypeOK` of `role_instance` and `server` as they stand.

## 6. What is not modelled

- Malformed frames, pickling and JSON; ids the server makes up for a request
  without one; statistics and metrics.
- The decoder branch of `_handle_transfer_done`, which no message reaches.
- The end of a role after three errors in a row, in `RoleInstances`: a role that
  has ended is one that takes no more steps, which every specification but
  `ServingSpec` allows. `ReceiverInstance` has it.
- The composition of `ReceiverInstance` with the whole system: its environment is
  the server, reduced to what it sends to one denoiser.
- The inside of the buddy allocator (splitting and merging under one lock) and
  the layout of tensors in a slot: a pool is a set of blocks of one size, and data
  is whose output it is.
- The streams and hooks of a layerwise-offloaded module.
- Two live generations of one id. A queue entry of the code keeps the transfer
  state it was made with; the model reads the one filed under the id. They differ
  only when an id is reused while messages of its expired request are under way,
  so no run has both repeated ids and timeouts, and the slot theorems assume
  distinct ids. `SystemImplementsService` does not look at transfer states.
- Restarts of a role: the code keeps nothing and has no handling of its own for
  them. A registration the server refuses is covered: it is one
  that never arrives, after which the slow path is used.
- Blocking of full ZeroMQ queues.
- In `RankLoops`: a rank that fails alone before or after the pass, since there code
  and inputs are the same on all ranks; several collectives in one pass, of which
  one stands for all; and `dist_timeout`.
- In `ReceiverInstance`: a PUSH arrives and is handled in one step, pushes are taken
  by the RDMA thread in any order, and the server turns to requests in one fixed
  order, which stands for all since requests are alike until then.
- The event loop without prefetching, and shutting a role down.
- In the scheduler: how tensors of requests are merged, and what control requests
  do in the worker (except the weight update).
- Residency: the snapshot strategies of the LTX-2 pipeline, a change of dtype on
  a move, `ensure_ready` (MOVA keeps several denoisers on purpose), and a change
  of the pipeline. The streams of whole-component moves are abstracted to "coming"
  and ordered: the allocator's `empty_cache` and the fetch of the results
  synchronise between them.
- Weights: downloads, checksums and layouts of tensors, and the branch for a
  `DiffusersPipeline`. A checkpoint is one file per module.
- Step caches: the decision to skip a step compares accumulated floating-point
  distances with a threshold. Its control is a counter and a flag per request,
  in one thread, and what could be wrong with it is numerical.
- Pipelines, models, layers, kernels: numerical code. The language-model runtime
  and the gateway: another system that shares the repository.
