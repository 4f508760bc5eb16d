# TLA+ verification of Megatron-DPU's BytePS communication

Megatron-DPU replaces NCCL all-reduce in Megatron-LM (gradients, tensor
parallelism) and in SGLang (tensor parallelism) by BytePS `push_pull`: workers
push tensors to a parameter server, which sums them, and pull the sum back. This
directory models that communication, model-checks it on small instances with TLC,
and proves its main properties for all instances with TLAPS.

Contents: [parts](#the-system-and-its-parts), one section per model, [runs](#runs),
[bounds](#bounds), [fairness](#fairness), [findings](#findings), [limits](#limits),
[proofs](#proofs), [not modelled](#not-modelled). `PROJECT.json` maps every
definition to the lines it models and lists the hazards the properties answer.

## The system and its parts

| Part | Source | Model |
|---|---|---|
| Server: request handler, per-key state | `byteps/byteps/server/server.cc`, `server.h` | `BytePSServer` (synchronous), `ServerLifecycle` (asynchronous) |
| Server: engine threads and queues | `server.h` (`GetThreadID`), `queue.h` | `ServerEngine`, over `KeyQueues` |
| Server: start and shutdown | `server.cc` (`byteps_server`) | `ServerLifecycle` |
| Worker: declaration, keys, `InitTensor` | `common/operations.cc`, `global.cc` | `TensorKeys`; the server's side in `BytePSServer` |
| Worker: pipeline of scheduled queues | `common/core_loops.cc`, `scheduled_queue.cc`, `ready_table.cc` | `WorkerPipeline`, over `LocalReduce` |
| Worker: local signals, NCCL manager | `common/communicator.cc`, `nccl_manager.cc` | `WorkerPipeline` |
| Worker: suspend, resume, shutdown | `common/global.cc`, `operations.cc` | `TorchHandles`, `TensorKeys`, `ServerLifecycle` |
| Torch plugin, handles | `torch/ops.cc`, `handle_manager.cc` | `TorchHandles` |
| ps-lite: barrier, retransmission | `3rdparty/ps-lite` (`van.cc`, `postoffice.cc`, `resender.h`) | `Postoffice` |
| ps-lite: customer, KVServer | `3rdparty/ps-lite` | in `BytePSServer` and `ServerLifecycle` |
| Megatron data parallelism | `distributed_data_parallel.py`, `param_and_grad_buffer.py`, `training.py` | `GradBuckets`; names in `TensorKeys` |
| Megatron tensor parallelism, SGLang all-reduce | `byteps_collectives.py`, `mappings.py` | names and groups in `TensorKeys`, calls in `BytePSServer` |

How they interact: a training or serving process calls `push_pull` on a named
tensor. The Torch plugin returns a handle; the first call of a name runs
`InitTensor` in a thread of its own, which derives the keys, registers the size of
the group with the server and sends an init push that acts as a barrier. Each call
then becomes one task per partition, which the loops of the machine's processes
reduce locally, push, pull and broadcast. The server's handler (one thread) turns
pushes into messages for an engine thread; the engine copies the first push of a
round over the key's buffer, adds the others, and at `ALL_RECV` opens the round
for pulls. Pulls that come too early wait in `q_pull_reqmeta`. Start and shutdown
of all nodes are separated by ps-lite's barriers.

The models meet at contracts. `GradBuckets` and `TorchHandles` use a collective
that sums the n-th call of a name; `WorkerPipeline` shows that a machine acts as one
worker (`LocalReduce`) and uses a server that sums rounds; `BytePSServer` shows that
the server does (`AllReduce`), using an engine with one queue per key; `ServerEngine`
shows that (`KeyQueues`). `TensorKeys` shows that the same keys, groups and lengths
are used everywhere; `ServerLifecycle` uses barriers, which `Postoffice` shows.

Conventions. State variables and actions keep the names of the fields and functions
they stand for. A tensor is the set of contributions summed into it, so a wrong,
missing, doubled or foreign contribution is visible. A thread's step ends where it
releases a lock, blocks, or hands something to another thread. An operator marked
`Mutant` stands before the definition of which it is a faulty variant; every
property of a passing run is violated when its mutant takes the definition's place.

## BytePSServer

State. The variables named after fields of `KeyState` are those fields, one per
key. A payload is the pair `<<worker, round>>` and a buffer the set of payloads
summed into it, so a wrong, missing or foreign contribution is visible.
`engine_queue[k]` and `engine[k]` are the messages of the key in its engine
thread. A worker has one request outstanding per key, so `stage[k][w]` tells where
the exchange stands and no network variable is needed. `epoch` is history and no
action reads it.

| Action | Code |
|---|---|
| `StartPushPull` | `InitTensor` on the first call, otherwise the push of `RunPushLoopOnce` |
| `HandleGroupRegister` | `kGroupRegister` branch of `BytePSHandler` |
| `HandleInitPush` | push while `store.tensor` is null |
| `HandlePush` | push afterwards, with the queueing of `ALL_RECV` by the last one |
| `HandlePull` | pull: answered now, or queued |
| `EnginePop`, `EngineWrite`, `EngineAllRecv` | one turn of `BytePSServerEngineThread` |
| `Transmit` | the transport reads the posted buffer and the worker receives it |

The handler holds the key's mutex, so each request is one step. Copying and summing
hold no lock: taking the message and completing the write are two steps, and a
`Transmit` in between may see the buffer before or after the write. A response is
zero-copy, so posting it and sending it are two steps as well.

`ProgramAllows` is the calling program. With `Overlap = FALSE` a worker makes
synchronous calls in key order; with `Overlap = TRUE` (Megatron's
`overlap_grad_reduce`) all keys of a pass are in flight at once and the pass ends
when every handle has been awaited.

`AllReduce` is the abstract specification: a call returns only after every member
of the group has called the same round, and returns their sum.

## ServerEngine

`GetThreadID` assigns each key to the least loaded thread and remembers it. The
handler pushes a message, and for the last push of a round pushes `ALL_RECV` and
then clears the key's counter, in three steps because the queue's mutex is taken
three times. A thread pops, then executes. `Schedule` is
`BYTEPS_SERVER_ENABLE_SCHEDULE`: the vector is then a heap ordered by
`ComparePriority`. `SiftUp` and `SiftDown` follow libstdc++'s `push_heap` and
`pop_heap`, because the code calls them on a vector that need not be a heap and
the result then depends on the implementation.

A worker pushes the next round after its pull is answered, which happens during or
after `ALL_RECV`; the guard of `HandlePush` says so. `PullAfterMerge` of
`BytePSServer` is the matching fact.

`KeyQueues` is what `BytePSServer` assumes of the engine: per key, one message at a
time and in order. `ImplementsKeyQueues` shows that the plain queue provides it.

## ServerLifecycle

One server from `byteps_server` to its return, with the scheduler and the workers.
The main thread starts the engine threads, starts the van, creates the server, sets
the request handler, passes the barriers of `StartPS`, of the server's start and of
`Finalize`, then stops the van, deletes the server and the reducer and joins the
engines. `objects` is what exists. Meanwhile the van's receiver (`Transmit`,
`Receive`), the customer thread with the handler (`Handle`) and the engines
(`EngineTask`, `EngineAnswer`) run; each sets `error` when it uses something that
does not exist. `sync` chooses the default mode, of which one round is modelled
here, or `BYTEPS_ENABLE_ASYNC`, in which the handler adds each push at once and
answers each pull with what is stored.

`Drain` says that workers wait for their answers before they shut down, as
`synchronize` makes them do.

## Postoffice

Peers send a request to the scheduler and wait. The scheduler takes part with two
threads: its main thread, whose `DoBarrier` holds `barrier_mu_` and runs the barrier
command in place, and its receiver, which runs it for the peers' requests. The
command takes four steps in either thread (`ReadCount`, `WriteCount`, `TestCount`,
`OpenBarrier`), because nothing guards the count; then `Manage` takes the mutex and
wakes the main thread. The two may come in any order, at any time.

A van with a `Resender` keeps a message until it is acknowledged and sends it again
after a timeout; on receipt it acknowledges everything and discards what it has
handled. The scheduler's van receives before it has a `Resender` (`StartResender`), so
early requests are neither acknowledged nor remembered (`missed`). `MaxFaults` bounds
losses and the timeouts that fire although the message has arrived, so duplicates and
late duplicates of earlier barriers occur. The scheduler stops its van after its last
barrier without waiting for acknowledgements.

What the code does not exclude is named in the properties: `repeated` (a request
counted twice), `raced` (both threads counting at once), `SelfLocked` (the main thread
needs the mutex it holds). `BarrierSeparates` and `BarriersPass` hold until one of
them occurs. `Orderly`, the constraint of the run, ends the exploration at the first
two, where these properties claim nothing more; of what follows, `ExactlyOnce` is
proved.

## TensorKeys

Each rank runs the declarations of its job: names built by Megatron or SGLang,
`declare_tensor` with the expected workers of its group, hashed keys, partitions of
`PartitionBytes`, group registration and init push, then pushes, and `resume` with the
redeclaration of all names in order. The server is the counting contract that
`BytePSServer` implements. Jobs: `LayoutJob` (tensor 2 x data 2), `OrdersJob` (data
parallel, ranks declaring in different orders, with a resume), `ServingJob` (SGLang,
two machines of two ranks, two shapes, two passes).

## WorkerPipeline

All processes of one machine. A task moves along its queue list (`PushQueueList`,
`PullQueueList`, which depend on the number of local ranks and PCIe switches); each
loop takes the first eligible task of its scheduled queue (ready count, credit),
does its stage and calls `FinishOrProceed`. Signals between ranks raise ready counts
and are consumed in arrival order. NCCL calls are grouped and complete when all
ranks of the switch have made them; copies are asynchronous, with an event that the
sync thread waits for. NCCL, CUDA and the server are external. Machines:
`SwitchMachine` (one switch, two tensors, credit 1, groups of two), `PartsMachine`
(three ranks, a tensor of two partitions, credit 2), `CrossMachine` (four ranks on
two switches, reduced through shared memory).

`LocalReduce` is the abstract specification: one worker that pushes the sum of its
ranks once all have given their input, and returns the server's answer to each.

## TorchHandles

`push_pull_async` of several names by several workers, each in its own order; the
detached thread of a first call (`InitTensor`, `Initialized`, `StartTask`), the
callback that marks the handle (`Finish`), `synchronize`, and `suspend`/`resume`
(`Suspend`, `DeleteQueues`, `FinalizeAndResume`), after which every name is initialized
again. `Drain` as in `ServerLifecycle`.

## GradBuckets

Megatron's bucket groups on each rank: forward pre-hooks, backward hooks that
register a parameter as ready in the last microbatch, `start_grad_sync` and
`finish_grad_sync`, parameter all-gather with the distributed optimizer, `no_sync`
microbatches, optimizer steps, of which a skipped one returns before the gather, and
evaluations and saves between iterations. A gradient is
the count of what was added to it. Collectives are matched in order of issue
(NCCL) or by name (BytePS). Jobs: `DpuJob` (BytePS reduction overlapped with the
backward pass, gradients ready in any order on each rank), `ShardedJobs` (distributed
optimizer with overlapped gather, any set of later steps skipped, evaluation after
any of the first two iterations), `SyncJobs` (without overlap, any of the first two
steps skipped).

## Runs

| Run | Instance | States | What it shows |
|---|---|---|---|
| `subgroup` | 3 workers, 3 keys, one of a 2-worker group, synchronous, 3 rounds | 7,839 | the server's `CHECK`s hold; results are sums of their round; posted buffers are stable; it implements `AllReduce`; every call returns |
| `overlap` | 2 workers, 2 keys, all in flight, 3 rounds | 48,153 | rounds are opened, counted and closed correctly while workers lap each other; no pull is stranded; every call returns |
| `engine_threads` | 3 keys, 2 threads, one key with two rounds | 113,941 | one thread per key; the engine implements one queue per key; every message is executed |
| `lifecycle` | 2 workers, 2 engines, synchronous or asynchronous with 3 rounds | 13,453 | nothing is used after it is deleted; the last barrier leaves nothing unanswered; a worker reads its own pushes and never loses one it has seen; everyone ends |
| `postoffice` | 2 peers, 2 barriers, one loss or early timeout | 351,132 | messages are handled once, but for requests older than the scheduler's `Resender`; nobody leaves a barrier another has not entered and barriers pass, with the exceptions named above |
| `keys` | the three jobs | 22,497 | ranks agree on keys and lengths; each key sums exactly one group; no check fails; every pass ends |
| `pipeline` | the three machines; two switches for one round | 108,579 | what is pushed is the sum of the machine, what is returned the sum of all; no `CHECK` aborts; credits are conserved; every round returns; it implements `LocalReduce` |
| `handles` | 2 workers, 4 calls of 2 names in different orders, suspend after 2 or 3 calls or never | 2,874 | every call gets the sum of the same call of every worker; nothing is used after shutdown; every call returns |
| `buckets` | 2 ranks, 2 bucket groups, 3 modules, 2 microbatches, 3 iterations, the supported jobs | 32,592 | the optimizer sees complete gradients; nothing is added to a bucket being reduced; no assertion fails; forward passes read the latest parameters; training completes |
| `lap_one_key`, `engine_schedule`, `cross_rounds` | violation | | see Findings |

`EveryPushPullCompletes` is checked in both server runs, as the synchronous and the
overlapped program wait for different things.

## Bounds

- Rounds. Everything the server keeps from one round to the next is a flag, a counter
  or a set that is reset when the round closes, and a worker is never more than one
  round ahead of another. With three rounds a round meets the leftovers of one that
  itself met leftovers. `pipeline` has two rounds on one switch and one on two,
  because a second round there fails (`cross_rounds`).
- Workers, ranks, peers. Two are enough for a fast and a slow one; `subgroup` has a
  third for a proper subgroup, `PartsMachine` and `CrossMachine` for signals from
  several ranks. Three workers with all keys in flight are left to the theorems.
- Three keys on two threads are the least with a shared and an unshared thread.
- Three iterations: the hooks change after the first, and a stale flag of the
  second is seen in the third.
- `KeysPerTensor` and `HashSpace` stand for 2^16 and 10^9; the key arithmetic is the
  same. Distinct names have distinct hashes (Limits).
- One fault (`MaxFaults`) is the loss of a request, a response or an acknowledgement, or
  a late duplicate of a handled message, at every moment of two barriers; several are
  left to the theorems. It stays below the ten retries after which `Resender` aborts
  the process.
- No symmetry is used, as liveness is checked. Deadlock is not checked where the
  modelled program ends; the liveness property then says that it ends well.

## Fairness

- `BytePSServer`: weak fairness of the handler, of each key's engine, of the transport
  and of the workers. Each is a thread that loops for ever, and none can be disabled
  by another once enabled.
- `ServerEngine`: of the engine threads and of the rest of a request already being
  handled, not of new requests.
- `TensorKeys`, `GradBuckets`: of each rank, and of the collectives. `TorchHandles`: of
  each program and of each call's thread and callback.
- `WorkerPipeline`, `ServerLifecycle`, `Postoffice`: of the next-state relation as a
  whole. There every step moves a bounded piece of work on, so behaviours are
  finite and this only says that the system does not stop while some thread can
  run.

## Findings

- `lap_one_key`. The server keeps one buffer per key. When a round is open, a fast
  worker can pull, return and push the next round; `COPY_FIRST` then overwrites the
  buffer although a slower worker's pull is not yet served, or its zero-copy response
  not yet sent. The slow worker gets the next round's data. It cannot happen when
  between two rounds of a key every member of the group completes a call on another
  key whose group includes this one: that is `Separated`, the condition of the
  theorems below.
- `engine_schedule`. `push_cnt_` is part of the comparison and changes while messages are
  in the heap. A pop may then return a message that is not first, and even `ALL_RECV`
  of a key before its `SUM_RECV`, so that a pull is answered with an incomplete sum.
  The default (`BYTEPS_SERVER_ENABLE_SCHEDULE=0`) is not affected.
- `cross_rounds`. On two PCIe switches all GPUs copy the result out of the host buffer of
  the last switch (`core_loops.cc:795`). The GPUs of that switch do not wait for those
  of the first: after their own broadcast they return, and their next `push_pull`
  copies its gradients into the same buffer (`core_loops.cc:454`). A GPU of the first
  switch that has yet to copy its slice gets a part of the next round, and broadcasts
  it to its switch. On one switch the broadcast needs every GPU's copy, so it cannot
  happen.

## Limits

Configurations outside the passing runs in which one of their properties fails. Where
a module is named with constants, TLC shows it with those constants; the rest follows
from the lines quoted.

- `BytePSServer`, `PullReturnsSum`: with `Overlap` (`overlap_grad_reduce`, which awaits all
  handles before the next pass) the overwriting of `lap_one_key` happens too, since a
  pass may end on one worker while another's response is unsent; and in synchronous
  mode with keys of the groups {w1, w2} and {w1, w3} only, which share one worker.
- `ServerEngine` with `Schedule`: the order by count that `ComparePriority` means to give
  is not kept either.
- `GradBuckets`, overlapped gather: when the first optimizer step is skipped, an
  evaluation or save before the next one removes forward pre-hooks that have not been
  registered, which raises an exception (`distributed_data_parallel.py:404`). The same
  happens with the save the rerun state machine may ask for (`training.py:2272`) when it
  falls in the first iteration, before the hooks are enabled (`training.py:2288`). That
  save is not modelled: saves come at the end of an iteration.
- `GradBuckets`, `use_dpu_reduce` with the distributed optimizer and overlap: the wait
  iterates over a handle that is not a list (`param_and_grad_buffer.py:523`).
- `TensorKeys`, two buffers (two gradient types): a bucket's name holds its index within
  its own buffer, so buckets of different buffers share a key.
- `TensorKeys`, hash: names are hashed modulo 10^9 and a collision is not detected.
- `TensorKeys`, a tensor of more than 2^16 partitions: its keys run into those of the next
  declared key (`operations.cc:546`).
- `TensorKeys`, resume with a subgroup: `ReDeclareTensor` loses `expected_workers` and the
  Python cache skips the declaration, so the init push of the subgroup never completes.
- `TensorKeys`, Megatron with several ranks per machine: `group.size()` ranks are
  registered but one push per machine arrives.
- `TensorKeys`, SGLang with pipeline stages: the number of nodes is not the number of
  pushing workers of a stage.
- `WorkerPipeline`, three switches: only the first buffer is added.
- `TorchHandles`, calls without a name: all are `byteps.noname.0`, so calls made in
  different orders are summed with each other.
- `TorchHandles`, two calls of one name in flight: the second may overtake the detached
  thread of the first (`ops.cc:114`), on one worker and not on another, and the sums
  mix the two calls. `ProgramAllows` keeps one call of a name in flight, as Megatron and
  SGLang do.
- `TorchHandles` without `Drain`: a handle pending at suspend may never be marked, and the
  detached thread uses a cleared context. `ServerLifecycle` without `Drain`: a request is
  handled after the van, the server or the reducer is deleted.
- `Postoffice`, the scheduler last: `DoBarrier` holds `barrier_mu_` while it sends
  (`postoffice.cc:241`). When the scheduler's request is the last, the response to
  itself reaches `Manage` in the same thread, which locks `barrier_mu_` again, and the
  scheduler never returns: `SelfLocked`.
- `Postoffice`, both threads counting: the count is incremented without a lock
  (`van.cc:433`), so an increment may be lost, and both threads may find it full:
  `raced`.
- `Postoffice`, start: requests that arrive before the `Resender` exists (`van.cc:686`) are
  neither acknowledged nor remembered (`van.cc:793`), so a retransmission is counted
  again: `repeated`.
- `Postoffice`, node ids: they are taken modulo 256 in the message key
  (`resender.h:102`); hence `Peers` is a subset of 2..255.
- `Postoffice`, stop: the scheduler's van stops after its last barrier with linger 0, so
  a lost response is not sent again. `BarriersPass` excepts that barrier.

Steps that are coarser than the code, in ways the properties do not tell apart:

- `TorchHandles.StartTask`: the task's enqueueing and the end of the detached thread are
  one step; after the first the thread only logs.
- `WorkerPipeline`: the root takes a whole NCCL group and broadcasts it in one step, the
  code task by task (`core_loops.cc:305-331`), before any of them is waited for. The
  PCIe reduction's signal and its `FinishOrProceed` are one step, the code signals
  first (`core_loops.cc:481`, `514`).
- `ServerLifecycle`, asynchronous: the engines exist and stay idle; the code creates none.
- `BytePSServer`: `GetThreadID`'s `CHECK` for pulls (`server.h:164`) is left out. A worker's pull of a
  key follows its own push of the key, for which the same handler thread has called
  `GetThreadID` (`server.cc:386`), so the key is in `hash_cache_`.

## Proofs

TLAPS checks all theorems for every value of the constants that the named assumptions
allow (`ConstantsAssumption` of either server module, `PostofficeAssumption`,
`ProgramAssumption`, `EngineAssumption`, `ConfigAssumption`).

### BytePSServer

`BytePSServerControl` (the invariant, its types and the protocol state of one
key) and `BytePSServerProofs` (the content of the store, the invariant as a whole,
the properties) hold for any finite set of workers, any keys, groups and bound
(`ConstantsAssumption`).

- `TypeCorrect`: `TypeOK` is an invariant.
- `ServerInvariant`: the inductive invariant. The properties are not inductive:
  that a pull is answered after the merge depends on what is still queued, which
  depends on who has pushed, which depends on who was answered in the last round.
  `KeyInv(k)` therefore fixes for each key, phase by phase: which workers stand
  outside the group (`Outside`), what the server counts to (`Counting`), the state
  before the store exists (`Initializing`), how far workers' rounds may be from
  `epoch` (`Rounds`), what is in `request` (`Collecting`), who waits (`Queued`), who
  has been answered (`Serving`), the shape of the engine's queue (`Order`), and with
  `Content` what the buffer holds. There is one lemma per action and part.
- `ControlCorrect`, `AccountingExact`, `NoPullForgotten`, `ServerChecksHold`:
  `PullAfterMerge`, `ServiceAccounting`, `NoStrandedPull` and `ChecksHold` follow from
  it, whatever the program does.
- `SeparatedSum`, `SeparatedBuffers`, `SeparatedRefinement`: if `Separated` holds,
  then `PullReturnsSum`, `PostedBufferStable` and the implementation of `AllReduce`.
  The additional invariant is that the program keeps the workers in lockstep: nobody
  starts a round of a key before everyone has completed the last one.

### ServerLifecycle

`ServerLifecycleInvariant` and `ServerLifecycleProofs`, for any workers, engines and
rounds, in both modes, assuming `Drain`. `LifecycleInvariant` is the inductive
invariant. That an object outlives its users depends on the last barrier, which
depends on every worker having its answers, which depends on where each request is.
Hence: `Phases` (what exists and which barriers are passed, by the place of the main
thread and of the workers), `Located` (a worker's request is in exactly one place),
`Round` (what is queued, and what handler and engine know of the round), `Content` (what
is stored or still queued to be, and what was read), `Answering` (an engine answers
only a finished round). From it: `ObjectsOutliveTheirUse`, `ShutdownDropsNothing`,
`PullsSeeTheirPushes` and, as an action property, `ReadsNeverGoBack`.

### Postoffice

`PostofficeProofs`, for any set of peers, any number of barriers, losses and early
timeouts, with the scheduler first, last or in between. `BarrierInvariant` is the
inductive invariant, in two parts. `Base` holds always: `Resenders` (a key that a
receiver remembers is one of a handled message, and every handled message is
remembered or `missed`), `Directed` (who sends what to whom) and `ExactlyOnce`.
`Ordered` holds as long as `Orderly` does. That a duplicate cannot open a barrier
depends on what each receiver remembers, and that the count is right on which requests
are still new to the scheduler. Hence: `Fresh` (only a peer's last request, and one
response per peer, can be new to its receiver), `ThreadPlaces` (where the two threads
are, who holds the mutex, when `done` is set), `Counting` (the count and the requests
being counted make up the requests of the current barrier), `Between` (entering and
leaving stay within one barrier of the answers). From it: `EveryMessageOnce`,
`BarrierHolds`.

### ServerEngine

`ServerEngineProofs`, for any keys, threads, rounds and loads, without `Schedule` (with
it the refinement fails, see `engine_schedule`). `EngineInvariant` is the inductive
invariant: `Placed` (a queued message is at the thread its key is cached for, and its id
is older than the clock), `Sorted` (the ids of a queue ascend) and `Worked` (a busy thread
is its key's thread). From it `ThreadsNeverShareAKey` and, by mapping the messages of a
key in its thread's queue to the abstract queue of the key, `EngineRefinement`: every
step of the engine is a step of `KeyQueues` or a stutter.

### TorchHandles

`TorchHandlesProofs`, for any workers, calls and names, assuming `Drain`.
`HandleInvariant` fixes for every call where its handle and its detached thread are in
each phase of suspend and resume; from it `NothingOutlivesShutdown`. `EveryCallPairsUp`
assumes in addition that the programs are `Ordered`: every worker makes the calls of a
name in the same order and the same calls before a suspend, which `MCTorchHandles`
checks of the programs of the run. The inductive invariant of `PairingInvariant` adds
that a call in flight is the latest of its name (`Latest`), which calls the line of a
name holds (`Members`), in which order (`Sorted`), and that the lines of two workers
agree (`Paired`).

### GradBuckets

`GradBucketsProofs`, for any ranks, bucket groups, parameters, microbatches and
iterations (`ConfigAssumption`: every group has a parameter, and overlapped gathers
imply overlapped reductions, as the arguments' validation demands).

- `BucketInvariant` is the inductive invariant, for every job. That the optimizer sees
  complete gradients depends on each group's reduction having been waited for, which
  depends on the handle, which depends on whether the last hook of the group has run.
  Hence, for each rank: `Position` (where its loops stand), `Hooked` (when the pre-hooks
  are registered: after the first successful step and not around an evaluation), `Once`
  (no collective is issued twice); for each group: `Registered` (which hooks have run),
  `ReduceHandle` and `Outstanding` (a reduction is started, held by its handle and not
  left behind by the wait), `GatherHandle` and `Gathering` (the same of a gather); for
  each parameter `Buffer` (what `main_grad` holds before, during and after the
  reduction). From it `StepsOnCompleteGradients` and `BuffersQuietInFlight`.
- `ShardInvariant` assumes that the jobs are `Supported`: the two conditions whose need
  [Limits](#limits) describes. It adds to the first that ranks agree on how often a group
  was reduced, when `param_gather_dispatched` is set (`Dispatched`), and that a shard is
  the outcome of the last step unless its gather is due (`Shards`). From it
  `SupportedJobsRun` and, as an action property, `ParametersAreFresh`.

`Sum` counts the gradients of all ranks in one set and `Without` takes an operation from
its place, so that both can be reasoned about without induction. How cardinalities grow
is used through `Counting`, which `CountingHolds` proves.

### Only model-checked

Liveness, which needs fairness. `TensorKeys` and `WorkerPipeline`, whose tensors and
machines are given data that recursive definitions and folds take apart, and the
refinement of `LocalReduce`.

## Not modelled

- Server: `BYTEPS_SERVER_ENGINE_BLOCKING`, in which `merged.tensor` is never set, so that by
  the code alone its first pull, or its second push, fails a `CHECK`
  (`server.cc:423`); compressed pushes and pulls; debug output.
- Worker: compress and decompress stages and the GDR loops, which the queue lists of
  the source do not use; `BYTEPS_REDUCE_ROOTS`, `BYTEPS_SYNC_CUDA_COPY`, sampling,
  profiling; reading the environment and creating resources.
- Local communication: the rendezvous of the sockets and of the NCCL ids. Shared
  memory and CUDA driver calls have no protocol state of their own.
- ps-lite: node management and heartbeats, the RDMA transport (taken as reliable
  delivery with a delayed read of the posted buffer), slicing and request timestamps
  of `KVWorker`.
- Numeric code: the loops of the CPU reducer are sums of sets, compressors are left out.
- Plugins of MXNet, TensorFlow and Keras, the cross barrier and the parallel wrapper of
  the Torch plugin: other front ends, not used by the training and serving paths here.
- Megatron: layer-wise and partial distributed optimizers, FP8 and expert-parallel
  buffers, the autograd functions around tensor-parallel reductions;
  `pre_declare_all_byteps_groups`, which nothing calls. SGLang: selection of the backend.
- The rest of Megatron-LM and SGLang takes no part in this communication.
