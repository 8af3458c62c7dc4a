# Verification of Tiga

Tiga is a compiler and runtime for graph and tensor programs: Python front ends
build tensor expressions and message-passing programs, MLIR passes and code
generators lower them, and a runtime executes them under memory budgets, from
disk-resident graphs, on worker pools and across distributed ranks. This
directory holds TLA+ models of the parts where the order of steps matters, the
TLC runs that check them and the TLAPS proofs about them. Paths below are
relative to `src/python/tiga/` unless they start with `lib/`, `docs/` or
`python_bindings/`.

    tlc -workers 2 -config MCExecution.cfg MCExecution    # any run of section 4
    tlapm ExecutionProofs.tla                             # the proofs of section 5

## 1. Inventory

| component | source | state | operations | what is hard | what makes it correct |
|---|---|---|---|---|---|
| managed memory | `runtime/memory.py`, `tensor/spill.py`, `Tensor.realize/spill/disk` | live bytes per tier, resident LRU map, pins, each Tensor's buffer or spill file | create, realize, spill, reload, evict, finalize | operations nest and unwind through exceptions; finalizers run anywhere; eviction must not touch what an operation uses | budgets hold; the counter is exact; no materialized value is lost; pins balance; operations end |
| paged message passing | `message_passing/paged.py` | read-ahead window, arena slabs, the full output | load page, stage, run kernel, drain, write | the output is live across pages; worker threads; slabs reused | complete output; bounded read-ahead; no worker left behind |
| TCP rendezvous and mesh | `distributed/tcp.py` | registrations, rank plan, connections | host, join, dial, accept | every rank blocks on others; timeouts, refusals, stale connections | who returns is connected to everyone; nobody waits for ever |
| memory hierarchy | `runtime/hierarchy.py` | instances per tier, live bytes, readers, completions | allocate, transfer, latest, close | background transfers; failures; reuse of a destination | bytes exact; transfers undisturbed; torn data never read |
| compile worker | `codegen/compile_worker.py` | child process, request ids, pipes | compile, timeout, kill, respawn, close | a late answer to an abandoned request; crashes between any two steps | own answers; a fault costs one compile; no hang |
| execution bundles and plans | `runtime/bundle.py`, `runtime/plan.py`, `interop/torch/provider.py` | DAG of launches, reachability, completions, CUDA streams | verify, bind, bind by phase, submit, wait, close | a launch names direct dependencies, wait() only terminals; the rest is left to stream order | launches run in dependency order, conflicting ones never together |
| partition and halo maps | `distributed/model.py`, `distributed/transport.py` | none: formulas every rank evaluates for itself | owned range, owner, ghosts, send lists | two formulas on two ranks must agree | the owner's range holds the entity; what one receives another sends |
| transport and halo exchange | `distributed/transport.py`, `distributed/tcp.py` | streams per peer, progress threads, posted exchanges | start, receive, send, finish, reverse, timeouts | streams carry no tags: order alone says which exchange a frame is of; partial failures | every ghost gets the value of this step; every rank ends |
| CPU worker pool | `python_bindings/compiler_module.cpp` | job vector, generation and completion counters, threads | launch, worker loop, stop | jobs on the caller's stack are replaced while workers wake | every element computed once before launch returns |
| torch interop | `interop/torch/` | matrices, graphs, launches and padded weights kept from call to call | weighted sum, radius sums, edge networks, backward | entries recognised by ids, addresses and version counters, all of which are reused | a call uses what its inputs are now |
| graphs and graph storage | `graph/core.py`, `graph/storage.py` | files of a paged CSR store, open stores | create, save, open, read | several processes, failing writes, a crash between files | what is at a destination is a whole store |
| graph offload | `graph/offload.py` | counter of a process, its directory | offload | names shared by processes | the name of an offload is free |
| compiler passes; code generation | `lib/Transforms`, `lib/Target`, `codegen/` | none beyond a call; the generated kernels have the worklist in device memory | degree bucket planning, worklist decomposition, Triton kernels of the buckets | programs of a kernel run in any order; plan and kernels share conventions that only agree by care | every row computed with all its edges |
| native runtime | `lib/Runtime/Runtime.cpp`, `runtime/__init__.py` | reference counts, events, streams | retain, release, record, wait | release races | freed once, after the last use |
| jit loops | `jit.py`, `control/` | captured regions, carried values | range and while loops | loop index after the loop, inverted conditions | same result as the Python loop |
| program and executable caches | `program/core.py`, `compiler/*_tensor.py` | semantic hash to executable | lookup, insert | the choice of the key | a hit means the same program |
| autograd, front end, NCCL and MPI, visualisation | `autograd/`, `message_passing/core.py`, `distributed/nccl.py`, `visualize/` | - | pure transformations and adapters | - | - |

How they interact. Every allocation of a Tensor and every `Buffer` goes through
the active `execution` scope (managed memory); paged message passing runs its
pages inside that scope and is therefore exposed to eviction. The hierarchy
runtime has its own budgets and is driven by plans (`_TransferExecutable`) or
directly by client threads. Bundles submit launches to a provider: the degree
worklist is such a bundle, its reset, histogram, prefix, scatter and bucket
kernels are launches with dependencies and partitioned outputs. A sharded call
derives halo maps from the partition, and exchanges halos over the mesh that
the TCP rendezvous built. The compile worker is called by code generation, from
any thread, under its own lock. A graph that is too large is offloaded: saved
by the storage layer under a name of its own, and read page by page.

## 2. Modules

Each module's comments name the code; `PROJECT.json` maps each definition to lines.

| module | models | state and the code | actions and the code |
|---|---|---|---|
| `Execution` | one `execution` scope and the Tensors in it | `ram`, `nvme` = `_live`; `tracked`, `older` = `_resident` and its order; `pins` = `_pins`; `buf`, `spilled`, `operands` = the fields of a Tensor; `charged`, `fcharged` = the reservations held by buffers and spill files; `leaked` = the bytes of `_live["nvme"]` whose reservations nobody refers to any more; `bdata`, `fdata` = which parts of a value are there; `stack` = the activations of the operation in progress | `BeginCreate/Realize/Spill` = entering a guarded method; `RestoreInput` = `managed_operation`; `ReserveRead/Commit`, `MakeRoom`, `OutOfMemory` = `reserve` and `_make_room`; `Evaluate`, `AllocateOutput`, `Launch`, `LaunchFails` = `realize`; `Reload`, `Detach` = `spill.py`; `StoreFails`, `ReleaseFails` = its two failures that keep a reservation; `Collect`, `Drop` = finalizers; `Raise` = an exception and its handlers |
| `TcpMesh` | `TCPTransport.host` and `join` of all ranks | `backlog`, `plan`, `pending`, `reply` = the rendezvous; `queue`, `answer`, `peers` = the mesh; `phase` = where each process is | one action per send, receive, accept, refusal and time-out |
| `Hierarchy` | `HierarchyRuntime` with its clients and background transfers | `inst` = every `PhysicalInstance` with its completion and readers; `live` = `_live_bytes`; `jobs` = the transfers; `call` = where each client is; `files` = what is on disk | `Allocate/Publish/AllocationFails`, `Transfer/Wait/Submit/Filter/Record`, `Begin/Complete/Fail` (the pool), `Close/Release`, `Shutdown`, then `ShutdownNext/Wait/ShutdownRelease` per instance, `ShutdownEnds` |
| `CompileWorker` | `PersistentCompileWorker` and its child | `phase`, `request` = callers under the lock; `process` = the child with both pipes; `answer` = what each caller was told | `Start`, `Send`, `Answered`, `Desynchronized`, `TimeOut`, ... = `compile`; `Take`, `Answer` = `_serve`; `Crash`, `Hang`, `Interrupt` = what can happen |
| `PagedRun` | one `execute_paged_message_passing` under a budget | `loads` = the futures of the read-ahead pool; `place`, `older` = where the values of the page and the output are, and the order of their use; `target` = what `result._buffer.write` was looked up on; `rows` = what was written | `Fetch`, `Allocate`, `Evict`, `Lookup`, `Write`, `Leave` of the run; `RunLoad`, `FinishLoad` of the workers |
| `LaunchOrder` | what a bundle promises: a launch begins after everything before it is done and never beside one it conflicts with; `wait()` returns last | | abstract: `Begin`, `End`, `Return` |
| `Bundle` | one plan from binding to `wait()`, on the synchronous provider or on CUDA streams | `plan` = the launches with dependencies, accesses, phases, snapshot versions; `queue`, `order`, `reach` = the locals and result of `_verify`; `next`, `submitted`, `stream`, `handle`, `after` = the loop of `submit` and the event waits it issued; `begun`, `done` = the device | the calling thread (`Host`): `_bind` or `bind_phase`, one round of Kahn's loop, the closure and conflict test, `submit` launch by launch, `wait`; the device: `Start`, `Finish` |
| `Partition` | `owned_range`, `destination_owner`, the ghosts of `derive_halo_map` and the lists of `collective_halo_maps` | operators only | |
| `HaloExchange` | one program of sharded calls, backward passes and posted halos on every rank | `main` = the program of a rank; `status` = an exchange: posted, started, receiving, ...; `send`, `head`, `got` = its messages; `wire` = the untagged stream of each pair; `faults` = what went wrong | `Progress` = the calling thread and the progress threads; `Send`, `Receive` = the threads of an exchange; `Expire` = the sockets' time-out; `Faulty` = a crash, a failed read or computation |
| `CpuPool` | `CPUState`: the executable, its threads, the launches that share it | `size`, `generation`, `completed` = the fields under `mutex`; `launchMutex`; `worker`, `seen` = the threads; `runs` = how often each job ran | `Enter`, `LaunchStep` = `launchCPU` and `launch()`; `Check`, `FinishJob` = the worker loop; `Spurious` = a wakeup without a reason; `Stop`, `NotifyStop`, `Join` = the destructor |
| `TensorCaches` | the caches of `interop/torch/message_passing.py` and `graph.py` | `tensor`, `data`, `version`, `inference` = Torch tensors with addresses that are reused; `executable`, `sparse`, `csr`, `padded`, `prepared`, `slot` = what is kept; `forward` = a context whose backward has not run | `Weighted`, `Distance`, `EdgeNN`, `Forward`, `Backward`, `Resolve` = the calls; `Create`, `View`, `Write`, `Drop`, ... = what a caller does with tensors and graphs between them |
| `GraphStore` | saves of graphs as directories, by several processes, and offloads | `disk` = the files of every directory; `save` = where a process is; `pid`, `counter` = the name of an offload; `opened` = its open store | `Save`, `SaveStore`, `Offload` begin one; `MakeDirectory`, `CopyFile`, `WriteFile`, `Rename`, `Clean`, `OpenSaved` go on; `Manifest`, `Merged` = what `_write_fields` makes of the fields of a copied store and the given ones; `FileFails`, `Crash`, `Restart` |
| `DegreeWorklist` | the plan of degree buckets and the kernels that carry it out | `bounds`, `split` = the plan; `memory` = the worklist: counts, cursors, rows; `stage`, `todo` = the kernel that runs and its programs; `stores` = who wrote each row of the output | `Build` = the reset, histogram, prefix and scatter kernels; `Run` = a program of a bucket's kernel |
| `...Proofs` | theorems about the module before it; `TransportProofs` about `TcpMesh`, `Partition` and `HaloExchange`, `WorkersProofs` about `PagedRun`, `CpuPool` and `CompileWorker` | | |

`MC<module>` instantiates a module for TLC. A definition whose name ends in
`Variant` or whose comment starts with `Variant:` is a plausible mistake in the
definition below it; no behaviour of the model uses it. `PROJECT.json` pairs
each property with one that breaks it.

`HaloExchange` is composed with `Partition` (it extends it: who sends to whom
is what the two formulas say), and `Bundle` with `LaunchOrder` (it implements
it). `PagedRun` restates the part of `Execution` a paged run meets (least
recently used victim, pins only while a page is realized) instead of composing
the two: the pages' values are few and fixed, and the whole run fits into TLC.
Components that are proved in one module name their parts apart: `MeshInit`,
`PoolNext`, `WorkerSpec`, `PagedTypeOK`, and so on.

## 3. What the properties say

*Managed memory.* `BudgetRespected`: what is really allocated in the scope
never exceeds a budget, on disk together with what failures keep reserved.
`AccountingExact`: the counters are the bytes of the live allocations and files,
plus those that exactly two failures of `spill.py` keep reserved for good.
That the counters are zero when the last Tensor is gone, as the documentation
says, is `NothingCountedInTheEnd`; it does not hold (section 6) and is in no run.
`NoValueLost`: each materialized Tensor has its whole value in memory or in its
file. `InputsResident`: a kernel finds its inputs in memory. `PinsBalanced`: a
Tensor is pinned exactly as often as activations need it, also after an
exception through several of them. `PinnedStayResident`: no step takes the
allocation of a pinned Tensor, except the spill of that very Tensor.
`OperationsEnd`: eviction, restoring and fallback do not feed on each other.

*TCP mesh.* `MeshOK`: the state is well typed, and a returned transport has a
validated connection to one planned process of every other rank, two returned
ones to each other. `EveryoneReturns`: each process returns or raises.
`WorldComesUp`: if no wait times out, one process per rank returns, although
others claim a taken rank or another world size.

*Hierarchy.* `BytesOK`: the byte counters are those of the open instances, and
a shut down runtime holds no byte and no file. `TransfersUndisturbed`: nothing
closes, overwrites or reads the instances of a transfer under way.
`NothingTorn`: a half-written instance is behind a failed completion and never
becomes a source. `Delivers`: a transfer that completes has put the value of
its source into its destination. `CallsReturn`.

*Compile worker.* `OwnAnswer`: an answer that is returned was made for the
module of this call. `WorkerOK`: compiles raise at most once per crash, hang or
interrupt. `CompileEnds`.

*Paged run.* `RunOK`: the budget holds, no more pages are read ahead than
`depth`, and no worker outlives the run. `LostOnlyByEviction`: a returned
output that was never spilled has the rows of every page. `RunEnds`.

*Bundle.* `ImplementsLaunchOrder`: the bundle refines `LaunchOrder`. `before`
is the transitive closure of the dependencies, over all launches of the plan
also when it is bound by phase, `clash` the pairs with conflicting accesses.
`ReadyMeansDone`: a submission that says it is ready has nothing left to run,
although only the terminals are asked.

*Halo exchange.* `CallsExact`: a step that ended without an error has put into
its fields, for every ghost, the value its owner gave this field in this step,
whatever failed or was delayed before. `FailsOnlyAfterFault`: without a fault
no exchange fails; the ranks do not wait in a circle. `ComputeFailureStaysLocal`:
a computation that fails on one rank fails no other in the same step.
`RanksEnd`: every rank ends.

*CPU pool.* `JobsStable`: the jobs a worker reads are those of the launch that
published them. `ElementsOnce`: when a launch is over, each element was computed
exactly once. `LaunchEnds`: launches end, and dropping the executable does.

*Tensor caches.* `CallsCurrent`: a call uses what its inputs are now, whichever
entry was kept for objects with the same ids and addresses. `GradientsCurrent`:
a backward differentiates the relation its forward summed over, or refuses.
`GradientsKept`: a gradient the caller still holds is not overwritten.

*Graph store.* `StoresOK`: what is at a destination is a whole store, with the
topology of one graph, the fields its manifest names and no others, and a save
that returned or raised has left no temporary directory. `SavesExact`: a save
that is about to return has left what it was asked for: the given topology and
fields or, from a store, that store with the given fields in place of those of
the same name and all its other fields kept. `OpenedStays`: an open store is
what it was when it was opened. `OffloadsFree`, proved only: the name of an
offload is never taken.

*Degree worklist.* `WorklistSorted`: after the scatter the segment of each
bucket holds the rows whose degrees it is for, each once. `WithinWorklist`: a
program that passes the mask of its bucket reads a slot of the worklist that is
in memory, in its bucket's segment, and finds the index of a row there.
`RowsComplete`: no
row is stored from a tile narrower than its degree, and in the end every row
was stored. `PartitionsDisjoint`: the plan is sound, and two buckets store one
row only in the case described in section 6.

## 4. Runs, bounds, fairness

| run | bounds | shows |
|---|---|---|
| `managed_memory` | 3 Tensors of 1, 1, 2 bytes, 3 buffers, 3 bytes of RAM and 2 of disk; at most one byte stays reserved after failures (`MaxLeaked`); reads, writes, directories and removals of files may fail; automatic backend | all safety properties of managed memory. Three Tensors are enough for an operand, a result and a bystander to evict, and two equal ones for a view; the memory holds two of them, so that each third one evicts, and the disk is full after two bytes. Two allocations fit at a time and the third buffer is the one being made |
| `managed_memory_faults` | 2 Tensors, 3 buffers, 2 bytes of RAM and 3 of disk; also launches fail and the collector may run inside `reserve` | the budget holds and operations end under every fault |
| `tcp_mesh` | world of 3 hosted by rank 1, a second process for rank 2, one with world size 2; with and without time-outs | the mesh properties. Three ranks give a lower, a middle and a higher one: the middle one both dials and accepts |
| `hierarchy` | 2 clients, 3 tiers (memory, file, device), 3 allocations, 2 transfers, 1 write | all properties of the hierarchy. Two transfers are a predecessor and a successor on any instance; both kinds of background transfer occur |
| `compile_worker` | 2 callers, 4 requests, 3 faults | all properties of the worker. Three faults let one hit the remains of two others |
| `paged_run` | 4 pages, depth 2, budgets 1 to 6, policies "error" and "lru", loads may fail | all properties of the run. With four pages there is a first, a last, and one beyond the window |
| `bundle` | every graph of 3 launches, cycles included; reads, writes and disjoint parts of one binding; whole and by phase; kernels, joins, host launches; 2 CUDA streams and the synchronous provider | the bundle implements `LaunchOrder`, and a submission that says it is ready is done. Three launches give a path with a middle, which makes direct and indirect dependencies differ, and two conflicting ones whose order goes through the third |
| `halo_exchange` | 3 entities on 2 ranks; a posted step of two fields, its backward in reverse field order, a serialized call; fields of one width or of two; a stream holds 0 or 1 unread frame; one progress thread; TCP and pipes; one fault | all halo properties. Three steps follow each other on one stream in both formats, and every fault can hit each of them with frames of the next under way. Buffers of 0 frames make every send wait for its reader |
| `cpu_pool` | 2 launching threads, 4 threads of vectors of 2, outputs of 0, 1, 4, 5, 11 elements, a threshold of 4 (4096 in the code), 4 launches | all pool properties. The sizes give no job, one, all threads, fewer jobs than threads, and a last job that is cut; four launches let a slow worker of the first meet later ones |
| `tensor_caches` | 3 object ids, 2 blocks, 2 Graphs, 2 addresses of index arrays, 2 slots; 1 padded weight kept (256 in the code); 3 values | all cache properties. Two of each let one be freed and its address be given to something else while a cache still names it |
| `graph_store` | 2 processes, 2 graphs, 2 paths, 3 process ids, a topology and two fields; a user's save is given one field or both; one process may offload, die and be started again once, after which it offloads and opens stores (`SaveStarts`) | `StoresOK`, `SavesExact`, `OpenedStays`. Two processes save to one path at once, or load and copy while the other saves; two fields let a copy add one, replace one and keep one; two paths let a copy be copied from. An offload is a save without fields; that a copy is given no field at all is left to the theorem. A directory that a dead process left behind is read by nobody, so that states which differ only there are one (`VIEW`) |
| `degree_worklist` | 4 rows, degrees among 0, 1, 3, 4, 6, 8, 12 rising or falling, a tile of 8 edges (64), 16 lanes (256), tails of a quarter (a tenth), histogram known or not, memory that holds 0 or -7 at first | plans of one to four buckets with and without tail, and all orders of the programs of a kernel |

Deadlock is checked for managed memory, where the program can always go on. It
is not for the others, which stop when they are done: all processes have
returned, the runtime is shut down, the bundle was waited for, the last kernel
ended, or the bounds are used up. Where they have liveness properties, these
say that they stop nowhere else.

Fairness. `Execution`: `WF(Step)`, an operation in progress goes on (one
thread runs it to its end), and `WF(Collect)`, an explicit `gc.collect()` in
`reserve` reaches all garbage. `TcpMesh`: weak fairness of each process; a wait
that never ends is one that nothing enables, and only runs with time-outs may
leave it that way. `Hierarchy`: of each client inside a call and of each
background transfer (pool and streams run what they are given); no fairness
says that a client makes a call. `CompileWorker`: of the caller inside
`compile` and of the child's serving loop; nothing says that a hung child ever
answers, `select`'s time-out does. `PagedRun`: of the run and of its workers.
`HaloExchange`: of each rank's program, of its receives, of each
of its sends, and of the sockets' clocks, which run out only when nothing else
can happen. `CpuPool`: of a launch that has begun, of each worker that is awake
or running a job, and of the destructor; nobody has to launch. `Bundle`,
`GraphStore`, `TensorCaches` and `DegreeWorklist` have safety properties only: a
submission follows a verified order without cycles, a save may die for good, no
caller has to call, and kernels end by construction.

Assumptions about the environment. Managed operations of one scope do not run
concurrently (the scope's lock). Clients of the hierarchy do not use one
instance in two calls at once, except two transfers from one source when
`SharedSource` says so, and write a buffer only while no transfer uses it. A
compile request fits into the pipe. In `TcpMesh` a frame that was sent arrives
unless the other end closed. The ranks of `HaloExchange` run one program, and a
rank stops at the first call that raised. An executable is dropped when no
launch of it is under way (Python holds a reference during a call). Files and
renames of `GraphStore` survive the death of a process; power loss is left out;
a user names neither a temporary directory nor one made for offloads.
The rows of `DegreeWorklist` are those the histogram was made of. The switches
that leave out what section 6 describes are `GcInReserve` and
`LaunchMayFail` (both set in `managed_memory_faults`), `SharedSource`, `Workers`,
`WeightViews`, `NeedsPositions` and `PidsReturn`.

## 5. Theorems

Proved by TLAPS for any values of the constants that satisfy the assumptions
named in the modules, so for any number of Tensors, launches, ranks, threads
or rows.

`ExecutionProofs`

* `TypeCorrect`: `Spec => []TypeOK`. `TypeOK` is inductive by itself. The lemma
  `TypeStep` has one step per action; what actions share (a call, a return, an
  unwinding, finalizers, storing an allocation) are lemmas of their own.
* `PinsAlwaysBalanced`: `Spec => []PinsBalanced`. The inductive invariant is
  `TypeOK /\ PinsBalanced`. The counters are related to the stack by
  `Holders(s, t)`, the activations on `s` that pin `t`: pushing a frame adds
  one to it when the frame needs `t` (`PushPins`), cutting the stack removes
  those above the cut (`CutPins`). A call, a return, an exception that is
  caught at any depth and a change of the top frame keep the balance; `TypeOK`
  is needed for the stack to be a sequence of frames and the counters to be
  integers. Both hold whatever the switches `GcInReserve`, `IoMayFail` and
  `LaunchMayFail` say.

* `BudgetAlwaysRespected` (`BudgetRespected`): for any number of Tensors and
  allocations, any sizes, budgets, operations, failures and collections, and
  whatever the switches say. `AccountingAlwaysExact` (`AccountingExact`): when
  no collection runs inside a reservation, which is the premise
  `~GcInReserve`; apart from the two reservations in `leaked`, no failure, and no
  exception through any number of nested operations, leaves a byte counted or
  gives one back twice. The inductive invariant `BInv` adds three parts to
  those two. `ObjectsOK`: a charged allocation is held by a Tensor, a
  charged file by one that is spilled, and expressions refer to values in use.
  `StackOK`: only the bottom activation creates, those below the top wait where
  one may call, and inside a scope no two activations spill one Tensor; without
  the last, two reservations for one file would be one in `PendingFiles`. It
  needs `PinsBalanced`: an eviction chooses a value that nothing has pinned, so
  none of the activations in progress is spilling it. `BooksOK`: the counters
  cover the bytes in use, on disk `HeldNvme`, the live ones with `leaked`, and stay within the budgets, and between the two halves
  of `reserve` the total that was read covers what is in use and what is asked
  for. This is why a collection in between cannot break the budget: it makes the
  total too large, never too small. With sums of bytes as cardinalities
  (`Volume`), the bytes of disjoint sets add up (`VolumeUnion`), and each action
  changes the counter as it changes the sum (`BooksStep`).
* `InputsAlwaysResident` (`InputsResident`), `PinnedAlwaysStayResident`
  (`PinnedStayResident`) and `ValuesNeverLost` (`NoValueLost`), the last with
  the premise `~LaunchMayFail` because of section 6. The invariant `ValuesOK`
  comes on top of `BInv`. `PlacesOK`: a value is in memory, in a file or an
  expression still to be evaluated. `InputsHeld` goes along the stack: an
  activation that has restored its inputs finds none of them in a file
  (`InputsBack`), except the ones it has yet to restore and the one the
  activation above it is restoring; each activation still holds what it works
  on (`FrameHolds`); and no two activations spill one value (`SpillsApart`). An
  eviction keeps this because its victim is pinned by nobody, and
  `PinsBalanced` says that nobody below needs it: pins are exactly what
  separates the nested operations. That values are whole (`Whole`) then only
  needs that a reload, a spill and a launch write all parts before the other
  copy is given up.

`BundleProofs`

* `BundleTypeCorrect`, `ReadySound` (`ReadyMeansDone`) and
  `BundleImplementsLaunchOrder`: the initial states map to initial states and
  every step maps to a step of `LaunchOrder` or a stutter, for any number of
  launches and any plans that satisfy two premises. `Forward`: no launch of the
  materialize phase names one of the execute phase, as the compiler plans them.
  `HostFirst`: under CUDA a launch that runs on the host names nothing. The
  inductive invariant has four parts: what the sort established (`order` lists
  each launch after what it names), the closure (`reach` holds nothing that the
  last edge of a path does not justify) and the check (conflicting launches
  reach one the other); how far the submission is, phase by phase; and the
  device: a submitted launch has its direct dependencies ahead of it or done,
  and whatever reaches a launch that has begun is done. The last is the point:
  it follows from the direct waits by the last edge of the path. The transitive
  closure over the whole plan is then the least set closed under `deps`.

`TransportProofs`

* `MeshAlwaysOK` (`MeshOK`), for any processes, whatever ranks and worlds they
  claim, and whoever gives up at any point. The inductive invariant `MeshInv`
  adds four parts to the types. `PlanInv`: planned processes have different ranks
  below the world size, and nobody has a plan that is not complete, so that the
  plan never changes under those who build the mesh. `QueueInv`: who waits in the
  queue of a listener waits there once, unanswered, and is dialling this very
  listener or has given up. `DialInv`: a process dials in the order of the
  ranks, so that it has tried none beyond the one at hand. `PeerInv`: a recorded
  connection was answered "ok" at its dialling end; with `QueueInv` such an
  answer is never taken back by a listener that closes (`LeaveKeeps`). The
  handshakes that a process left behind are counted when they are accepted;
  `DialInv` and `QueueInv` together say that there is at most one per listener,
  so that no connection is counted twice. Whoever returns has as many peers as
  the world has other ranks, all of them planned, hence all of the plan but
  itself; and as many processes as ranks, no two alike, claim every rank
  (`RanksFilled`).
* `OwnerOwns`: the range of `DestinationOwner(e)` contains `e`, for every number
  of entities and ranks, also fewer entities than ranks. `RangeIsOwned`: each
  entity of a rank's range has that rank as owner. `MapsAgree`: no rank refuses
  the requests of its peers, and what one receives from another is what the
  other sends.
* `CallsAlwaysExact` (`CallsExact`), for every program, graph, number of ranks,
  room of a stream and number of faults, with `Workers = 1` as premise: it is
  the default of `DistributedRuntime`, and section 6 says what more threads do.
  A frame carries no tag, so that the
  invariant has to say why order is enough. `Completed` and `InStep`: what the
  program of a rank has been through. `Ordered`: a rank starts an exchange when
  its earlier ones have ended; here the single thread is used, and the order
  in which a pool takes what was submitted. `Ends`: an exchange ends after all its
  sends, and a send that was cut off makes it fail. `Queued`: frames of a stream are in the
  order of the exchanges, the last one is the one being written, and they fit.
  `Streams`: while no exchange of the reader has failed, the stream holds the
  frames sent and not received, whole but for those whose send was cut off
  (`Aligned`). Then the first frame is the one the reader waits for
  (`FirstIsMine`): an earlier one it would have received, and before a later
  one the sender would have sent this one.
* Or (`Doomed`) the reader has taken the beginning of the next frame for the
  missing end of one that was cut. On TCP a forward frame is bytes alone and
  nothing notices, so that this value is wrong; but the sender failed in that step
  and went on only within it, hence the next frame is of the same step and its
  header is gone (`TornPayload`). The reader cannot complete the step.
  `StepIsExact` uses this: what is completed was aligned.
* `FailuresAlwaysFollowFaults` (`FailsOnlyAfterFault`) and
  `ComputeFailureAlwaysLocal` (`ComputeFailureStaysLocal`), with the same premise,
  for any number of ranks and faults: the ranks never wait in a circle, also when
  one whose computation failed drains its queue and leaves. `Spared(s)`: nothing
  went wrong but computations of steps `s` or later. The invariant `SInv` adds to
  the one above: no spared exchange fails nor is one of its sends cut
  (`Unharmed`); an exchange that is not posted runs while the main thread waits
  for it (`Alone`); a rank that gives up has submitted all its spared exchanges,
  and completed them before it leaves (`Drained`); no frame of a spared exchange
  is severed, and what was received is out of the stream (`Whole`). A wait may
  also expire because nothing else can happen (`Expire`). `StallSpares` shows that
  such a wait belongs to no spared exchange. Else let `x` be the first spared
  exchange that some rank has not ended (`FirstOne`). Every rank has come to it
  (`AllBegan`), so that none waits for what comes later, and nobody is left to
  be waited for; the stream to a peer holds nothing but frames of `x`, which has
  room (`AllSent`); and whoever is read has sent, or could (`AllRead`). Then the
  rank could finish `x`, and the state is no stall.

`WorkersProofs`

* `RunAlwaysOK` (`RunOK`) and `PagesNeverLostOtherwise` (`LostOnlyByEviction`),
  for any number of pages, any depth, sizes, budget, policy and loads that fail.
  The inductive invariant: what is read ahead lies in a window of `Depth`
  pages after the page at hand, or after some page once the run is leaving
  (`ReadAheadInv`); the budget holds, an allocation adds its bytes to the sum and an
  eviction takes away no more than those of its victim; and as long as the output
  is in memory it has the rows of all pages so far, and `write` was looked up on
  it (`RowsInv`). The last is what `LostOnlyByEviction` needs: the page at hand
  may evict the output between the lookup and the write, and then its rows are
  not claimed.
* `PoolTypeCorrect`, `JobsAlwaysStable` (`JobsStable`), `EveryElementOnce`
  (`ElementsOnce`). The inductive invariant: one launch at a time is between
  its lock and its unlock (`OneLaunches`), its jobs are those of the generation
  (`Published`), a worker has run its job exactly when it has seen this
  generation and is not running (`WorkerRuns`), between launches every job has
  run (`Quiet`), and `completed` is the number of
  the workers that ran their job (`Counted`). The last makes "all completed" say
  that each job ran once; that jobs tile the output is arithmetic of
  rounded quotients.
* `WorkerAlwaysOK` (`WorkerOK`) and `AnswersAlwaysOwn` (`OwnAnswer`), for any
  callers, requests and faults. The inductive invariant: callers are under the
  lock one at a time (`OneCompiles`), an answer in the pipe was made for the
  request it names (`AnswersTrue`), and `Owed`: there were at most as many
  failures as faults, and fewer while something is left that can make a compile
  raise (`~Clean`: a dead or hung child, a line cut short, the rest of an abandoned
  compile in a pipe). The last is why one fault costs one compile: raising
  discards what could make the next one raise.

`TensorCachesProofs`

* `CallsAlwaysCurrent` (`CallsCurrent`), `GradientsAlwaysCurrent`
  (`GradientsCurrent`) and `GradientsAlwaysKept` (`GradientsKept`), for any number
  of objects, memory blocks, Graphs and gradient buffers, whose ids, addresses
  and buffers are reused at will. The first has the premises `~WeightViews` and
  `NeedsPositions` because of section 6. The invariant has one idea, `Follows`:
  what is cached with a token is what the object holds, for as long as the token
  is that of its memory (`Is`). A write keeps this because it changes the version,
  which never returns to an earlier value of the same block. What endangers it is
  reuse: an id or a block is given to something else while an entry still names
  the former owner. So `AliveInv` says that what an entry refers to is alive,
  and each entry `Follows` the object it holds on to: the positions of a Graph
  in use (`RelationInv`, `PreparedInv`), the Graph and the weight of an executable
  and the Graph of a forward whose backward has not run (`CapturedInv`). A padded
  weight holds on to nothing, and its entry is compared with the birth of the
  object, which is why `PaddedInv` asks for that first. That a second backward
  leaves a gradient alone only needs that a slot in use is not free.

`DegreeWorklistProofs`

* `KernelsStayInside` (`WithinWorklist`), `SortedByScatter` (`WorklistSorted`),
  `RowsAlwaysComplete` (`RowsComplete`) and `PartitionsAlwaysDisjoint`
  (`PartitionsDisjoint`), for any number of rows, any degrees, any tile, lanes
  and tail, and any order of the programs. The worklist (`IInv`): nobody has a
  position before the scatter (`Untouched`), a histogram count is
  the number of rows that added to it (`Counted`), the loop of the prefix
  kernel has summed the buckets it passed (`Summed`), and the rows that took a
  position have taken the first ones of their bucket's segment, no two the same
  (`Placed`). The segment of a bucket begins at `First(b)`, the number of rows of
  earlier buckets. Hence a position that passes the mask of a bucket lies in
  that segment and within the worklist, and it holds a row, since all rows have
  been scattered.
* The plan (`PlanIsSound`): its bounds grow and cover every row. Bounds that
  double are powers of two, and a power of two is here the number of subsets of an
  interval (`PowerStep`), so that facts about all powers (`Powers`,
  `PowersGrow`) follow from a least counterexample (`Least`) and no induction
  rule is needed.
* The buckets: a row is stored only from its place in the segment of its bucket
  or, by the bucket that looks at all rows, from its index (`Sound`), and it has been
  stored there or the program that will is still to run (`Awaited`). For the
  latter the row's place must be in the grid (`GridReaches`). For the former
  no program may look beyond its segment (`GridStays`): the mask cuts a
  tile off, and a chunked bucket, which has no mask, has as many programs as rows.
* `PartitionsDisjoint` then comes from `Sound` alone: two stores of one row are
  one of each kind, and the second kind is the case of section 6.

`GraphStoreProofs`

* `StoresAlwaysOK` (`StoresOK`), `SavesAlwaysExact` (`SavesExact`),
  `OpenedAlwaysStays` (`OpenedStays`): for any number of processes, graphs,
  fields, destinations and deaths, and whichever fields the saves are given. The
  inductive invariant: what is at a destination is whole (`StoresWhole`); a save
  works towards a store that the given fields and the one it copies determine
  (`GoalOK`); the files it
  has not left to do are in its directory (`FilesOK`); that directory is its
  own, and is absent before it is made and after it was given away
  (`TemporaryOK`); an open store is still what it was (`OpenedOK`).
* `OffloadsAlwaysFree` (`OffloadsFree`), with `~PidsReturn` as premise: on top
  of that invariant, ids of processes differ, a process offloads under its own
  id and a number it has used, and ids nobody had name no store (`NamesInv`).

`HierarchyProofs`

* `BytesAlwaysOK` (`BytesOK`), for any number of clients, instances and
  transfers, any sizes, budgets and failures, and whatever `SharedSource` says.
  The invariant `BInv` says who may work on what: two clients hold one instance
  only as the source of both (`Exclusive`), an instance that is being made has
  a client that makes it (`Reserved`), an open file belongs to an open instance
  (`FilesOpen`), and the destination of a transfer under way is open and has
  that transfer as its completion (`Destined`). `Waited` is what the waits
  are for: what a client still has to wait for, and what has ended, cover the
  last write and the readers of its instances at every moment, so that at the
  end of the waits no transfer writes there. The bytes of disjoint
  instances add up as in `ExecutionProofs`.
* `TransfersAlwaysUndisturbed`, `NothingEverTorn`, `AlwaysDelivers`
  (`TransfersUndisturbed`, `NothingTorn`, `Delivers`), with the premise
  `~SharedSource` because of section 6. `TInv` comes on top of `BInv`.
  `Read`: the source of a transfer under way has it among its readers, or the
  client that submitted it is about to add it. The rebuilding of the list keeps
  this only while one client does it (`RecordTransfers` is where the premise is
  used). Then nobody who waited for the readers of an instance meets one that
  goes on, so that no transfer writes what another reads (`Apart`), and contents
  follow (`Kept`): a source keeps what it held when the transfer was
  called, a destination is torn from its start to its end.

Only model-checked are the liveness properties: `OperationsEnd`, `EveryoneReturns`,
`WorldComesUp`, `RanksEnd`, `CallsReturn`, `CompileEnds`, `RunEnds`
and `LaunchEnds`. They rest on fairness, for which the
proof system has no rule, as it has none for ENABLED. `HaloExchange` therefore
says guard by guard when a rank can go on (`Able`, with the guards as operators of
their own), and `Stalled` is built from it; TLC found `Able(r)` equal to ENABLED
`Runs(r)` in every state of the run. Every invariant and action property of a run
is proved. The type invariants of `Execution`, `Bundle` and `CpuPool`
are proved and therefore in no run; that of `DegreeWorklist` is part of its
inductive invariant.

## 6. Where code and documents disagree

Met while modelling. Each of the first group is a violation that TLC finds of the
property named: added to the run of its module, with the switch turned where
one is named.

* `tensor/spill.py:153` (`NothingCountedInTheEnd`, in `managed_memory` as it is):
  the reservation of a spill is made, and its directory too, before the `try` at
  line 157; if the directory cannot be made nothing closes the reservation.
  `release_spill` removes the file (line 142) before it closes the reservation
  (line 144), which a failing removal therefore skips. A `Reservation` has no
  finalizer: the bytes stay counted when every Tensor is gone, and the budget is
  smaller from then on. `docs/api.md:2559` says that only what the scope created
  is counted, and `tests/python/test_automatic_eviction.py:24` expects zero in the
  end. `leaked` follows these bytes, and `AccountingExact` says that there are no
  others.
* `runtime/memory.py:166` (`GcInReserve`, `AccountingExact` and
  `NothingCountedInTheEnd`): `reserve` computes the new total and stores it later; a
  finalizer in between lowers the counter, and the stale total is stored over it.
  The budget still holds.
* `tensor/core.py:1135` (`LaunchMayFail`, `NoValueLost`): the uninitialized
  output is already `self._buffer` when the kernel raises; the fallback reads it.
* `runtime/hierarchy.py:261` (`SharedSource`, `TransfersUndisturbed`): two
  transfers called at once from one source rebuild the list of readers without
  the lock, one reader is dropped, and closing does not wait for it.
* `distributed/transport.py:699` against `docs/api.md:2432` (`Workers = 2`,
  `CallsExact` and `FailsOnlyAfterFault`): with several progress threads two exchanges read one stream at
  once and take each other's frames when they have one length. An asynchronous
  `exchange_halo` concurrent with a serialized call does the same.
* `graph/offload.py:117` against its docstring, lines 10-11 (`PidsReturn`,
  `OffloadsFree`): the process id in the name of an offload may be that of a
  process that is gone and whose offloads stayed.
* `interop/torch/message_passing.py:3320` (`WeightViews`, `CallsCurrent`): a
  captured launch of a strided weight is recognised by the address and the
  counter of its base; `interop/torch/message_passing.py:1116` compares dynamic
  tensors without their strides; `interop/torch/graph.py:1372` keeps the matrix
  of a view by an id that is reused.

Outside the behaviours of the models, or allowed by their properties:

* `distributed/tcp.py:91`: the docstring promises that all pairs are validated;
  a rank that returns only knows its own.
* `codegen/compile_worker.py:93`: closing a broken pipe raises before the other
  end is closed, and a child found dead is replaced without closing either.
* `message_passing/paged.py:527`: under `eviction="lru"` nothing pins the output
  of a paged run. If an earlier allocation of a page evicts it, the run raises;
  if the draining of the page does, after `write` was looked up, the page goes
  into the allocation that is being released. `LostOnlyByEviction` says that
  this is the only way to lose one.
* `interop/torch/message_passing.py:1310` (an edge network that does not read
  positions, `NeedsPositions`), `:1322`, `:622` and `interop/torch/graph.py:1250`:
  a graph whose arrays get the addresses of one that is gone, a parameter that
  is replaced, detached aliases of a gradient, and a cached sum of degrees are
  not told apart from what was cached.
* `lib/Target/Triton/Translate.cpp`: with a split tail the first bound need not
  be a power of two; the bucket that looks at all rows accepts degrees up to the
  next power, and such a row is stored by both buckets, with equal values,
  although the operation calls their outputs disjoint. `PartitionsDisjoint`
  allows exactly this case.

## 7. Not modelled

Simplifications inside the modelled parts: one memory tier instead of two with
the same code, no named snapshots, no `eviction=None`, creation of a leaf
without the write of its values afterwards, no failure to make the Event of a
reloaded buffer, and of a file that cannot be removed only its bytes (`Execution`); no data frames after
the mesh is up, which are in `HaloExchange` (`TcpMesh`); `latest`, which changes
nothing, and the order of the waits of one call: the completions to wait for and
the readers are sets, and the first failed one that is met raises (`Hierarchy`); the arena's slabs and the reverse run (`PagedRun`); device
buffers of a halo and the caches of row plans (`HaloExchange`); ranked,
structured and scalar executables, nearest neighbours, autotuning and the eager
path (`TensorCaches`); the removal of a process's offload directory at exit,
a `shutil.rmtree` of a temporary directory that fails, which the code ignores
(`ignore_errors=True`), and more than one open store of a process (`GraphStore`); the partial and finalize
plans of split rows, which the translation refuses for launches of two regions,
and the arithmetic of the reducers (`DegreeWorklist`).

Parts not modelled at all are the components with status `not_modelled` in
`PROJECT.json`. NCCL, MPI and the visualisation are adapters of libraries whose
ordering and failures are not in this code. The jit, autograd, the front ends
and the other passes and code generators are functions of their input without
state between calls: what they compute is a relation between two programs, and
checking it would take a semantics of tensor programs rather than a state
machine. The caches of programs and executables are dictionaries; what could go
wrong is a key that leaves something out, which a model would only restate. The
native runtime counts references and hands out vendor events; the models that
use it (`Bundle`, `Execution`) take what it promises.

Next would be: the reverse paged run; snapshots; the reference counts of the
native runtime.
