---------------------------- MODULE TensorCaches ----------------------------
(***************************************************************************)
(* The caches between a MessagePassing kernel and its Torch tensors:       *)
(* interop/torch/message_passing.py and graph.py.  A cached matrix, graph  *)
(* or launch is valid for tensors it recognises by the id of an object, by *)
(* the address of its memory and by its mutation counter; ids and          *)
(* addresses are reused as soon as their owner is gone, so every entry     *)
(* must either keep its owner alive or notice that it is gone.             *)
(***************************************************************************)
EXTENDS Integers, FiniteSets

CONSTANTS
  Ids,             \* addresses of tensor objects, what id() returns
  Blocks,          \* addresses of their memory, what data_ptr() returns
  WeightViews,     \* edge weights may be views of other tensors
  Graphs,          \* addresses of dynamic Graph objects
  Addresses,       \* addresses of the index arrays of a resolved relation
  Slots,           \* gradient buffers
  None,            \* Python's None
  Kernels,         \* what the process runs: weighted, distance, edge_nn, vjp
  NeedsPositions,  \* the edge network reads the displacement of an edge
  Sharing,         \* bound: the kernels with several Graphs at a time
  MaxEntries,      \* padded weights kept, 256 in the code
  MaxClock         \* bound: tensors created and written

ASSUME CacheAssumption ==
  /\ IsFiniteSet(Ids) /\ None \notin Ids
  /\ WeightViews \in BOOLEAN /\ NeedsPositions \in BOOLEAN
  /\ Kernels \subseteq {"weighted", "distance", "edge_nn", "vjp"} /\ Sharing \subseteq Kernels
  /\ MaxEntries \in Nat /\ MaxClock \in Nat

VARIABLES
  kernel,     \* what this process runs
  clock,      \* the number of values written so far; each value is new
  tensor,     \* an object: its block, and itself or the base it is a view of
  birth,      \* when the object was created: two objects with one id differ
  user,       \* the tensors the caller holds
  data,       \* the value in a block
  version,    \* its mutation counter, shared by all views of the block
  inference,  \* the block is of an inference tensor, without a counter
  executable, \* kernel._last_executable
  sparse,     \* graph._sparse_cache of the static graph
  positions,  \* the positions of a Graph
  graphs,     \* the Graphs the caller holds
  csr,        \* graph._radius_csr_cache
  parameter,  \* the weight of the kernel's edge network
  padded,     \* _EDGE_NN_WEIGHT_CACHE
  forward,    \* ctx of a forward whose backward has not run
  prepared,   \* graph._tiga_compiled_radius_vjp
  slot,       \* the gradient in a buffer
  gradient,   \* the gradients the caller was given in it and still holds
  stale       \* history: the last call used something else than its inputs

memory == <<clock, tensor, birth, user, data, version, inference>>
relation == <<positions, graphs, csr>>
network == <<parameter, padded>>
vjp == <<forward, prepared, slot, gradient>>
vars == <<kernel, memory, executable, sparse, relation, network, vjp, stale>>

-----------------------------------------------------------------------------
(* Tensors.                                                                *)

Value(i) == data[tensor[i].block]

\* tensor_version together with the address: an inference tensor returns a
\* fresh object, which equals no version seen before.
Token(i) == <<tensor[i].block, version[tensor[i].block]>>

\* Variant: an inference tensor has version zero for ever.
IsVariant(token, i) == token = Token(i)

Is(token, i) == token = Token(i) /\ ~ inference[tensor[i].block]

\* The Graphs, the objects and the blocks something still refers to.
HeldGraphs ==
  {g \in Graphs : \/ executable # None /\ kernel # "weighted" /\ executable.graph = g
                  \/ forward # None /\ forward.graph = g}
UsedGraphs == graphs \cup HeldGraphs

Bases(ids) == ids \cup {tensor[i].base : i \in ids}

\* Variant: a prepared launch keeps the address of its upstream and no reference.
UsedIdsVariant ==
  Bases(user \cup {positions[g] : g \in UsedGraphs} \cup ({parameter} \ {None}))

UsedIds ==
  Bases(user \cup {positions[g] : g \in UsedGraphs} \cup
        {i \in Ids :
           \/ executable # None /\ kernel = "weighted" /\ i \in {executable.weight, executable.matrix.owner}
           \/ sparse # None /\ sparse.matrix.owner = i
           \/ parameter = i
           \/ \E g \in UsedGraphs : prepared[g] # None /\ prepared[g].upstream = i})

UsedBlocks == {tensor[i].block : i \in UsedIds}

TypeOK ==
  /\ kernel \in Kernels /\ clock \in 0 .. MaxClock
  /\ tensor \in [Ids -> [block : Blocks, base : Ids] \cup {None}]
  /\ birth \in [Ids -> 0 .. MaxClock]
  /\ user \subseteq Ids /\ graphs \subseteq Graphs
  /\ data \in [Blocks -> 0 .. MaxClock] /\ version \in [Blocks -> 0 .. MaxClock]
  /\ inference \in [Blocks -> BOOLEAN]
  /\ positions \in [Graphs -> Ids \cup {None}]
  /\ Cardinality({i \in Ids : padded[i] # None}) <= MaxEntries + 1
  /\ stale \in BOOLEAN

Init ==
  /\ kernel \in Kernels /\ clock = 0 /\ user = {} /\ graphs = {}
  /\ tensor = [i \in Ids |-> None]
  /\ birth = [i \in Ids |-> 0]
  /\ data = [b \in Blocks |-> 0] /\ version = [b \in Blocks |-> 0]
  /\ inference = [b \in Blocks |-> FALSE]
  /\ executable = None /\ sparse = None
  /\ positions = [g \in Graphs |-> None]
  /\ csr = [g \in Graphs |-> None]
  /\ parameter = None /\ padded = [i \in Ids |-> None]
  /\ forward = None /\ prepared = [g \in Graphs |-> None]
  /\ slot = [s \in Slots |-> None] /\ gradient = [s \in Slots |-> {}]
  /\ stale = FALSE

Create(i, b) ==
  /\ clock < MaxClock /\ i \notin UsedIds /\ b \notin UsedBlocks
  /\ clock' = clock + 1
  /\ tensor' = [tensor EXCEPT ![i] = [block |-> b, base |-> i]]
  /\ birth' = [birth EXCEPT ![i] = clock + 1]
  /\ data' = [data EXCEPT ![b] = clock + 1]
  /\ version' = [version EXCEPT ![b] = 0]
  /\ \E f \in BOOLEAN : inference' = [inference EXCEPT ![b] = f]
  /\ user' = user \cup {i}
  /\ UNCHANGED <<kernel, executable, sparse, relation, network, vjp, stale>>

View(i, j) ==
  /\ clock < MaxClock /\ i \notin UsedIds /\ j \in user
  /\ clock' = clock + 1
  /\ kernel = "weighted" => WeightViews
  /\ tensor' = [tensor EXCEPT ![i] = tensor[j]]
  /\ birth' = [birth EXCEPT ![i] = clock + 1]
  /\ user' = user \cup {i}
  /\ UNCHANGED <<kernel, data, version, inference, executable, sparse, relation,
                 network, vjp, stale>>

Write(i) ==
  /\ clock < MaxClock /\ i \in user
  /\ clock' = clock + 1
  /\ LET b == tensor[i].block
     IN  /\ data' = [data EXCEPT ![b] = clock + 1]
         /\ version' = [version EXCEPT ![b] = IF inference[b] THEN @ ELSE @ + 1]
  /\ UNCHANGED <<kernel, tensor, birth, user, inference, executable, sparse,
                 relation, network, vjp, stale>>

Drop(i) ==
  /\ i \in user /\ user' = user \ {i}
  /\ UNCHANGED <<kernel, clock, tensor, birth, data, version, inference, executable,
                 sparse, relation, network, vjp, stale>>

-----------------------------------------------------------------------------
(* A weighted sum over a static graph, by the sparse library.              *)

\* torch.sparse_csr_tensor over values.reshape(-1): the matrix shows the memory
\* of contiguous values; what it keeps is a view, whose base is the values or theirs.
Matrix(i) == [owner |-> tensor[i].base, value |-> None]

Entries(m) == IF m.owner # None THEN Value(m.owner) ELSE m.value

\* Graph.sparse_csr: the entry of _sparse_cache after a call with values i.  The
\* key has the id and the version, and no address.
SparseCsr(i) ==
  IF sparse # None /\ sparse.id = i /\ ~ inference[tensor[i].block]
                   /\ sparse.version = version[tensor[i].block]
  THEN sparse
  ELSE [id |-> i, version |-> version[tensor[i].block], matrix |-> Matrix(i)]

\* _GuardedExecutable.try_run; the fast path launches the same runner behind
\* stronger guards.  The captured weight has its matrix, others go to the cache.
WeightedHit(i) ==
  /\ executable # None
  /\ sparse' = IF executable.weight = i THEN sparse ELSE SparseCsr(i)
  /\ stale' = (Entries(IF executable.weight = i THEN executable.matrix ELSE sparse'.matrix)
                 # Value(i))
  /\ UNCHANGED executable

\* The first call, or a field has another shape than the executable's.
WeightedMiss(i) ==
  /\ sparse' = SparseCsr(i)
  /\ executable' = [weight |-> i, matrix |-> sparse'.matrix]
  /\ stale' = (Entries(sparse'.matrix) # Value(i))

Weighted(i) ==
  /\ kernel = "weighted" /\ i \in user
  /\ WeightedHit(i) \/ WeightedMiss(i)
  /\ UNCHANGED <<kernel, memory, relation, network, vjp>>

-----------------------------------------------------------------------------
(* Radius Graphs: the relation is resolved from the positions.             *)

\* What a Graph keeps is freed with it.
Living(f, used) == [g \in Graphs |-> IF g \in used THEN f[g] ELSE None]

NewGraph(g, i) ==
  /\ kernel # "weighted" /\ g \notin UsedGraphs /\ i \in user
  /\ UsedGraphs # {} => kernel \in Sharing
  /\ positions' = [Living(positions, UsedGraphs) EXCEPT ![g] = i]
  /\ graphs' = graphs \cup {g}
  /\ csr' = Living(csr, UsedGraphs) /\ prepared' = Living(prepared, UsedGraphs)
  /\ UNCHANGED <<kernel, memory, executable, sparse, network, forward, slot, gradient,
                 stale>>

DropGraph(g) ==
  /\ g \in graphs /\ graphs' = graphs \ {g}
  /\ LET used == graphs' \cup HeldGraphs
     IN  /\ positions' = Living(positions, used)
         /\ csr' = Living(csr, used) /\ prepared' = Living(prepared, used)
  /\ UNCHANGED <<kernel, memory, executable, sparse, network, forward, slot, gradient,
                 stale>>

BusyAddresses == {csr[g].address : g \in {h \in UsedGraphs : csr[h] # None}}

\* Graph.resolve_csr: the arrays are kept by the Graph alone, and are gone when
\* the next ones replace them.
ResolveCsr(g) ==
  IF csr[g] # None /\ Is(csr[g].token, positions[g])
  THEN UNCHANGED csr
  ELSE \E a \in Addresses \ BusyAddresses :
         csr' = [csr EXCEPT ![g] = [token |-> Token(positions[g]), address |-> a,
                                    value |-> Value(positions[g])]]

Resolve(g) ==
  /\ g \in graphs /\ ResolveCsr(g)
  /\ UNCHANGED <<kernel, memory, executable, sparse, positions, graphs, network, vjp, stale>>

\* _DynamicSnapshotExecutable: another Graph that names the same positions runs
\* the captured relation; with other positions it runs its own, and the
\* executable stays.
Distance(g) ==
  /\ kernel = "distance" /\ g \in graphs
  /\ IF executable # None /\ Is(executable.token, positions[g])
     THEN /\ stale' = (executable.value # Value(positions[g]))
          /\ UNCHANGED <<csr, executable>>
     ELSE /\ ResolveCsr(g)
          /\ stale' = (csr'[g].value # Value(positions[g]))
          /\ executable' = IF executable # None THEN executable
                           ELSE [graph |-> g, token |-> Token(positions[g]),
                                 value |-> csr'[g].value]
  /\ UNCHANGED <<kernel, memory, sparse, positions, graphs, network, vjp>>

-----------------------------------------------------------------------------
(* An edge network, fused into one kernel with padded weights.             *)

NewKernel(i) ==
  /\ kernel = "edge_nn" /\ i \in user /\ i # parameter
  /\ parameter' = i /\ executable' = None
  /\ UNCHANGED <<kernel, memory, sparse, relation, padded, vjp, stale>>

\* _EdgeNNWeightCache: the weak reference tells a new object with an old id.
Pad(i) ==
  IF padded[i] # None /\ padded[i].birth = birth[i] /\ Is(padded[i].token, i)
  THEN padded[i]
  ELSE [birth |-> birth[i], token |-> Token(i), value |-> Value(i)]

\* A cache with more than MaxEntries entries is emptied before it gets another.
Room ==
  IF Cardinality({i \in Ids : padded[i] # None}) > MaxEntries
  THEN [i \in Ids |-> None]
  ELSE padded

\* _EdgeNNTileExecutable.try_run after resolve_csr: of the relation the address
\* is compared, of the positions, when they are read, address and version.
Guarded(g) ==
  /\ executable # None /\ executable.graph = g
  /\ executable.address = csr'[g].address
  /\ executable.birth = birth[parameter] /\ Is(executable.weight, parameter)
  /\ NeedsPositions => Is(executable.token, positions[g])

EdgeNN(g) ==
  /\ kernel = "edge_nn" /\ g \in graphs /\ parameter # None
  /\ ResolveCsr(g)
  /\ IF Guarded(g)
     THEN /\ stale' = (<<executable.value, executable.padded>>
                         # <<Value(positions[g]), Value(parameter)>>)
          /\ UNCHANGED <<padded, executable>>
     ELSE /\ padded' = IF padded[parameter] = Pad(parameter) THEN padded
                       ELSE [Room EXCEPT ![parameter] = Pad(parameter)]
          /\ executable' = [graph |-> g, address |-> csr'[g].address,
                            token |-> Token(positions[g]), value |-> csr'[g].value,
                            birth |-> birth[parameter], weight |-> Token(parameter),
                            padded |-> padded'[parameter].value]
          /\ stale' = (<<executable'.value, executable'.padded>>
                         # <<Value(positions[g]), Value(parameter)>>)
  /\ UNCHANGED <<kernel, memory, sparse, positions, graphs, parameter, vjp>>

-----------------------------------------------------------------------------
(* Forward and backward of the generated distance sum.                     *)

Forward(g) ==
  /\ kernel = "vjp" /\ g \in graphs /\ forward = None
  /\ ~ inference[tensor[positions[g]].block]
  /\ forward' = [graph |-> g, token |-> Token(positions[g]), value |-> Value(positions[g])]
  /\ UNCHANGED <<kernel, memory, executable, sparse, relation, network, prepared, slot,
                 gradient, stale>>

\* The relation has changed since: RuntimeError.
BackwardRefused ==
  /\ forward # None /\ ~ Is(forward.token, positions[forward.graph])
  /\ forward' = None
  /\ UNCHANGED <<kernel, memory, executable, sparse, relation, network, prepared, slot,
                 gradient, stale>>

\* The launch prepared for this Graph is kept for the same upstream memory.
Kept(g, u) ==
  prepared[g] # None /\ Is(prepared[g].token, positions[g]) /\ Is(prepared[g].key, u)

Launch(g, u) ==
  IF Kept(g, u)
  THEN prepared[g]
  ELSE [token |-> Token(positions[g]), key |-> Token(u), upstream |-> u,
        value |-> csr'[g].value, slots |-> {}]

UsedSlots ==
  {s \in Slots : gradient[s] # {}} \cup
  UNION {prepared[g].slots : g \in {h \in UsedGraphs : prepared[h] # None}}

\* Variant: the first buffer is taken without asking.
SlotFreeVariant(s, slots) == IF slots # {} THEN s \in slots ELSE s \notin UsedSlots

\* _PreparedRadiusVJP.run: a buffer whose gradients are dead, or a new one.
SlotFree(s, slots) ==
  IF \E t \in slots : gradient[t] = {}
  THEN s \in slots /\ gradient[s] = {}
  ELSE s \notin UsedSlots

Backward(u) ==
  /\ forward # None /\ u \in user
  /\ Is(forward.token, positions[forward.graph])
  /\ IF Kept(forward.graph, u) THEN UNCHANGED csr ELSE ResolveCsr(forward.graph)
  /\ LET launch == Launch(forward.graph, u)
     IN  \E s \in Slots :
           /\ SlotFree(s, launch.slots)
           /\ slot' = [slot EXCEPT ![s] = <<launch.value, Value(launch.upstream)>>]
           /\ gradient' = [gradient EXCEPT ![s] = @ \cup {slot'[s]}]
           /\ prepared' = [prepared EXCEPT ![forward.graph] =
                             [launch EXCEPT !.slots = @ \cup {s}]]
           /\ stale' = (slot'[s] # <<forward.value, Value(u)>>)
  /\ forward' = None
  /\ UNCHANGED <<kernel, memory, executable, sparse, positions, graphs, network>>

DropGradient(s) ==
  /\ \E v \in gradient[s] : gradient' = [gradient EXCEPT ![s] = @ \ {v}]
  /\ slot' = IF gradient'[s] = {} THEN [slot EXCEPT ![s] = None] ELSE slot
  /\ UNCHANGED <<kernel, memory, executable, sparse, relation, network, forward,
                 prepared, stale>>

\* The caller clears a gradient in place, as an optimizer does.
ClearGradient(s) ==
  /\ \E v \in gradient[s] : gradient' = [gradient EXCEPT ![s] = (@ \ {v}) \cup {<<0, 0>>}]
  /\ slot' = [slot EXCEPT ![s] = <<0, 0>>]
  /\ UNCHANGED <<kernel, memory, executable, sparse, relation, network, forward,
                 prepared, stale>>

Next ==
  \/ \E i \in Ids, b \in Blocks : Create(i, b)
  \/ \E i, j \in Ids : View(i, j)
  \/ \E i \in Ids : Write(i) \/ Drop(i) \/ Weighted(i) \/ NewKernel(i) \/ Backward(i)
  \/ \E g \in Graphs, i \in Ids : NewGraph(g, i)
  \/ \E g \in Graphs : DropGraph(g) \/ Resolve(g) \/ Distance(g) \/ EdgeNN(g) \/ Forward(g)
  \/ BackwardRefused
  \/ \E s \in Slots : DropGradient(s) \/ ClearGradient(s)

Spec == Init /\ [][Next]_vars

-----------------------------------------------------------------------------
\* A call uses what its inputs are now, whichever matrix, executable or padded
\* copy was kept for objects with the same ids and addresses: a weighted sum the
\* values of its weight, a sum over distances the relation of the positions of
\* its own Graph, an edge network its relation and its parameter.
CallsCurrent == TypeOK /\ (kernel # "vjp" => ~ stale)

\* A backward differentiates the relation its forward summed over, at the
\* gradient it was given, or refuses.
GradientsCurrent == kernel = "vjp" => ~ stale

\* A gradient the caller still holds is not overwritten by the next one.
GradientsKept == \A s \in Slots : gradient[s] \subseteq {slot[s]}
=============================================================================
