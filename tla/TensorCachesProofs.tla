------------------------- MODULE TensorCachesProofs -------------------------
(***************************************************************************)
(* What holds of the tensor caches for any number of objects, blocks,      *)
(* Graphs and gradient buffers, and however often their ids and addresses  *)
(* are reused.                                                             *)
(***************************************************************************)
EXTENDS TensorCaches, TLAPS, FiniteSetTheorems

-----------------------------------------------------------------------------
(* The inductive invariant.                                                *)

Objects == [block : Blocks, base : Ids]
Tokens  == Blocks \X Nat

MemoryTypes ==
  /\ kernel \in Kernels /\ clock \in 0 .. MaxClock
  /\ tensor \in [Ids -> Objects \cup {None}] /\ birth \in [Ids -> 0 .. clock]
  /\ user \subseteq Ids
  /\ data \in [Blocks -> 0 .. MaxClock] /\ version \in [Blocks -> 0 .. clock]
  /\ inference \in [Blocks -> BOOLEAN]

Relations == [token : Tokens, address : Addresses, value : Nat]

RelationTypes ==
  /\ graphs \subseteq Graphs /\ positions \in [Graphs -> Ids \cup {None}]
  /\ csr \in [Graphs -> Relations \cup {None}]

PaddedWeights == [birth : Nat, token : Tokens, value : Nat]

NetworkTypes ==
  /\ parameter \in Ids \cup {None} /\ padded \in [Ids -> PaddedWeights \cup {None}]
  /\ Cardinality({i \in Ids : padded[i] # None}) <= MaxEntries + 1

Forwards == [graph : Graphs, token : Tokens, value : Nat]
Launches ==
  [token : Tokens, key : Tokens, upstream : Ids, value : Nat, slots : SUBSET Slots]

VjpTypes ==
  /\ forward \in Forwards \cup {None} /\ prepared \in [Graphs -> Launches \cup {None}]
  /\ slot \in [Slots -> (Nat \X Nat) \cup {None}]
  /\ gradient \in [Slots -> SUBSET (Nat \X Nat)]

Matrices == [owner : Ids, value : {None}]

\* What an executable captured depends on the kernel.
ExecutableTypes ==
  /\ executable # None =>
       /\ kernel = "weighted" => executable \in [weight : Ids, matrix : Matrices]
       /\ kernel = "distance" => executable \in [graph : Graphs, token : Tokens, value : Nat]
       /\ kernel = "edge_nn" =>
            executable \in [graph : Graphs, address : Addresses, token : Tokens, value : Nat,
                            birth : Nat, weight : Tokens, padded : Nat]
       /\ kernel # "vjp"
  /\ sparse # None => sparse \in [id : Ids, version : Nat, matrix : Matrices]

Types == MemoryTypes /\ RelationTypes /\ NetworkTypes /\ VjpTypes /\ ExecutableTypes

\* What is referred to is there, and so is the base of a view.
Alive(i) ==
  /\ i \in Ids /\ tensor[i] \in Objects /\ tensor[tensor[i].base] = tensor[i]
  /\ kernel = "weighted" /\ ~ WeightViews => tensor[i].base = i

AliveInv ==
  /\ \A i \in UsedIds : Alive(i)
  /\ \A g \in UsedGraphs : positions[g] \in Ids

\* What is cached with this token is what tensor i holds, for as long as
\* nobody has written to its memory since.
Follows(token, value, i) ==
  /\ token[1] = tensor[i].block /\ token[2] <= version[token[1]]
  /\ Is(token, i) => value = Value(i)

\* A matrix shows the memory of the weight it was made for.
WeightedInv ==
  /\ kernel = "weighted" /\ executable # None /\ ~ WeightViews =>
       executable.matrix.owner = tensor[executable.weight].base
  /\ sparse # None /\ ~ WeightViews => kernel = "weighted" /\ sparse.matrix.owner = sparse.id

\* What is kept of the positions of a Graph in use follows them.
RelationInv ==
  \A g \in UsedGraphs : csr[g] # None => Follows(csr[g].token, csr[g].value, positions[g])

PreparedInv ==
  \A g \in UsedGraphs : prepared[g] # None =>
    /\ Follows(prepared[g].token, prepared[g].value, positions[g])
    /\ prepared[g].key[1] = tensor[prepared[g].upstream].block

CapturedInv ==
  /\ kernel \in {"distance", "edge_nn"} /\ executable # None =>
       Follows(executable.token, executable.value, positions[executable.graph])
  /\ kernel = "edge_nn" /\ executable # None =>
       parameter # None /\ Follows(executable.weight, executable.padded, parameter)
  /\ forward # None =>
       kernel = "vjp" /\ Follows(forward.token, forward.value, positions[forward.graph])

\* A padded copy follows its parameter, if it was made for the object of today.
PaddedInv ==
  \A i \in Ids : padded[i] # None =>
    /\ padded[i].birth <= clock
    /\ i \in UsedIds /\ padded[i].birth = birth[i] =>
         Follows(padded[i].token, padded[i].value, i)

\* A call is only wrong where the code leaves something open.
Current ==
  /\ stale \in BOOLEAN
  /\ (kernel = "weighted" => ~ WeightViews) /\ (kernel = "edge_nn" => NeedsPositions) => ~ stale

Inv ==
  /\ Types /\ AliveInv /\ WeightedInv /\ RelationInv /\ PreparedInv /\ CapturedInv
  /\ PaddedInv /\ Current /\ GradientsKept

\* Before the first call every cache is empty.
LEMMA InvInit == Init => Inv
<1> SUFFICES ASSUME Init PROVE Inv
  OBVIOUS
<1> USE CacheAssumption
<1>1. {i \in Ids : padded[i] # None} = {}
  BY DEF Init
<1>2. Types
  <2>1. MemoryTypes
    BY DEF Init, MemoryTypes
  <2>2. RelationTypes
    BY DEF Init, RelationTypes
  <2>3. NetworkTypes
    <3>1. Cardinality({i \in Ids : padded[i] # None}) = 0
      BY <1>1, FS_EmptySet
    <3>2. 0 <= MaxEntries + 1
      OBVIOUS
    <3>3. parameter \in Ids \cup {None} /\ padded \in [Ids -> PaddedWeights \cup {None}]
      BY DEF Init
    <3> QED
      BY <3>1, <3>2, <3>3 DEF NetworkTypes
  <2>4. VjpTypes
    BY DEF Init, VjpTypes
  <2>5. ExecutableTypes
    BY DEF Init, ExecutableTypes
  <2> QED
    BY <2>1, <2>2, <2>3, <2>4, <2>5 DEF Types
<1>3. UsedGraphs = {}
  BY DEF Init, UsedGraphs, HeldGraphs
<1>4. UsedIds = {}
  BY <1>3 DEF Init, UsedIds, Bases
<1>5. AliveInv /\ RelationInv /\ PreparedInv
  BY <1>3, <1>4 DEF AliveInv, RelationInv, PreparedInv
<1>6. WeightedInv /\ CapturedInv /\ PaddedInv /\ Current
  BY DEF Init, WeightedInv, CapturedInv, PaddedInv, Current
<1>7. GradientsKept
  BY DEF Init, GradientsKept
<1> QED
  BY <1>2, <1>5, <1>6, <1>7 DEF Inv

LEMMA TypesOK == Inv => TypeOK
<1> SUFFICES ASSUME Inv PROVE TypeOK
  OBVIOUS
<1>1. MemoryTypes /\ RelationTypes /\ NetworkTypes /\ stale \in BOOLEAN
  BY DEF Inv, Types, Current
<1>2. tensor \in [Ids -> [block : Blocks, base : Ids] \cup {None}]
  BY <1>1 DEF MemoryTypes, Objects
<1>3. birth \in [Ids -> 0 .. MaxClock] /\ version \in [Blocks -> 0 .. MaxClock]
  <2>1. 0 .. clock \subseteq 0 .. MaxClock
    BY <1>1, CacheAssumption DEF MemoryTypes
  <2> QED
    BY <1>1, <2>1 DEF MemoryTypes
<1> QED
  BY <1>1, <1>2, <1>3 DEF MemoryTypes, RelationTypes, NetworkTypes, TypeOK

-----------------------------------------------------------------------------
(* What is in use.                                                         *)

\* Something refers to object r itself.
Root(r) ==
  \/ r \in user
  \/ \E g \in UsedGraphs : positions[g] = r
  \/ r \in Ids /\ parameter = r
  \/ /\ r \in Ids /\ kernel = "weighted" /\ executable # None
     /\ r \in {executable.weight, executable.matrix.owner}
  \/ r \in Ids /\ sparse # None /\ sparse.matrix.owner = r
  \/ /\ r \in Ids
     /\ \E g \in UsedGraphs : prepared[g] # None /\ prepared[g].upstream = r

\* An object in use is referred to, or is the base of one that is.
LEMMA InUse ==
  ASSUME NEW i PROVE i \in UsedIds <=> \E r : Root(r) /\ (i = r \/ i = tensor[r].base)
<1> DEFINE ids == user \cup {positions[g] : g \in UsedGraphs} \cup
        {j \in Ids :
           \/ executable # None /\ kernel = "weighted" /\ j \in {executable.weight, executable.matrix.owner}
           \/ sparse # None /\ sparse.matrix.owner = j
           \/ parameter = j
           \/ \E g \in UsedGraphs : prepared[g] # None /\ prepared[g].upstream = j}
<1>1. UsedIds = Bases(ids)
  BY DEF UsedIds
<1>2. \A r : r \in ids <=> Root(r)
  BY DEF Root
<1>3. i \in Bases(ids) <=> \E r \in ids : i = r \/ i = tensor[r].base
  <2> HIDE DEF ids
  <2> QED
    BY DEF Bases
<1> HIDE DEF ids
<1> QED
  BY <1>1, <1>2, <1>3

LEMMA InUseNext ==
  ASSUME NEW i
  PROVE i \in UsedIds' <=> \E r : Root(r)' /\ (i = r \/ i = tensor'[r].base)
<1> DEFINE ids == user' \cup {positions'[g] : g \in UsedGraphs'} \cup
        {j \in Ids :
           \/ executable' # None /\ kernel' = "weighted" /\ j \in {executable'.weight, executable'.matrix.owner}
           \/ sparse' # None /\ sparse'.matrix.owner = j
           \/ parameter' = j
           \/ \E g \in UsedGraphs' : prepared'[g] # None /\ prepared'[g].upstream = j}
<1>1. UsedIds' = ids \cup {tensor'[j].base : j \in ids}
  BY DEF UsedIds, Bases
<1>2. \A r : r \in ids <=> Root(r)'
  BY DEF Root
<1> HIDE DEF ids
<1> QED
  BY <1>1, <1>2

\* The base of an object in use is in use.
LEMMA BaseInUse ==
  ASSUME AliveInv, NEW i \in UsedIds
  PROVE  tensor[i].base \in UsedIds
<1>1. PICK r : Root(r) /\ (i = r \/ i = tensor[r].base)
  BY InUse
<1>2. r \in UsedIds
  BY <1>1, InUse
<1>3. Alive(r)
  BY <1>2 DEF AliveInv
<1>4. CASE i = r
  BY <1>1, <1>4, InUse
<1>5. CASE i = tensor[r].base
  BY <1>3, <1>5 DEF Alive
<1> QED
  BY <1>1, <1>4, <1>5

\* Nothing comes into use but by a reference to what is not.
LEMMA NothingNew ==
  ASSUME AliveInv, tensor' = tensor, \A r : Root(r)' => r \in UsedIds
  PROVE  UsedIds' \subseteq UsedIds
<1> SUFFICES ASSUME NEW i \in UsedIds' PROVE i \in UsedIds
  OBVIOUS
<1>1. PICK r : Root(r)' /\ (i = r \/ i = tensor'[r].base)
  BY InUseNext
<1>2. r \in UsedIds
  BY <1>1
<1> QED
  BY <1>1, <1>2, BaseInUse

LEMMA AliveStays ==
  ASSUME AliveInv, UNCHANGED <<kernel, tensor>>, UsedIds' \subseteq UsedIds
  PROVE  \A i \in UsedIds' : Alive(i)'
BY DEF AliveInv, Alive

-----------------------------------------------------------------------------
(* Creating, viewing, writing and dropping tensors.                        *)

\* To one who has seen its version, tensor i holds what it held.
Undisturbed(i) ==
  /\ tensor'[i] = tensor[i]
  /\ version[tensor[i].block] <= version'[tensor[i].block]
  /\ version'[tensor[i].block] = version[tensor[i].block] /\ ~ inference'[tensor[i].block] =>
       ~ inference[tensor[i].block] /\ data'[tensor[i].block] = data[tensor[i].block]

\* An object in use was in use before, or is newer than every clock before.
Old(i) == i \in UsedIds /\ birth'[i] = birth[i]
New(i) == birth'[i] > clock

Elsewhere == UNCHANGED <<kernel, executable, sparse, relation, network, vjp, stale>>

LEMMA GraphsStay == Elsewhere => UsedGraphs' = UsedGraphs
BY DEF Elsewhere, relation, vjp, UsedGraphs, HeldGraphs

\* After the step, what was cached with token follows tensor i.
StillFollows(token, value, i) ==
  /\ token[1] = tensor'[i].block /\ token[2] <= version'[token[1]]
  /\ token = <<tensor'[i].block, version'[tensor'[i].block]>> /\ ~ inference'[tensor'[i].block] =>
       value = data'[tensor'[i].block]

LEMMA FollowsOn ==
  ASSUME MemoryTypes, MemoryTypes', NEW t \in Tokens, NEW v, NEW i \in UsedIds, Alive(i),
         Undisturbed(i), Follows(t, v, i)
  PROVE  StillFollows(t, v, i)
<1> DEFINE b == tensor[i].block
<1>1. b \in Blocks /\ t[1] = b /\ t[2] \in Nat /\ t[2] <= version[b] /\ tensor'[i].block = b
  BY DEF Follows, Alive, Objects, Tokens, Undisturbed
<1>2. version[b] \in Nat /\ version'[b] \in Nat /\ version[b] <= version'[b]
  BY <1>1 DEF MemoryTypes, Undisturbed
<1>3. t[2] <= version'[b]
  BY <1>1, <1>2
<1>4. ASSUME t = <<b, version'[b]>>, ~ inference'[b]
      PROVE  v = data'[b]
  <2>1. t[2] = version'[b] /\ version'[b] = version[b]
    BY <1>1, <1>2, <1>4
  <2>2. ~ inference[b] /\ data'[b] = data[b]
    BY <1>4, <2>1 DEF Undisturbed
  <2> QED
    BY <1>4, <2>1, <2>2 DEF Follows, Is, Token, Value
<1> HIDE DEF b
<1> QED
  BY <1>1, <1>3, <1>4 DEF b, StillFollows

\* What a step of the tensors leaves, given what it does to those in use.
LEMMA MemoryKeeps ==
  ASSUME Inv, Elsewhere, MemoryTypes', clock' >= clock,
         \A i \in UsedIds : Undisturbed(i),
         \A i \in UsedIds' : Alive(i)' /\ (Old(i) \/ New(i))
  PROVE  Inv'
<1>1. Types /\ AliveInv /\ MemoryTypes /\ \A i \in UsedIds : Alive(i)
  BY DEF Inv, AliveInv, Types
<1>2. UsedGraphs' = UsedGraphs /\ positions' = positions
  BY GraphsStay DEF Elsewhere, relation
<1>3. \A g \in UsedGraphs : positions[g] \in UsedIds /\ g \in Graphs
  <2>1. \A g \in UsedGraphs : Root(positions[g])
    BY DEF Root
  <2>2. UsedGraphs \subseteq Graphs
    BY <1>1 DEF UsedGraphs, HeldGraphs, Types, RelationTypes
  <2> QED
    BY <2>1, <2>2, InUse
<1>4. Types'
  BY <1>1 DEF Elsewhere, relation, network, vjp, Types, RelationTypes, NetworkTypes, VjpTypes,
       ExecutableTypes
<1>5. AliveInv'
  BY <1>1, <1>2 DEF AliveInv
<1>6. WeightedInv'
  <2>1. ASSUME kernel = "weighted", executable # None, ~ WeightViews
        PROVE  tensor'[executable.weight] = tensor[executable.weight]
    <3>1. Root(executable.weight)
      BY <1>1, <2>1 DEF Root, Types, ExecutableTypes
    <3>2. executable.weight \in UsedIds
      BY <3>1, InUse
    <3> QED
      BY <3>2 DEF Undisturbed
  <2> QED
    BY <2>1 DEF Elsewhere, Inv, WeightedInv
<1>7. RelationInv'
  <2> SUFFICES ASSUME NEW g \in UsedGraphs, csr[g] # None
               PROVE  Follows(csr[g].token, csr[g].value, positions[g])'
    BY <1>2 DEF RelationInv, Elsewhere, relation
  <2>1. csr[g].token \in Tokens
    BY <1>1, <1>3 DEF Types, RelationTypes, Relations
  <2>2. Follows(csr[g].token, csr[g].value, positions[g])
    BY DEF Inv, RelationInv
  <2>3. StillFollows(csr[g].token, csr[g].value, positions[g])
    BY <1>1, <1>3, <2>1, <2>2, FollowsOn
  <2> QED
    BY <2>3 DEF Elsewhere, relation, StillFollows, Follows, Is, Token, Value
<1>8. PreparedInv'
  <2> SUFFICES ASSUME NEW g \in UsedGraphs, prepared[g] # None
               PROVE  /\ Follows(prepared[g].token, prepared[g].value, positions[g])'
                      /\ prepared[g].key[1] = tensor'[prepared[g].upstream].block
    BY <1>2 DEF PreparedInv, Elsewhere, vjp
  <2>1. prepared[g].token \in Tokens /\ prepared[g].upstream \in Ids
    BY <1>1, <1>3 DEF Types, VjpTypes, Launches
  <2>2. /\ Follows(prepared[g].token, prepared[g].value, positions[g])
        /\ prepared[g].key[1] = tensor[prepared[g].upstream].block
    BY DEF Inv, PreparedInv
  <2>3. Root(prepared[g].upstream)
    BY <2>1 DEF Root
  <2>4. Undisturbed(prepared[g].upstream)
    BY <2>3, InUse
  <2>5. StillFollows(prepared[g].token, prepared[g].value, positions[g])
    BY <1>1, <1>3, <2>1, <2>2, FollowsOn
  <2>6. Follows(prepared[g].token, prepared[g].value, positions[g])'
    BY <1>2, <2>5 DEF Elsewhere, vjp, StillFollows, Follows, Is, Token, Value
  <2> QED
    BY <2>2, <2>4, <2>6 DEF Undisturbed
<1>9. CapturedInv'
  <2>1. ASSUME kernel \in {"distance", "edge_nn"}, executable # None
        PROVE  Follows(executable.token, executable.value, positions[executable.graph])'
    <3>1. executable.token \in Tokens /\ executable.graph \in Graphs
      BY <1>1, <2>1 DEF Types, ExecutableTypes
    <3>2. executable.graph \in UsedGraphs
      BY <2>1, <3>1 DEF UsedGraphs, HeldGraphs
    <3>3. Follows(executable.token, executable.value, positions[executable.graph])
      BY <2>1 DEF Inv, CapturedInv
    <3>4. StillFollows(executable.token, executable.value, positions[executable.graph])
      BY <1>1, <1>3, <3>1, <3>2, <3>3, FollowsOn
    <3> QED
      BY <1>2, <3>4 DEF Elsewhere, StillFollows, Follows, Is, Token, Value
  <2>2. ASSUME kernel = "edge_nn", executable # None
        PROVE  parameter # None /\ Follows(executable.weight, executable.padded, parameter)'
    <3>1. executable.weight \in Tokens
      BY <1>1, <2>2 DEF Types, ExecutableTypes
    <3>2. parameter # None /\ Follows(executable.weight, executable.padded, parameter)
      BY <2>2 DEF Inv, CapturedInv
    <3>3. Root(parameter)
      BY <1>1, <3>2 DEF Types, NetworkTypes, Root
    <3>4. parameter \in UsedIds
      BY <3>3, InUse
    <3>5. StillFollows(executable.weight, executable.padded, parameter)
      BY <1>1, <3>1, <3>2, <3>4, FollowsOn
    <3> QED
      BY <3>2, <3>5 DEF Elsewhere, network, StillFollows, Follows, Is, Token, Value
  <2>3. ASSUME forward # None
        PROVE  kernel = "vjp" /\ Follows(forward.token, forward.value, positions[forward.graph])'
    <3>1. forward.token \in Tokens /\ forward.graph \in Graphs
      BY <1>1, <2>3 DEF Types, VjpTypes, Forwards
    <3>2. forward.graph \in UsedGraphs
      BY <2>3, <3>1 DEF UsedGraphs, HeldGraphs
    <3>3. kernel = "vjp" /\ Follows(forward.token, forward.value, positions[forward.graph])
      BY <2>3 DEF Inv, CapturedInv
    <3>4. StillFollows(forward.token, forward.value, positions[forward.graph])
      BY <1>1, <1>3, <3>1, <3>2, <3>3, FollowsOn
    <3> QED
      BY <1>2, <3>3, <3>4 DEF Elsewhere, vjp, StillFollows, Follows, Is, Token, Value
  <2> QED
    BY <2>1, <2>2, <2>3 DEF Elsewhere, vjp, network, relation, CapturedInv
<1>10. PaddedInv'
  <2> SUFFICES ASSUME NEW i \in Ids, padded[i] # None
               PROVE  /\ padded[i].birth <= clock'
                      /\ i \in UsedIds' /\ padded[i].birth = birth'[i] =>
                           Follows(padded[i].token, padded[i].value, i)'
    BY DEF PaddedInv, Elsewhere, network
  <2>1. padded[i].birth \in Nat /\ padded[i].token \in Tokens
    BY <1>1 DEF Types, NetworkTypes, PaddedWeights
  <2>2. padded[i].birth <= clock
    BY DEF Inv, PaddedInv
  <2>3. clock \in Nat /\ clock' \in Nat
    BY <1>1 DEF MemoryTypes
  <2>4. ASSUME i \in UsedIds', padded[i].birth = birth'[i]
        PROVE  Follows(padded[i].token, padded[i].value, i)'
    <3>1. ~ New(i)
      BY <2>1, <2>2, <2>3, <2>4 DEF New
    <3>2. i \in UsedIds /\ padded[i].birth = birth[i]
      BY <2>4, <3>1 DEF Old
    <3>3. Follows(padded[i].token, padded[i].value, i)
      BY <3>2 DEF Inv, PaddedInv
    <3>4. StillFollows(padded[i].token, padded[i].value, i)
      BY <1>1, <2>1, <3>2, <3>3, FollowsOn
    <3> QED
      BY <3>4 DEF Elsewhere, network, StillFollows, Follows, Is, Token, Value
  <2> QED
    BY <2>1, <2>2, <2>3, <2>4
<1>11. Current' /\ GradientsKept'
  BY DEF Elsewhere, vjp, Inv, Current, GradientsKept
<1> QED
  BY <1>4, <1>5, <1>6, <1>7, <1>8, <1>9, <1>10, <1>11 DEF Inv

\* When a step writes tensor i alone, or none, what was in use is all that can be
\* in use after it besides i.
LEMMA OnlyThis ==
  ASSUME AliveInv, Elsewhere, NEW i \in Ids, user' \subseteq user \cup {i},
         \A j \in UsedIds : tensor'[j] = tensor[j],
         tensor'[i].base \in UsedIds \cup {i}
  PROVE  UsedIds' \subseteq UsedIds \cup {i}
<1>1. \A r : Root(r)' => r = i \/ Root(r)
  BY GraphsStay DEF Root, Elsewhere, relation, network, vjp
<1> SUFFICES ASSUME NEW k \in UsedIds' PROVE k \in UsedIds \cup {i}
  OBVIOUS
<1>2. PICK r : Root(r)' /\ (k = r \/ k = tensor'[r].base)
  BY InUseNext
<1>3. CASE r = i
  BY <1>2, <1>3
<1>4. CASE Root(r)
  <2>1. r \in UsedIds
    BY <1>4, InUse
  <2> QED
    BY <1>2, <2>1, BaseInUse
<1> QED
  BY <1>1, <1>2, <1>3, <1>4

\* Tensors in use stay alive when neither they nor their bases are written.
LEMMA AliveOn ==
  ASSUME AliveInv, kernel' = kernel, \A j \in UsedIds : tensor'[j] = tensor[j], NEW i \in UsedIds
  PROVE  Alive(i)'
<1>1. Alive(i) /\ tensor[i].base \in UsedIds
  BY BaseInUse DEF AliveInv
<1> QED
  BY <1>1 DEF Alive

LEMMA CreateStep ==
  ASSUME Inv, NEW i \in Ids, NEW b \in Blocks, Create(i, b)
  PROVE  Inv'
<1>1. Types /\ AliveInv /\ MemoryTypes /\ clock \in Nat
  BY CacheAssumption DEF Inv, Types, MemoryTypes
<1>2. Elsewhere
  BY DEF Create, Elsewhere
<1>3. tensor'[i] = [block |-> b, base |-> i] /\ birth'[i] = clock + 1 /\ clock' = clock + 1
  BY <1>1 DEF Create, MemoryTypes
<1>4. MemoryTypes'
  <2>1. clock' \in 0 .. MaxClock /\ 0 .. clock \subseteq 0 .. clock' /\ clock + 1 \in 0 .. clock'
        /\ 0 \in 0 .. clock'
    BY <1>1, CacheAssumption DEF Create
  <2>2. tensor' \in [Ids -> Objects \cup {None}]
    BY <1>1 DEF Create, MemoryTypes, Objects
  <2>3. birth' \in [Ids -> 0 .. clock'] /\ version' \in [Blocks -> 0 .. clock']
    BY <1>1, <2>1 DEF Create, MemoryTypes
  <2>4. data' \in [Blocks -> 0 .. MaxClock] /\ inference' \in [Blocks -> BOOLEAN]
        /\ user' \subseteq Ids /\ kernel' \in Kernels
    BY <1>1, <2>1 DEF Create, MemoryTypes
  <2> QED
    BY <2>1, <2>2, <2>3, <2>4 DEF MemoryTypes
<1>5. \A j \in UsedIds : tensor'[j] = tensor[j] /\ birth'[j] = birth[j]
  BY <1>1 DEF Create, AliveInv, Alive, MemoryTypes
<1>6. \A j \in UsedIds : Undisturbed(j)
  <2> SUFFICES ASSUME NEW j \in UsedIds PROVE Undisturbed(j)
    OBVIOUS
  <2>1. Alive(j) /\ tensor[j].block # b
    BY <1>1 DEF AliveInv, Create, UsedBlocks
  <2>2. tensor[j].block \in Blocks
    BY <2>1 DEF Alive, Objects
  <2>3. /\ version'[tensor[j].block] = version[tensor[j].block]
        /\ data'[tensor[j].block] = data[tensor[j].block]
        /\ inference'[tensor[j].block] = inference[tensor[j].block]
    BY <1>1, <2>1, <2>2 DEF Create, MemoryTypes
  <2>4. version[tensor[j].block] \in Nat
    BY <1>1, <2>2 DEF MemoryTypes
  <2> QED
    BY <1>5, <2>3, <2>4 DEF Undisturbed
<1>7. UsedIds' \subseteq UsedIds \cup {i}
  BY <1>1, <1>2, <1>3, <1>5, OnlyThis DEF Create
<1>8. \A j \in UsedIds' : Alive(j)' /\ (Old(j) \/ New(j))
  <2> SUFFICES ASSUME NEW j \in UsedIds' PROVE Alive(j)' /\ (Old(j) \/ New(j))
    OBVIOUS
  <2>1. CASE j \in UsedIds
    BY <1>1, <1>5, <2>1, AliveOn DEF Elsewhere, Create, Old
  <2>2. CASE j = i
    BY <1>1, <1>3, <2>2 DEF Alive, New, Objects
  <2> QED
    BY <1>7, <2>1, <2>2
<1> QED
  BY <1>1, <1>2, <1>3, <1>4, <1>6, <1>8, MemoryKeeps

LEMMA ViewStep ==
  ASSUME Inv, NEW i \in Ids, NEW j \in Ids, View(i, j)
  PROVE  Inv'
<1>1. Types /\ AliveInv /\ MemoryTypes /\ clock \in Nat
  BY CacheAssumption DEF Inv, Types, MemoryTypes
<1>2. Elsewhere
  BY DEF View, Elsewhere
<1>3. j \in UsedIds /\ j # i
  <2>1. Root(j)
    BY DEF View, Root
  <2> QED
    BY <2>1, InUse DEF View
<1>4. Alive(j) /\ tensor[j].base \in UsedIds
  BY <1>1, <1>3, BaseInUse DEF AliveInv
<1>5. tensor'[i] = tensor[j] /\ birth'[i] = clock + 1 /\ clock' = clock + 1
  BY <1>1 DEF View, MemoryTypes
<1>6. MemoryTypes'
  <2>1. clock' \in 0 .. MaxClock /\ 0 .. clock \subseteq 0 .. clock' /\ clock + 1 \in 0 .. clock'
    BY <1>1, CacheAssumption DEF View
  <2>2. tensor' \in [Ids -> Objects \cup {None}]
    BY <1>1, <1>4 DEF View, MemoryTypes, Alive
  <2>3. birth' \in [Ids -> 0 .. clock'] /\ version' \in [Blocks -> 0 .. clock']
    BY <1>1, <2>1 DEF View, MemoryTypes
  <2>4. data' \in [Blocks -> 0 .. MaxClock] /\ inference' \in [Blocks -> BOOLEAN]
        /\ user' \subseteq Ids /\ kernel' \in Kernels
    BY <1>1, <2>1 DEF View, MemoryTypes
  <2> QED
    BY <2>1, <2>2, <2>3, <2>4 DEF MemoryTypes
<1>7. \A k \in UsedIds : tensor'[k] = tensor[k] /\ birth'[k] = birth[k]
  BY <1>1 DEF View, AliveInv, Alive, MemoryTypes
<1>8. \A k \in UsedIds : Undisturbed(k)
  <2> SUFFICES ASSUME NEW k \in UsedIds PROVE Undisturbed(k)
    OBVIOUS
  <2>1. tensor[k].block \in Blocks
    BY <1>1 DEF AliveInv, Alive, Objects
  <2>2. version[tensor[k].block] \in Nat
    BY <1>1, <2>1 DEF MemoryTypes
  <2> QED
    BY <1>7, <2>2 DEF Undisturbed, View
<1>9. UsedIds' \subseteq UsedIds \cup {i}
  BY <1>1, <1>2, <1>4, <1>5, <1>7, OnlyThis DEF View
<1>10. \A k \in UsedIds' : Alive(k)' /\ (Old(k) \/ New(k))
  <2> SUFFICES ASSUME NEW k \in UsedIds' PROVE Alive(k)' /\ (Old(k) \/ New(k))
    OBVIOUS
  <2>1. CASE k \in UsedIds
    BY <1>1, <1>7, <2>1, AliveOn DEF Elsewhere, View, Old
  <2>2. CASE k = i
    <3>1. tensor'[tensor[j].base] = tensor[j]
      BY <1>4, <1>7 DEF Alive
    <3>2. ~ (kernel = "weighted" /\ ~ WeightViews)
      BY DEF View
    <3> QED
      BY <1>1, <1>4, <1>5, <2>2, <3>1, <3>2 DEF Alive, New, View
  <2> QED
    BY <1>9, <2>1, <2>2
<1> QED
  BY <1>1, <1>2, <1>5, <1>6, <1>8, <1>10, MemoryKeeps

LEMMA WriteStep ==
  ASSUME Inv, NEW i \in Ids, Write(i)
  PROVE  Inv'
<1> DEFINE b == tensor[i].block
<1>1. Types /\ AliveInv /\ MemoryTypes /\ clock \in Nat
  BY CacheAssumption DEF Inv, Types, MemoryTypes
<1>2. Elsewhere /\ tensor' = tensor /\ birth' = birth /\ inference' = inference
  BY DEF Write, Elsewhere
<1>3. i \in UsedIds
  <2>1. Root(i)
    BY DEF Write, Root
  <2> QED
    BY <2>1, InUse
<1>4. b \in Blocks
  BY <1>1, <1>3 DEF AliveInv, Alive, Objects
<1>5. /\ data' = [data EXCEPT ![b] = clock + 1] /\ clock' = clock + 1 /\ user' = user
      /\ version' = [version EXCEPT ![b] = IF inference[b] THEN @ ELSE @ + 1]
  BY DEF Write
<1> HIDE DEF b
<1>6. MemoryTypes'
  <2>1. clock' \in 0 .. MaxClock /\ 0 .. clock \subseteq 0 .. clock' /\ clock + 1 \in 0 .. MaxClock
    BY <1>1, CacheAssumption DEF Write
  <2>2. version[b] \in 0 .. clock' /\ version[b] + 1 \in 0 .. clock'
    BY <1>1, <1>4, <1>5 DEF MemoryTypes
  <2>3. version' \in [Blocks -> 0 .. clock']
    <3>1. version \in [Blocks -> 0 .. clock']
      BY <1>1, <2>1 DEF MemoryTypes
    <3>2. (IF inference[b] THEN version[b] ELSE version[b] + 1) \in 0 .. clock'
      BY <2>2
    <3> QED
      BY <1>5, <3>1, <3>2
  <2>4. data' \in [Blocks -> 0 .. MaxClock]
    <3>1. data \in [Blocks -> 0 .. MaxClock]
      BY <1>1 DEF MemoryTypes
    <3> QED
      BY <1>5, <2>1, <3>1
  <2> QED
    BY <1>1, <1>2, <1>5, <2>1, <2>3, <2>4 DEF MemoryTypes, Elsewhere
<1>7. \A k \in UsedIds : Undisturbed(k)
  <2> SUFFICES ASSUME NEW k \in UsedIds PROVE Undisturbed(k)
    OBVIOUS
  <2>1. tensor[k].block \in Blocks
    BY <1>1 DEF AliveInv, Alive, Objects
  <2>2. version[tensor[k].block] \in Nat
    BY <1>1, <2>1 DEF MemoryTypes
  <2>3. CASE tensor[k].block # b
    <3>1. /\ version'[tensor[k].block] = version[tensor[k].block]
          /\ data'[tensor[k].block] = data[tensor[k].block]
      BY <1>1, <1>5, <2>1, <2>3 DEF MemoryTypes
    <3> QED
      BY <1>2, <2>2, <3>1 DEF Undisturbed
  <2>4. CASE tensor[k].block = b
    <3>1. version'[b] = IF inference[b] THEN version[b] ELSE version[b] + 1
      BY <1>1, <1>4, <1>5 DEF MemoryTypes
    <3> QED
      BY <1>2, <2>2, <2>4, <3>1 DEF Undisturbed
  <2> QED
    BY <2>3, <2>4
<1>8. UsedIds' \subseteq UsedIds
  <2>1. \A r : Root(r)' => Root(r)
    BY <1>2, <1>5, GraphsStay DEF Root, Elsewhere, relation, network, vjp
  <2> QED
    BY <1>1, <1>2, <2>1, InUse, NothingNew
<1>9. \A k \in UsedIds' : Alive(k)' /\ Old(k)
  BY <1>1, <1>2, <1>8, AliveStays DEF Old, Elsewhere
<1> QED
  BY <1>1, <1>2, <1>5, <1>6, <1>7, <1>9, MemoryKeeps

LEMMA DropStep ==
  ASSUME Inv, NEW i \in Ids, Drop(i)
  PROVE  Inv'
<1>1. Types /\ AliveInv /\ MemoryTypes /\ clock \in Nat
  BY CacheAssumption DEF Inv, Types, MemoryTypes
<1>2. Elsewhere /\ UNCHANGED <<clock, tensor, birth, data, version, inference>> /\ user' \subseteq user
  BY DEF Drop, Elsewhere
<1>3. MemoryTypes'
  BY <1>1, <1>2 DEF MemoryTypes, Elsewhere
<1>4. \A k \in UsedIds : Undisturbed(k)
  <2> SUFFICES ASSUME NEW k \in UsedIds PROVE Undisturbed(k)
    OBVIOUS
  <2>1. tensor[k].block \in Blocks
    BY <1>1 DEF AliveInv, Alive, Objects
  <2>2. version[tensor[k].block] \in Nat
    BY <1>1, <2>1 DEF MemoryTypes
  <2> QED
    BY <1>2, <2>2 DEF Undisturbed
<1>5. UsedIds' \subseteq UsedIds
  <2>1. \A r : Root(r)' => Root(r)
    BY <1>2, GraphsStay DEF Root, Elsewhere, relation, network, vjp
  <2> QED
    BY <1>1, <1>2, <2>1, InUse, NothingNew
<1>6. \A k \in UsedIds' : Alive(k)' /\ Old(k)
  BY <1>1, <1>2, <1>5, AliveStays DEF Old, Elsewhere
<1> QED
  BY <1>1, <1>2, <1>3, <1>4, <1>6, MemoryKeeps

-----------------------------------------------------------------------------
(* Steps that leave the tensors alone.                                     *)

LEMMA MemoryStays ==
  ASSUME Inv, UNCHANGED <<kernel, memory>>, UsedIds' \subseteq UsedIds
  PROVE  MemoryTypes' /\ \A i \in UsedIds' : Alive(i)'
<1>1. MemoryTypes'
  BY DEF Inv, Types, MemoryTypes, memory
<1>2. \A i \in UsedIds' : Alive(i)'
  BY AliveStays DEF Inv, memory
<1> QED
  BY <1>1, <1>2

LEMMA PaddedStays ==
  ASSUME Inv, UNCHANGED <<kernel, memory, padded>>, UsedIds' \subseteq UsedIds
  PROVE  PaddedInv'
BY DEF Inv, PaddedInv, memory, Follows, Is, Token, Value

LEMMA RelationStays ==
  ASSUME Inv, UNCHANGED memory, UsedGraphs' \subseteq UsedGraphs,
         \A g \in UsedGraphs' : csr'[g] = csr[g] /\ positions'[g] = positions[g]
  PROVE  RelationInv'
BY DEF Inv, RelationInv, memory, Follows, Is, Token, Value

LEMMA PreparedStays ==
  ASSUME Inv, UNCHANGED memory, UsedGraphs' \subseteq UsedGraphs,
         \A g \in UsedGraphs' : prepared'[g] = prepared[g] /\ positions'[g] = positions[g]
  PROVE  PreparedInv'
BY DEF Inv, PreparedInv, memory, Follows, Is, Token, Value

LEMMA CapturedStays ==
  ASSUME Inv, UNCHANGED <<kernel, memory, executable, parameter, forward>>,
         \A g \in UsedGraphs' : positions'[g] = positions[g]
  PROVE  CapturedInv'
<1>1. ASSUME kernel \in {"distance", "edge_nn"}, executable # None
      PROVE  positions'[executable.graph] = positions[executable.graph]
  <2>1. executable.graph \in Graphs
    BY <1>1 DEF Inv, Types, ExecutableTypes
  <2>2. executable.graph \in UsedGraphs'
    BY <1>1, <2>1 DEF UsedGraphs, HeldGraphs
  <2> QED
    BY <2>2
<1>2. ASSUME forward # None
      PROVE  positions'[forward.graph] = positions[forward.graph]
  <2>1. forward.graph \in Graphs
    BY <1>2 DEF Inv, Types, VjpTypes, Forwards
  <2>2. forward.graph \in UsedGraphs'
    BY <1>2, <2>1 DEF UsedGraphs, HeldGraphs
  <2> QED
    BY <2>2
<1> QED
  BY <1>1, <1>2 DEF Inv, CapturedInv, memory, Follows, Is, Token, Value

\* A Graph in use has positions that are in use.
LEMMA PositionsInUse ==
  ASSUME Inv, NEW g \in UsedGraphs
  PROVE  /\ g \in Graphs /\ positions[g] \in UsedIds /\ Alive(positions[g])
         /\ Token(positions[g]) \in Tokens /\ Value(positions[g]) \in Nat
         /\ Follows(Token(positions[g]), Value(positions[g]), positions[g])
<1>1. Types /\ AliveInv /\ MemoryTypes
  BY DEF Inv, Types
<1>2. Root(positions[g]) /\ g \in Graphs
  BY <1>1 DEF Root, UsedGraphs, HeldGraphs, Types, RelationTypes
<1>3. positions[g] \in UsedIds /\ Alive(positions[g])
  BY <1>1, <1>2, InUse DEF AliveInv
<1>4. tensor[positions[g]].block \in Blocks
  BY <1>3 DEF Alive, Objects
<1>5. version[tensor[positions[g]].block] \in Nat /\ data[tensor[positions[g]].block] \in Nat
  BY <1>1, <1>4 DEF MemoryTypes
<1> QED
  BY <1>2, <1>3, <1>4, <1>5 DEF Token, Tokens, Value, Follows, Is

\* The caller's tensors are in use.
LEMMA UserInUse ==
  ASSUME Inv, NEW i \in user
  PROVE  /\ i \in UsedIds /\ Alive(i) /\ tensor[i].base \in UsedIds \cap Ids
         /\ Token(i) \in Tokens /\ Value(i) \in Nat /\ Follows(Token(i), Value(i), i)
<1>1. AliveInv /\ MemoryTypes
  BY DEF Inv, Types
<1>2. i \in UsedIds
  <2>1. Root(i)
    BY DEF Root
  <2> QED
    BY <2>1, InUse
<1>3. Alive(i) /\ tensor[i].base \in UsedIds /\ tensor[i].block \in Blocks /\ tensor[i].base \in Ids
  BY <1>1, <1>2, BaseInUse DEF AliveInv, Alive, Objects
<1>4. version[tensor[i].block] \in Nat /\ data[tensor[i].block] \in Nat
  BY <1>1, <1>3 DEF MemoryTypes
<1> QED
  BY <1>2, <1>3, <1>4 DEF Token, Tokens, Value, Follows, Is

-----------------------------------------------------------------------------
(* A weighted sum.                                                         *)

\* The entry for values i has a matrix in use, and without views it is theirs.
LEMMA SparseEntry ==
  ASSUME Inv, kernel = "weighted", NEW i \in user
  PROVE  /\ SparseCsr(i) \in [id : Ids, version : Nat, matrix : Matrices]
         /\ SparseCsr(i).matrix.owner \in UsedIds
         /\ SparseCsr(i).id = i
         /\ ~ WeightViews => SparseCsr(i).matrix.owner = i
<1>1. Alive(i) /\ tensor[i].base \in UsedIds \cap Ids /\ Token(i) \in Tokens
  BY UserInUse
<1>2. CASE sparse # None /\ sparse.id = i /\ SparseCsr(i) = sparse
  <2>1. sparse \in [id : Ids, version : Nat, matrix : Matrices]
    BY <1>2 DEF Inv, Types, ExecutableTypes
  <2>2. Root(sparse.matrix.owner)
    BY <1>2, <2>1 DEF Root, Matrices
  <2>3. sparse.matrix.owner \in UsedIds
    BY <2>2, InUse
  <2> QED
    BY <1>2, <2>1, <2>3 DEF Inv, WeightedInv
<1>3. CASE SparseCsr(i) = [id |-> i, version |-> version[tensor[i].block], matrix |-> Matrix(i)]
  <2>1. version[tensor[i].block] \in Nat
    BY <1>1 DEF Token, Tokens
  <2>2. Matrix(i) \in Matrices /\ Matrix(i).owner = tensor[i].base
    BY <1>1 DEF Matrix, Matrices
  <2> QED
    BY <1>1, <1>3, <2>1, <2>2 DEF Alive
<1> QED
  BY <1>2, <1>3 DEF SparseCsr

LEMMA WeightedStep ==
  ASSUME Inv, NEW i \in Ids, Weighted(i)
  PROVE  Inv'
<1>1. /\ kernel = "weighted" /\ i \in user /\ Types /\ AliveInv
      /\ UNCHANGED <<kernel, memory, relation, network, vjp>>
  BY DEF Weighted, Inv
<1>2. Alive(i) /\ i \in UsedIds /\ i \in Ids
  BY <1>1, UserInUse
<1> DEFINE entry == SparseCsr(i)
<1>3. /\ entry \in [id : Ids, version : Nat, matrix : Matrices]
      /\ entry.matrix.owner \in UsedIds /\ entry.id = i
      /\ ~ WeightViews => entry.matrix.owner = i
  BY <1>1, SparseEntry
<1> HIDE DEF entry
<1>4. \A m \in Matrices : Entries(m) = Value(m.owner)
  BY CacheAssumption DEF Entries, Matrices
<1>5. /\ sparse' \in {sparse, entry}
      /\ \/ executable' = executable
         \/ executable' = [weight |-> i, matrix |-> entry.matrix]
      /\ stale' \in BOOLEAN
      /\ ~ WeightViews => ~ stale'
  <2>1. CASE WeightedHit(i) /\ executable.weight = i
    <3>1. executable.matrix \in Matrices
      BY <1>1, <2>1 DEF WeightedHit, Types, ExecutableTypes
    <3>2. /\ sparse' = sparse /\ executable' = executable
          /\ stale' = (Value(executable.matrix.owner) # Value(i))
      BY <1>4, <2>1, <3>1 DEF WeightedHit
    <3>3. ~ WeightViews => executable.matrix.owner = tensor[i].base
      BY <1>1, <2>1 DEF WeightedHit, Inv, WeightedInv
    <3>4. ~ WeightViews => executable.matrix.owner = i
      BY <1>1, <1>2, <3>3 DEF Alive
    <3> QED
      BY <3>2, <3>4
  <2>2. CASE WeightedHit(i) /\ executable.weight # i
    <3>1. /\ sparse' = entry /\ executable' = executable
          /\ stale' = (Entries(entry.matrix) # Value(i))
      BY <2>2 DEF WeightedHit, entry
    <3> QED
      BY <1>3, <1>4, <3>1
  <2>3. CASE WeightedMiss(i)
    <3>1. /\ sparse' = entry /\ executable' = [weight |-> i, matrix |-> entry.matrix]
          /\ stale' = (Entries(entry.matrix) # Value(i))
      BY <2>3 DEF WeightedMiss, entry
    <3> QED
      BY <1>3, <1>4, <3>1
  <2> QED
    BY <2>1, <2>2, <2>3 DEF Weighted
<1>6. UsedGraphs' = UsedGraphs
  BY <1>1 DEF UsedGraphs, HeldGraphs, relation, vjp
<1>7. UsedIds' \subseteq UsedIds
  <2>1. ASSUME NEW r, Root(r)' PROVE r \in UsedIds
    <3>1. CASE Root(r)
      BY <3>1, InUse
    <3>2. CASE r \in {i, entry.matrix.owner}
      BY <1>2, <1>3, <3>2
    <3>3. Root(r) \/ r \in {i, entry.matrix.owner}
      BY <1>1, <1>5, <1>6, <2>1 DEF Root, relation, network, vjp, memory
    <3> QED
      BY <3>1, <3>2, <3>3
  <2> QED
    BY <1>1, <2>1, NothingNew DEF memory
<1>8. MemoryTypes' /\ \A j \in UsedIds' : Alive(j)'
  BY <1>1, <1>7, MemoryStays
<1>9. ExecutableTypes'
  BY <1>1, <1>3, <1>5 DEF Types, ExecutableTypes
<1>10. Types'
  BY <1>1, <1>8, <1>9 DEF Types, RelationTypes, NetworkTypes, VjpTypes, relation, network, vjp
<1>11. AliveInv'
  BY <1>1, <1>6, <1>8 DEF AliveInv, relation
<1>12. WeightedInv'
  BY <1>1, <1>2, <1>3, <1>5 DEF Inv, WeightedInv, Alive, memory
<1>13. RelationInv' /\ PreparedInv' /\ PaddedInv'
  BY <1>1, <1>6, <1>7, RelationStays, PreparedStays, PaddedStays DEF relation, vjp, network
<1>14. CapturedInv' /\ Current' /\ GradientsKept'
  BY <1>1, <1>5 DEF Inv, CapturedInv, Current, GradientsKept, vjp
<1> QED
  BY <1>10, <1>11, <1>12, <1>13, <1>14 DEF Inv

-----------------------------------------------------------------------------
(* Graphs and their relations.                                             *)

LEMMA NewGraphStep ==
  ASSUME Inv, NEW g \in Graphs, NEW i \in Ids, NewGraph(g, i)
  PROVE  Inv'
<1>1. /\ kernel # "weighted" /\ g \notin UsedGraphs /\ i \in user /\ Types /\ AliveInv
      /\ UNCHANGED <<kernel, memory, executable, sparse, network, forward, slot, gradient, stale>>
  BY DEF NewGraph, Inv
<1>2. UsedGraphs \subseteq Graphs /\ UsedGraphs' = UsedGraphs \cup {g}
  BY <1>1 DEF NewGraph, UsedGraphs, HeldGraphs, Types, RelationTypes
<1>3. \A h \in UsedGraphs :
        positions'[h] = positions[h] /\ csr'[h] = csr[h] /\ prepared'[h] = prepared[h]
  BY <1>1, <1>2 DEF NewGraph, Living
<1>4. positions'[g] = i /\ csr'[g] = None /\ prepared'[g] = None
  BY <1>1 DEF NewGraph, Living
<1>5. i \in UsedIds /\ i \in Ids
  BY <1>1, UserInUse
<1>6. UsedIds' \subseteq UsedIds
  <2>1. ASSUME NEW r, Root(r)' PROVE r \in UsedIds
    <3>1. Root(r) \/ r = i
      BY <1>1, <1>2, <1>3, <1>4, <2>1 DEF Root, memory, network
    <3> QED
      BY <1>5, <3>1, InUse
  <2> QED
    BY <1>1, <2>1, NothingNew DEF memory
<1>7. MemoryTypes' /\ \A j \in UsedIds' : Alive(j)'
  BY <1>1, <1>6, MemoryStays
<1>8. RelationTypes'
  BY <1>1, <1>2 DEF NewGraph, Living, Types, RelationTypes
<1>9. VjpTypes'
  BY <1>1 DEF NewGraph, Living, Types, VjpTypes
<1>10. Types'
  BY <1>1, <1>7, <1>8, <1>9 DEF Types, NetworkTypes, ExecutableTypes, network
<1>11. AliveInv'
  BY <1>1, <1>2, <1>3, <1>4, <1>7 DEF AliveInv
<1>12. WeightedInv'
  BY <1>1 DEF Inv, WeightedInv, memory
<1>13. RelationInv' /\ PreparedInv'
  BY <1>1, <1>2, <1>3, <1>4 DEF Inv, RelationInv, PreparedInv, memory, Follows, Is, Token, Value
<1>14. CapturedInv'
  <2>1. ASSUME kernel \in {"distance", "edge_nn"}, executable # None
        PROVE  positions'[executable.graph] = positions[executable.graph]
    <3>1. executable.graph \in Graphs
      BY <1>1, <2>1 DEF Types, ExecutableTypes
    <3>2. executable.graph \in UsedGraphs
      BY <2>1, <3>1 DEF UsedGraphs, HeldGraphs
    <3> QED
      BY <1>3, <3>2
  <2>2. ASSUME forward # None
        PROVE  positions'[forward.graph] = positions[forward.graph]
    <3>1. forward.graph \in Graphs
      BY <1>1, <2>2 DEF Types, VjpTypes, Forwards
    <3>2. forward.graph \in UsedGraphs
      BY <2>2, <3>1 DEF UsedGraphs, HeldGraphs
    <3> QED
      BY <1>3, <3>2
  <2> QED
    BY <1>1, <2>1, <2>2 DEF Inv, CapturedInv, memory, network, Follows, Is, Token, Value
<1>15. PaddedInv'
  BY <1>1, <1>6, PaddedStays DEF network
<1>16. Current' /\ GradientsKept'
  BY <1>1 DEF Inv, Current, GradientsKept
<1> QED
  BY <1>10, <1>11, <1>12, <1>13, <1>14, <1>15, <1>16 DEF Inv

LEMMA DropGraphStep ==
  ASSUME Inv, NEW g \in Graphs, DropGraph(g)
  PROVE  Inv'
<1>1. /\ Types /\ AliveInv /\ graphs' = graphs \ {g}
      /\ UNCHANGED <<kernel, memory, executable, sparse, network, forward, slot, gradient, stale>>
  BY DEF DropGraph, Inv
<1>2. HeldGraphs' = HeldGraphs
  BY <1>1 DEF HeldGraphs
<1>3. /\ UsedGraphs' \subseteq UsedGraphs /\ UsedGraphs' \subseteq Graphs
      /\ positions' = Living(positions, UsedGraphs')
      /\ csr' = Living(csr, UsedGraphs') /\ prepared' = Living(prepared, UsedGraphs')
  BY <1>1, <1>2 DEF DropGraph, UsedGraphs, HeldGraphs, Types, RelationTypes
<1>4. \A h \in UsedGraphs' :
        positions'[h] = positions[h] /\ csr'[h] = csr[h] /\ prepared'[h] = prepared[h]
  BY <1>3 DEF Living
<1>5. UsedIds' \subseteq UsedIds
  <2>1. ASSUME NEW r, Root(r)' PROVE Root(r)
    BY <1>1, <1>3, <1>4, <2>1 DEF Root, memory, network
  <2> QED
    BY <1>1, <2>1, InUse, NothingNew DEF memory
<1>6. MemoryTypes' /\ \A j \in UsedIds' : Alive(j)'
  BY <1>1, <1>5, MemoryStays
<1>7. RelationTypes'
  BY <1>1, <1>3 DEF Living, Types, RelationTypes
<1>8. VjpTypes'
  BY <1>1, <1>3 DEF Living, Types, VjpTypes
<1>9. Types'
  BY <1>1, <1>6, <1>7, <1>8 DEF Types, NetworkTypes, ExecutableTypes, network
<1>10. AliveInv'
  BY <1>1, <1>3, <1>4, <1>6 DEF AliveInv
<1>11. WeightedInv' /\ Current' /\ GradientsKept'
  BY <1>1 DEF Inv, WeightedInv, Current, GradientsKept, memory
<1>12. RelationInv' /\ PreparedInv' /\ CapturedInv'
  BY <1>1, <1>3, <1>4, RelationStays, PreparedStays, CapturedStays DEF network
<1>13. PaddedInv'
  BY <1>1, <1>5, PaddedStays DEF network
<1> QED
  BY <1>9, <1>10, <1>11, <1>12, <1>13 DEF Inv

\* A relation that has been resolved is that of the positions.
LEMMA Resolved ==
  ASSUME Inv, NEW g \in UsedGraphs, ResolveCsr(g)
  PROVE  /\ csr'[g] \in Relations /\ csr'[g].value = Value(positions[g])
         /\ Follows(csr'[g].token, csr'[g].value, positions[g])
         /\ csr' \in [Graphs -> Relations \cup {None}]
         /\ \A h \in Graphs \ {g} : csr'[h] = csr[h]
<1>1. Types /\ csr \in [Graphs -> Relations \cup {None}]
  BY DEF Inv, Types, RelationTypes
<1>2. /\ g \in Graphs /\ Token(positions[g]) \in Tokens /\ Value(positions[g]) \in Nat
      /\ Follows(Token(positions[g]), Value(positions[g]), positions[g])
  BY PositionsInUse
<1>3. CASE csr[g] # None /\ Is(csr[g].token, positions[g])
  <2>1. csr' = csr /\ Follows(csr[g].token, csr[g].value, positions[g])
    BY <1>3 DEF ResolveCsr, Inv, RelationInv
  <2>2. csr[g].value = Value(positions[g])
    BY <1>3, <2>1 DEF Follows
  <2> QED
    BY <1>1, <1>2, <1>3, <2>1, <2>2
<1>4. CASE ~ (csr[g] # None /\ Is(csr[g].token, positions[g]))
  <2>1. PICK a \in Addresses :
          csr' = [csr EXCEPT ![g] = [token |-> Token(positions[g]), address |-> a,
                                     value |-> Value(positions[g])]]
    BY <1>4 DEF ResolveCsr
  <2>2. csr'[g] = [token |-> Token(positions[g]), address |-> a, value |-> Value(positions[g])]
    BY <1>1, <1>2, <2>1
  <2>3. csr'[g] \in Relations
    BY <1>2, <2>2 DEF Relations
  <2>4. csr'[g].token = Token(positions[g]) /\ csr'[g].value = Value(positions[g])
    BY <2>2
  <2>5. Follows(csr'[g].token, csr'[g].value, positions[g])
    BY <1>2, <2>4
  <2>6. csr' \in [Graphs -> Relations \cup {None}]
    BY <1>1, <1>2, <2>1, <2>2, <2>3
  <2> QED
    BY <1>1, <2>1, <2>3, <2>4, <2>5, <2>6
<1> QED
  BY <1>3, <1>4

\* A step that resolves the relation of a Graph in use keeps the relations.
LEMMA ResolvedStays ==
  ASSUME Inv, NEW g \in UsedGraphs, ResolveCsr(g) \/ csr' = csr, UNCHANGED <<memory, positions>>,
         UsedGraphs' \subseteq UsedGraphs
  PROVE  RelationInv' /\ csr' \in [Graphs -> Relations \cup {None}]
<1>1. CASE csr' = csr
  BY <1>1, RelationStays DEF Inv, Types, RelationTypes
<1>2. CASE ResolveCsr(g)
  <2>1. UsedGraphs \subseteq Graphs
    BY DEF UsedGraphs, HeldGraphs, Inv, Types, RelationTypes
  <2>2. ASSUME NEW h \in UsedGraphs', csr'[h] # None
        PROVE  Follows(csr'[h].token, csr'[h].value, positions[h])
    <3>1. CASE h = g
      BY <1>2, <3>1, Resolved
    <3>2. CASE h # g
      BY <1>2, <2>1, <2>2, <3>2, Resolved DEF Inv, RelationInv
    <3> QED
      BY <3>1, <3>2
  <2>3. RelationInv'
    BY <2>2 DEF RelationInv, memory, Follows, Is, Token, Value
  <2> QED
    BY <1>2, <2>3, Resolved
<1> QED
  BY <1>1, <1>2

LEMMA ResolveStep ==
  ASSUME Inv, NEW g \in Graphs, Resolve(g)
  PROVE  Inv'
<1>1. /\ Types /\ AliveInv /\ ResolveCsr(g) /\ g \in UsedGraphs
      /\ UNCHANGED <<kernel, memory, executable, sparse, positions, graphs, network, vjp, stale>>
  BY DEF Resolve, UsedGraphs, Inv
<1>2. UsedGraphs' = UsedGraphs
  BY <1>1 DEF UsedGraphs, HeldGraphs, vjp
<1>3. UsedIds' \subseteq UsedIds
  <2>1. ASSUME NEW r, Root(r)' PROVE Root(r)
    BY <1>1, <1>2, <2>1 DEF Root, memory, network, vjp
  <2> QED
    BY <1>1, <2>1, InUse, NothingNew DEF memory
<1>4. MemoryTypes' /\ \A j \in UsedIds' : Alive(j)'
  BY <1>1, <1>3, MemoryStays
<1>5. RelationInv' /\ csr' \in [Graphs -> Relations \cup {None}]
  BY <1>1, <1>2, ResolvedStays
<1>6. Types'
  BY <1>1, <1>4, <1>5
     DEF Types, RelationTypes, NetworkTypes, VjpTypes, ExecutableTypes, network, vjp
<1>7. AliveInv'
  BY <1>1, <1>2, <1>4 DEF AliveInv
<1>8. WeightedInv' /\ Current' /\ GradientsKept'
  BY <1>1 DEF Inv, WeightedInv, Current, GradientsKept, memory, vjp
<1>9. PreparedInv' /\ CapturedInv'
  BY <1>1, <1>2, PreparedStays, CapturedStays DEF network, vjp
<1>10. PaddedInv'
  BY <1>1, <1>3, PaddedStays DEF network
<1> QED
  BY <1>5, <1>6, <1>7, <1>8, <1>9, <1>10 DEF Inv

-----------------------------------------------------------------------------
(* Sums over distances and edge networks.                                  *)

LEMMA DistanceStep ==
  ASSUME Inv, NEW g \in Graphs, Distance(g)
  PROVE  Inv'
<1>1. /\ Types /\ AliveInv /\ kernel = "distance" /\ g \in UsedGraphs
      /\ UNCHANGED <<kernel, memory, sparse, positions, graphs, network, vjp>>
  BY DEF Distance, UsedGraphs, Inv
<1>2. /\ Token(positions[g]) \in Tokens /\ Value(positions[g]) \in Nat
      /\ Follows(Token(positions[g]), Value(positions[g]), positions[g])
  BY <1>1, PositionsInUse
<1> DEFINE captured == [graph |-> g, token |-> Token(positions[g]), value |-> Value(positions[g])]
<1>3. /\ stale' = FALSE
      /\ csr' = csr \/ ResolveCsr(g)
      /\ executable' = executable \/ executable' = captured
  <2>1. CASE executable # None /\ Is(executable.token, positions[g])
    <3>1. Follows(executable.token, executable.value, positions[executable.graph])
      BY <1>1, <2>1 DEF Inv, CapturedInv
    <3>2. executable.token \in Tokens
      BY <1>1, <2>1 DEF Types, ExecutableTypes
    <3>3. executable.value = Value(positions[g])
      BY <2>1, <3>1, <3>2 DEF Follows, Is, Token, Value
    <3> QED
      BY <2>1, <3>3 DEF Distance
  <2>2. CASE ~ (executable # None /\ Is(executable.token, positions[g]))
    <3>1. /\ ResolveCsr(g) /\ stale' = (csr'[g].value # Value(positions[g]))
          /\ executable' = IF executable # None THEN executable
                           ELSE [graph |-> g, token |-> Token(positions[g]),
                                 value |-> csr'[g].value]
      BY <2>2 DEF Distance
    <3>2. csr'[g].value = Value(positions[g])
      BY <1>1, <3>1, Resolved
    <3> QED
      BY <3>1, <3>2
  <2> QED
    BY <2>1, <2>2
<1>4. captured \in [graph : Graphs, token : Tokens, value : Nat] /\ captured.graph = g
      /\ captured.token = Token(positions[g]) /\ captured.value = Value(positions[g])
  BY <1>2
<1> HIDE DEF captured
<1>5. UsedGraphs' \subseteq UsedGraphs
  BY <1>1, <1>3, <1>4 DEF UsedGraphs, HeldGraphs, vjp
<1>6. UsedIds' \subseteq UsedIds
  <2>1. ASSUME NEW r, Root(r)' PROVE Root(r)
    BY <1>1, <1>5, <2>1 DEF Root, memory, network, vjp
  <2> QED
    BY <1>1, <2>1, InUse, NothingNew DEF memory
<1>7. MemoryTypes' /\ \A j \in UsedIds' : Alive(j)'
  BY <1>1, <1>6, MemoryStays
<1>8. RelationInv' /\ csr' \in [Graphs -> Relations \cup {None}]
  BY <1>1, <1>3, <1>5, ResolvedStays
<1>9. ExecutableTypes'
  BY <1>1, <1>3, <1>4 DEF Types, ExecutableTypes
<1>10. Types'
  BY <1>1, <1>7, <1>8, <1>9 DEF Types, RelationTypes, NetworkTypes, VjpTypes, network, vjp
<1>11. AliveInv'
  BY <1>1, <1>5, <1>7 DEF AliveInv
<1>12. WeightedInv' /\ Current' /\ GradientsKept'
  BY <1>1, <1>3 DEF Inv, WeightedInv, Current, GradientsKept, memory, vjp
<1>13. PreparedInv' /\ PaddedInv'
  BY <1>1, <1>5, <1>6, PreparedStays, PaddedStays DEF network, vjp
<1>14. CapturedInv'
  <2>1. ASSUME executable' # None
        PROVE  Follows(executable'.token, executable'.value, positions[executable'.graph])
    BY <1>1, <1>2, <1>3, <1>4, <2>1 DEF Inv, CapturedInv
  <2>2. forward = None
    BY <1>1 DEF Inv, CapturedInv
  <2> QED
    BY <1>1, <2>1, <2>2 DEF CapturedInv, memory, vjp, Follows, Is, Token, Value
<1> QED
  BY <1>8, <1>10, <1>11, <1>12, <1>13, <1>14 DEF Inv

LEMMA NewKernelStep ==
  ASSUME Inv, NEW i \in Ids, NewKernel(i)
  PROVE  Inv'
<1>1. /\ Types /\ AliveInv /\ kernel = "edge_nn" /\ i \in user /\ parameter' = i
      /\ executable' = None
      /\ UNCHANGED <<kernel, memory, sparse, relation, padded, vjp, stale>>
  BY DEF NewKernel, Inv
<1>2. i \in UsedIds
  BY <1>1, UserInUse
<1>3. UsedGraphs' \subseteq UsedGraphs
  BY <1>1 DEF UsedGraphs, HeldGraphs, relation, vjp
<1>4. UsedIds' \subseteq UsedIds
  <2>1. ASSUME NEW r, Root(r)' PROVE r \in UsedIds
    <3>1. Root(r) \/ r = i
      BY <1>1, <1>3, <2>1 DEF Root, memory, relation, vjp
    <3> QED
      BY <1>2, <3>1, InUse
  <2> QED
    BY <1>1, <2>1, NothingNew DEF memory
<1>5. MemoryTypes' /\ \A j \in UsedIds' : Alive(j)'
  BY <1>1, <1>4, MemoryStays
<1>6. Types'
  BY <1>1, <1>5
     DEF Types, RelationTypes, NetworkTypes, VjpTypes, ExecutableTypes, relation, vjp
<1>7. AliveInv'
  BY <1>1, <1>3, <1>5 DEF AliveInv, relation
<1>8. WeightedInv' /\ Current' /\ GradientsKept'
  BY <1>1 DEF Inv, WeightedInv, Current, GradientsKept, vjp
<1>9. RelationInv' /\ PreparedInv' /\ PaddedInv'
  BY <1>1, <1>3, <1>4, RelationStays, PreparedStays, PaddedStays DEF relation, vjp
<1>10. CapturedInv'
  BY <1>1 DEF Inv, CapturedInv, vjp
<1> QED
  BY <1>6, <1>7, <1>8, <1>9, <1>10 DEF Inv

\* The padded copy that is found or made is one of the parameter as it is.
LEMMA Padding ==
  ASSUME Inv, NEW i \in UsedIds
  PROVE  /\ Pad(i) \in PaddedWeights /\ Pad(i).birth = birth[i] /\ Pad(i).value = Value(i)
         /\ Follows(Pad(i).token, Pad(i).value, i)
<1>1. Types /\ AliveInv /\ MemoryTypes /\ Alive(i) /\ i \in Ids
  BY DEF Inv, Types, AliveInv, Alive
<1>2. /\ Token(i) \in Tokens /\ Value(i) \in Nat /\ Follows(Token(i), Value(i), i)
      /\ birth[i] \in Nat
  <2>1. tensor[i].block \in Blocks
    BY <1>1 DEF Alive, Objects
  <2>2. version[tensor[i].block] \in Nat /\ data[tensor[i].block] \in Nat
    BY <1>1, <2>1 DEF MemoryTypes
  <2> QED
    BY <1>1, <2>1, <2>2 DEF Token, Tokens, Value, Follows, Is, MemoryTypes
<1>3. CASE padded[i] # None /\ padded[i].birth = birth[i] /\ Is(padded[i].token, i)
  <2>1. padded[i] \in PaddedWeights /\ Pad(i) = padded[i]
    BY <1>1, <1>3 DEF Pad, Types, NetworkTypes
  <2>2. Follows(padded[i].token, padded[i].value, i)
    BY <1>1, <1>3 DEF Inv, PaddedInv
  <2> QED
    BY <1>3, <2>1, <2>2 DEF Follows
<1>4. CASE Pad(i) = [birth |-> birth[i], token |-> Token(i), value |-> Value(i)]
  BY <1>2, <1>4 DEF PaddedWeights
<1> QED
  BY <1>3, <1>4 DEF Pad

\* A cache that has been given room holds no more than it may with one more.
LEMMA Roomy ==
  ASSUME NetworkTypes, NEW i \in Ids, NEW p \in PaddedWeights
  PROVE  LET new == [Room EXCEPT ![i] = p]
         IN  /\ new \in [Ids -> PaddedWeights \cup {None}]
             /\ Cardinality({j \in Ids : new[j] # None}) <= MaxEntries + 1
             /\ new[i] = p
             /\ \A j \in Ids \ {i} : new[j] \in {padded[j], None}
<1> DEFINE new == [Room EXCEPT ![i] = p]
           old == {j \in Ids : padded[j] # None}
           kept == {j \in Ids : Room[j] # None}
<1>1. Room \in [Ids -> PaddedWeights \cup {None}] /\ \A j \in Ids : Room[j] \in {padded[j], None}
  BY DEF Room, NetworkTypes
<1>2. new \in [Ids -> PaddedWeights \cup {None}] /\ new[i] = p
      /\ \A j \in Ids \ {i} : new[j] = Room[j]
  BY <1>1
<1>3. IsFiniteSet(kept) /\ Cardinality(kept) <= MaxEntries
  <2>1. kept \subseteq Ids /\ old \subseteq Ids
    OBVIOUS
  <2>2. IsFiniteSet(kept) /\ IsFiniteSet(old)
    BY <2>1, CacheAssumption, FS_Subset
  <2>3. Cardinality(old) \in Nat
    BY <2>2, FS_CardinalityType
  <2>4. CASE Cardinality(old) > MaxEntries
    <3>1. kept = {}
      BY <2>4 DEF Room
    <3> QED
      BY <3>1, FS_EmptySet, CacheAssumption
  <2>5. CASE ~ (Cardinality(old) > MaxEntries)
    <3>1. kept = old
      BY <2>5 DEF Room
    <3> QED
      BY <2>2, <2>3, <2>5, <3>1, CacheAssumption
  <2> QED
    BY <2>4, <2>5
<1>4. {j \in Ids : new[j] # None} \subseteq kept \cup {i}
  BY <1>2
<1>5. IsFiniteSet(kept \cup {i}) /\ Cardinality(kept \cup {i}) <= MaxEntries + 1
  <2> HIDE DEF kept
  <2>1. Cardinality(kept) \in Nat
    BY <1>3, FS_CardinalityType
  <2>2. /\ IsFiniteSet(kept \cup {i})
        /\ Cardinality(kept \cup {i}) = Cardinality(kept) \/ Cardinality(kept \cup {i}) = Cardinality(kept) + 1
    BY <1>3, FS_AddElement
  <2> QED
    BY <1>3, <2>1, <2>2, CacheAssumption
<1>6. Cardinality({j \in Ids : new[j] # None}) <= MaxEntries + 1
  <2> DEFINE all == {j \in Ids : new[j] # None}
  <2> HIDE DEF all, new, kept
  <2>1. all \subseteq kept \cup {i}
    BY <1>4 DEF all
  <2>2. IsFiniteSet(all) /\ Cardinality(all) <= Cardinality(kept \cup {i})
    BY <1>5, <2>1, FS_Subset
  <2>3. Cardinality(all) \in Nat /\ Cardinality(kept \cup {i}) \in Nat
    BY <1>5, <2>2, FS_CardinalityType
  <2>4. Cardinality(all) <= MaxEntries + 1
    BY <1>5, <2>2, <2>3, CacheAssumption
  <2> QED
    BY <2>4 DEF all
<1> HIDE DEF new, kept, old
<1>7. new \in [Ids -> PaddedWeights \cup {None}] /\ new[i] = p
      /\ Cardinality({j \in Ids : new[j] # None}) <= MaxEntries + 1
      /\ \A j \in Ids \ {i} : new[j] \in {padded[j], None}
  BY <1>1, <1>2, <1>6
<1> QED
  BY <1>7 DEF new

LEMMA EdgeNNStep ==
  ASSUME Inv, NEW g \in Graphs, EdgeNN(g)
  PROVE  Inv'
<1>1. /\ Types /\ AliveInv /\ kernel = "edge_nn" /\ g \in UsedGraphs /\ ResolveCsr(g)
      /\ parameter # None /\ parameter \in Ids
      /\ UNCHANGED <<kernel, memory, sparse, positions, graphs, parameter, vjp>>
  BY DEF EdgeNN, UsedGraphs, Inv, Types, NetworkTypes
<1>2. /\ Token(positions[g]) \in Tokens /\ Value(positions[g]) \in Nat
      /\ Follows(Token(positions[g]), Value(positions[g]), positions[g])
  BY <1>1, PositionsInUse
<1>3. parameter \in UsedIds
  <2>1. Root(parameter)
    BY <1>1 DEF Root
  <2> QED
    BY <2>1, InUse
<1>4. /\ csr'[g] \in Relations /\ csr'[g].value = Value(positions[g])
      /\ csr' \in [Graphs -> Relations \cup {None}]
  BY <1>1, Resolved
<1> DEFINE p == Pad(parameter)
<1>5. /\ p \in PaddedWeights /\ p.birth = birth[parameter] /\ p.value = Value(parameter)
      /\ Follows(p.token, p.value, parameter)
  BY <1>3, Padding
<1>6. /\ Token(parameter) \in Tokens /\ Value(parameter) \in Nat
      /\ Follows(Token(parameter), Value(parameter), parameter) /\ birth[parameter] \in Nat
  <2>1. tensor[parameter].block \in Blocks /\ MemoryTypes
    BY <1>1, <1>3 DEF AliveInv, Alive, Objects, Types
  <2>2. version[tensor[parameter].block] \in Nat /\ data[tensor[parameter].block] \in Nat
    BY <2>1 DEF MemoryTypes
  <2> QED
    BY <1>1, <2>1, <2>2 DEF Token, Tokens, Value, Follows, Is, MemoryTypes
<1> HIDE DEF p
<1> DEFINE captured == [graph |-> g, address |-> csr'[g].address, token |-> Token(positions[g]),
                        value |-> Value(positions[g]), birth |-> birth[parameter],
                        weight |-> Token(parameter), padded |-> Value(parameter)]
           new == [Room EXCEPT ![parameter] = p]
<1>7. /\ \/ padded' = padded /\ executable' = executable
         \/ padded' \in {padded, new} /\ executable' = captured
      /\ stale' \in BOOLEAN
      /\ NeedsPositions => ~ stale'
  <2>1. CASE Guarded(g)
    <3>1. /\ padded' = padded /\ executable' = executable
          /\ stale' = (<<executable.value, executable.padded>>
                         # <<Value(positions[g]), Value(parameter)>>)
      BY <2>1 DEF EdgeNN
    <3>2. executable # None /\ executable.graph = g /\ Is(executable.weight, parameter)
          /\ (NeedsPositions => Is(executable.token, positions[g]))
      BY <2>1 DEF Guarded
    <3>3. executable.padded = Value(parameter)
          /\ (NeedsPositions => executable.value = Value(positions[g]))
      BY <1>1, <3>2 DEF Inv, CapturedInv, Follows
    <3> QED
      BY <3>1, <3>3
  <2>2. CASE ~ Guarded(g)
    <3>1. /\ padded' = IF padded[parameter] = p THEN padded ELSE new
          /\ executable' = [graph |-> g, address |-> csr'[g].address,
                            token |-> Token(positions[g]), value |-> csr'[g].value,
                            birth |-> birth[parameter], weight |-> Token(parameter),
                            padded |-> padded'[parameter].value]
          /\ stale' = (<<executable'.value, executable'.padded>>
                         # <<Value(positions[g]), Value(parameter)>>)
      BY <2>2 DEF EdgeNN, p
    <3>2. new[parameter] = p
      BY <1>1, <1>5, Roomy DEF Types
    <3>3. padded'[parameter] = p
      BY <3>1, <3>2
    <3>4. executable' = captured
      BY <1>4, <1>5, <3>1, <3>3
    <3>5. executable'.value = Value(positions[g]) /\ executable'.padded = Value(parameter)
      BY <3>4
    <3> QED
      BY <3>1, <3>4, <3>5
  <2> QED
    BY <2>1, <2>2
<1>8. /\ captured \in [graph : Graphs, address : Addresses, token : Tokens, value : Nat,
                       birth : Nat, weight : Tokens, padded : Nat]
      /\ captured.graph = g /\ captured.token = Token(positions[g])
      /\ captured.value = Value(positions[g]) /\ captured.weight = Token(parameter)
      /\ captured.padded = Value(parameter)
  BY <1>2, <1>4, <1>6 DEF Relations
<1>9. /\ new \in [Ids -> PaddedWeights \cup {None}]
      /\ Cardinality({j \in Ids : new[j] # None}) <= MaxEntries + 1
      /\ new[parameter] = p /\ \A j \in Ids \ {parameter} : new[j] \in {padded[j], None}
  BY <1>1, <1>5, Roomy DEF Types
<1> HIDE DEF captured, new
<1>10. UsedGraphs' \subseteq UsedGraphs
  BY <1>1, <1>7, <1>8 DEF UsedGraphs, HeldGraphs, vjp
<1>11. UsedIds' \subseteq UsedIds
  <2>1. ASSUME NEW r, Root(r)' PROVE Root(r)
    BY <1>1, <1>10, <2>1 DEF Root, memory, vjp
  <2> QED
    BY <1>1, <2>1, InUse, NothingNew DEF memory
<1>12. MemoryTypes' /\ \A j \in UsedIds' : Alive(j)'
  BY <1>1, <1>11, MemoryStays
<1>13. RelationInv'
  BY <1>1, <1>10, ResolvedStays
<1>14. ExecutableTypes'
  BY <1>1, <1>7, <1>8 DEF Types, ExecutableTypes
<1>15. NetworkTypes'
  BY <1>1, <1>7, <1>9 DEF Types, NetworkTypes
<1>16. Types'
  BY <1>1, <1>4, <1>12, <1>14, <1>15 DEF Types, RelationTypes, VjpTypes, vjp
<1>17. AliveInv'
  BY <1>1, <1>10, <1>12 DEF AliveInv
<1>18. WeightedInv' /\ Current' /\ GradientsKept'
  BY <1>1, <1>7 DEF Inv, WeightedInv, Current, GradientsKept, memory, vjp
<1>19. PreparedInv'
  BY <1>1, <1>10, PreparedStays DEF vjp
<1>20. CapturedInv'
  <2>1. ASSUME executable' # None
        PROVE  /\ Follows(executable'.token, executable'.value, positions[executable'.graph])
               /\ Follows(executable'.weight, executable'.padded, parameter)
    BY <1>1, <1>2, <1>6, <1>7, <1>8, <2>1 DEF Inv, CapturedInv
  <2>2. forward = None
    BY <1>1 DEF Inv, CapturedInv
  <2> QED
    BY <1>1, <2>1, <2>2 DEF CapturedInv, memory, vjp, Follows, Is, Token, Value
<1>21. PaddedInv'
  <2> SUFFICES ASSUME NEW i \in Ids, padded'[i] # None
               PROVE  /\ padded'[i].birth <= clock
                      /\ i \in UsedIds' /\ padded'[i].birth = birth[i] =>
                           Follows(padded'[i].token, padded'[i].value, i)
    BY <1>1 DEF PaddedInv, memory, Follows, Is, Token, Value
  <2>1. padded'[i] = padded[i] \/ (i = parameter /\ padded'[i] = p)
    BY <1>7, <1>9
  <2>2. CASE padded'[i] = padded[i]
    BY <1>11, <2>2 DEF Inv, PaddedInv
  <2>3. CASE i = parameter /\ padded'[i] = p
    <3>1. birth[parameter] <= clock
      BY <1>1 DEF Types, MemoryTypes
    <3> QED
      BY <1>5, <2>3, <3>1
  <2> QED
    BY <2>1, <2>2, <2>3
<1> QED
  BY <1>13, <1>16, <1>17, <1>18, <1>19, <1>20, <1>21 DEF Inv

-----------------------------------------------------------------------------
(* Forward and backward.                                                   *)

LEMMA ForwardStep ==
  ASSUME Inv, NEW g \in Graphs, Forward(g)
  PROVE  Inv'
<1>1. /\ Types /\ AliveInv /\ kernel = "vjp" /\ g \in UsedGraphs
      /\ forward' = [graph |-> g, token |-> Token(positions[g]), value |-> Value(positions[g])]
      /\ UNCHANGED <<kernel, memory, executable, sparse, relation, network, prepared, slot,
                     gradient, stale>>
  BY DEF Forward, UsedGraphs, Inv
<1>2. /\ Token(positions[g]) \in Tokens /\ Value(positions[g]) \in Nat
      /\ Follows(Token(positions[g]), Value(positions[g]), positions[g])
  BY <1>1, PositionsInUse
<1>3. forward' \in Forwards /\ forward'.graph = g
  BY <1>1, <1>2 DEF Forwards
<1>4. UsedGraphs' \subseteq UsedGraphs
  BY <1>1, <1>3 DEF UsedGraphs, HeldGraphs, relation
<1>5. UsedIds' \subseteq UsedIds
  <2>1. ASSUME NEW r, Root(r)' PROVE Root(r)
    BY <1>1, <1>4, <2>1 DEF Root, memory, network, relation
  <2> QED
    BY <1>1, <2>1, InUse, NothingNew DEF memory
<1>6. MemoryTypes' /\ \A j \in UsedIds' : Alive(j)'
  BY <1>1, <1>5, MemoryStays
<1>7. Types'
  BY <1>1, <1>3, <1>6
     DEF Types, RelationTypes, NetworkTypes, VjpTypes, ExecutableTypes, network, relation
<1>8. AliveInv'
  BY <1>1, <1>4, <1>6 DEF AliveInv, relation
<1>9. WeightedInv' /\ Current' /\ GradientsKept'
  BY <1>1 DEF Inv, WeightedInv, Current, GradientsKept, memory
<1>10. RelationInv' /\ PreparedInv' /\ PaddedInv'
  BY <1>1, <1>4, <1>5, RelationStays, PreparedStays, PaddedStays DEF relation, network
<1>11. CapturedInv'
  BY <1>1, <1>2, <1>3 DEF CapturedInv, memory, relation, Follows, Is, Token, Value
<1> QED
  BY <1>7, <1>8, <1>9, <1>10, <1>11 DEF Inv

\* Ending a forward uses nothing new.
LEMMA ForwardEnds ==
  ASSUME Inv, forward' = None, UNCHANGED <<kernel, executable, graphs>>
  PROVE  UsedGraphs' \subseteq UsedGraphs
BY DEF UsedGraphs, HeldGraphs

LEMMA BackwardRefusedStep ==
  ASSUME Inv, BackwardRefused
  PROVE  Inv'
<1>1. /\ Types /\ AliveInv /\ forward' = None
      /\ UNCHANGED <<kernel, memory, executable, sparse, relation, network, prepared, slot,
                     gradient, stale>>
  BY DEF BackwardRefused, Inv
<1>2. UsedGraphs' \subseteq UsedGraphs
  BY <1>1, ForwardEnds DEF relation
<1>3. UsedIds' \subseteq UsedIds
  <2>1. ASSUME NEW r, Root(r)' PROVE Root(r)
    BY <1>1, <1>2, <2>1 DEF Root, memory, network, relation
  <2> QED
    BY <1>1, <2>1, InUse, NothingNew DEF memory
<1>4. MemoryTypes' /\ \A j \in UsedIds' : Alive(j)'
  BY <1>1, <1>3, MemoryStays
<1>5. Types'
  BY <1>1, <1>4
     DEF Types, RelationTypes, NetworkTypes, VjpTypes, ExecutableTypes, network, relation
<1>6. AliveInv'
  BY <1>1, <1>2, <1>4 DEF AliveInv, relation
<1>7. WeightedInv' /\ Current' /\ GradientsKept'
  BY <1>1 DEF Inv, WeightedInv, Current, GradientsKept, memory
<1>8. RelationInv' /\ PreparedInv' /\ PaddedInv'
  BY <1>1, <1>2, <1>3, RelationStays, PreparedStays, PaddedStays DEF relation, network
<1>9. CapturedInv'
  BY <1>1 DEF Inv, CapturedInv, memory, relation, network, Follows, Is, Token, Value
<1> QED
  BY <1>5, <1>6, <1>7, <1>8, <1>9 DEF Inv

\* The launch that is found or made is for the positions and the upstream.
LEMMA Launching ==
  ASSUME Inv, NEW g \in UsedGraphs, NEW u \in user,
         IF Kept(g, u) THEN csr' = csr ELSE ResolveCsr(g)
  PROVE  /\ Launch(g, u) \in Launches
         /\ Launch(g, u).value = Value(positions[g])
         /\ Value(Launch(g, u).upstream) = Value(u)
         /\ Launch(g, u).upstream \in UsedIds
         /\ Follows(Launch(g, u).token, Launch(g, u).value, positions[g])
         /\ Launch(g, u).key[1] = tensor[Launch(g, u).upstream].block
<1>1. /\ g \in Graphs /\ Token(positions[g]) \in Tokens /\ Value(positions[g]) \in Nat
      /\ Follows(Token(positions[g]), Value(positions[g]), positions[g])
  BY PositionsInUse
<1>2. u \in UsedIds /\ u \in Ids /\ Token(u) \in Tokens
  BY UserInUse DEF Alive
<1>3. CASE Kept(g, u)
  <2> DEFINE l == prepared[g]
  <2>1. l # None /\ Launch(g, u) = l /\ l \in Launches
    BY <1>1, <1>3 DEF Kept, Launch, Inv, Types, VjpTypes
  <2>2. /\ Follows(l.token, l.value, positions[g])
        /\ l.key[1] = tensor[l.upstream].block
    BY <2>1 DEF Inv, PreparedInv
  <2>3. l.value = Value(positions[g])
    BY <1>3, <2>2 DEF Kept, Follows
  <2>4. l.key = Token(u)
    BY <1>3 DEF Kept, Is
  <2>5. Value(l.upstream) = Value(u)
    BY <2>2, <2>4 DEF Token, Value
  <2>6. l.upstream \in UsedIds
    <3>1. l.upstream \in Ids
      BY <2>1 DEF Launches
    <3>2. Root(l.upstream)
      BY <2>1, <3>1 DEF Root
    <3> QED
      BY <3>2, InUse
  <2> QED
    BY <2>1, <2>2, <2>3, <2>5, <2>6
<1>4. CASE ~ Kept(g, u)
  <2>1. csr'[g].value = Value(positions[g])
    BY <1>4, Resolved
  <2>2. Launch(g, u) = [token |-> Token(positions[g]), key |-> Token(u), upstream |-> u,
                        value |-> Value(positions[g]), slots |-> {}]
    BY <1>4, <2>1 DEF Launch
  <2>3. Launch(g, u) \in Launches
    BY <1>1, <1>2, <2>2 DEF Launches
  <2>4. Token(u)[1] = tensor[u].block
    BY DEF Token
  <2> QED
    BY <1>1, <1>2, <2>2, <2>3, <2>4
<1> QED
  BY <1>3, <1>4

LEMMA BackwardStep ==
  ASSUME Inv, NEW u \in Ids, Backward(u)
  PROVE  Inv'
<1> DEFINE g == forward.graph
           launch == Launch(forward.graph, u)
<1>1. /\ Types /\ AliveInv /\ u \in user /\ forward # None /\ forward' = None
      /\ UNCHANGED <<kernel, memory, executable, sparse, positions, graphs, network>>
  BY DEF Backward, Inv
<1>2. g \in Graphs /\ g \in UsedGraphs /\ kernel = "vjp"
  BY <1>1 DEF Types, VjpTypes, Forwards, UsedGraphs, HeldGraphs, Inv, CapturedInv
<1>3. forward.value = Value(positions[g])
  BY <1>1 DEF Backward, Inv, CapturedInv, Follows
<1>4. IF Kept(g, u) THEN csr' = csr ELSE ResolveCsr(g)
  BY DEF Backward
<1>5. /\ launch \in Launches /\ launch.value = Value(positions[g])
      /\ Value(launch.upstream) = Value(u) /\ launch.upstream \in UsedIds
      /\ Follows(launch.token, launch.value, positions[g])
      /\ launch.key[1] = tensor[launch.upstream].block
  BY <1>1, <1>2, <1>4, Launching
<1>6. Value(u) \in Nat /\ Value(positions[g]) \in Nat
  BY <1>1, <1>2, UserInUse, PositionsInUse
<1>7. PICK s \in Slots :
        /\ SlotFree(s, launch.slots)
        /\ slot' = [slot EXCEPT ![s] = <<launch.value, Value(launch.upstream)>>]
        /\ gradient' = [gradient EXCEPT ![s] = @ \cup {slot'[s]}]
        /\ prepared' = [prepared EXCEPT ![g] = [launch EXCEPT !.slots = @ \cup {s}]]
        /\ stale' = (slot'[s] # <<forward.value, Value(u)>>)
  BY DEF Backward
<1> DEFINE kept == [launch EXCEPT !.slots = @ \cup {s}]
<1>8. /\ kept \in Launches /\ kept.value = launch.value /\ kept.token = launch.token
      /\ kept.upstream = launch.upstream /\ kept.key = launch.key
  BY <1>5 DEF Launches
<1> HIDE DEF launch, g, kept
<1>9. prepared' = [prepared EXCEPT ![g] = kept]
  BY <1>7 DEF kept
<1>10. slot[s] \in (Nat \X Nat) \cup {None} /\ slot'[s] = <<Value(positions[g]), Value(u)>>
  BY <1>1, <1>5, <1>7 DEF Types, VjpTypes
<1>11. stale' = FALSE
  BY <1>3, <1>7, <1>10
<1>12. VjpTypes'
  <2>1. slot' \in [Slots -> (Nat \X Nat) \cup {None}] /\ slot'[s] \in Nat \X Nat
    BY <1>1, <1>6, <1>7, <1>10 DEF Types, VjpTypes
  <2>2. gradient' \in [Slots -> SUBSET (Nat \X Nat)]
    BY <1>1, <1>7, <2>1 DEF Types, VjpTypes
  <2>3. prepared' \in [Graphs -> Launches \cup {None}]
    BY <1>1, <1>2, <1>8, <1>9 DEF Types, VjpTypes
  <2> QED
    BY <1>1, <2>1, <2>2, <2>3 DEF VjpTypes
<1>13. GradientsKept'
  <2>1. gradient[s] = {}
    BY <1>1, <1>7 DEF SlotFree, UsedSlots, Types, VjpTypes
  <2>2. gradient'[s] = {slot'[s]}
    BY <1>1, <1>7, <2>1 DEF Types, VjpTypes
  <2>3. \A t \in Slots \ {s} : gradient'[t] = gradient[t] /\ slot'[t] = slot[t]
    BY <1>1, <1>7 DEF Types, VjpTypes
  <2> QED
    BY <2>2, <2>3 DEF GradientsKept, Inv
<1>14. UsedGraphs' \subseteq UsedGraphs
  BY <1>1, ForwardEnds
<1>15. UsedGraphs \subseteq Graphs
  BY <1>1 DEF UsedGraphs, HeldGraphs, Types, RelationTypes
<1>16. /\ prepared'[g] = kept
       /\ \A h \in Graphs \ {g} : prepared'[h] = prepared[h]
  BY <1>1, <1>2, <1>9 DEF Types, VjpTypes
<1>17. UsedIds' \subseteq UsedIds
  <2>1. ASSUME NEW r, Root(r)' PROVE r \in UsedIds
    <3>1. Root(r) \/ r = kept.upstream
      BY <1>1, <1>14, <1>15, <1>16, <2>1 DEF Root, memory, network
    <3> QED
      BY <1>5, <1>8, <3>1, InUse
  <2> QED
    BY <1>1, <2>1, NothingNew DEF memory
<1>18. MemoryTypes' /\ \A j \in UsedIds' : Alive(j)'
  BY <1>1, <1>17, MemoryStays
<1>19. RelationInv' /\ csr' \in [Graphs -> Relations \cup {None}]
  BY <1>1, <1>2, <1>4, <1>14, ResolvedStays
<1>20. Types'
  BY <1>1, <1>12, <1>18, <1>19 DEF Types, RelationTypes, NetworkTypes, ExecutableTypes, network
<1>21. AliveInv'
  BY <1>1, <1>14, <1>18 DEF AliveInv
<1>22. WeightedInv' /\ Current' /\ CapturedInv'
  BY <1>1, <1>2, <1>11 DEF Inv, WeightedInv, Current, CapturedInv, memory
<1>23. PreparedInv'
  <2> SUFFICES ASSUME NEW h \in UsedGraphs', prepared'[h] # None
               PROVE  /\ Follows(prepared'[h].token, prepared'[h].value, positions[h])
                      /\ prepared'[h].key[1] = tensor[prepared'[h].upstream].block
    BY <1>1 DEF PreparedInv, memory, Follows, Is, Token, Value
  <2>1. CASE h = g
    BY <1>5, <1>8, <1>16, <2>1
  <2>2. CASE h # g
    BY <1>14, <1>15, <1>16, <2>2 DEF Inv, PreparedInv
  <2> QED
    BY <2>1, <2>2
<1>24. PaddedInv'
  BY <1>1, <1>17, PaddedStays DEF network
<1> QED
  BY <1>13, <1>19, <1>20, <1>21, <1>22, <1>23, <1>24 DEF Inv

-----------------------------------------------------------------------------
(* Gradients.                                                              *)

\* What happens to the gradients alone touches nothing but their buffers.
LEMMA GradientsAlone ==
  ASSUME Inv, UNCHANGED <<kernel, memory, executable, sparse, relation, network, forward,
                          prepared, stale>>,
         VjpTypes', GradientsKept'
  PROVE  Inv'
<1>1. Types /\ AliveInv
  BY DEF Inv
<1>2. UsedGraphs' = UsedGraphs
  BY DEF UsedGraphs, HeldGraphs, relation
<1>3. UsedIds' \subseteq UsedIds
  <2>1. ASSUME NEW r, Root(r)' PROVE Root(r)
    BY <1>2, <2>1 DEF Root, memory, network, relation
  <2> QED
    BY <1>1, <2>1, InUse, NothingNew DEF memory
<1>4. MemoryTypes' /\ \A j \in UsedIds' : Alive(j)'
  BY <1>3, MemoryStays
<1>5. Types'
  BY <1>1, <1>4 DEF Types, RelationTypes, NetworkTypes, ExecutableTypes, network, relation
<1>6. AliveInv'
  BY <1>1, <1>2, <1>4 DEF AliveInv, relation
<1>7. WeightedInv' /\ Current'
  BY DEF Inv, WeightedInv, Current, memory
<1>8. RelationInv' /\ PreparedInv' /\ PaddedInv' /\ CapturedInv'
  BY <1>2, <1>3, RelationStays, PreparedStays, PaddedStays, CapturedStays DEF relation, network
<1> QED
  BY <1>5, <1>6, <1>7, <1>8 DEF Inv

LEMMA DropGradientStep ==
  ASSUME Inv, NEW s \in Slots, DropGradient(s)
  PROVE  Inv'
<1>1. PICK v \in gradient[s] : gradient' = [gradient EXCEPT ![s] = @ \ {v}]
  BY DEF DropGradient
<1>2. slot' = IF gradient'[s] = {} THEN [slot EXCEPT ![s] = None] ELSE slot
  BY DEF DropGradient
<1>3. VjpTypes
  BY DEF Inv, Types
<1>4. VjpTypes'
  BY <1>1, <1>2, <1>3 DEF DropGradient, VjpTypes
<1>5. GradientsKept'
  BY <1>1, <1>2, <1>3 DEF Inv, GradientsKept, VjpTypes
<1> QED
  BY <1>4, <1>5, GradientsAlone DEF DropGradient

LEMMA ClearGradientStep ==
  ASSUME Inv, NEW s \in Slots, ClearGradient(s)
  PROVE  Inv'
<1>1. PICK v \in gradient[s] : gradient' = [gradient EXCEPT ![s] = (@ \ {v}) \cup {<<0, 0>>}]
  BY DEF ClearGradient
<1>2. slot' = [slot EXCEPT ![s] = <<0, 0>>]
  BY DEF ClearGradient
<1>3. VjpTypes /\ gradient[s] \subseteq {slot[s]}
  BY DEF Inv, Types, GradientsKept
<1>4. <<0, 0>> \in Nat \X Nat
  OBVIOUS
<1>5. slot' \in [Slots -> (Nat \X Nat) \cup {None}]
  BY <1>2, <1>3, <1>4 DEF VjpTypes
<1>6. gradient' \in [Slots -> SUBSET (Nat \X Nat)]
  BY <1>1, <1>3, <1>4 DEF VjpTypes
<1>7. VjpTypes'
  BY <1>3, <1>5, <1>6 DEF ClearGradient, VjpTypes
<1>8. gradient'[s] = {<<0, 0>>} /\ slot'[s] = <<0, 0>>
  BY <1>1, <1>2, <1>3 DEF VjpTypes
<1>9. \A t \in Slots \ {s} : gradient'[t] = gradient[t] /\ slot'[t] = slot[t]
  BY <1>1, <1>2, <1>3 DEF VjpTypes
<1>10. GradientsKept'
  BY <1>8, <1>9 DEF Inv, GradientsKept
<1> QED
  BY <1>7, <1>10, GradientsAlone DEF ClearGradient

-----------------------------------------------------------------------------
\* Calls, and what the program does to its tensors between them, keep it.
LEMMA InvNext == Inv /\ [Next]_vars => Inv'
<1> SUFFICES ASSUME Inv, [Next]_vars PROVE Inv'
  OBVIOUS
<1>1. CASE UNCHANGED vars
  <2>1. /\ UNCHANGED <<kernel, memory, executable, sparse, relation, network, forward,
                       prepared, stale>>
        /\ UNCHANGED <<slot, gradient>>
    BY <1>1 DEF vars, vjp
  <2>2. VjpTypes' /\ GradientsKept'
    BY <2>1 DEF Inv, Types, VjpTypes, GradientsKept
  <2> QED
    BY <2>1, <2>2, GradientsAlone
<1>2. ASSUME NEW i \in Ids, NEW b \in Blocks, Create(i, b) PROVE Inv'
  BY <1>2, CreateStep
<1>3. ASSUME NEW i \in Ids, NEW j \in Ids, View(i, j) PROVE Inv'
  BY <1>3, ViewStep
<1>4. ASSUME NEW i \in Ids,
             Write(i) \/ Drop(i) \/ Weighted(i) \/ NewKernel(i) \/ Backward(i)
      PROVE  Inv'
  BY <1>4, WriteStep, DropStep, WeightedStep, NewKernelStep, BackwardStep
<1>5. ASSUME NEW g \in Graphs, NEW i \in Ids, NewGraph(g, i) PROVE Inv'
  BY <1>5, NewGraphStep
<1>6. ASSUME NEW g \in Graphs,
             DropGraph(g) \/ Resolve(g) \/ Distance(g) \/ EdgeNN(g) \/ Forward(g)
      PROVE  Inv'
  BY <1>6, DropGraphStep, ResolveStep, DistanceStep, EdgeNNStep, ForwardStep
<1>7. CASE BackwardRefused
  BY <1>7, BackwardRefusedStep
<1>8. ASSUME NEW s \in Slots, DropGradient(s) \/ ClearGradient(s) PROVE Inv'
  BY <1>8, DropGradientStep, ClearGradientStep
<1> QED
  BY <1>1, <1>2, <1>3, <1>4, <1>5, <1>6, <1>7, <1>8 DEF Next

\* message_passing.py and graph.py: whatever is kept for objects and memory whose
\* ids and addresses are reused, a call uses what its inputs are now; where edge
\* weights are no views of others, and the edge network reads the displacements.
THEOREM CallsAlwaysCurrent ==
  ASSUME ~ WeightViews, NeedsPositions
  PROVE  Spec => []CallsCurrent
<1>1. Inv => CallsCurrent
  BY TypesOK DEF Inv, Current, CallsCurrent
<1> QED
  BY InvInit, InvNext, <1>1, PTL DEF Spec

\* _PreparedRadiusVJP and the backward of the distance sum: a backward uses the
\* relation its forward summed over and the gradient it was given, or refuses.
THEOREM GradientsAlwaysCurrent == Spec => []GradientsCurrent
<1>1. Inv => GradientsCurrent
  BY DEF Inv, Current, GradientsCurrent
<1> QED
  BY InvInit, InvNext, <1>1, PTL DEF Spec

\* _PreparedRadiusVJP.run: a gradient the caller still holds is not overwritten.
THEOREM GradientsAlwaysKept == Spec => []GradientsKept
<1>1. Inv => GradientsKept
  BY DEF Inv
<1> QED
  BY InvInit, InvNext, <1>1, PTL DEF Spec
=============================================================================
