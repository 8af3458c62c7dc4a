-------------------------- MODULE HierarchyProofs ---------------------------
(***************************************************************************)
(* Hierarchy: bytes, transfers and contents, for any number of clients,    *)
(* instances and transfers.                                                *)
(***************************************************************************)
EXTENDS Hierarchy, FiniteSetTheorems, SequenceTheorems, TLAPS

-----------------------------------------------------------------------------
(* The inductive invariant.  Its first half holds whatever SharedSource    *)
(* says: who may work on which instance, and what was waited for.          *)

Copying == {"transfer", "filter", "record"}

\* What a client in a call works on.
CallOK(c) ==
  /\ call[c].op = "idle" => call[c] = Idle
  /\ call[c].op = "allocate" =>
       /\ call[c].source = 0 /\ call[c].target # 0 /\ call[c].waits = {}
       /\ inst[call[c].target].state = "reserved"
  /\ call[c].op \in Copying =>
       /\ call[c].source # 0 /\ call[c].target # 0 /\ call[c].source # call[c].target
       /\ Open(call[c].source) /\ Open(call[c].target)
  /\ call[c].op \in {"filter", "record"} =>
       inst[call[c].target].completion # 0 /\ call[c].waits = {}
  /\ call[c].op = "close" => call[c].source = 0 /\ call[c].target # 0 /\ Open(call[c].target)
  /\ call[c].op = "shutdown" =>
       /\ call[c].source = 0
       /\ call[c].target # 0 => Open(call[c].target)

\* What a transfer needs has ended well when its waits are over; what a close
\* needs has ended.
Waited(c) ==
  /\ call[c].op = "transfer" =>
       \A j \in TransferWaits(call[c].source, call[c].target) :
         j \in call[c].waits \/ jobs[j].state = "done"
  /\ call[c].op \in {"close", "shutdown"} /\ call[c].target # 0 =>
       \A j \in CloseWaits(call[c].target) : j \in call[c].waits \/ Finished(j)

\* No two clients work on one instance, except transfers from one source.
Exclusive ==
  \A b, c \in Clients : b # c =>
    \A i \in Held(b) \cap Held(c) :
      SharedSource /\ i = call[b].source /\ i = call[c].source

\* An instance that is being made is one that a client is making.
Reserved ==
  \A i \in Instances : inst[i].state = "reserved" =>
    \E c \in Clients : call[c].op = "allocate" /\ call[c].target = i

\* The runtime is shut down by one client while the others rest.
StatusOK ==
  /\ status = "up" => \A c \in Clients : call[c].op # "shutdown"
  /\ status = "closing" => \E c \in Clients :
       call[c].op = "shutdown" /\ \A b \in Clients \ {c} : call[b].op = "idle"
  /\ status = "down" =>
       (\A c \in Clients : call[c].op = "idle") /\ \A i \in Instances : ~Open(i)

\* The destination of a transfer under way is open, and has its completion.
Destined ==
  \A j \in Jobs : ~Finished(j) =>
    /\ jobs[j].source # 0 /\ jobs[j].destination # 0
    /\ Open(jobs[j].destination) /\ inst[jobs[j].destination].completion = j
    /\ \A i \in Instances : inst[i].completion = j => i = jobs[j].destination

FilesOpen == \A i \in files : Open(i)

BooksOK == LiveExact /\ \A t \in Tiers : IsFiniteSet(BytesIn(t))

Calls == \A c \in Clients : CallOK(c) /\ Waited(c)

BInv == TypeOK /\ Calls /\ Exclusive /\ Reserved /\ StatusOK /\ Destined /\ FilesOpen /\ BooksOK

\* The second half needs ~SharedSource.  The source of a transfer under way has
\* it among its readers, or the client is about to add it.
Adding(j, c) ==
  /\ call[c].op \in {"filter", "record"}
  /\ call[c].source = jobs[j].source /\ call[c].target = jobs[j].destination

Read ==
  /\ \A j \in Jobs : ~Finished(j) =>
       /\ Open(jobs[j].source)
       /\ \/ j \in inst[jobs[j].source].readers
          \/ \E c \in Clients : Adding(j, c)
  /\ \A c \in Clients : call[c].op = "record" =>
       \A j \in inst[call[c].source].readers : j \in call[c].kept \/ Finished(j)

\* No transfer writes what another one reads.
Apart ==
  \A j, k \in Jobs : ~Finished(j) /\ ~Finished(k) => jobs[k].destination # jobs[j].source

\* The contents: a source keeps what it held, a destination is torn while it is
\* written, only what is closed is gone.
Kept ==
  /\ \A j \in Jobs : ~Finished(j) => inst[jobs[j].source].content = jobs[j].content
  /\ \A j \in Jobs : jobs[j].state = "running" => inst[jobs[j].destination].content = Torn
  /\ \A i \in Instances : inst[i].content = Gone => inst[i].state = "closed"

TInv == Read /\ Apart /\ Kept /\ NothingTorn

IInv == BInv /\ (~SharedSource => TInv)

-----------------------------------------------------------------------------
(* Sequences.                                                              *)

\* A sequence with one element replaced.
LEMMA Update ==
  ASSUME NEW R, NEW s \in Seq(R), NEW i \in 1 .. Len(s), NEW r \in R
  PROVE  /\ [s EXCEPT ![i] = r] \in Seq(R) /\ Len([s EXCEPT ![i] = r]) = Len(s)
         /\ [s EXCEPT ![i] = r][i] = r
         /\ \A k \in 1 .. Len(s) : k # i => [s EXCEPT ![i] = r][k] = s[k]
  OBVIOUS

\* A sequence with one element more.
LEMMA Extended ==
  ASSUME NEW R, NEW s \in Seq(R), NEW r \in R
  PROVE  /\ Append(s, r) \in Seq(R) /\ Len(Append(s, r)) = Len(s) + 1
         /\ Append(s, r)[Len(s) + 1] = r
         /\ \A k \in 1 .. Len(s) : Append(s, r)[k] = s[k]
  OBVIOUS

\* A sequence whose elements are all of T.
LEMMA Retyped ==
  ASSUME NEW R, NEW T, NEW s \in Seq(R), \A i \in 1 .. Len(s) : s[i] \in T
  PROVE  s \in Seq(T)
  OBVIOUS

-----------------------------------------------------------------------------
(* Types.                                                                  *)

\* One instance becomes r.
LEMMA InstanceStep ==
  ASSUME TypeOK, NEW i \in Instances, NEW r \in PhysicalInstance,
         inst' = [inst EXCEPT ![i] = r]
  PROVE  /\ inst' \in Seq(PhysicalInstance) /\ Len(inst') = Len(inst) /\ Instances' = Instances
         /\ inst'[i] = r /\ \A k \in Instances : k # i => inst'[k] = inst[k]
  BY Update DEF TypeOK, Instances

\* One transfer becomes r.
LEMMA JobStep ==
  ASSUME TypeOK, NEW j \in Jobs, NEW r \in HierarchyCompletion,
         jobs' = [jobs EXCEPT ![j] = r]
  PROVE  /\ jobs' \in Seq(HierarchyCompletion) /\ Len(jobs') = Len(jobs) /\ Jobs' = Jobs
         /\ jobs'[j] = r /\ \A k \in Jobs : k # j => jobs'[k] = jobs[k]
  BY Update DEF TypeOK, Jobs

\* The types of the elements.
LEMMA TypeFacts ==
  ASSUME TypeOK
  PROVE  /\ \A i \in Instances : inst[i] \in PhysicalInstance
         /\ \A j \in Jobs : jobs[j] \in HierarchyCompletion
         /\ Len(inst) \in Nat /\ Len(jobs) \in Nat
  BY ElementOfSeq, LenProperties DEF TypeOK, Instances, Jobs

\* One more instance, and one more transfer.
LEMMA MoreInstances ==
  ASSUME TypeOK, NEW r \in PhysicalInstance, inst' = Append(inst, r), jobs' = jobs
  PROVE  /\ inst' \in Seq(PhysicalInstance') /\ jobs' \in Seq(HierarchyCompletion')
         /\ Instances' = Instances \cup {Len(inst) + 1} /\ Jobs' = Jobs
         /\ Len(inst) + 1 \notin Instances /\ Len(inst) + 1 # 0
         /\ inst'[Len(inst) + 1] = r /\ \A k \in Instances : inst'[k] = inst[k]
         /\ ClientState \subseteq ClientState'
  <1>1. inst' \in Seq(PhysicalInstance) /\ Len(inst') = Len(inst) + 1
        /\ inst'[Len(inst) + 1] = r /\ \A k \in Instances : inst'[k] = inst[k]
    BY Extended DEF TypeOK, Instances
  <1>2. Instances' = Instances \cup {Len(inst) + 1} /\ Jobs' = Jobs
        /\ Len(inst) + 1 \notin Instances /\ Len(inst) + 1 # 0
    BY <1>1, TypeFacts DEF Instances, Jobs
  <1>3. PhysicalInstance' = PhysicalInstance
    BY <1>2 DEF PhysicalInstance, Contents
  <1>4. HierarchyCompletion \subseteq HierarchyCompletion' /\ ClientState \subseteq ClientState'
    BY <1>2 DEF HierarchyCompletion, ClientState, Contents
  <1>5. jobs' \in Seq(HierarchyCompletion')
    BY <1>4, TypeFacts, Retyped DEF TypeOK, Jobs
  <1> QED BY <1>1, <1>2, <1>3, <1>4, <1>5

\* One transfer more.
LEMMA MoreTransfers ==
  ASSUME TypeOK, NEW r \in HierarchyCompletion, jobs' = Append(jobs, r), Len(inst') = Len(inst)
  PROVE  /\ jobs' \in Seq(HierarchyCompletion')
         /\ Jobs' = Jobs \cup {Len(jobs) + 1} /\ Instances' = Instances
         /\ Len(jobs) + 1 \notin Jobs /\ Len(jobs) + 1 # 0
         /\ jobs'[Len(jobs) + 1] = r /\ \A k \in Jobs : jobs'[k] = jobs[k]
         /\ ClientState \subseteq ClientState' /\ PhysicalInstance \subseteq PhysicalInstance'
  <1>1. jobs' \in Seq(HierarchyCompletion) /\ Len(jobs') = Len(jobs) + 1
        /\ jobs'[Len(jobs) + 1] = r /\ \A k \in Jobs : jobs'[k] = jobs[k]
    BY Extended DEF TypeOK, Jobs
  <1>2. Jobs' = Jobs \cup {Len(jobs) + 1} /\ Instances' = Instances
        /\ Len(jobs) + 1 \notin Jobs /\ Len(jobs) + 1 # 0
    BY <1>1, TypeFacts DEF Instances, Jobs
  <1>3. HierarchyCompletion' = HierarchyCompletion
    BY <1>2 DEF HierarchyCompletion, Contents
  <1>4. PhysicalInstance \subseteq PhysicalInstance' /\ ClientState \subseteq ClientState'
    BY <1>2 DEF PhysicalInstance, ClientState, Contents
  <1> QED BY <1>1, <1>2, <1>3, <1>4

-----------------------------------------------------------------------------
(* Bytes.                                                                  *)

\* The n bytes of x.
LEMMA Block ==
  ASSUME NEW x, NEW n \in Nat
  PROVE  IsFiniteSet({x} \X (1 .. n)) /\ Cardinality({x} \X (1 .. n)) = n
  <1>1. IsFiniteSet({x}) /\ Cardinality({x}) = 1
    BY FS_Singleton
  <1>2. IsFiniteSet(1 .. n) /\ Cardinality(1 .. n) = n
    BY FS_Interval
  <1>3. /\ IsFiniteSet({x} \X (1 .. n))
        /\ Cardinality({x} \X (1 .. n)) = Cardinality({x}) * Cardinality(1 .. n)
    BY <1>1, <1>2, FS_Product
  <1> QED BY <1>1, <1>2, <1>3

\* A block of bytes more ...
LEMMA MoreBytes ==
  ASSUME NEW B, IsFiniteSet(B), NEW x, NEW n \in Nat, B \cap ({x} \X (1 .. n)) = {}
  PROVE  /\ IsFiniteSet(B \cup ({x} \X (1 .. n)))
         /\ Cardinality(B \cup ({x} \X (1 .. n))) = Cardinality(B) + n
  <1> DEFINE X == {x} \X (1 .. n)
  <1>1. IsFiniteSet(X) /\ Cardinality(X) = n
    BY Block
  <1>2. B \cap X = {}
    OBVIOUS
  <1> HIDE DEF X
  <1>3. /\ IsFiniteSet(B \cup X)
        /\ Cardinality(B \cup X) = Cardinality(B) + Cardinality(X) - Cardinality(B \cap X)
    BY <1>1, FS_Union
  <1>4. Cardinality(B \cap X) = 0 /\ Cardinality(B) \in Nat
    BY <1>2, FS_EmptySet, FS_CardinalityType
  <1> QED BY <1>1, <1>3, <1>4 DEF X

\* ... and a block of bytes less.
LEMMA LessBytes ==
  ASSUME NEW B, IsFiniteSet(B), NEW x, NEW n \in Nat, ({x} \X (1 .. n)) \subseteq B
  PROVE  /\ IsFiniteSet(B \ ({x} \X (1 .. n)))
         /\ Cardinality(B \ ({x} \X (1 .. n))) = Cardinality(B) - n
  <1> DEFINE X == {x} \X (1 .. n)
             C == B \ X
  <1>1. IsFiniteSet(C) /\ Cardinality(C) \in Nat
    BY FS_Subset, FS_CardinalityType
  <1>2. C \cap X = {} /\ C \cup X = B
    OBVIOUS
  <1>3. Cardinality(C \cup X) = Cardinality(C) + n
    BY <1>1, <1>2, MoreBytes
  <1>4. Cardinality(B) = Cardinality(C) + n
    BY <1>2, <1>3
  <1> HIDE DEF C
  <1>5. Cardinality(C) = Cardinality(B) - n
    BY <1>1, <1>4
  <1> QED BY <1>1, <1>5 DEF C

\* Nothing that has to do with bytes changes.
LEMMA SameBooks ==
  ASSUME BooksOK, Instances' = Instances, live' = live,
         \A i \in Instances : /\ inst'[i].value = inst[i].value /\ inst'[i].tier = inst[i].tier
                              /\ (inst'[i].state = "closed") <=> (inst[i].state = "closed")
  PROVE  BooksOK'
  <1>1. ASSUME NEW t \in Tiers PROVE BytesIn(t)' = BytesIn(t)
    <2>1. {k \in Instances' : inst'[k].tier = t /\ inst'[k].state # "closed"}
          = {k \in Instances : inst[k].tier = t /\ inst[k].state # "closed"}
      OBVIOUS
    <2>2. ASSUME NEW k \in Instances
          PROVE  {k} \X (1 .. Size[inst'[k].value]) = {k} \X (1 .. Size[inst[k].value])
      OBVIOUS
    <2> QED BY <2>1, <2>2 DEF BytesIn
  <1> QED BY <1>1 DEF BooksOK, LiveExact

\* An instance is added.
LEMMA BooksMore ==
  ASSUME TypeOK, BooksOK, NEW i, i \notin Instances, Instances' = Instances \cup {i},
         inst'[i].state = "reserved", NEW t \in Tiers, inst'[i].tier = t,
         NEW n \in Nat, Size[inst'[i].value] = n, live[t] + n <= Budget[t],
         live' = [live EXCEPT ![t] = @ + n], \A k \in Instances : inst'[k] = inst[k]
  PROVE  BooksOK'
  <1>1. BytesIn(t)' = BytesIn(t) \cup ({i} \X (1 .. n))
    <2>1. ASSUME NEW c PROVE c \in BytesIn(t)' <=> c \in BytesIn(t) \cup ({i} \X (1 .. n))
      BY DEF BytesIn
    <2> QED BY <2>1
  <1>2. BytesIn(t) \cap ({i} \X (1 .. n)) = {}
    BY DEF BytesIn
  <1>3. ASSUME NEW u \in Tiers, u # t PROVE BytesIn(u)' = BytesIn(u)
    <2>1. ASSUME NEW c PROVE c \in BytesIn(u)' <=> c \in BytesIn(u)
      BY <1>3 DEF BytesIn
    <2> QED BY <2>1
  <1> DEFINE B == BytesIn(t)
  <1>4. IsFiniteSet(BytesIn(t)') /\ Cardinality(BytesIn(t)') = Cardinality(BytesIn(t)) + n
    <2>1. IsFiniteSet(B) /\ B \cap ({i} \X (1 .. n)) = {}
      BY <1>2 DEF BooksOK
    <2> HIDE DEF B
    <2>2. /\ IsFiniteSet(B \cup ({i} \X (1 .. n)))
          /\ Cardinality(B \cup ({i} \X (1 .. n))) = Cardinality(B) + n
      BY <2>1, MoreBytes
    <2> QED BY <1>1, <2>2 DEF B
  <1>5. \A u \in Tiers : u # t => live'[u] = live[u]
    BY DEF TypeOK
  <1>6. live'[t] = live[t] + n
    BY DEF TypeOK
  <1> QED BY <1>3, <1>4, <1>5, <1>6 DEF BooksOK, LiveExact

\* An instance is closed.
LEMMA BooksLess ==
  ASSUME TypeOK, BooksOK, NEW i \in Instances, Instances' = Instances,
         inst[i].state # "closed", inst'[i].state = "closed",
         NEW t \in Tiers, inst[i].tier = t, NEW n \in Nat, Size[inst[i].value] = n,
         live' = [live EXCEPT ![t] = @ - n], \A k \in Instances : k # i => inst'[k] = inst[k]
  PROVE  BooksOK'
  <1>1. BytesIn(t)' = BytesIn(t) \ ({i} \X (1 .. n))
    <2>1. ASSUME NEW c PROVE c \in BytesIn(t)' <=> c \in BytesIn(t) \ ({i} \X (1 .. n))
      BY DEF BytesIn
    <2> QED BY <2>1
  <1>2. ({i} \X (1 .. n)) \subseteq BytesIn(t)
    BY DEF BytesIn
  <1>3. ASSUME NEW u \in Tiers, u # t PROVE BytesIn(u)' = BytesIn(u)
    <2>1. ASSUME NEW c PROVE c \in BytesIn(u)' <=> c \in BytesIn(u)
      BY <1>3 DEF BytesIn
    <2> QED BY <2>1
  <1> DEFINE B == BytesIn(t)
  <1>4. /\ IsFiniteSet(BytesIn(t)') /\ Cardinality(BytesIn(t)') = Cardinality(BytesIn(t)) - n
        /\ Cardinality(BytesIn(t)) \in Nat
    <2>1. IsFiniteSet(B) /\ ({i} \X (1 .. n)) \subseteq B
      BY <1>2 DEF BooksOK
    <2> HIDE DEF B
    <2>2. /\ IsFiniteSet(B \ ({i} \X (1 .. n)))
          /\ Cardinality(B \ ({i} \X (1 .. n))) = Cardinality(B) - n
          /\ Cardinality(B) \in Nat
      BY <2>1, LessBytes, FS_CardinalityType
    <2> QED BY <1>1, <2>2 DEF B
  <1>5. \A u \in Tiers : u # t => live'[u] = live[u]
    BY DEF TypeOK
  <1>6. live'[t] = live[t] - n /\ live[t] \in Int
    BY DEF TypeOK
  <1>7. Budget[t] \in Nat
    BY HierarchyAssumption
  <1>8. ASSUME NEW u \in Tiers
        PROVE  /\ IsFiniteSet(BytesIn(u)') /\ live'[u] = Cardinality(BytesIn(u)')
               /\ live'[u] <= Budget[u]
    <2>1. CASE u = t
      BY <2>1, <1>4, <1>6, <1>7 DEF BooksOK, LiveExact
    <2>2. CASE u # t
      BY <2>2, <1>3, <1>5 DEF BooksOK, LiveExact
    <2> QED BY <2>1, <2>2
  <1> QED BY <1>8 DEF BooksOK, LiveExact

-----------------------------------------------------------------------------
(* Steps of one client that leave the instances alone.                     *)

\* What the invariant says of one client and of two.
LEMMA CallFacts ==
  ASSUME BInv, NEW c \in Clients
  PROVE  /\ call[c] \in ClientState /\ CallOK(c) /\ Waited(c)
         /\ \A b \in Clients : b # c => \A i \in Held(b) \cap Held(c) :
              SharedSource /\ i = call[b].source /\ i = call[c].source
  BY DEF BInv, TypeOK, Calls, Exclusive

\* Nobody else works on the target of a call.
LEMMA TargetAlone ==
  ASSUME BInv, NEW c \in Clients, call[c].target # 0, NEW b \in Clients, b # c
  PROVE  call[c].target \notin Held(b)
  <1>1. call[c].source # call[c].target
    BY CallFacts DEF CallOK, Copying, ClientState, Idle
  <1> QED BY <1>1, CallFacts DEF Held

\* The call of c becomes r.
LEMMA CallOf ==
  ASSUME TypeOK, NEW c \in Clients, NEW r, call' = [call EXCEPT ![c] = r]
  PROVE  call'[c] = r /\ \A b \in Clients : b # c => call'[b] = call[b]
  BY DEF TypeOK

\* What the invariant says of other clients stays true when nothing else changes.
LEMMA CallStep ==
  ASSUME BInv, NEW c \in Clients, NEW r \in ClientState, call' = [call EXCEPT ![c] = r],
         UNCHANGED <<inst, live, jobs, files, writes>>,
         call[c].op # "allocate", r.op # "allocate", CallOK(c)', Waited(c)', StatusOK',
         status' \in {"up", "closing", "down"},
         \A b \in Clients : b # c => \A i \in Held(b) : i \in {r.source, r.target} =>
           SharedSource /\ i = call[b].source /\ i = r.source
  PROVE  BInv'
  <1>1. call'[c] = r /\ \A b \in Clients : b # c => call'[b] = call[b]
    BY CallOf DEF BInv
  <1>2. TypeOK'
    BY <1>1 DEF BInv, TypeOK, Instances, Jobs, PhysicalInstance, HierarchyCompletion,
              ClientState, Contents
  <1>3. Calls'
    <2>1. ASSUME NEW b \in Clients, b # c PROVE CallOK(b)' /\ Waited(b)'
      BY <1>1, <2>1, CallFacts DEF CallOK, Waited, TransferWaits, CloseWaits, Pending, Written,
              Open, Finished
    <2> QED BY <2>1 DEF Calls
  <1>4. Exclusive'
    <2>1. Held(c)' = {r.source, r.target} \ {0}
      BY <1>1 DEF Held
    <2>2. \A b \in Clients : b # c => Held(b)' = Held(b)
      BY <1>1 DEF Held
    <2>3. ASSUME NEW a \in Clients, NEW b \in Clients, a # b, NEW i \in Held(a)' \cap Held(b)'
          PROVE  SharedSource /\ i = call'[a].source /\ i = call'[b].source
      <3>1. CASE a = c
        BY <1>1, <2>1, <2>2, <2>3, <3>1
      <3>2. CASE b = c
        BY <1>1, <2>1, <2>2, <2>3, <3>2
      <3>3. CASE a # c /\ b # c
        BY <1>1, <2>2, <2>3, <3>3 DEF BInv, Exclusive
      <3> QED BY <3>1, <3>2, <3>3
    <2> QED BY <2>3 DEF Exclusive
  <1>5. Reserved'
    BY <1>1 DEF BInv, Reserved, Instances
  <1>6. Destined' /\ FilesOpen'
    BY DEF BInv, Destined, FilesOpen, Jobs, Instances, Finished, Open
  <1>7. BooksOK'
    BY SameBooks DEF BInv, Instances
  <1> QED BY <1>2, <1>3, <1>4, <1>5, <1>6, <1>7 DEF BInv

\* While someone is in a call, and nobody shuts down, the status stays.
LEMMA StatusSame ==
  ASSUME BInv, NEW c \in Clients, NEW r, call' = [call EXCEPT ![c] = r], status' = status,
         Instances' = Instances, \A i \in Instances : inst'[i].state = "open" => Open(i) \/ status # "down",
         (r.op = "shutdown") <=> (call[c].op = "shutdown"),
         call[c].op # "idle" \/ status = "up", call[c].op # "idle" \/ r.op # "idle"
  PROVE  StatusOK'
  <1>1. call'[c] = r /\ \A b \in Clients : b # c => call'[b] = call[b]
    BY CallOf DEF BInv
  <1>2. CASE status = "up"
    BY <1>1, <1>2 DEF BInv, StatusOK
  <1>3. CASE status = "closing"
    BY <1>1, <1>3 DEF BInv, StatusOK
  <1>4. CASE status = "down"
    BY <1>1, <1>4 DEF BInv, StatusOK
  <1> QED BY <1>2, <1>3, <1>4 DEF BInv, TypeOK

\* Definitions that an update of a call needs.
LEMMA EnterType ==
  ASSUME NEW op \in {"idle", "allocate", "transfer", "filter", "record", "close", "shutdown"},
         NEW s \in {0} \cup Instances, NEW d \in {0} \cup Instances, NEW w \in SUBSET Jobs
  PROVE  [op |-> op, source |-> s, target |-> d, waits |-> w, kept |-> {}] \in ClientState
  BY DEF ClientState

\* The completions of instances are transfers.
LEMMA WaitsType ==
  ASSUME TypeOK, NEW s \in Instances, NEW d \in Instances
  PROVE  TransferWaits(s, d) \in SUBSET Jobs /\ CloseWaits(d) \in SUBSET Jobs
  BY TypeFacts DEF TransferWaits, CloseWaits, Pending, Written, PhysicalInstance

\* A client enters a transfer: nobody else holds its instances.
LEMMA TransferBooks ==
  ASSUME BInv, NEW c \in Clients, NEW s \in Instances, NEW d \in Instances, Transfer(c, s, d)
  PROVE  BInv'
  <1> DEFINE r == [op |-> "transfer", source |-> s, target |-> d,
                   waits |-> TransferWaits(s, d), kept |-> {}]
  <1>1. r \in ClientState /\ s # 0 /\ d # 0
    BY WaitsType, EnterType DEF BInv, Instances
  <1>2. /\ call' = [call EXCEPT ![c] = r] /\ UNCHANGED <<inst, live, jobs, files, status, writes>>
        /\ Open(s) /\ Open(d) /\ s # d /\ call[c].op = "idle" /\ status = "up" /\ Free(c, s, d)
    BY DEF Transfer, Enter, Ready
  <1>3. r.op = "transfer" /\ r.source = s /\ r.target = d /\ r.waits = TransferWaits(s, d)
    OBVIOUS
  <1> HIDE DEF r
  <1>4. call'[c] = r
    BY <1>2, CallOf DEF BInv
  <1>5. CallOK(c)' /\ Waited(c)'
    BY <1>1, <1>2, <1>3, <1>4 DEF CallOK, Waited, TransferWaits, Pending, Written, Open, Copying
  <1>6. StatusOK'
    BY <1>2, <1>3, StatusSame DEF Instances
  <1>7. \A b \in Clients : b # c => \A i \in Held(b) : i \in {r.source, r.target} =>
          SharedSource /\ i = call[b].source /\ i = r.source
    BY <1>2, <1>3 DEF Free
  <1> QED BY <1>1, <1>2, <1>3, <1>5, <1>6, <1>7, CallStep DEF BInv, TypeOK

\* A client enters a close: nobody else holds the instance.
LEMMA CloseBooks ==
  ASSUME BInv, NEW c \in Clients, NEW d \in Instances, Close(c, d)
  PROVE  BInv'
  <1> DEFINE r == [op |-> "close", source |-> 0, target |-> d, waits |-> CloseWaits(d), kept |-> {}]
  <1>1. r \in ClientState /\ d # 0
    BY WaitsType, EnterType DEF BInv, Instances
  <1>2. /\ call' = [call EXCEPT ![c] = r] /\ UNCHANGED <<inst, live, jobs, files, status, writes>>
        /\ Open(d) /\ call[c].op = "idle" /\ status = "up" /\ Free(c, 0, d)
    BY DEF Close, Enter, Ready
  <1>3. r.op = "close" /\ r.source = 0 /\ r.target = d /\ r.waits = CloseWaits(d)
    OBVIOUS
  <1> HIDE DEF r
  <1>4. call'[c] = r
    BY <1>2, CallOf DEF BInv
  <1>5. CallOK(c)' /\ Waited(c)'
    BY <1>1, <1>2, <1>3, <1>4 DEF CallOK, Waited, CloseWaits, Pending, Written, Open, Copying
  <1>6. StatusOK'
    BY <1>2, <1>3, StatusSame DEF Instances
  <1>7. \A b \in Clients : b # c => \A i \in Held(b) : i \in {r.source, r.target} =>
          SharedSource /\ i = call[b].source /\ i = r.source
    BY <1>2, <1>3 DEF Free, Held
  <1> QED BY <1>1, <1>2, <1>3, <1>5, <1>6, <1>7, CallStep DEF BInv, TypeOK

\* What a client has waited for has ended, for a transfer ended well.
LEMMA WaitBooks ==
  ASSUME BInv, NEW c \in Clients, Wait(c)
  PROVE  BInv'
  <1>0. PICK j \in call[c].waits :
          /\ Finished(j)
          /\ IF call[c].op = "transfer" /\ jobs[j].state = "failed"
             THEN Return(c) ELSE call' = [call EXCEPT ![c].waits = @ \ {j}]
    BY DEF Wait
  <1> DEFINE r == IF call[c].op = "transfer" /\ jobs[j].state = "failed" THEN Idle
                  ELSE [call[c] EXCEPT !.waits = @ \ {j}]
  <1>1. call[c] \in ClientState /\ CallOK(c) /\ Waited(c)
    BY CallFacts
  <1>2. call[c].op \in {"transfer", "close", "shutdown"}
    BY <1>0, <1>1 DEF CallOK, Idle, ClientState, Copying
  <1>3. call' = [call EXCEPT ![c] = r] /\ UNCHANGED <<inst, live, jobs, files, status, writes>>
    BY <1>0 DEF Wait, Return
  <1>4. r \in ClientState
    BY <1>1 DEF ClientState, Idle
  <1>5. call'[c] = r
    BY <1>3, CallOf DEF BInv
  <1>6. CASE call[c].op = "transfer" /\ jobs[j].state = "failed"
    <2>1. r = Idle
      BY <1>6
    <2>2. r.op = "idle" /\ r.source = 0 /\ r.target = 0
      BY <2>1 DEF Idle
    <2> HIDE DEF r
    <2>3. CallOK(c)' /\ Waited(c)'
      BY <1>5, <2>1, <2>2 DEF CallOK, Waited, Copying
    <2>4. StatusOK'
      BY <1>2, <1>3, <1>5, <1>6, <2>2, CallOf DEF BInv, StatusOK, Instances, Open
    <2>5. \A b \in Clients : 0 \notin Held(b)
      BY DEF Held
    <2> QED BY <1>3, <1>4, <1>6, <2>2, <2>3, <2>4, <2>5, CallStep DEF BInv, TypeOK
  <1>7. CASE ~(call[c].op = "transfer" /\ jobs[j].state = "failed")
    <2>1. r = [call[c] EXCEPT !.waits = @ \ {j}]
      BY <1>7
    <2>2. /\ r.op = call[c].op /\ r.source = call[c].source /\ r.target = call[c].target
          /\ r.waits = call[c].waits \ {j}
      BY <1>1, <2>1 DEF ClientState
    <2> HIDE DEF r
    <2>3. CallOK(c)'
      BY <1>1, <1>2, <1>3, <1>5, <2>2 DEF CallOK, Copying, Open
    <2>4. Waited(c)'
      BY <1>0, <1>1, <1>2, <1>3, <1>5, <1>7, <2>2
         DEF Waited, Finished, TransferWaits, CloseWaits, Pending, Written
    <2>5. StatusOK'
      BY <1>2, <1>3, <2>2, StatusSame DEF Instances, Open
    <2>6. \A b \in Clients : b # c => \A i \in Held(b) : i \in {r.source, r.target} =>
            SharedSource /\ i = call[b].source /\ i = r.source
      BY <2>2, CallFacts DEF Held
    <2> QED BY <1>2, <1>3, <1>4, <2>2, <2>3, <2>4, <2>5, <2>6, CallStep DEF BInv, TypeOK
  <1> QED BY <1>6, <1>7

\* Only what the client keeps changes.
LEMMA FilterBooks ==
  ASSUME BInv, NEW c \in Clients, Filter(c)
  PROVE  BInv'
  <1> DEFINE k == {j \in inst[call[c].source].readers : ~Finished(j)}
             r == [call[c] EXCEPT !.op = "record", !.kept = k]
  <1>1. call[c] \in ClientState /\ CallOK(c) /\ Waited(c) /\ call[c].op = "filter"
    BY CallFacts DEF Filter
  <1>2. call[c].source \in Instances
    BY <1>1 DEF CallOK, Copying, ClientState
  <1>3. k \subseteq Jobs
    BY <1>2, TypeFacts DEF PhysicalInstance, BInv
  <1>4. call' = [call EXCEPT ![c] = r] /\ UNCHANGED <<inst, live, jobs, files, status, writes>>
    BY DEF Filter
  <1>5. r \in ClientState /\ r.op = "record" /\ r.source = call[c].source
        /\ r.target = call[c].target /\ r.waits = call[c].waits /\ r.kept = k
    BY <1>1, <1>3 DEF ClientState
  <1> HIDE DEF r, k
  <1>6. call'[c] = r
    BY <1>4, CallOf DEF BInv
  <1>7. CallOK(c)' /\ Waited(c)'
    BY <1>1, <1>4, <1>5, <1>6 DEF CallOK, Waited, Copying, Open
  <1>8. StatusOK'
    BY <1>1, <1>4, <1>5, StatusSame DEF Instances, Open
  <1>9. \A b \in Clients : b # c => \A i \in Held(b) : i \in {r.source, r.target} =>
          SharedSource /\ i = call[b].source /\ i = r.source
    BY <1>5, CallFacts DEF Held
  <1> QED BY <1>1, <1>4, <1>5, <1>7, <1>8, <1>9, CallStep DEF BInv, TypeOK

\* The runtime is closed while all clients rest.
LEMMA ShutdownBooks ==
  ASSUME BInv, NEW c \in Clients, Shutdown(c)
  PROVE  BInv'
  <1> DEFINE r == [op |-> "shutdown", source |-> 0, target |-> 0, waits |-> {}, kept |-> {}]
  <1>1. r \in ClientState /\ r.op = "shutdown" /\ r.source = 0 /\ r.target = 0
    BY DEF ClientState
  <1>2. /\ call' = [call EXCEPT ![c] = r] /\ UNCHANGED <<inst, live, jobs, files, writes>>
        /\ status' = "closing" /\ \A b \in Clients : call[b].op = "idle"
    BY DEF Shutdown, Enter, Ready
  <1> HIDE DEF r
  <1>3. call'[c] = r /\ \A b \in Clients : b # c => call'[b] = call[b]
    BY <1>2, CallOf DEF BInv
  <1>4. CallOK(c)' /\ Waited(c)'
    BY <1>1, <1>3 DEF CallOK, Waited, Copying
  <1>5. StatusOK'
    BY <1>1, <1>2, <1>3 DEF StatusOK
  <1>6. \A b \in Clients : 0 \notin Held(b)
    BY DEF Held
  <1> QED BY <1>1, <1>2, <1>4, <1>5, <1>6, CallStep

\* While one client shuts down, the others hold nothing.
LEMMA ShutdownAlone ==
  ASSUME BInv, NEW c \in Clients, call[c].op = "shutdown"
  PROVE  /\ status = "closing"
         /\ \A b \in Clients : b # c => call[b].op = "idle" /\ Held(b) = {}
         /\ \A i \in Instances : inst[i].state # "reserved"
  <1>1. status = "closing"
    BY DEF BInv, StatusOK, TypeOK
  <1>2. \A b \in Clients : b # c => call[b].op = "idle"
    BY <1>1 DEF BInv, StatusOK
  <1>3. \A b \in Clients : b # c => Held(b) = {}
    BY <1>2, CallFacts DEF CallOK, Held, Idle
  <1> QED BY <1>1, <1>2, <1>3 DEF BInv, Reserved

\* The closing client turns to its next instance.
LEMMA ShutdownNextBooks ==
  ASSUME BInv, NEW c \in Clients, NEW d \in Instances, ShutdownNext(c, d)
  PROVE  BInv'
  <1> DEFINE r == [op |-> "shutdown", source |-> 0, target |-> d,
                   waits |-> CloseWaits(d), kept |-> {}]
  <1>1. r \in ClientState /\ d # 0
    BY WaitsType, EnterType DEF BInv, Instances
  <1>2. /\ call' = [call EXCEPT ![c] = r] /\ UNCHANGED <<inst, live, jobs, files, status, writes>>
        /\ Open(d) /\ call[c].op = "shutdown"
    BY DEF ShutdownNext, Enter
  <1>3. r.op = "shutdown" /\ r.source = 0 /\ r.target = d /\ r.waits = CloseWaits(d)
    OBVIOUS
  <1> HIDE DEF r
  <1>4. call'[c] = r
    BY <1>2, CallOf DEF BInv
  <1>5. CallOK(c)' /\ Waited(c)'
    BY <1>1, <1>2, <1>3, <1>4 DEF CallOK, Waited, CloseWaits, Pending, Written, Open, Copying
  <1>6. StatusOK'
    BY <1>2, <1>3, StatusSame DEF Instances, Open
  <1> QED BY <1>1, <1>2, <1>3, <1>5, <1>6, ShutdownAlone, CallStep DEF BInv, TypeOK

\* No instance is open any more.
LEMMA ShutdownEndsBooks ==
  ASSUME BInv, NEW c \in Clients, ShutdownEnds(c)
  PROVE  BInv'
  <1>1. /\ call' = [call EXCEPT ![c] = Idle] /\ UNCHANGED <<inst, live, jobs, files, writes>>
        /\ call[c].op = "shutdown" /\ status' = "down" /\ \A i \in Instances : ~Open(i)
    BY DEF ShutdownEnds, Return
  <1>2. Idle \in ClientState /\ Idle.op = "idle" /\ Idle.source = 0 /\ Idle.target = 0
    BY DEF Idle, ClientState
  <1>3. call'[c] = Idle /\ \A b \in Clients : b # c => call'[b] = call[b]
    BY <1>1, CallOf DEF BInv
  <1>4. CallOK(c)' /\ Waited(c)'
    BY <1>2, <1>3 DEF CallOK, Waited, Copying
  <1>5. StatusOK'
    BY <1>1, <1>2, <1>3, ShutdownAlone DEF StatusOK, Instances, Open
  <1> QED BY <1>1, <1>2, <1>4, <1>5, ShutdownAlone, CallStep

-----------------------------------------------------------------------------
(* Steps of one client that change an instance.                            *)

\* What no other client works on may change, and the readers of its source.
LEMMA OthersKeep ==
  ASSUME BInv, NEW c \in Clients, NEW i,
         \A k \in Instances : k # i => inst'[k] = inst[k],
         \A j \in Jobs : jobs'[j] = jobs[j],
         NEW b \in Clients, b # c, call'[b] = call[b],
         i \in Held(b) => /\ i # call[b].target /\ inst'[i].state = inst[i].state
                          /\ inst'[i].completion = inst[i].completion
  PROVE  CallOK(b)' /\ Waited(b)'
  <1>1. call[b] \in ClientState /\ CallOK(b) /\ Waited(b)
    BY CallFacts
  <1>2. /\ call[b].target # 0 => /\ call[b].target \in Instances
                                 /\ inst'[call[b].target] = inst[call[b].target]
        /\ call[b].source # 0 =>
             /\ call[b].source \in Instances
             /\ inst'[call[b].source].state = inst[call[b].source].state
             /\ inst'[call[b].source].completion = inst[call[b].source].completion
    BY <1>1 DEF Held, ClientState
  <1>3. CallOK(b)'
    BY <1>1, <1>2 DEF CallOK, Open, Copying, ClientState
  <1>4. \A k \in Instances : inst[k].completion \in {0} \cup Jobs /\ inst[k].readers \subseteq Jobs
    BY TypeFacts DEF BInv, PhysicalInstance
  <1>5. Waited(b)'
    <2>1. ASSUME call[b].op = "transfer", NEW j \in TransferWaits(call[b].source, call[b].target)'
          PROVE  j \in call[b].waits \/ jobs'[j].state = "done"
      <3>1. call[b].source # 0 /\ call[b].target # 0
        BY <1>1, <2>1 DEF CallOK, Copying
      <3>2. j \in TransferWaits(call[b].source, call[b].target) /\ j \in Jobs
        BY <1>2, <1>4, <2>1, <3>1 DEF TransferWaits, Pending, Written
      <3> QED BY <1>1, <2>1, <3>2 DEF Waited
    <2>2. ASSUME call[b].op \in {"close", "shutdown"}, call[b].target # 0,
                 NEW j \in CloseWaits(call[b].target)'
          PROVE  j \in call[b].waits \/ Finished(j)'
      <3>1. j \in CloseWaits(call[b].target) /\ j \in Jobs
        BY <1>2, <1>4, <2>2 DEF CloseWaits, Pending, Written
      <3> QED BY <1>1, <2>2, <3>1 DEF Waited, Finished
    <2> QED BY <2>1, <2>2 DEF Waited, TransferWaits, CloseWaits, Pending, Written
  <1> QED BY <1>3, <1>5

\* A step of c on instance i that no other client holds as its target.
LEMMA InstStep ==
  ASSUME BInv, NEW c \in Clients, \A b \in Clients : b # c => call'[b] = call[b],
         NEW i,
         \A b \in Clients : b # c /\ i \in Held(b) =>
           /\ i # call[b].target /\ inst'[i].state = inst[i].state
           /\ inst'[i].completion = inst[i].completion,
         \A k \in Instances : k # i => inst'[k] = inst[k],
         \A j \in Jobs : jobs'[j] = jobs[j],
         TypeOK', CallOK(c)', Waited(c)', StatusOK', Reserved', Destined', FilesOpen', BooksOK',
         \A b \in Clients : b # c => \A k \in Held(b) : k \in {call'[c].source, call'[c].target} =>
           SharedSource /\ k = call[b].source /\ k = call'[c].source
  PROVE  BInv'
  <1>1. Calls'
    BY OthersKeep DEF Calls
  <1>2. Exclusive'
    <2>1. Held(c)' = {call'[c].source, call'[c].target} \ {0}
      BY DEF Held
    <2>2. \A b \in Clients : b # c => Held(b)' = Held(b)
      BY DEF Held
    <2>3. ASSUME NEW a \in Clients, NEW b \in Clients, a # b, NEW k \in Held(a)' \cap Held(b)'
          PROVE  SharedSource /\ k = call'[a].source /\ k = call'[b].source
      <3>1. CASE a = c
        BY <2>1, <2>2, <2>3, <3>1
      <3>2. CASE b = c
        BY <2>1, <2>2, <2>3, <3>2
      <3>3. CASE a # c /\ b # c
        BY <2>2, <2>3, <3>3 DEF BInv, Exclusive
      <3> QED BY <3>1, <3>2, <3>3
    <2> QED BY <2>3 DEF Exclusive
  <1> QED BY <1>1, <1>2 DEF BInv

\* A client that returns.
LEMMA ReturnFacts ==
  ASSUME TypeOK, NEW c \in Clients, Return(c)
  PROVE  /\ Idle \in ClientState /\ Idle \in ClientState' /\ Idle.op = "idle"
         /\ Idle.source = 0 /\ Idle.target = 0
         /\ call' = [call EXCEPT ![c] = Idle] /\ call'[c] = Idle
         /\ \A b \in Clients : b # c => call'[b] = call[b]
         /\ CallOK(c)' /\ Waited(c)'
  <1>1. /\ Idle \in ClientState /\ Idle \in ClientState' /\ Idle.op = "idle"
        /\ Idle.source = 0 /\ Idle.target = 0
    BY DEF Idle, ClientState
  <1>2. call' = [call EXCEPT ![c] = Idle]
    BY DEF Return
  <1>3. call'[c] = Idle /\ \A b \in Clients : b # c => call'[b] = call[b]
    BY <1>2, CallOf
  <1>4. CallOK(c)' /\ Waited(c)'
    BY <1>1, <1>3 DEF CallOK, Waited, Copying
  <1> QED BY <1>1, <1>2, <1>3, <1>4

\* The status of a runtime one of whose clients returns from a call.
LEMMA ReturnStatus ==
  ASSUME BInv, NEW c \in Clients, Return(c), status' = status,
         call[c].op \notin {"idle", "shutdown"}
  PROVE  StatusOK' /\ status = "up"
  <1>1. status = "up"
    BY DEF BInv, StatusOK, TypeOK
  <1> QED BY <1>1, ReturnFacts DEF BInv, StatusOK

\* Transfers see the same destinations.
LEMMA DestinedKeep ==
  ASSUME BInv, Instances' = Instances, jobs' = jobs,
         \A k \in Instances : inst'[k].completion = inst[k].completion,
         \A k \in Instances : Open(k) => inst'[k].state = "open"
  PROVE  Destined'
  <1>1. \A j \in Jobs : jobs[j].destination # 0 => jobs[j].destination \in Instances
    BY TypeFacts DEF BInv, HierarchyCompletion
  <1> QED BY <1>1 DEF BInv, Destined, Finished, Open, Jobs

\* Types, when the transfers stay and the instances change their fields only.
LEMMA TypeSame ==
  ASSUME TypeOK, NEW c \in Clients, NEW r \in ClientState, call' = [call EXCEPT ![c] = r],
         inst' \in Seq(PhysicalInstance), Instances' = Instances, jobs' = jobs,
         live' \in [Tiers -> Int], files' \subseteq Instances,
         status' = status, writes' = writes
  PROVE  TypeOK'
  <1>1. Jobs' = Jobs
    BY DEF Jobs
  <1>2. PhysicalInstance' = PhysicalInstance /\ HierarchyCompletion' = HierarchyCompletion
        /\ ClientState' = ClientState
    BY <1>1 DEF PhysicalInstance, HierarchyCompletion, ClientState, Contents
  <1>3. call' \in [Clients -> ClientState]
    BY DEF TypeOK
  <1> QED BY <1>1, <1>2, <1>3 DEF TypeOK

\* An instance that was made is open.
LEMMA PublishBooks ==
  ASSUME BInv, NEW c \in Clients, Publish(c)
  PROVE  BInv'
  <1> DEFINE i == call[c].target
             q == [inst[i] EXCEPT !.state = "open"]
  <1>1. /\ call[c].op = "allocate" /\ inst' = [inst EXCEPT ![i] = q] /\ Return(c)
        /\ files' = IF inst[i].tier \in FileTiers THEN files \cup {i} ELSE files
        /\ UNCHANGED <<live, jobs, status, writes>>
    BY DEF Publish
  <1>2. call[c] \in ClientState /\ CallOK(c) /\ i \in Instances /\ i # 0
        /\ inst[i].state = "reserved"
    BY <1>1, CallFacts DEF CallOK, ClientState
  <1>3. inst[i] \in PhysicalInstance
    BY <1>2, TypeFacts DEF BInv
  <1>4. /\ q \in PhysicalInstance /\ q.state = "open" /\ q.value = inst[i].value
        /\ q.tier = inst[i].tier /\ q.completion = inst[i].completion
    BY <1>3 DEF PhysicalInstance
  <1>5. \A b \in Clients : b # c => i \notin Held(b)
    BY <1>2, TargetAlone
  <1> HIDE DEF i, q
  <1>6. /\ inst' \in Seq(PhysicalInstance) /\ Len(inst') = Len(inst) /\ Instances' = Instances
        /\ inst'[i] = q /\ \A k \in Instances : k # i => inst'[k] = inst[k]
    BY <1>1, <1>2, <1>4, InstanceStep DEF BInv
  <1>7. TypeOK'
    BY <1>1, <1>2, <1>6, ReturnFacts, TypeSame DEF BInv, TypeOK
  <1>8. CallOK(c)' /\ Waited(c)' /\ StatusOK'
    BY <1>1, ReturnFacts, ReturnStatus DEF BInv
  <1>9. Reserved'
    BY <1>1, <1>4, <1>6, ReturnFacts DEF BInv, Reserved, i
  <1>10. Destined'
    <2>1. \A k \in Instances : inst'[k].completion = inst[k].completion
                               /\ (Open(k) => inst'[k].state = "open")
      BY <1>4, <1>6 DEF Open
    <2> QED BY <1>1, <1>6, <2>1, DestinedKeep
  <1>11. FilesOpen'
    BY <1>1, <1>4, <1>6 DEF BInv, FilesOpen, Open, TypeOK
  <1>12. BooksOK'
    BY <1>1, <1>2, <1>4, <1>6, SameBooks DEF BInv
  <1>13. \A b \in Clients : b # c => \A k \in Held(b) : k \notin {Idle.source, Idle.target}
    BY DEF Held, Idle
  <1>14. call'[c] = Idle /\ (\A b \in Clients : b # c => call'[b] = call[b])
         /\ \A j \in Jobs : jobs'[j] = jobs[j]
    BY <1>1, ReturnFacts DEF BInv
  <1> QED
    BY <1>5, <1>6, <1>7, <1>8, <1>9, <1>10, <1>11, <1>12, <1>13, <1>14, InstStep

\* Closing an instance that is not the destination of a transfer under way.
LEMMA Closing ==
  ASSUME BInv, NEW i \in Instances, inst[i].state # "closed", NEW q,
         inst' = [inst EXCEPT ![i] = q], q \in PhysicalInstance, q.state = "closed",
         GiveBack(i), jobs' = jobs,
         \A j \in Jobs : ~Finished(j) => jobs[j].destination # i,
         q.completion \in {0, inst[i].completion},
         files' \subseteq files \ {i}
  PROVE  /\ inst' \in Seq(PhysicalInstance) /\ Len(inst') = Len(inst) /\ Instances' = Instances
         /\ inst'[i] = q /\ \A k \in Instances : k # i => inst'[k] = inst[k]
         /\ live' \in [Tiers -> Int] /\ Destined' /\ FilesOpen' /\ BooksOK'
  <1>1. /\ inst' \in Seq(PhysicalInstance) /\ Len(inst') = Len(inst) /\ Instances' = Instances
        /\ inst'[i] = q /\ \A k \in Instances : k # i => inst'[k] = inst[k]
    BY InstanceStep DEF BInv
  <1>2. inst[i] \in PhysicalInstance
    BY TypeFacts DEF BInv
  <1>3. PICK t \in Tiers, n \in Nat : inst[i].tier = t /\ Size[inst[i].value] = n
    BY <1>2, HierarchyAssumption DEF PhysicalInstance
  <1>4. live' = [live EXCEPT ![t] = @ - n]
    BY <1>3 DEF GiveBack
  <1>5. live' \in [Tiers -> Int]
    BY <1>3, <1>4 DEF BInv, TypeOK
  <1>6. BooksOK'
    BY <1>1, <1>3, <1>4, BooksLess DEF BInv
  <1>7. FilesOpen'
    BY <1>1 DEF BInv, FilesOpen, Open, TypeOK
  <1>8. \A j \in Jobs : jobs[j].destination # 0 => jobs[j].destination \in Instances
    BY TypeFacts DEF BInv, HierarchyCompletion
  <1>9. \A j \in Jobs : j # 0
    BY TypeFacts DEF BInv, Jobs
  <1>10. Destined'
    <2> SUFFICES ASSUME NEW j \in Jobs, ~Finished(j)
                 PROVE  /\ jobs[j].source # 0 /\ jobs[j].destination # 0
                        /\ inst'[jobs[j].destination].state = "open"
                        /\ inst'[jobs[j].destination].completion = j
                        /\ \A k \in Instances : inst'[k].completion = j => k = jobs[j].destination
      BY <1>1 DEF Destined, Finished, Open, Jobs
    <2>1. /\ jobs[j].source # 0 /\ jobs[j].destination # 0 /\ jobs[j].destination # i
          /\ Open(jobs[j].destination) /\ inst[jobs[j].destination].completion = j
          /\ \A k \in Instances : inst[k].completion = j => k = jobs[j].destination
      BY DEF BInv, Destined
    <2>2. inst'[jobs[j].destination] = inst[jobs[j].destination]
      BY <1>1, <1>8, <2>1
    <2>3. ASSUME NEW k \in Instances, inst'[k].completion = j PROVE k = jobs[j].destination
      <3>1. CASE k = i
        BY <1>1, <1>9, <2>1, <2>3, <3>1
      <3>2. CASE k # i
        BY <1>1, <2>1, <2>3, <3>2
      <3> QED BY <3>1, <3>2
    <2> QED BY <2>1, <2>2, <2>3 DEF Open
  <1> QED BY <1>1, <1>5, <1>6, <1>7, <1>10

\* An instance that could not be made gives its bytes back.
LEMMA AllocationFailsBooks ==
  ASSUME BInv, NEW c \in Clients, AllocationFails(c)
  PROVE  BInv'
  <1>0. PICK i : i = call[c].target
    OBVIOUS
  <1> DEFINE q == [inst[i] EXCEPT !.state = "closed", !.content = Gone]
  <1>1. /\ call[c].op = "allocate" /\ inst' = [inst EXCEPT ![i] = q] /\ Return(c) /\ GiveBack(i)
        /\ UNCHANGED <<jobs, files, status, writes>>
    BY <1>0 DEF AllocationFails
  <1>2. i \in Instances /\ i # 0 /\ inst[i].state = "reserved"
    BY <1>0, <1>1, CallFacts DEF CallOK, ClientState
  <1>3. inst[i] \in PhysicalInstance
    BY <1>2, TypeFacts DEF BInv
  <1>4. /\ q \in PhysicalInstance /\ q.state = "closed" /\ q.completion = inst[i].completion
    BY <1>3 DEF PhysicalInstance, Contents
  <1>5. \A b \in Clients : b # c => i \notin Held(b)
    BY <1>0, <1>2, TargetAlone
  <1> HIDE DEF q
  <1>6. \A j \in Jobs : ~Finished(j) => jobs[j].destination # i
    BY <1>2 DEF BInv, Destined, Open
  <1>7. files' \subseteq files \ {i}
    BY <1>1, <1>2 DEF BInv, FilesOpen, Open
  <1>8. /\ inst' \in Seq(PhysicalInstance) /\ Len(inst') = Len(inst) /\ Instances' = Instances
        /\ inst'[i] = q /\ \A k \in Instances : k # i => inst'[k] = inst[k]
        /\ live' \in [Tiers -> Int] /\ Destined' /\ FilesOpen' /\ BooksOK'
    BY <1>1, <1>2, <1>4, <1>6, <1>7, Closing
  <1>9. TypeOK'
    BY <1>1, <1>8, ReturnFacts, TypeSame DEF BInv, TypeOK
  <1>10. CallOK(c)' /\ Waited(c)' /\ StatusOK'
    BY <1>1, ReturnFacts, ReturnStatus DEF BInv
  <1>11. Reserved'
    BY <1>0, <1>1, <1>4, <1>8, ReturnFacts DEF BInv, Reserved
  <1>12. \A b \in Clients : b # c => \A k \in Held(b) : k \notin {Idle.source, Idle.target}
    BY DEF Held, Idle
  <1>13. call'[c] = Idle /\ (\A b \in Clients : b # c => call'[b] = call[b])
         /\ \A j \in Jobs : jobs'[j] = jobs[j]
    BY <1>1, ReturnFacts DEF BInv
  <1> QED
    BY <1>5, <1>8, <1>9, <1>10, <1>11, <1>12, <1>13, InstStep

\* After its waits, no transfer under way writes what a client closes.
LEMMA ClosedIsFree ==
  ASSUME BInv, NEW c \in Clients, call[c].op \in {"close", "shutdown"},
         call[c].target # 0, call[c].waits = {}
  PROVE  /\ call[c].target \in Instances /\ Open(call[c].target)
         /\ \A j \in CloseWaits(call[c].target) : Finished(j)
         /\ \A j \in Jobs : ~Finished(j) => jobs[j].destination # call[c].target
  <1>1. call[c].target \in Instances /\ Open(call[c].target)
    BY CallFacts DEF CallOK, ClientState
  <1>2. \A j \in CloseWaits(call[c].target) : Finished(j)
    BY CallFacts DEF Waited
  <1>3. ASSUME NEW j \in Jobs, ~Finished(j), jobs[j].destination = call[c].target PROVE FALSE
    <2>1. inst[call[c].target].completion = j /\ j # 0
      BY <1>3, TypeFacts DEF BInv, Destined, Jobs
    <2> QED BY <1>2, <1>3, <2>1 DEF CloseWaits, Pending, Written
  <1> QED BY <1>1, <1>2, <1>3

\* The client that closes an instance goes on with the call r.
LEMMA UnlinkBooks ==
  ASSUME BInv, NEW c \in Clients, call[c].op \in {"close", "shutdown"},
         NEW i, i = call[c].target, i # 0, call[c].waits = {}, Unlink(i),
         UNCHANGED <<jobs, status, writes>>, NEW r, call' = [call EXCEPT ![c] = r],
         r \in ClientState, r.source = 0, r.target = 0, r.op # "allocate",
         CallOK(c)', Waited(c)',
         \/ r.op = "idle" /\ call[c].op = "close"
         \/ r.op = "shutdown" /\ call[c].op = "shutdown"
  PROVE  BInv'
  <1> DEFINE q == [inst[i] EXCEPT !.state = "closed", !.content = Gone,
                                  !.completion = 0, !.readers = {}]
  <1>1. inst' = [inst EXCEPT ![i] = q] /\ GiveBack(i) /\ files' = files \ {i}
    BY DEF Unlink
  <1>2. /\ i \in Instances /\ Open(i)
        /\ \A j \in Jobs : ~Finished(j) => jobs[j].destination # i
    BY ClosedIsFree
  <1>3. inst[i] \in PhysicalInstance
    BY <1>2, TypeFacts DEF BInv
  <1>4. q \in PhysicalInstance /\ q.state = "closed" /\ q.completion = 0
    BY <1>3 DEF PhysicalInstance, Contents
  <1>5. \A b \in Clients : b # c => i \notin Held(b)
    BY TargetAlone
  <1> HIDE DEF q
  <1>6. /\ inst' \in Seq(PhysicalInstance) /\ Len(inst') = Len(inst) /\ Instances' = Instances
        /\ inst'[i] = q /\ \A k \in Instances : k # i => inst'[k] = inst[k]
        /\ live' \in [Tiers -> Int] /\ Destined' /\ FilesOpen' /\ BooksOK'
    BY <1>1, <1>2, <1>4, Closing DEF Open
  <1>7. call'[c] = r /\ \A b \in Clients : b # c => call'[b] = call[b]
    BY CallOf DEF BInv
  <1>8. TypeOK'
    BY <1>1, <1>6, TypeSame DEF BInv, TypeOK
  <1>9. StatusOK'
    <2>1. status # "down"
      BY DEF BInv, StatusOK
    <2>2. CASE call[c].op = "shutdown"
      BY <1>7, <2>2, ShutdownAlone DEF StatusOK
    <2>3. CASE call[c].op = "close"
      <3>1. status = "up"
        BY <2>1, <2>3 DEF BInv, StatusOK, TypeOK
      <3> QED BY <1>7, <2>3, <3>1 DEF BInv, StatusOK
    <2> QED BY <2>2, <2>3
  <1>10. Reserved'
    <2>1. ASSUME NEW k \in Instances, inst'[k].state = "reserved"
          PROVE  \E b \in Clients : call'[b].op = "allocate" /\ call'[b].target = k
      <3>1. inst[k].state = "reserved"
        BY <1>4, <1>6, <2>1
      <3>2. PICK b \in Clients : call[b].op = "allocate" /\ call[b].target = k
        BY <3>1 DEF BInv, Reserved
      <3> QED BY <1>7, <3>2
    <2> QED BY <1>6, <2>1 DEF Reserved
  <1>11. \A b \in Clients : b # c => \A k \in Held(b) : k \notin {r.source, r.target}
    BY DEF Held
  <1>12. \A b \in Clients : b # c /\ i \in Held(b) =>
           /\ i # call[b].target /\ inst'[i].state = inst[i].state
           /\ inst'[i].completion = inst[i].completion
    BY <1>5
  <1>13. \A j \in Jobs : jobs'[j] = jobs[j]
    OBVIOUS
  <1>14. \A b \in Clients : b # c => \A k \in Held(b) : k \in {r.source, r.target} =>
           SharedSource /\ k = call[b].source /\ k = r.source
    BY <1>11
  <1>15. Destined' /\ FilesOpen' /\ BooksOK' /\ \A k \in Instances : k # i => inst'[k] = inst[k]
    BY <1>6
  <1> QED
    BY <1>7, <1>8, <1>9, <1>10, <1>12, <1>13, <1>14, <1>15, InstStep

\* The end of a close ...
LEMMA ReleaseBooks ==
  ASSUME BInv, NEW c \in Clients, Release(c)
  PROVE  BInv'
  <1>1. /\ call[c].op = "close" /\ call[c].waits = {} /\ Unlink(call[c].target) /\ Return(c)
        /\ UNCHANGED <<jobs, status, writes>>
    BY DEF Release
  <1>2. call[c].target # 0
    BY <1>1, CallFacts DEF CallOK
  <1> QED BY <1>1, <1>2, ReturnFacts, UnlinkBooks DEF BInv

\* ... and of one close of a shutdown.
LEMMA ShutdownReleaseBooks ==
  ASSUME BInv, NEW c \in Clients, ShutdownRelease(c)
  PROVE  BInv'
  <1> DEFINE r == [op |-> "shutdown", source |-> 0, target |-> 0, waits |-> {}, kept |-> {}]
  <1>1. /\ call[c].op = "shutdown" /\ call[c].waits = {} /\ Unlink(call[c].target)
        /\ call' = [call EXCEPT ![c] = r] /\ call[c].target # 0
        /\ UNCHANGED <<jobs, status, writes>>
    BY DEF ShutdownRelease, Enter
  <1>2. r \in ClientState /\ r.op = "shutdown" /\ r.source = 0 /\ r.target = 0
    BY DEF ClientState
  <1> HIDE DEF r
  <1>3. call'[c] = r
    BY <1>1, CallOf DEF BInv
  <1>4. CallOK(c)' /\ Waited(c)'
    BY <1>2, <1>3 DEF CallOK, Waited, Copying
  <1> QED BY <1>1, <1>2, <1>4, UnlinkBooks

\* An instance is reserved: it is nobody else's.
LEMMA AllocateBooks ==
  ASSUME BInv, NEW c \in Clients, NEW v \in Values, NEW t \in Tiers, Allocate(c, v, t)
  PROVE  BInv'
  <1> DEFINE i == Len(inst) + 1
             q == [value |-> v, tier |-> t, state |-> "reserved",
                   completion |-> 0, readers |-> {}, content |-> Fresh]
             r == [op |-> "allocate", source |-> 0, target |-> i, waits |-> {}, kept |-> {}]
  <1>1. /\ call[c].op = "idle" /\ status = "up" /\ Fits(t, v) /\ inst' = Append(inst, q)
        /\ live' = [live EXCEPT ![t] = @ + Size[v]] /\ call' = [call EXCEPT ![c] = r]
        /\ UNCHANGED <<jobs, files, status, writes>>
    BY DEF Allocate, Enter, Ready
  <1>2. q \in PhysicalInstance /\ q.state = "reserved" /\ q.tier = t /\ q.value = v
        /\ q.completion = 0 /\ Size[v] \in Nat
    BY HierarchyAssumption DEF PhysicalInstance, Contents
  <1>3. /\ inst' \in Seq(PhysicalInstance') /\ jobs' \in Seq(HierarchyCompletion')
        /\ Instances' = Instances \cup {i} /\ Jobs' = Jobs /\ i \notin Instances /\ i # 0
        /\ inst'[i] = q /\ \A k \in Instances : inst'[k] = inst[k]
        /\ ClientState \subseteq ClientState'
    BY <1>1, <1>2, MoreInstances DEF BInv
  <1>4. r.op = "allocate" /\ r.source = 0 /\ r.target = i /\ r.waits = {} /\ r \in ClientState'
    BY <1>3 DEF ClientState
  <1> HIDE DEF i, q, r
  <1>5. call'[c] = r /\ \A b \in Clients : b # c => call'[b] = call[b]
    BY <1>1, CallOf DEF BInv
  <1>6. \A b \in Clients : i \notin Held(b)
    BY <1>3, CallFacts DEF Held, ClientState
  <1>7. TypeOK'
    <2>1. call' \in [Clients -> ClientState']
      BY <1>1, <1>3, <1>4 DEF BInv, TypeOK
    <2>2. live' \in [Tiers -> Int]
      BY <1>1, <1>2 DEF BInv, TypeOK
    <2> QED BY <1>1, <1>3, <2>1, <2>2 DEF BInv, TypeOK
  <1>8. CallOK(c)' /\ Waited(c)'
    BY <1>2, <1>3, <1>4, <1>5 DEF CallOK, Waited, Copying
  <1>9. StatusOK'
    BY <1>1, <1>4, <1>5 DEF BInv, StatusOK
  <1>10. Reserved'
    <2>1. ASSUME NEW k \in Instances', inst'[k].state = "reserved"
          PROVE  \E b \in Clients : call'[b].op = "allocate" /\ call'[b].target = k
      <3>1. CASE k = i
        BY <1>4, <1>5, <3>1
      <3>2. CASE k # i
        <4>1. PICK b \in Clients : call[b].op = "allocate" /\ call[b].target = k
          BY <1>3, <2>1, <3>2 DEF BInv, Reserved
        <4> QED BY <1>1, <1>5, <4>1
      <3> QED BY <3>1, <3>2
    <2> QED BY <2>1 DEF Reserved
  <1>11. Destined'
    <2>1. \A j \in Jobs : jobs[j].destination # 0 => jobs[j].destination \in Instances
      BY TypeFacts DEF BInv, HierarchyCompletion
    <2>2. \A j \in Jobs : j # 0
      BY TypeFacts DEF BInv, Jobs
    <2> SUFFICES ASSUME NEW j \in Jobs, ~Finished(j)
                 PROVE  /\ jobs[j].source # 0 /\ jobs[j].destination # 0
                        /\ inst'[jobs[j].destination].state = "open"
                        /\ inst'[jobs[j].destination].completion = j
                        /\ \A k \in Instances' : inst'[k].completion = j => k = jobs[j].destination
      BY <1>1, <1>3 DEF Destined, Finished, Open
    <2>3. /\ jobs[j].source # 0 /\ jobs[j].destination # 0
          /\ Open(jobs[j].destination) /\ inst[jobs[j].destination].completion = j
          /\ \A k \in Instances : inst[k].completion = j => k = jobs[j].destination
      BY DEF BInv, Destined
    <2> QED BY <1>2, <1>3, <2>1, <2>2, <2>3 DEF Open
  <1>12. FilesOpen'
    BY <1>1, <1>3 DEF BInv, FilesOpen, Open, TypeOK
  <1>13. BooksOK'
    <2>1. live[t] + Size[v] <= Budget[t]
      BY <1>1 DEF Fits
    <2> QED BY <1>1, <1>2, <1>3, <2>1, BooksMore DEF BInv
  <1>14. \A b \in Clients : b # c => \A k \in Held(b) : k \notin {r.source, r.target}
    BY <1>4, <1>6 DEF Held
  <1>15. \A j \in Jobs : jobs'[j] = jobs[j]
    BY <1>1
  <1> QED
    BY <1>3, <1>5, <1>6, <1>7, <1>8, <1>9, <1>10, <1>11, <1>12, <1>13, <1>14, <1>15, InstStep

\* The source of a transfer gets its reader.
LEMMA RecordBooks ==
  ASSUME BInv, NEW c \in Clients, Record(c)
  PROVE  BInv'
  <1>0. PICK i : i = call[c].source
    OBVIOUS
  <1> DEFINE k == call[c].kept \cup {inst[call[c].target].completion}
             q == [inst[i] EXCEPT !.readers = k]
  <1>1. /\ call[c].op = "record" /\ inst' = [inst EXCEPT ![i] = q] /\ Return(c)
        /\ UNCHANGED <<live, jobs, files, status, writes>>
    BY <1>0 DEF Record
  <1>2. /\ call[c] \in ClientState /\ i \in Instances /\ call[c].target \in Instances
        /\ inst[call[c].target].completion # 0 /\ call[c].source # call[c].target
    BY <1>0, <1>1, CallFacts DEF CallOK, ClientState, Copying
  <1>3. inst[i] \in PhysicalInstance /\ inst[call[c].target] \in PhysicalInstance
    BY <1>2, TypeFacts DEF BInv
  <1>4. k \subseteq Jobs
    BY <1>2, <1>3 DEF PhysicalInstance, ClientState
  <1>5. /\ q \in PhysicalInstance /\ q.state = inst[i].state /\ q.completion = inst[i].completion
        /\ q.value = inst[i].value /\ q.tier = inst[i].tier
    BY <1>3, <1>4 DEF PhysicalInstance
  <1> HIDE DEF k, q
  <1>6. /\ inst' \in Seq(PhysicalInstance) /\ Len(inst') = Len(inst) /\ Instances' = Instances
        /\ inst'[i] = q /\ \A n \in Instances : n # i => inst'[n] = inst[n]
    BY <1>1, <1>2, <1>5, InstanceStep DEF BInv
  <1>7. \A b \in Clients : b # c /\ i \in Held(b) => i # call[b].target
    <2> SUFFICES ASSUME NEW b \in Clients, b # c, i \in Held(b) PROVE i # call[b].target
      OBVIOUS
    <2>1. i \in Held(c)
      BY <1>0, <1>2 DEF Held, Instances
    <2>2. i = call[b].source
      BY <2>1, CallFacts
    <2> QED BY <2>2, CallFacts DEF CallOK, Copying, Held, ClientState, Idle
  <1>8. \A n \in Instances : /\ inst'[n].value = inst[n].value /\ inst'[n].tier = inst[n].tier
                             /\ inst'[n].state = inst[n].state
                             /\ inst'[n].completion = inst[n].completion
    BY <1>5, <1>6
  <1>9. TypeOK'
    BY <1>1, <1>6, ReturnFacts, TypeSame DEF BInv, TypeOK
  <1>10. CallOK(c)' /\ Waited(c)' /\ StatusOK'
    BY <1>1, ReturnFacts, ReturnStatus DEF BInv
  <1>11. Reserved'
    BY <1>1, <1>6, <1>8, ReturnFacts DEF BInv, Reserved
  <1>12. Destined'
    BY <1>1, <1>6, <1>8, DestinedKeep DEF Open
  <1>13. FilesOpen'
    BY <1>1, <1>8 DEF BInv, FilesOpen, Open, TypeOK
  <1>14. BooksOK'
    BY <1>1, <1>6, <1>8, SameBooks DEF BInv
  <1>15. \A b \in Clients : b # c => \A n \in Held(b) : n \notin {Idle.source, Idle.target}
    BY DEF Held, Idle
  <1>16. call'[c] = Idle /\ (\A b \in Clients : b # c => call'[b] = call[b])
         /\ \A j \in Jobs : jobs'[j] = jobs[j]
    BY <1>1, ReturnFacts DEF BInv
  <1>17. \A b \in Clients : b # c /\ i \in Held(b) =>
           /\ i # call[b].target /\ inst'[i].state = inst[i].state
           /\ inst'[i].completion = inst[i].completion
    BY <1>2, <1>7, <1>8
  <1> QED
    BY <1>6, <1>9, <1>10, <1>11, <1>12, <1>13, <1>14, <1>15, <1>16, <1>17, InstStep

\* After its waits, what a transfer needs has ended well, and no transfer under
\* way writes either of its instances.
LEMMA SubmitFacts ==
  ASSUME BInv, NEW c \in Clients, Submit(c), NEW s, NEW d,
         s = call[c].source, d = call[c].target
  PROVE  /\ s \in Instances /\ d \in Instances /\ s # d /\ s # 0 /\ d # 0 /\ Open(s) /\ Open(d)
         /\ call[c] \in ClientState /\ call[c].op = "transfer" /\ call[c].waits = {}
         /\ \A j \in TransferWaits(s, d) : jobs[j].state = "done"
         /\ \A j \in Jobs : ~Finished(j) => jobs[j].destination \notin {s, d}
         /\ \A b \in Clients : b # c => d \notin Held(b)
  <1>1. call[c].op = "transfer" /\ call[c].waits = {} /\ call[c] \in ClientState
    BY CallFacts DEF Submit
  <1>2. s \in Instances /\ d \in Instances /\ s # d /\ s # 0 /\ d # 0 /\ Open(s) /\ Open(d)
    BY <1>1, CallFacts DEF CallOK, Copying, ClientState
  <1>3. \A j \in TransferWaits(s, d) : jobs[j].state = "done"
    BY <1>1, CallFacts DEF Waited
  <1>4. ASSUME NEW j \in Jobs, ~Finished(j), jobs[j].destination \in {s, d} PROVE FALSE
    <2>1. inst[jobs[j].destination].completion = j /\ j # 0
      BY <1>4, TypeFacts DEF BInv, Destined, Jobs
    <2>2. j \in TransferWaits(s, d)
      BY <1>4, <2>1 DEF TransferWaits, Pending, Written
    <2> QED BY <1>3, <1>4, <2>2 DEF Finished
  <1>5. \A b \in Clients : b # c => d \notin Held(b)
    BY <1>2, TargetAlone
  <1> QED BY <1>1, <1>2, <1>3, <1>4, <1>5

\* What a submission appends and what it does to the destination.
LEMMA SubmitStep ==
  ASSUME BInv, NEW c \in Clients, Submit(c), NEW s, NEW d, NEW n,
         s = call[c].source, d = call[c].target, n = Len(jobs) + 1
  PROVE  /\ Jobs' = Jobs \cup {n} /\ Instances' = Instances /\ n \notin Jobs /\ n # 0
         /\ jobs' \in Seq(HierarchyCompletion') /\ inst' \in Seq(PhysicalInstance')
         /\ \A j \in Jobs : jobs'[j] = jobs[j]
         /\ jobs'[n].content = inst[s].content
         /\ \/ /\ jobs'[n].state = "done" /\ inst'[d].content = inst[s].content
            \/ /\ jobs'[n].state = "queued" /\ inst'[d].content = inst[d].content
               /\ jobs'[n].source = s /\ jobs'[n].destination = d
         /\ \A k \in Instances : k # d => inst'[k] = inst[k]
         /\ inst'[d].completion = n /\ inst'[d].readers = {} /\ inst'[d].state = inst[d].state
         /\ inst'[d].value = inst[d].value /\ inst'[d].tier = inst[d].tier
         /\ call'[c] = [call[c] EXCEPT !.op = "filter"]
         /\ \A b \in Clients : b # c => call'[b] = call[b]
         /\ UNCHANGED <<live, files, status, writes>>
         /\ ClientState \subseteq ClientState'
  <1>1. s \in Instances /\ d \in Instances
    BY SubmitFacts
  <1>2. inst[s] \in PhysicalInstance /\ inst[d] \in PhysicalInstance
    BY <1>1, TypeFacts DEF BInv
  <1> DEFINE copied == Kind(s, d) = "copy"
             job == [source |-> s, destination |-> d, kind |-> Kind(s, d),
                     state |-> "queued", content |-> inst[s].content]
             J == IF copied THEN Ended(job, "done") ELSE job
             q == [inst[d] EXCEPT !.completion = n, !.readers = {},
                                  !.content = IF copied THEN inst[s].content ELSE @]
  <1>3. /\ jobs' = Append(jobs, J) /\ inst' = [inst EXCEPT ![d] = q]
        /\ call' = [call EXCEPT ![c].op = "filter"] /\ UNCHANGED <<live, files, status, writes>>
    BY DEF Submit
  <1>4. Kind(s, d) \in {"file", "stream", "copy"}
    BY DEF Kind
  <1>5. /\ J \in HierarchyCompletion /\ J.content = inst[s].content
        /\ \/ copied /\ J.state = "done"
           \/ ~copied /\ J.state = "queued" /\ J.source = s /\ J.destination = d
    BY <1>1, <1>2, <1>4 DEF HierarchyCompletion, Ended, PhysicalInstance
  <1>6. /\ q.completion = n /\ q.readers = {} /\ q.state = inst[d].state
        /\ q.value = inst[d].value /\ q.tier = inst[d].tier
        /\ q.content = IF copied THEN inst[s].content ELSE inst[d].content
    BY <1>2 DEF PhysicalInstance
  <1>7. inst \in Seq(PhysicalInstance) /\ d \in 1 .. Len(inst)
    BY <1>1 DEF BInv, TypeOK, Instances
  <1> HIDE DEF J, copied
  <1>8. /\ inst' \in Seq(PhysicalInstance \cup {q}) /\ Len(inst') = Len(inst)
        /\ inst'[d] = q /\ \A k \in Instances : k # d => inst'[k] = inst[k]
    <2> HIDE DEF q
    <2>1. inst \in Seq(PhysicalInstance \cup {q}) /\ q \in PhysicalInstance \cup {q}
      BY <1>7, TypeFacts, Retyped DEF Instances, BInv
    <2> QED BY <1>3, <1>7, <2>1, Update DEF Instances
  <1>9. /\ jobs' \in Seq(HierarchyCompletion')
        /\ Jobs' = Jobs \cup {n} /\ Instances' = Instances
        /\ n \notin Jobs /\ n # 0
        /\ jobs'[n] = J /\ \A k \in Jobs : jobs'[k] = jobs[k]
        /\ ClientState \subseteq ClientState' /\ PhysicalInstance \subseteq PhysicalInstance'
    BY <1>3, <1>5, <1>8, MoreTransfers DEF BInv
  <1>10. q \in PhysicalInstance'
    BY <1>2, <1>9 DEF PhysicalInstance, Contents
  <1>11. inst' \in Seq(PhysicalInstance')
    BY <1>8, <1>9, <1>10, Retyped
  <1>12. call'[c] = [call[c] EXCEPT !.op = "filter"] /\ \A b \in Clients : b # c => call'[b] = call[b]
    BY <1>3, CallOf DEF BInv
  <1> QED BY <1>3, <1>5, <1>6, <1>8, <1>9, <1>11, <1>12

\* The new transfer is its destination's completion.
LEMMA SubmitBooks ==
  ASSUME BInv, NEW c \in Clients, Submit(c)
  PROVE  BInv'
  <1>0. PICK s, d, n : s = call[c].source /\ d = call[c].target /\ n = Len(jobs) + 1
    OBVIOUS
  <1>1. /\ s \in Instances /\ d \in Instances /\ s # d /\ s # 0 /\ d # 0 /\ Open(s) /\ Open(d)
        /\ call[c] \in ClientState /\ call[c].op = "transfer" /\ call[c].waits = {}
        /\ \A j \in Jobs : ~Finished(j) => jobs[j].destination \notin {s, d}
        /\ \A b \in Clients : b # c => d \notin Held(b)
    BY <1>0, SubmitFacts
  <1>2. /\ Jobs' = Jobs \cup {n} /\ Instances' = Instances /\ n \notin Jobs /\ n # 0
        /\ jobs' \in Seq(HierarchyCompletion') /\ inst' \in Seq(PhysicalInstance')
        /\ \A j \in Jobs : jobs'[j] = jobs[j]
        /\ \/ jobs'[n].state = "done"
           \/ jobs'[n].state = "queued" /\ jobs'[n].source = s /\ jobs'[n].destination = d
        /\ \A k \in Instances : k # d => inst'[k] = inst[k]
        /\ inst'[d].completion = n /\ inst'[d].state = inst[d].state
        /\ inst'[d].value = inst[d].value /\ inst'[d].tier = inst[d].tier
        /\ call'[c] = [call[c] EXCEPT !.op = "filter"]
        /\ \A b \in Clients : b # c => call'[b] = call[b]
        /\ UNCHANGED <<live, files, status, writes>>
        /\ ClientState \subseteq ClientState'
    BY <1>0, SubmitStep
  <1>3. /\ call'[c].op = "filter" /\ call'[c].source = s /\ call'[c].target = d
        /\ call'[c].waits = {} /\ call'[c] \in ClientState
    BY <1>0, <1>1, <1>2 DEF ClientState
  <1>4. TypeOK'
    <2>1. call' \in [Clients -> ClientState']
      BY <1>2, <1>3 DEF BInv, TypeOK, Submit
    <2> QED BY <1>2, <2>1 DEF BInv, TypeOK
  <1>5. CallOK(c)' /\ Waited(c)'
    BY <1>1, <1>2, <1>3 DEF CallOK, Waited, Copying, Open
  <1>6. \A k \in Instances : /\ inst'[k].value = inst[k].value /\ inst'[k].tier = inst[k].tier
                             /\ inst'[k].state = inst[k].state
    BY <1>2
  <1>7. StatusOK'
    <2>1. status = "up"
      BY <1>1 DEF BInv, StatusOK, TypeOK
    <2> QED BY <1>1, <1>2, <1>3, <2>1 DEF BInv, StatusOK
  <1>8. Reserved'
    <2>1. ASSUME NEW k \in Instances, inst'[k].state = "reserved"
          PROVE  \E b \in Clients : call'[b].op = "allocate" /\ call'[b].target = k
      <3>1. PICK b \in Clients : call[b].op = "allocate" /\ call[b].target = k
        BY <1>6, <2>1 DEF BInv, Reserved
      <3> QED BY <1>1, <1>2, <3>1
    <2> QED BY <1>2, <2>1 DEF Reserved
  <1>9. Destined'
    <2> SUFFICES ASSUME NEW j \in Jobs', jobs'[j].state \notin {"done", "failed"}
                 PROVE  /\ jobs'[j].source # 0 /\ jobs'[j].destination # 0
                        /\ inst'[jobs'[j].destination].state = "open"
                        /\ inst'[jobs'[j].destination].completion = j
                        /\ \A k \in Instances : inst'[k].completion = j => k = jobs'[j].destination
      BY <1>2 DEF Destined, Finished, Open
    <2>1. \A k \in Instances : inst[k].completion \in {0} \cup Jobs
      BY TypeFacts DEF BInv, PhysicalInstance
    <2>2. \A k \in Jobs : jobs[k].destination # 0 => jobs[k].destination \in Instances
      BY TypeFacts DEF BInv, HierarchyCompletion
    <2>3. CASE j = n
      BY <1>1, <1>2, <2>1, <2>3 DEF Open
    <2>4. CASE j # n
      <3>1. j \in Jobs /\ ~Finished(j) /\ jobs'[j] = jobs[j]
        BY <1>2, <2>4 DEF Finished
      <3>2. /\ jobs[j].source # 0 /\ jobs[j].destination # 0 /\ jobs[j].destination # d
            /\ Open(jobs[j].destination) /\ inst[jobs[j].destination].completion = j
            /\ \A k \in Instances : inst[k].completion = j => k = jobs[j].destination
        BY <1>1, <3>1 DEF BInv, Destined
      <3>3. inst'[jobs[j].destination] = inst[jobs[j].destination]
        BY <1>2, <2>2, <3>1, <3>2
      <3>4. \A k \in Instances : inst'[k].completion = j => k = jobs[j].destination
        BY <1>2, <2>4, <3>2
      <3> QED BY <3>1, <3>2, <3>3, <3>4 DEF Open
    <2> QED BY <2>3, <2>4
  <1>10. FilesOpen'
    BY <1>2, <1>6 DEF BInv, FilesOpen, Open, TypeOK
  <1>11. BooksOK'
    BY <1>2, <1>6, SameBooks DEF BInv
  <1>12. \A b \in Clients : b # c => \A k \in Held(b) : k \in {call'[c].source, call'[c].target} =>
           SharedSource /\ k = call[b].source /\ k = call'[c].source
    BY <1>0, <1>3, CallFacts DEF Held
  <1>13. \A b \in Clients : b # c /\ d \in Held(b) =>
           /\ d # call[b].target /\ inst'[d].state = inst[d].state
           /\ inst'[d].completion = inst[d].completion
    BY <1>1
  <1>14. /\ \A b \in Clients : b # c => call'[b] = call[b]
         /\ \A k \in Instances : k # d => inst'[k] = inst[k]
         /\ \A j \in Jobs : jobs'[j] = jobs[j]
    BY <1>2
  <1> QED
    BY <1>4, <1>5, <1>7, <1>8, <1>9, <1>10, <1>11, <1>12, <1>13, <1>14, InstStep

-----------------------------------------------------------------------------
(* Steps in the background, and writes: contents change, transfers go on.  *)

\* A background step or a write: outcomes and contents change, nothing else.
LEMMA BackStep ==
  ASSUME BInv, call' = call, live' = live, status' = status, writes' \in 0 .. MaxWrites,
         Instances' = Instances, Jobs' = Jobs,
         inst' \in Seq(PhysicalInstance), jobs' \in Seq(HierarchyCompletion),
         \A k \in Instances : /\ inst'[k].value = inst[k].value /\ inst'[k].tier = inst[k].tier
                              /\ inst'[k].state = inst[k].state
                              /\ inst'[k].completion = inst[k].completion
                              /\ inst'[k].readers = inst[k].readers,
         \A j \in Jobs : /\ jobs[j].state = "done" => jobs'[j].state = "done"
                         /\ Finished(j) => jobs'[j].state \in {"done", "failed"}
                         /\ jobs'[j].state \notin {"done", "failed"} =>
                              /\ jobs'[j].source = jobs[j].source
                              /\ jobs'[j].destination = jobs[j].destination,
         files' \subseteq {i \in Instances : Open(i)}
  PROVE  BInv'
  <1>1. PhysicalInstance' = PhysicalInstance /\ HierarchyCompletion' = HierarchyCompletion
        /\ ClientState' = ClientState
    BY DEF PhysicalInstance, HierarchyCompletion, ClientState, Contents
  <1>2. TypeOK'
    BY <1>1 DEF BInv, TypeOK
  <1>3. \A i \in Instances : Open(i)' <=> Open(i)
    BY DEF Open
  <1>4. Calls'
    <2>1. ASSUME NEW c \in Clients PROVE CallOK(c)' /\ Waited(c)'
      <3>1. call[c] \in ClientState /\ CallOK(c) /\ Waited(c)
        BY CallFacts
      <3>2. CallOK(c)'
        BY <3>1 DEF CallOK, Open, Copying, ClientState
      <3>3. \A k \in Instances : inst[k].completion \in {0} \cup Jobs /\ inst[k].readers \subseteq Jobs
        BY TypeFacts DEF BInv, PhysicalInstance
      <3>4. ASSUME call[c].op = "transfer", NEW j \in TransferWaits(call[c].source, call[c].target)'
            PROVE  j \in call[c].waits \/ jobs'[j].state = "done"
        <4>1. call[c].source \in Instances /\ call[c].target \in Instances
          BY <3>1, <3>4 DEF CallOK, Copying, ClientState
        <4>2. j \in TransferWaits(call[c].source, call[c].target) /\ j \in Jobs
          BY <3>3, <3>4, <4>1 DEF TransferWaits, Pending, Written
        <4> QED BY <3>1, <3>4, <4>2 DEF Waited
      <3>5. ASSUME call[c].op \in {"close", "shutdown"}, call[c].target # 0,
                   NEW j \in CloseWaits(call[c].target)'
            PROVE  j \in call[c].waits \/ jobs'[j].state \in {"done", "failed"}
        <4>1. call[c].target \in Instances
          BY <3>1, <3>5 DEF ClientState
        <4>2. j \in CloseWaits(call[c].target) /\ j \in Jobs
          BY <3>3, <3>5, <4>1 DEF CloseWaits, Pending, Written
        <4> QED BY <3>1, <3>5, <4>2 DEF Waited
      <3> QED BY <3>2, <3>4, <3>5 DEF Waited, Finished, TransferWaits, CloseWaits, Pending, Written
    <2> QED BY <2>1 DEF Calls
  <1>5. Exclusive'
    <2>1. \A c \in Clients : Held(c)' = Held(c)
      BY DEF Held
    <2> QED BY <2>1 DEF BInv, Exclusive
  <1>6. Reserved'
    BY DEF BInv, Reserved
  <1>7. StatusOK'
    BY <1>3 DEF BInv, StatusOK
  <1>8. Destined'
    <2>1. ASSUME NEW j \in Jobs, jobs'[j].state \notin {"done", "failed"}
          PROVE  /\ jobs'[j].source # 0 /\ jobs'[j].destination # 0
                 /\ inst'[jobs'[j].destination].state = "open"
                 /\ inst'[jobs'[j].destination].completion = j
                 /\ \A k \in Instances : inst'[k].completion = j => k = jobs'[j].destination
      <3>1. ~Finished(j) /\ jobs'[j].source = jobs[j].source
            /\ jobs'[j].destination = jobs[j].destination
        BY <2>1
      <3>2. jobs[j].destination # 0 => jobs[j].destination \in Instances
        BY TypeFacts DEF BInv, HierarchyCompletion
      <3> QED BY <3>1, <3>2 DEF BInv, Destined, Open
    <2> QED BY <2>1 DEF Destined, Finished, Open
  <1>9. FilesOpen'
    BY <1>3 DEF FilesOpen
  <1>10. BooksOK'
    BY SameBooks DEF BInv
  <1> QED BY <1>2, <1>4, <1>5, <1>6, <1>7, <1>8, <1>9, <1>10 DEF BInv

\* One content changes.
LEMMA ContentStep ==
  ASSUME BInv, NEW i \in Instances, NEW x \in Contents,
         inst' = [inst EXCEPT ![i].content = x]
  PROVE  /\ inst' \in Seq(PhysicalInstance) /\ Instances' = Instances
         /\ \A k \in Instances : /\ inst'[k].value = inst[k].value /\ inst'[k].tier = inst[k].tier
                                 /\ inst'[k].state = inst[k].state
                                 /\ inst'[k].completion = inst[k].completion
                                 /\ inst'[k].readers = inst[k].readers
         /\ inst'[i].content = x /\ \A k \in Instances : k # i => inst'[k].content = inst[k].content
  <1> DEFINE q == [inst[i] EXCEPT !.content = x]
  <1>1. inst[i] \in PhysicalInstance
    BY TypeFacts DEF BInv
  <1>2. /\ q \in PhysicalInstance /\ q.value = inst[i].value /\ q.tier = inst[i].tier
        /\ q.state = inst[i].state /\ q.completion = inst[i].completion
        /\ q.readers = inst[i].readers /\ q.content = x
    BY <1>1 DEF PhysicalInstance
  <1>3. inst' = [inst EXCEPT ![i] = q]
    OBVIOUS
  <1> HIDE DEF q
  <1>4. /\ inst' \in Seq(PhysicalInstance) /\ Instances' = Instances
        /\ inst'[i] = q /\ \A k \in Instances : k # i => inst'[k] = inst[k]
    BY <1>2, <1>3, InstanceStep DEF BInv
  <1> QED BY <1>2, <1>4

\* One transfer gets another state; when it has ended it lets its instances go.
LEMMA OutcomeStep ==
  ASSUME BInv, NEW j \in Jobs, ~Finished(j), NEW x,
         \/ x = "running" /\ jobs' = [jobs EXCEPT ![j].state = "running"]
         \/ x \in {"done", "failed"} /\ jobs' = [jobs EXCEPT ![j] = Ended(@, x)]
  PROVE  /\ jobs' \in Seq(HierarchyCompletion) /\ Jobs' = Jobs
         /\ jobs'[j].state = x /\ jobs'[j].content = jobs[j].content
         /\ \A k \in Jobs : k # j => jobs'[k] = jobs[k]
         /\ \A k \in Jobs : /\ jobs[k].state = "done" => jobs'[k].state = "done"
                            /\ Finished(k) => jobs'[k].state \in {"done", "failed"}
                            /\ jobs'[k].state \notin {"done", "failed"} =>
                                 /\ jobs'[k].source = jobs[k].source
                                 /\ jobs'[k].destination = jobs[k].destination
  <1>1. jobs[j] \in HierarchyCompletion
    BY TypeFacts DEF BInv
  <1>2. PICK q : /\ jobs' = [jobs EXCEPT ![j] = q]
                 /\ q = IF x = "running" THEN [jobs[j] EXCEPT !.state = "running"]
                                         ELSE Ended(jobs[j], x)
    OBVIOUS
  <1>3. /\ q \in HierarchyCompletion /\ q.state = x /\ q.content = jobs[j].content
        /\ x = "running" => q.source = jobs[j].source /\ q.destination = jobs[j].destination
    BY <1>1, <1>2 DEF HierarchyCompletion, Ended
  <1>4. /\ jobs' \in Seq(HierarchyCompletion) /\ Jobs' = Jobs
        /\ jobs'[j] = q /\ \A k \in Jobs : k # j => jobs'[k] = jobs[k]
    BY <1>2, <1>3, JobStep DEF BInv
  <1> QED BY <1>3, <1>4 DEF Finished

\* The instances of a transfer under way.
LEMMA UnderWay ==
  ASSUME BInv, NEW j \in Jobs, ~Finished(j)
  PROVE  /\ jobs[j].source \in Instances /\ jobs[j].destination \in Instances
         /\ Open(jobs[j].destination) /\ inst[jobs[j].destination].completion = j
  BY TypeFacts DEF BInv, Destined, HierarchyCompletion

\* A transfer starts ...
LEMMA BeginBooks ==
  ASSUME BInv, NEW j \in Jobs, Begin(j)
  PROVE  BInv'
  <1>0. PICK d : d = jobs[j].destination
    OBVIOUS
  <1>1. /\ ~Finished(j) /\ inst' = [inst EXCEPT ![d].content = Torn]
        /\ files' = IF inst[d].tier \in FileTiers THEN files \cup {d} ELSE files
        /\ jobs' = [jobs EXCEPT ![j].state = "running"]
        /\ UNCHANGED <<live, call, status, writes>>
    BY <1>0 DEF Begin, Finished
  <1>2. d \in Instances /\ Open(d)
    BY <1>0, <1>1, UnderWay
  <1>3. Torn \in Contents
    BY DEF Contents
  <1>4. files' \subseteq {i \in Instances : Open(i)}
    BY <1>1, <1>2 DEF BInv, FilesOpen, TypeOK
  <1>5. writes' \in 0 .. MaxWrites
    BY <1>1 DEF BInv, TypeOK
  <1>6. /\ inst' \in Seq(PhysicalInstance) /\ Instances' = Instances
        /\ \A k \in Instances : /\ inst'[k].value = inst[k].value /\ inst'[k].tier = inst[k].tier
                                /\ inst'[k].state = inst[k].state
                                /\ inst'[k].completion = inst[k].completion
                                /\ inst'[k].readers = inst[k].readers
    BY <1>1, <1>2, <1>3, ContentStep
  <1>7. /\ jobs' \in Seq(HierarchyCompletion) /\ Jobs' = Jobs
        /\ \A k \in Jobs : /\ jobs[k].state = "done" => jobs'[k].state = "done"
                           /\ Finished(k) => jobs'[k].state \in {"done", "failed"}
                           /\ jobs'[k].state \notin {"done", "failed"} =>
                                /\ jobs'[k].source = jobs[k].source
                                /\ jobs'[k].destination = jobs[k].destination
    BY <1>1, OutcomeStep
  <1> QED BY <1>1, <1>4, <1>5, <1>6, <1>7, BackStep

\* ... ends well ...
LEMMA CompleteBooks ==
  ASSUME BInv, NEW j \in Jobs, Complete(j)
  PROVE  BInv'
  <1>0. PICK d, x : /\ d = jobs[j].destination
                    /\ x = IF inst[d].content = Torn /\ inst[jobs[j].source].content = jobs[j].content
                           THEN inst[jobs[j].source].content ELSE Torn
    OBVIOUS
  <1>1. /\ ~Finished(j) /\ inst' = [inst EXCEPT ![d].content = x]
        /\ jobs' = [jobs EXCEPT ![j] = Ended(@, "done")]
        /\ UNCHANGED <<live, call, files, status, writes>>
    BY <1>0 DEF Complete, Finished
  <1>2. d \in Instances /\ jobs[j].source \in Instances
    BY <1>0, <1>1, UnderWay
  <1>3. x \in Contents
    BY <1>0, <1>2, TypeFacts DEF BInv, PhysicalInstance, Contents
  <1>4. files' \subseteq {i \in Instances : Open(i)}
    BY <1>1 DEF BInv, FilesOpen, TypeOK
  <1>5. writes' \in 0 .. MaxWrites
    BY <1>1 DEF BInv, TypeOK
  <1>6. /\ inst' \in Seq(PhysicalInstance) /\ Instances' = Instances
        /\ \A k \in Instances : /\ inst'[k].value = inst[k].value /\ inst'[k].tier = inst[k].tier
                                /\ inst'[k].state = inst[k].state
                                /\ inst'[k].completion = inst[k].completion
                                /\ inst'[k].readers = inst[k].readers
    BY <1>1, <1>2, <1>3, ContentStep
  <1>7. /\ jobs' \in Seq(HierarchyCompletion) /\ Jobs' = Jobs
        /\ \A k \in Jobs : /\ jobs[k].state = "done" => jobs'[k].state = "done"
                           /\ Finished(k) => jobs'[k].state \in {"done", "failed"}
                           /\ jobs'[k].state \notin {"done", "failed"} =>
                                /\ jobs'[k].source = jobs[k].source
                                /\ jobs'[k].destination = jobs[k].destination
    BY <1>1, OutcomeStep
  <1> QED BY <1>1, <1>4, <1>5, <1>6, <1>7, BackStep

\* ... or fails.
LEMMA FailBooks ==
  ASSUME BInv, NEW j \in Jobs, Fail(j)
  PROVE  BInv'
  <1>1. /\ ~Finished(j) /\ jobs' = [jobs EXCEPT ![j] = Ended(@, "failed")]
        /\ UNCHANGED <<inst, live, call, files, status, writes>>
    BY DEF Fail, Poison, Finished
  <1>2. files' \subseteq {i \in Instances : Open(i)} /\ writes' \in 0 .. MaxWrites
        /\ inst' \in Seq(PhysicalInstance) /\ Instances' = Instances
    BY <1>1 DEF BInv, FilesOpen, TypeOK, Instances
  <1>3. /\ jobs' \in Seq(HierarchyCompletion) /\ Jobs' = Jobs
        /\ \A k \in Jobs : /\ jobs[k].state = "done" => jobs'[k].state = "done"
                           /\ Finished(k) => jobs'[k].state \in {"done", "failed"}
                           /\ jobs'[k].state \notin {"done", "failed"} =>
                                /\ jobs'[k].source = jobs[k].source
                                /\ jobs'[k].destination = jobs[k].destination
    BY <1>1, OutcomeStep
  <1> QED BY <1>1, <1>2, <1>3, BackStep

\* A client writes a content of its own.
LEMMA WriteBooks ==
  ASSUME BInv, NEW c \in Clients, NEW i \in Instances, Write(c, i)
  PROVE  BInv'
  <1>1. /\ writes < MaxWrites /\ writes' = writes + 1 /\ inst' = [inst EXCEPT ![i].content = writes + 1]
        /\ UNCHANGED <<live, jobs, call, files, status>>
    BY DEF Write
  <1>2. writes + 1 \in 1 .. MaxWrites
    BY <1>1, HierarchyAssumption DEF BInv, TypeOK
  <1>3. writes + 1 \in Contents /\ writes' \in 0 .. MaxWrites
    BY <1>1, <1>2, HierarchyAssumption DEF Contents
  <1>4. files' \subseteq {k \in Instances : Open(k)} /\ jobs' \in Seq(HierarchyCompletion)
        /\ Jobs' = Jobs
    BY <1>1 DEF BInv, FilesOpen, TypeOK, Jobs
  <1>5. /\ inst' \in Seq(PhysicalInstance) /\ Instances' = Instances
        /\ \A k \in Instances : /\ inst'[k].value = inst[k].value /\ inst'[k].tier = inst[k].tier
                                /\ inst'[k].state = inst[k].state
                                /\ inst'[k].completion = inst[k].completion
                                /\ inst'[k].readers = inst[k].readers
    BY <1>1, <1>3, ContentStep
  <1> QED BY <1>1, <1>3, <1>4, <1>5, BackStep DEF Finished

-----------------------------------------------------------------------------
(* The first half is an invariant.                                         *)

\* Nothing is allocated and everybody rests.
LEMMA BooksInit == Init => BInv
  <1> SUFFICES ASSUME Init PROVE BInv
    OBVIOUS
  <1>1. Len(inst) = 0 /\ Len(jobs) = 0 /\ Instances = {} /\ Jobs = {}
    BY DEF Init, Instances, Jobs
  <1>2. \A c \in Clients : call[c] = Idle
    BY DEF Init
  <1>3. Idle \in ClientState /\ Idle.op = "idle" /\ Idle.source = 0 /\ Idle.target = 0
    BY DEF Idle, ClientState
  <1>4. TypeOK
    <2>1. inst \in Seq(PhysicalInstance) /\ jobs \in Seq(HierarchyCompletion)
      BY DEF Init
    <2>2. call \in [Clients -> ClientState] /\ live \in [Tiers -> Int]
      BY <1>3 DEF Init
    <2>3. files \subseteq Instances /\ status \in {"up", "closing", "down"} /\ writes \in 0 .. MaxWrites
      BY HierarchyAssumption DEF Init
    <2> QED BY <2>1, <2>2, <2>3 DEF TypeOK
  <1>5. Calls /\ Exclusive
    BY <1>2, <1>3 DEF Calls, CallOK, Waited, Copying, Exclusive, Held
  <1>6. Reserved /\ StatusOK /\ Destined /\ FilesOpen
    BY <1>1, <1>2, <1>3 DEF Init, Reserved, StatusOK, Destined, FilesOpen
  <1>7. BooksOK
    <2>1. ASSUME NEW t \in Tiers PROVE BytesIn(t) = {}
      BY <1>1 DEF BytesIn
    <2>2. IsFiniteSet({}) /\ Cardinality({}) = 0
      BY FS_EmptySet
    <2>3. \A t \in Tiers : live[t] = 0 /\ Budget[t] \in Nat
      BY HierarchyAssumption DEF Init
    <2> QED BY <2>1, <2>2, <2>3 DEF BooksOK, LiveExact
  <1> QED BY <1>4, <1>5, <1>6, <1>7 DEF BInv

\* Nothing changes.
LEMMA BooksStutter == BInv /\ UNCHANGED vars => BInv'
  <1> SUFFICES ASSUME BInv, UNCHANGED vars PROVE BInv'
    OBVIOUS
  <1>1. /\ inst' = inst /\ live' = live /\ jobs' = jobs /\ call' = call /\ files' = files
        /\ status' = status /\ writes' = writes
    BY DEF vars
  <1>2. inst' \in Seq(PhysicalInstance) /\ jobs' \in Seq(HierarchyCompletion)
        /\ writes' \in 0 .. MaxWrites /\ files' \subseteq {i \in Instances : Open(i)}
        /\ Instances' = Instances /\ Jobs' = Jobs
    BY <1>1 DEF BInv, TypeOK, FilesOpen, Instances, Jobs
  <1> QED BY <1>1, <1>2, BackStep DEF Finished

\* Every step keeps the first half.
LEMMA BooksStep == BInv /\ [Next]_vars => BInv'
  <1> SUFFICES ASSUME BInv, [Next]_vars PROVE BInv'
    OBVIOUS
  <1>1. ASSUME NEW c \in Clients, NEW v \in Values, NEW t \in Tiers, Allocate(c, v, t) PROVE BInv'
    BY <1>1, AllocateBooks
  <1>2. ASSUME NEW c \in Clients, NEW s \in Instances, NEW d \in Instances, Transfer(c, s, d)
        PROVE  BInv'
    BY <1>2, TransferBooks
  <1>3. ASSUME NEW c \in Clients, NEW i \in Instances, Close(c, i) \/ Write(c, i) \/ ShutdownNext(c, i)
        PROVE  BInv'
    BY <1>3, CloseBooks, WriteBooks, ShutdownNextBooks
  <1>4. ASSUME NEW c \in Clients, Shutdown(c) PROVE BInv'
    BY <1>4, ShutdownBooks
  <1>5. ASSUME NEW c \in Clients, Proceed(c) PROVE BInv'
    BY <1>3, <1>5, PublishBooks, AllocationFailsBooks, WaitBooks, SubmitBooks, FilterBooks,
       RecordBooks, ReleaseBooks, ShutdownReleaseBooks, ShutdownEndsBooks DEF Proceed
  <1>6. ASSUME NEW j \in Jobs, Background(j) PROVE BInv'
    BY <1>6, BeginBooks, CompleteBooks, FailBooks DEF Background
  <1>7. ASSUME UNCHANGED vars PROVE BInv'
    BY <1>7, BooksStutter
  <1> QED BY <1>1, <1>2, <1>3, <1>4, <1>5, <1>6, <1>7 DEF Next

\* A runtime that has shut down has given everything back.
LEMMA BooksImplyBytes == BInv => BytesOK
  <1> SUFFICES ASSUME BInv PROVE BytesOK
    OBVIOUS
  <1>1. ASSUME status = "down" PROVE files = {} /\ \A t \in Tiers : live[t] = 0
    <2>1. /\ \A c \in Clients : call[c].op = "idle"
          /\ \A i \in Instances : ~Open(i)
      BY <1>1 DEF BInv, StatusOK
    <2>2. \A i \in Instances : inst[i].state # "reserved"
      BY <2>1 DEF BInv, Reserved
    <2>3. \A i \in Instances : inst[i].state = "closed"
      BY <2>1, <2>2, TypeFacts DEF BInv, PhysicalInstance, Open
    <2>4. files = {}
      BY <2>1 DEF BInv, FilesOpen, TypeOK
    <2>5. ASSUME NEW t \in Tiers PROVE live[t] = 0
      <3>1. BytesIn(t) = {}
        BY <2>3 DEF BytesIn
      <3> QED BY <3>1, FS_EmptySet DEF BInv, BooksOK, LiveExact
    <2> QED BY <2>4, <2>5
  <1> QED BY <1>1 DEF BytesOK, NothingLeft, BInv, BooksOK

\* Whatever fails, and whoever transfers, allocates and closes beside whom: the
\* byte counters are those of the instances that are there, within the budgets,
\* and a runtime that has shut down holds no byte and no file.
THEOREM BytesAlwaysOK == Spec => []BytesOK
  <1>1. Spec => []BInv
    BY BooksInit, BooksStep, PTL DEF Spec
  <1> QED BY <1>1, BooksImplyBytes, PTL

-----------------------------------------------------------------------------
(* The second half: what transfers read and write.                         *)

\* What TInv says of one transfer under way.
LEMMA TransferFacts ==
  ASSUME BInv, TInv, NEW j \in Jobs, ~Finished(j)
  PROVE  /\ jobs[j].source \in Instances /\ Open(jobs[j].source)
         /\ \/ j \in inst[jobs[j].source].readers
            \/ \E c \in Clients : Adding(j, c)
         /\ inst[jobs[j].source].content = jobs[j].content
  BY UnderWay DEF TInv, Read, Kept

\* A step of c that leaves instances and transfers alone.
LEMMA QuietCall ==
  ASSUME BInv, TInv, NEW c \in Clients, inst' = inst, jobs' = jobs,
         \A b \in Clients : b # c => call'[b] = call[b],
         call[c].op \notin {"filter", "record"}, call'[c].op \notin {"filter", "record"}
  PROVE  TInv'
  <1>1. Jobs' = Jobs /\ Instances' = Instances
    BY DEF Jobs, Instances
  <1>2. Read'
    BY <1>1 DEF TInv, Read, Adding, Open, Finished
  <1>3. Apart' /\ Kept'
    BY <1>1 DEF TInv, Apart, Kept, Finished
  <1>4. NothingTorn'
    BY <1>1 DEF TInv, NothingTorn, TornIsMarked, NothingTornCopied
  <1> QED BY <1>2, <1>3, <1>4 DEF TInv

\* What is kept are the readers that have not ended.
LEMMA FilterTransfers ==
  ASSUME BInv, TInv, NEW c \in Clients, Filter(c)
  PROVE  TInv'
  <1> DEFINE k == {j \in inst[call[c].source].readers : ~Finished(j)}
  <1>1. /\ call[c].op = "filter" /\ call' = [call EXCEPT ![c].op = "record", ![c].kept = k]
        /\ UNCHANGED <<inst, live, jobs, files, status, writes>>
    BY DEF Filter
  <1>2. call[c] \in ClientState
    BY CallFacts
  <1>3. /\ call'[c].op = "record" /\ call'[c].source = call[c].source
        /\ call'[c].target = call[c].target /\ call'[c].kept = k
        /\ \A b \in Clients : b # c => call'[b] = call[b]
    BY <1>1, <1>2 DEF BInv, TypeOK, ClientState
  <1>4. Jobs' = Jobs /\ Instances' = Instances
    BY <1>1 DEF Jobs, Instances
  <1>5. \A j : \A b \in Clients : Adding(j, b) => Adding(j, b)'
    BY <1>1, <1>3 DEF Adding
  <1>6. \A b \in Clients : call'[b].op = "record" =>
          \A j \in inst[call'[b].source].readers : j \in call'[b].kept \/ Finished(j)
    <2>1. \A j \in inst[call[c].source].readers : j \in k \/ Finished(j)
      OBVIOUS
    <2> HIDE DEF k
    <2> QED BY <1>3, <2>1 DEF TInv, Read
  <1>7. Read'
    BY <1>1, <1>4, <1>5, <1>6 DEF TInv, Read, Open, Finished
  <1>8. Apart' /\ Kept'
    BY <1>1, <1>4 DEF TInv, Apart, Kept, Finished
  <1>9. NothingTorn'
    BY <1>1, <1>4 DEF TInv, NothingTorn, TornIsMarked, NothingTornCopied
  <1> QED BY <1>7, <1>8, <1>9 DEF TInv

\* The transfer that was being added is among the readers; with one client at
\* its source, no reader that goes on is lost.
LEMMA RecordTransfers ==
  ASSUME BInv, TInv, ~SharedSource, NEW c \in Clients, Record(c)
  PROVE  TInv'
  <1>0. PICK i : i = call[c].source
    OBVIOUS
  <1> DEFINE k == call[c].kept \cup {inst[call[c].target].completion}
             q == [inst[i] EXCEPT !.readers = k]
  <1>1. /\ call[c].op = "record" /\ inst' = [inst EXCEPT ![i] = q] /\ Return(c)
        /\ UNCHANGED <<live, jobs, files, status, writes>>
    BY <1>0 DEF Record
  <1>2. /\ call[c] \in ClientState /\ i \in Instances /\ i # 0
        /\ inst[call[c].target].completion \in Jobs
    <2>1. call[c] \in ClientState /\ i \in Instances /\ i # 0 /\ call[c].target \in Instances
          /\ inst[call[c].target].completion # 0
      BY <1>0, <1>1, CallFacts DEF CallOK, ClientState, Copying
    <2> QED BY <2>1, TypeFacts DEF BInv, PhysicalInstance
  <1>3. inst[i] \in PhysicalInstance
    BY <1>2, TypeFacts DEF BInv
  <1>4. k \subseteq Jobs
    BY <1>2 DEF ClientState
  <1>5. /\ q \in PhysicalInstance /\ q.state = inst[i].state /\ q.completion = inst[i].completion
        /\ q.content = inst[i].content /\ q.readers = k
    BY <1>3, <1>4 DEF PhysicalInstance
  <1> HIDE DEF q
  <1>6. /\ Instances' = Instances /\ inst'[i] = q /\ \A n \in Instances : n # i => inst'[n] = inst[n]
    BY <1>1, <1>2, <1>5, InstanceStep DEF BInv
  <1>7. /\ call'[c].op = "idle" /\ \A b \in Clients : b # c => call'[b] = call[b]
    BY <1>1, ReturnFacts DEF BInv
  <1>8. \A b \in Clients : b # c => call[b].source # i
    BY <1>0, <1>2, CallFacts DEF Held
  <1>9. \A n \in Instances : /\ inst'[n].content = inst[n].content /\ inst'[n].state = inst[n].state
                             /\ inst'[n].completion = inst[n].completion
    BY <1>5, <1>6
  <1>10. Jobs' = Jobs
    BY <1>1 DEF Jobs
  <1>11. ASSUME NEW j \in Jobs, ~Finished(j)
         PROVE  /\ inst'[jobs[j].source].state = "open"
                /\ \/ j \in inst'[jobs[j].source].readers
                   \/ \E b \in Clients : Adding(j, b)'
    <2>1. /\ jobs[j].source \in Instances /\ Open(jobs[j].source)
          /\ \/ j \in inst[jobs[j].source].readers
             \/ \E b \in Clients : Adding(j, b)
      BY <1>11, TransferFacts
    <2>2. CASE jobs[j].source = i
      <3>1. CASE j \in inst[i].readers
        <4>1. j \in k
          BY <1>0, <1>1, <1>11, <3>1 DEF TInv, Read
        <4> QED BY <1>5, <1>6, <1>9, <2>1, <2>2, <4>1 DEF Open
      <3>2. CASE \E b \in Clients : Adding(j, b)
        <4>1. Adding(j, c)
          BY <1>8, <2>2, <3>2 DEF Adding
        <4>2. inst[call[c].target].completion = j
          BY <1>11, <4>1, UnderWay DEF Adding
        <4> QED BY <1>5, <1>6, <1>9, <2>1, <2>2, <4>2 DEF Open
      <3> QED BY <2>1, <2>2, <3>1, <3>2
    <2>3. CASE jobs[j].source # i
      <3>1. inst'[jobs[j].source] = inst[jobs[j].source]
        BY <1>6, <2>1, <2>3
      <3>2. \A b \in Clients : Adding(j, b) => Adding(j, b)'
        BY <1>0, <1>1, <1>7, <2>3 DEF Adding
      <3> QED BY <2>1, <3>1, <3>2 DEF Open
    <2> QED BY <2>2, <2>3
  <1>12. ASSUME NEW b \in Clients, call'[b].op = "record", NEW j \in inst'[call'[b].source].readers
         PROVE  j \in call'[b].kept \/ Finished(j)
    <2>1. b # c /\ call'[b] = call[b]
      BY <1>7, <1>12
    <2>2. call[b].source \in Instances /\ call[b].source # i
      BY <1>8, <1>12, <2>1, CallFacts DEF CallOK, Copying, ClientState
    <2>3. inst'[call[b].source] = inst[call[b].source]
      BY <1>6, <2>2
    <2> QED BY <1>12, <2>1, <2>3 DEF TInv, Read
  <1>13. Read'
    BY <1>1, <1>10, <1>11, <1>12 DEF Read, Open, Finished
  <1>14. \A j \in Jobs : ~Finished(j) => jobs[j].source \in Instances /\ jobs[j].destination \in Instances
    BY UnderWay
  <1>15. Apart' /\ Kept'
    BY <1>1, <1>6, <1>9, <1>10, <1>14 DEF TInv, Apart, Kept, Finished
  <1>16. NothingTorn'
    BY <1>1, <1>6, <1>9, <1>10 DEF TInv, NothingTorn, TornIsMarked, NothingTornCopied
  <1> QED BY <1>13, <1>15, <1>16 DEF TInv

\* A step of c on an instance i that no transfer under way uses.
LEMMA UnusedStep ==
  ASSUME BInv, TInv, NEW c \in Clients, jobs' = jobs, NEW i,
         Instances \subseteq Instances', Instances' \subseteq Instances \cup {i},
         \A k \in Instances : k # i => inst'[k] = inst[k],
         \A b \in Clients : b # c => call'[b] = call[b],
         call[c].op \notin {"filter", "record"}, call'[c].op \notin {"filter", "record"},
         \A j \in Jobs : ~Finished(j) => jobs[j].source # i /\ jobs[j].destination # i,
         \A b \in Clients : call[b].op = "record" => call[b].source # i,
         inst'[i].content = Torn => /\ i \in Instances /\ inst[i].content = Torn
                                    /\ inst'[i].completion = inst[i].completion,
         inst'[i].content = Gone => inst'[i].state = "closed"
  PROVE  TInv'
  <1>1. Jobs' = Jobs
    BY DEF Jobs
  <1>2. ASSUME NEW j \in Jobs, ~Finished(j)
        PROVE  /\ jobs[j].source \in Instances /\ jobs[j].destination \in Instances
               /\ inst'[jobs[j].source] = inst[jobs[j].source]
               /\ inst'[jobs[j].destination] = inst[jobs[j].destination]
    BY <1>2, UnderWay
  <1>3. Read'
    <2>1. ASSUME NEW j \in Jobs, ~Finished(j)
          PROVE  /\ inst'[jobs[j].source].state = "open"
                 /\ \/ j \in inst'[jobs[j].source].readers
                    \/ \E b \in Clients : Adding(j, b)'
      <3>1. \A b \in Clients : Adding(j, b) => Adding(j, b)'
        BY DEF Adding
      <3> QED BY <1>2, <2>1, <3>1, TransferFacts DEF Open
    <2>2. ASSUME NEW b \in Clients, call'[b].op = "record", NEW j \in inst'[call'[b].source].readers
          PROVE  j \in call'[b].kept \/ Finished(j)
      <3>1. b # c /\ call'[b] = call[b]
        BY <2>2
      <3>2. call[b].source \in Instances /\ call[b].source # i
        BY <2>2, <3>1, CallFacts DEF CallOK, Copying, ClientState
      <3>3. inst'[call[b].source] = inst[call[b].source]
        BY <3>2
      <3> QED BY <2>2, <3>1, <3>3 DEF TInv, Read
    <2> QED BY <1>1, <2>1, <2>2 DEF Read, Open, Finished
  <1>4. Apart'
    BY <1>1 DEF TInv, Apart, Finished
  <1>5. Kept'
    <2>1. ASSUME NEW j \in Jobs, ~Finished(j) PROVE inst'[jobs[j].source].content = jobs[j].content
      BY <1>2, <2>1, TransferFacts
    <2>2. ASSUME NEW j \in Jobs, jobs[j].state = "running"
          PROVE  inst'[jobs[j].destination].content = Torn
      <3>1. ~Finished(j)
        BY <2>2 DEF Finished
      <3> QED BY <1>2, <2>2, <3>1 DEF TInv, Kept
    <2>3. \A k \in Instances' : inst'[k].content = Gone => inst'[k].state = "closed"
      BY DEF TInv, Kept
    <2> QED BY <1>1, <2>1, <2>2, <2>3 DEF Kept, Finished
  <1>6. NothingTorn'
    <2>1. ASSUME NEW k \in Instances', inst'[k].content = Torn
          PROVE  inst'[k].completion # 0 /\ jobs[inst'[k].completion].state # "done"
      <3>1. k \in Instances /\ inst[k].content = Torn /\ inst'[k].completion = inst[k].completion
        BY <2>1
      <3> QED BY <3>1 DEF TInv, NothingTorn, TornIsMarked
    <2> QED BY <1>1, <2>1 DEF TInv, NothingTorn, TornIsMarked, NothingTornCopied
  <1> QED BY <1>3, <1>4, <1>5, <1>6 DEF TInv

\* A new instance is used by nobody.
LEMMA AllocateTransfers ==
  ASSUME BInv, TInv, NEW c \in Clients, NEW v \in Values, NEW t \in Tiers, Allocate(c, v, t)
  PROVE  TInv'
  <1> DEFINE i == Len(inst) + 1
             q == [value |-> v, tier |-> t, state |-> "reserved",
                   completion |-> 0, readers |-> {}, content |-> Fresh]
             r == [op |-> "allocate", source |-> 0, target |-> i, waits |-> {}, kept |-> {}]
  <1>1. /\ call[c].op = "idle" /\ inst' = Append(inst, q) /\ call' = [call EXCEPT ![c] = r]
        /\ UNCHANGED <<jobs, files, status, writes>>
    BY DEF Allocate, Enter, Ready
  <1>2. q \in PhysicalInstance /\ q.content = Fresh
    BY DEF PhysicalInstance, Contents
  <1>3. /\ Instances' = Instances \cup {i} /\ i \notin Instances
        /\ inst'[i] = q /\ \A k \in Instances : inst'[k] = inst[k]
    BY <1>1, <1>2, MoreInstances DEF BInv
  <1>4. r.op = "allocate"
    OBVIOUS
  <1> HIDE DEF i, q, r
  <1>5. call'[c] = r /\ \A b \in Clients : b # c => call'[b] = call[b]
    BY <1>1, CallOf DEF BInv
  <1>6. \A j \in Jobs : ~Finished(j) => jobs[j].source # i /\ jobs[j].destination # i
    BY <1>3, UnderWay
  <1>7. \A b \in Clients : call[b].op = "record" => call[b].source # i
    BY <1>3, CallFacts DEF CallOK, Copying, ClientState
  <1>8. inst'[i].content \notin {Torn, Gone}
    BY <1>2, <1>3 DEF Fresh, Torn, Gone
  <1> QED BY <1>1, <1>3, <1>4, <1>5, <1>6, <1>7, <1>8, UnusedStep

\* An instance that is being made is used by no transfer.
LEMMA ReservedUnused ==
  ASSUME BInv, TInv, NEW i \in Instances, inst[i].state = "reserved"
  PROVE  /\ \A j \in Jobs : ~Finished(j) => jobs[j].source # i /\ jobs[j].destination # i
         /\ \A b \in Clients : call[b].op = "record" => call[b].source # i
  <1>1. \A j \in Jobs : ~Finished(j) => jobs[j].source # i /\ jobs[j].destination # i
    BY UnderWay, TransferFacts DEF Open
  <1>2. \A b \in Clients : call[b].op = "record" => call[b].source # i
    BY CallFacts DEF CallOK, Copying, Open
  <1> QED BY <1>1, <1>2

\* Neither is one that is being made.
LEMMA PublishTransfers ==
  ASSUME BInv, TInv, NEW c \in Clients, Publish(c) \/ AllocationFails(c)
  PROVE  TInv'
  <1>0. PICK i : i = call[c].target
    OBVIOUS
  <1>1. \E q : /\ inst' = [inst EXCEPT ![i] = q]
               /\ \/ q = [inst[i] EXCEPT !.state = "open"]
                  \/ q = [inst[i] EXCEPT !.state = "closed", !.content = Gone]
    <2>1. CASE Publish(c)
      <3>1. inst' = [inst EXCEPT ![i] = [inst[i] EXCEPT !.state = "open"]]
        BY <1>0, <2>1 DEF Publish
      <3> QED BY <3>1
    <2>2. CASE AllocationFails(c)
      <3>1. inst' = [inst EXCEPT ![i] = [inst[i] EXCEPT !.state = "closed", !.content = Gone]]
        BY <1>0, <2>2 DEF AllocationFails
      <3> QED BY <3>1
    <2> QED BY <2>1, <2>2
  <1> PICK q : /\ inst' = [inst EXCEPT ![i] = q]
               /\ \/ q = [inst[i] EXCEPT !.state = "open"]
                  \/ q = [inst[i] EXCEPT !.state = "closed", !.content = Gone]
    BY <1>1
  <1>2. call[c].op = "allocate" /\ Return(c) /\ UNCHANGED <<jobs, status, writes>>
    BY DEF Publish, AllocationFails
  <1>3. i \in Instances /\ inst[i].state = "reserved"
    BY <1>0, <1>2, CallFacts DEF CallOK, ClientState
  <1>4. inst[i] \in PhysicalInstance
    BY <1>3, TypeFacts DEF BInv
  <1>5. /\ q \in PhysicalInstance /\ q.completion = inst[i].completion
        /\ \/ q.content = inst[i].content
           \/ q.content = Gone /\ q.state = "closed"
    BY <1>4 DEF PhysicalInstance, Contents
  <1>6. /\ Instances' = Instances /\ inst'[i] = q
        /\ \A k \in Instances : k # i => inst'[k] = inst[k]
    BY <1>3, <1>5, InstanceStep DEF BInv
  <1>7. call'[c].op = "idle" /\ \A b \in Clients : b # c => call'[b] = call[b]
    BY <1>2, ReturnFacts DEF BInv
  <1>8. inst[i].content # Gone
    BY <1>3 DEF TInv, Kept
  <1>9. /\ inst'[i].content = Torn => inst[i].content = Torn /\ inst'[i].completion = inst[i].completion
        /\ inst'[i].content = Gone => inst'[i].state = "closed"
    BY <1>5, <1>6, <1>8 DEF Torn, Gone
  <1>10. /\ \A j \in Jobs : ~Finished(j) => jobs[j].source # i /\ jobs[j].destination # i
         /\ \A b \in Clients : call[b].op = "record" => call[b].source # i
    BY <1>3, ReservedUnused
  <1> QED BY <1>2, <1>3, <1>6, <1>7, <1>9, <1>10, UnusedStep

\* An instance is closed after the last transfer that used it.
LEMMA UnlinkTransfers ==
  ASSUME BInv, TInv, NEW c \in Clients, Release(c) \/ ShutdownRelease(c)
  PROVE  TInv'
  <1>0. PICK i : i = call[c].target
    OBVIOUS
  <1> DEFINE q == [inst[i] EXCEPT !.state = "closed", !.content = Gone,
                                  !.completion = 0, !.readers = {}]
  <1>1. /\ call[c].op \in {"close", "shutdown"} /\ i # 0 /\ call[c].waits = {}
        /\ inst' = [inst EXCEPT ![i] = q] /\ jobs' = jobs
    BY <1>0, CallFacts DEF Release, ShutdownRelease, Unlink, CallOK
  <1>2. /\ call'[c].op \in {"idle", "shutdown"} /\ \A b \in Clients : b # c => call'[b] = call[b]
    <2>1. CASE Return(c)
      BY <2>1, ReturnFacts DEF BInv
    <2>2. CASE Enter(c, "shutdown", 0, 0, {})
      <3> DEFINE r == [op |-> "shutdown", source |-> 0, target |-> 0, waits |-> {}, kept |-> {}]
      <3>1. call' = [call EXCEPT ![c] = r] /\ r.op = "shutdown"
        BY <2>2 DEF Enter
      <3> HIDE DEF r
      <3> QED BY <3>1, CallOf DEF BInv
    <2> QED BY <2>1, <2>2 DEF Release, ShutdownRelease
  <1>3. /\ i \in Instances /\ \A j \in CloseWaits(i) : Finished(j)
        /\ \A j \in Jobs : ~Finished(j) => jobs[j].destination # i
    BY <1>0, <1>1, ClosedIsFree
  <1>4. inst[i] \in PhysicalInstance
    BY <1>3, TypeFacts DEF BInv
  <1>5. q \in PhysicalInstance /\ q.state = "closed" /\ q.content = Gone
    BY <1>4 DEF PhysicalInstance, Contents
  <1> HIDE DEF q
  <1>6. /\ Instances' = Instances /\ inst'[i] = q
        /\ \A k \in Instances : k # i => inst'[k] = inst[k]
    BY <1>1, <1>3, <1>5, InstanceStep DEF BInv
  <1>7. \A b \in Clients : call[b].op \in {"filter", "record"} => call[b].source # i
    <2> SUFFICES ASSUME NEW b \in Clients, call[b].op \in {"filter", "record"}, call[b].source = i
                 PROVE  FALSE
      OBVIOUS
    <2>1. b # c /\ i \in Held(b)
      BY <1>1 DEF Held
    <2> QED BY <1>0, <1>1, <2>1, TargetAlone
  <1>8. ASSUME NEW j \in Jobs, ~Finished(j) PROVE jobs[j].source # i /\ jobs[j].destination # i
    <2>1. j \notin inst[i].readers
      BY <1>3, <1>8 DEF CloseWaits, Pending
    <2>2. \A b \in Clients : Adding(j, b) => jobs[j].source # i
      BY <1>7 DEF Adding
    <2> QED BY <1>3, <1>8, <2>1, <2>2, TransferFacts
  <1>9. inst'[i].content # Torn /\ (inst'[i].content = Gone => inst'[i].state = "closed")
    BY <1>5, <1>6 DEF Torn, Gone
  <1> QED BY <1>1, <1>2, <1>3, <1>6, <1>7, <1>8, <1>9, UnusedStep

\* The new transfer's source is whole, and nothing reads its destination.
LEMMA SubmitTransfers ==
  ASSUME BInv, TInv, NEW c \in Clients, Submit(c)
  PROVE  TInv'
  <1>0. PICK s, d, n : s = call[c].source /\ d = call[c].target /\ n = Len(jobs) + 1
    OBVIOUS
  <1>1. /\ s \in Instances /\ d \in Instances /\ s # d /\ s # 0 /\ d # 0 /\ Open(s) /\ Open(d)
        /\ call[c] \in ClientState /\ call[c].op = "transfer"
        /\ \A j \in TransferWaits(s, d) : jobs[j].state = "done"
        /\ \A j \in Jobs : ~Finished(j) => jobs[j].destination \notin {s, d}
        /\ \A b \in Clients : b # c => d \notin Held(b)
    BY <1>0, SubmitFacts
  <1>2. /\ Jobs' = Jobs \cup {n} /\ Instances' = Instances /\ n \notin Jobs /\ n # 0
        /\ \A j \in Jobs : jobs'[j] = jobs[j]
        /\ jobs'[n].content = inst[s].content
        /\ \/ jobs'[n].state = "done" /\ inst'[d].content = inst[s].content
           \/ /\ jobs'[n].state = "queued" /\ inst'[d].content = inst[d].content
              /\ jobs'[n].source = s /\ jobs'[n].destination = d
        /\ \A k \in Instances : k # d => inst'[k] = inst[k]
        /\ inst'[d].completion = n /\ inst'[d].readers = {} /\ inst'[d].state = inst[d].state
    <2>1. /\ Jobs' = Jobs \cup {n} /\ Instances' = Instances /\ n \notin Jobs /\ n # 0
          /\ jobs' \in Seq(HierarchyCompletion') /\ inst' \in Seq(PhysicalInstance')
          /\ \A j \in Jobs : jobs'[j] = jobs[j]
          /\ jobs'[n].content = inst[s].content
          /\ \/ /\ jobs'[n].state = "done" /\ inst'[d].content = inst[s].content
             \/ /\ jobs'[n].state = "queued" /\ inst'[d].content = inst[d].content
                /\ jobs'[n].source = s /\ jobs'[n].destination = d
          /\ \A k \in Instances : k # d => inst'[k] = inst[k]
          /\ inst'[d].completion = n /\ inst'[d].readers = {} /\ inst'[d].state = inst[d].state
          /\ inst'[d].value = inst[d].value /\ inst'[d].tier = inst[d].tier
          /\ call'[c] = [call[c] EXCEPT !.op = "filter"]
          /\ \A b \in Clients : b # c => call'[b] = call[b]
          /\ UNCHANGED <<live, files, status, writes>>
          /\ ClientState \subseteq ClientState'
      BY <1>0, SubmitStep
    <2> QED BY <2>1
  <1>3. /\ call'[c].op = "filter" /\ call'[c].source = s /\ call'[c].target = d
        /\ \A b \in Clients : b # c => call'[b] = call[b]
    <2>1. call \in [Clients -> ClientState] /\ call' = [call EXCEPT ![c].op = "filter"]
      BY DEF Submit, BInv, TypeOK
    <2> QED BY <1>0, <1>1, <2>1 DEF ClientState
  <1>4. inst[s].content \notin {Torn, Gone} /\ inst[d].content # Gone
    <2>1. inst[s].content # Gone /\ inst[d].content # Gone
      BY <1>1 DEF TInv, Kept, Open
    <2>2. ASSUME inst[s].content = Torn PROVE FALSE
      <3>1. inst[s].completion # 0 /\ jobs[inst[s].completion].state # "done"
        BY <1>1, <2>2 DEF TInv, NothingTorn, TornIsMarked
      <3>2. inst[s].completion \in TransferWaits(s, d)
        BY <3>1 DEF TransferWaits, Written
      <3> QED BY <1>1, <3>1, <3>2
    <2> QED BY <2>1, <2>2
  <1>5. \A b \in Clients : call[b].op \in {"filter", "record"} => call[b].source # d
    BY <1>1 DEF Held
  <1>6. ASSUME NEW j \in Jobs, ~Finished(j)
        PROVE  /\ jobs[j].source \in Instances /\ jobs[j].destination \in Instances
               /\ jobs[j].source # d /\ jobs[j].destination # d /\ jobs[j].destination # s
    <2>1. jobs[j].source \in Instances /\ jobs[j].destination \in Instances
      BY <1>6, UnderWay
    <2>2. ASSUME jobs[j].source = d PROVE FALSE
      <3>1. \A b \in Clients : ~Adding(j, b)
        BY <1>5, <2>2 DEF Adding
      <3>2. j \in inst[d].readers
        BY <1>6, <2>2, <3>1, TransferFacts
      <3>3. j \in TransferWaits(s, d)
        BY <3>2 DEF TransferWaits, Pending
      <3> QED BY <1>1, <1>6, <3>3 DEF Finished
    <2> QED BY <1>1, <1>6, <2>1, <2>2
  <1>7. Read'
    <2>1. ASSUME NEW j \in Jobs', jobs'[j].state \notin {"done", "failed"}
          PROVE  /\ inst'[jobs'[j].source].state = "open"
                 /\ \/ j \in inst'[jobs'[j].source].readers
                    \/ \E b \in Clients : Adding(j, b)'
      <3>1. CASE j = n
        <4>1. jobs'[n].source = s /\ jobs'[n].destination = d
          BY <1>2, <2>1, <3>1
        <4>2. Adding(n, c)'
          BY <1>3, <4>1 DEF Adding
        <4> QED BY <1>1, <1>2, <3>1, <4>1, <4>2 DEF Open
      <3>2. CASE j # n
        <4>1. j \in Jobs /\ ~Finished(j) /\ jobs'[j] = jobs[j]
          BY <1>2, <2>1, <3>2 DEF Finished
        <4>2. inst'[jobs[j].source] = inst[jobs[j].source]
          BY <1>2, <1>6, <4>1
        <4>3. \A b \in Clients : Adding(j, b) => Adding(j, b)'
          BY <1>1, <1>3, <4>1 DEF Adding
        <4> QED BY <4>1, <4>2, <4>3, TransferFacts DEF Open
      <3> QED BY <3>1, <3>2
    <2>2. ASSUME NEW b \in Clients, call'[b].op = "record", NEW j \in inst'[call'[b].source].readers
          PROVE  j \in call'[b].kept \/ jobs'[j].state \in {"done", "failed"}
      <3>1. b # c /\ call'[b] = call[b]
        BY <1>3, <2>2
      <3>2. call[b].source \in Instances /\ call[b].source # d
        BY <1>5, <2>2, <3>1, CallFacts DEF CallOK, Copying, ClientState
      <3>3. inst'[call[b].source] = inst[call[b].source] /\ inst[call[b].source].readers \subseteq Jobs
        BY <1>2, <3>2, TypeFacts DEF BInv, PhysicalInstance
      <3> QED BY <1>2, <2>2, <3>1, <3>3 DEF TInv, Read, Finished
    <2> QED BY <2>1, <2>2 DEF Read, Open, Finished
  <1>8. Apart'
    <2> SUFFICES ASSUME NEW j \in Jobs', NEW k \in Jobs', jobs'[j].state \notin {"done", "failed"},
                        jobs'[k].state \notin {"done", "failed"}
                 PROVE  jobs'[k].destination # jobs'[j].source
      BY DEF Apart, Finished
    <2>1. CASE j = n /\ k = n
      BY <1>1, <1>2, <2>1
    <2>2. CASE j = n /\ k # n
      BY <1>2, <1>6, <2>2 DEF Finished
    <2>3. CASE j # n /\ k = n
      BY <1>2, <1>6, <2>3 DEF Finished
    <2>4. CASE j # n /\ k # n
      BY <1>2, <2>4 DEF TInv, Apart, Finished
    <2> QED BY <2>1, <2>2, <2>3, <2>4
  <1>9. Kept'
    <2>1. ASSUME NEW j \in Jobs', jobs'[j].state \notin {"done", "failed"}
          PROVE  inst'[jobs'[j].source].content = jobs'[j].content
      <3>1. CASE j = n
        BY <1>1, <1>2, <2>1, <3>1
      <3>2. CASE j # n
        BY <1>2, <1>6, <2>1, <3>2, TransferFacts DEF Finished
      <3> QED BY <3>1, <3>2
    <2>2. ASSUME NEW j \in Jobs', jobs'[j].state = "running"
          PROVE  inst'[jobs'[j].destination].content = Torn
      <3>1. j \in Jobs /\ ~Finished(j) /\ jobs[j].state = "running" /\ jobs'[j] = jobs[j]
        BY <1>2, <2>2 DEF Finished
      <3> QED BY <1>2, <1>6, <3>1 DEF TInv, Kept
    <2>3. ASSUME NEW k \in Instances, inst'[k].content = Gone PROVE inst'[k].state = "closed"
      <3>1. k # d
        BY <1>2, <1>4, <2>3
      <3> QED BY <1>2, <2>3, <3>1 DEF TInv, Kept
    <2> QED BY <1>2, <2>1, <2>2, <2>3 DEF Kept, Finished
  <1>10. NothingTorn'
    <2>1. ASSUME NEW k \in Instances, inst'[k].content = Torn
          PROVE  inst'[k].completion # 0 /\ jobs'[inst'[k].completion].state # "done"
      <3>1. CASE k = d
        BY <1>2, <1>4, <2>1, <3>1
      <3>2. CASE k # d
        <4>1. inst'[k] = inst[k] /\ inst[k].completion \in {0} \cup Jobs
          BY <1>2, <3>2, TypeFacts DEF BInv, PhysicalInstance
        <4> QED BY <1>2, <2>1, <4>1 DEF TInv, NothingTorn, TornIsMarked
      <3> QED BY <3>1, <3>2
    <2>2. \A j \in Jobs' : jobs'[j].content \notin {Torn, Gone}
      BY <1>2, <1>4 DEF TInv, NothingTorn, NothingTornCopied
    <2> QED BY <1>2, <2>1, <2>2 DEF NothingTorn, TornIsMarked, NothingTornCopied
  <1> QED BY <1>7, <1>8, <1>9, <1>10 DEF TInv

\* A background step or a write: the readers stay, and so do the transfers that
\* go on.
LEMMA ReadBack ==
  ASSUME BInv, TInv, call' = call, Jobs' = Jobs, Instances' = Instances,
         \A k \in Instances : /\ inst'[k].state = inst[k].state
                              /\ inst'[k].readers = inst[k].readers,
         \A j \in Jobs : /\ Finished(j) => jobs'[j].state \in {"done", "failed"}
                         /\ jobs'[j].state \notin {"done", "failed"} =>
                              /\ jobs'[j].source = jobs[j].source
                              /\ jobs'[j].destination = jobs[j].destination
  PROVE  Read' /\ Apart'
  <1>1. ASSUME NEW j \in Jobs, jobs'[j].state \notin {"done", "failed"}
        PROVE  /\ inst'[jobs'[j].source].state = "open"
               /\ \/ j \in inst'[jobs'[j].source].readers
                  \/ \E b \in Clients : Adding(j, b)'
    <2>1. ~Finished(j) /\ jobs'[j].source = jobs[j].source /\ jobs'[j].destination = jobs[j].destination
      BY <1>1
    <2>2. \A b \in Clients : Adding(j, b) => Adding(j, b)'
      BY <2>1 DEF Adding
    <2> QED BY <2>1, <2>2, TransferFacts DEF Open
  <1>2. ASSUME NEW b \in Clients, call[b].op = "record", NEW j \in inst'[call[b].source].readers
        PROVE  j \in call[b].kept \/ jobs'[j].state \in {"done", "failed"}
    <2>1. call[b].source \in Instances
      BY <1>2, CallFacts DEF CallOK, Copying, ClientState
    <2>2. j \in inst[call[b].source].readers /\ j \in Jobs
      BY <1>2, <2>1, TypeFacts DEF BInv, PhysicalInstance
    <2> QED BY <1>2, <2>2 DEF TInv, Read
  <1>3. Read'
    BY <1>1, <1>2 DEF Read, Open, Finished
  <1>4. Apart'
    BY DEF TInv, Apart, Finished
  <1> QED BY <1>3, <1>4

\* The destination of a transfer that starts is torn and says so.
LEMMA BeginTransfers ==
  ASSUME BInv, TInv, NEW j \in Jobs, Begin(j)
  PROVE  TInv'
  <1>0. PICK d : d = jobs[j].destination
    OBVIOUS
  <1>1. /\ ~Finished(j) /\ inst' = [inst EXCEPT ![d].content = Torn]
        /\ jobs' = [jobs EXCEPT ![j].state = "running"] /\ call' = call
    BY <1>0 DEF Begin, Finished
  <1>2. d \in Instances /\ Open(d) /\ inst[d].completion = j
    BY <1>0, <1>1, UnderWay
  <1>3. Torn \in Contents /\ Torn # Gone
    BY DEF Contents, Torn, Gone
  <1>4. /\ Instances' = Instances
        /\ \A k \in Instances : /\ inst'[k].state = inst[k].state
                                /\ inst'[k].completion = inst[k].completion
                                /\ inst'[k].readers = inst[k].readers
        /\ inst'[d].content = Torn /\ \A k \in Instances : k # d => inst'[k].content = inst[k].content
    BY <1>1, <1>2, <1>3, ContentStep
  <1>5. /\ Jobs' = Jobs /\ jobs'[j].state = "running" /\ jobs'[j].content = jobs[j].content
        /\ \A k \in Jobs : k # j => jobs'[k] = jobs[k]
        /\ \A k \in Jobs : /\ Finished(k) => jobs'[k].state \in {"done", "failed"}
                           /\ jobs'[k].state \notin {"done", "failed"} =>
                                /\ jobs'[k].source = jobs[k].source
                                /\ jobs'[k].destination = jobs[k].destination
    BY <1>1, OutcomeStep
  <1>6. Read' /\ Apart'
    BY <1>1, <1>4, <1>5, ReadBack
  <1>7. Kept'
    <2>1. ASSUME NEW k \in Jobs, jobs'[k].state \notin {"done", "failed"}
          PROVE  inst'[jobs'[k].source].content = jobs'[k].content
      <3>1. ~Finished(k) /\ jobs'[k].source = jobs[k].source /\ jobs'[k].content = jobs[k].content
        BY <1>5, <2>1
      <3>2. jobs[k].source # d
        BY <1>0, <1>1, <3>1 DEF TInv, Apart
      <3> QED BY <1>4, <3>1, <3>2, TransferFacts
    <2>2. ASSUME NEW k \in Jobs, jobs'[k].state = "running"
          PROVE  inst'[jobs'[k].destination].content = Torn
      <3>1. CASE k = j
        BY <1>0, <1>4, <1>5, <3>1
      <3>2. CASE k # j
        <4>1. jobs'[k] = jobs[k] /\ ~Finished(k) /\ jobs[k].state = "running"
          BY <1>5, <2>2, <3>2 DEF Finished
        <4>2. jobs[k].destination \in Instances /\ inst[jobs[k].destination].content = Torn
          BY <4>1, UnderWay DEF TInv, Kept
        <4> QED BY <1>4, <4>1, <4>2
      <3> QED BY <3>1, <3>2
    <2>3. \A k \in Instances : inst'[k].content = Gone => inst'[k].state = "closed"
      BY <1>3, <1>4 DEF TInv, Kept
    <2> QED BY <1>4, <1>5, <2>1, <2>2, <2>3 DEF Kept, Finished
  <1>8. NothingTorn'
    <2>1. ASSUME NEW k \in Instances, inst'[k].content = Torn
          PROVE  inst'[k].completion # 0 /\ jobs'[inst'[k].completion].state # "done"
      <3>1. CASE k = d
        BY <1>2, <1>4, <1>5, <3>1 DEF Jobs
      <3>2. CASE k # d
        <4>1. /\ inst[k].completion # 0 /\ jobs[inst[k].completion].state # "done"
              /\ inst[k].completion \in Jobs
          BY <1>4, <2>1, <3>2, TypeFacts DEF TInv, NothingTorn, TornIsMarked, BInv, PhysicalInstance
        <4> QED BY <1>4, <1>5, <4>1
      <3> QED BY <3>1, <3>2
    <2>2. \A k \in Jobs : jobs'[k].content \notin {Torn, Gone}
      BY <1>5 DEF TInv, NothingTorn, NothingTornCopied
    <2> QED BY <1>4, <1>5, <2>1, <2>2 DEF NothingTorn, TornIsMarked, NothingTornCopied
  <1> QED BY <1>6, <1>7, <1>8 DEF TInv

\* A transfer that completes reads what its source held when it was called.
LEMMA Delivered ==
  ASSUME BInv, TInv, NEW j \in Jobs, Complete(j)
  PROVE  /\ ~Finished(j) /\ jobs[j].destination \in Instances
         /\ jobs[j].content \in Contents
         /\ inst' = [inst EXCEPT ![jobs[j].destination].content = jobs[j].content]
         /\ jobs' = [jobs EXCEPT ![j] = Ended(@, "done")] /\ call' = call
  <1>1. ~Finished(j) /\ jobs[j].state = "running"
    BY DEF Complete, Finished
  <1>2. inst[jobs[j].source].content = jobs[j].content /\ inst[jobs[j].destination].content = Torn
    BY <1>1 DEF TInv, Kept
  <1>3. jobs[j].destination \in Instances /\ jobs[j].content \in Contents
    BY <1>1, UnderWay, TypeFacts DEF BInv, HierarchyCompletion
  <1> QED BY <1>1, <1>2, <1>3 DEF Complete

\* The destination of a transfer that ends well is whole.
LEMMA CompleteTransfers ==
  ASSUME BInv, TInv, NEW j \in Jobs, Complete(j)
  PROVE  TInv'
  <1>0. PICK d, x : d = jobs[j].destination /\ x = jobs[j].content
    OBVIOUS
  <1>1. /\ ~Finished(j) /\ d \in Instances /\ x \in Contents
        /\ inst' = [inst EXCEPT ![d].content = x]
        /\ jobs' = [jobs EXCEPT ![j] = Ended(@, "done")] /\ call' = call
    BY <1>0, Delivered
  <1>2. Open(d) /\ inst[d].completion = j /\ \A k \in Instances : inst[k].completion = j => k = d
    BY <1>0, <1>1 DEF BInv, Destined
  <1>3. x \notin {Torn, Gone}
    BY <1>0 DEF TInv, NothingTorn, NothingTornCopied
  <1>4. /\ Instances' = Instances
        /\ \A k \in Instances : /\ inst'[k].state = inst[k].state
                                /\ inst'[k].completion = inst[k].completion
                                /\ inst'[k].readers = inst[k].readers
        /\ inst'[d].content = x /\ \A k \in Instances : k # d => inst'[k].content = inst[k].content
    BY <1>1, ContentStep
  <1>5. /\ Jobs' = Jobs /\ jobs'[j].state = "done" /\ jobs'[j].content = jobs[j].content
        /\ \A k \in Jobs : k # j => jobs'[k] = jobs[k]
        /\ \A k \in Jobs : /\ Finished(k) => jobs'[k].state \in {"done", "failed"}
                           /\ jobs'[k].state \notin {"done", "failed"} =>
                                /\ jobs'[k].source = jobs[k].source
                                /\ jobs'[k].destination = jobs[k].destination
    BY <1>1, OutcomeStep
  <1>6. Read' /\ Apart'
    BY <1>1, <1>4, <1>5, ReadBack
  <1>7. Kept'
    <2>1. ASSUME NEW k \in Jobs, jobs'[k].state \notin {"done", "failed"}
          PROVE  inst'[jobs'[k].source].content = jobs'[k].content
      <3>1. k # j /\ ~Finished(k) /\ jobs'[k] = jobs[k]
        BY <1>5, <2>1
      <3>2. jobs[k].source # d
        BY <1>0, <1>1, <3>1 DEF TInv, Apart
      <3> QED BY <1>4, <3>1, <3>2, TransferFacts
    <2>2. ASSUME NEW k \in Jobs, jobs'[k].state = "running"
          PROVE  inst'[jobs'[k].destination].content = Torn
      <3>1. k # j /\ jobs'[k] = jobs[k] /\ ~Finished(k) /\ jobs[k].state = "running"
        BY <1>5, <2>2 DEF Finished
      <3>2. /\ jobs[k].destination \in Instances /\ inst[jobs[k].destination].completion = k
            /\ inst[jobs[k].destination].content = Torn
        BY <3>1, UnderWay DEF TInv, Kept
      <3> QED BY <1>2, <1>4, <3>1, <3>2
    <2>3. \A k \in Instances : inst'[k].content = Gone => inst'[k].state = "closed"
      BY <1>3, <1>4 DEF TInv, Kept
    <2> QED BY <1>4, <1>5, <2>1, <2>2, <2>3 DEF Kept, Finished
  <1>8. NothingTorn'
    <2>1. ASSUME NEW k \in Instances, inst'[k].content = Torn
          PROVE  inst'[k].completion # 0 /\ jobs'[inst'[k].completion].state # "done"
      <3>1. k # d /\ inst[k].content = Torn
        BY <1>3, <1>4, <2>1
      <3>2. /\ inst[k].completion # 0 /\ jobs[inst[k].completion].state # "done"
            /\ inst[k].completion \in Jobs
        BY <3>1, TypeFacts DEF TInv, NothingTorn, TornIsMarked, BInv, PhysicalInstance
      <3> QED BY <1>2, <1>4, <1>5, <3>1, <3>2
    <2>2. \A k \in Jobs : jobs'[k].content \notin {Torn, Gone}
      BY <1>5 DEF TInv, NothingTorn, NothingTornCopied
    <2> QED BY <1>4, <1>5, <2>1, <2>2 DEF NothingTorn, TornIsMarked, NothingTornCopied
  <1> QED BY <1>6, <1>7, <1>8 DEF TInv

\* The destination of a transfer that fails stays torn and says so.
LEMMA FailTransfers ==
  ASSUME BInv, TInv, NEW j \in Jobs, Fail(j)
  PROVE  TInv'
  <1>1. /\ ~Finished(j) /\ jobs' = [jobs EXCEPT ![j] = Ended(@, "failed")]
        /\ inst' = inst /\ call' = call
    BY DEF Fail, Poison, Finished
  <1>2. Instances' = Instances
    BY <1>1 DEF Instances
  <1>3. /\ Jobs' = Jobs /\ jobs'[j].state = "failed" /\ jobs'[j].content = jobs[j].content
        /\ \A k \in Jobs : k # j => jobs'[k] = jobs[k]
        /\ \A k \in Jobs : /\ Finished(k) => jobs'[k].state \in {"done", "failed"}
                           /\ jobs'[k].state \notin {"done", "failed"} =>
                                /\ jobs'[k].source = jobs[k].source
                                /\ jobs'[k].destination = jobs[k].destination
    BY <1>1, OutcomeStep
  <1>4. Read' /\ Apart'
    BY <1>1, <1>2, <1>3, ReadBack
  <1>5. Kept'
    <2>1. \A k \in Jobs : jobs'[k].state \notin {"done", "failed"} =>
            inst[jobs'[k].source].content = jobs'[k].content
      BY <1>3 DEF TInv, Kept, Finished
    <2>2. \A k \in Jobs : jobs'[k].state = "running" => inst[jobs'[k].destination].content = Torn
      BY <1>3 DEF TInv, Kept
    <2> QED BY <1>1, <1>2, <1>3, <2>1, <2>2 DEF TInv, Kept, Finished
  <1>6. NothingTorn'
    <2>1. ASSUME NEW k \in Instances, inst[k].content = Torn
          PROVE  inst[k].completion # 0 /\ jobs'[inst[k].completion].state # "done"
      <3>1. /\ inst[k].completion # 0 /\ jobs[inst[k].completion].state # "done"
            /\ inst[k].completion \in Jobs
        BY <2>1, TypeFacts DEF TInv, NothingTorn, TornIsMarked, BInv, PhysicalInstance
      <3> QED BY <1>3, <3>1
    <2>2. \A k \in Jobs : jobs'[k].content \notin {Torn, Gone}
      BY <1>3 DEF TInv, NothingTorn, NothingTornCopied
    <2> QED BY <1>1, <1>2, <1>3, <2>1, <2>2 DEF NothingTorn, TornIsMarked, NothingTornCopied
  <1> QED BY <1>4, <1>5, <1>6 DEF TInv

\* A client writes where no transfer is under way.
LEMMA WriteTransfers ==
  ASSUME BInv, TInv, NEW c \in Clients, NEW i \in Instances, Write(c, i)
  PROVE  TInv'
  <1>1. /\ writes < MaxWrites /\ inst' = [inst EXCEPT ![i].content = writes + 1]
        /\ Open(i) /\ jobs' = jobs /\ call' = call
        /\ \A j \in Jobs : ~Finished(j) => jobs[j].source # i /\ jobs[j].destination # i
    BY DEF Write
  <1>2. writes + 1 \in 1 .. MaxWrites
    BY <1>1, HierarchyAssumption DEF BInv, TypeOK
  <1>3. writes + 1 \in Contents /\ writes + 1 \notin {Torn, Gone}
    BY <1>2, HierarchyAssumption DEF Contents, Torn, Gone
  <1>4. /\ Instances' = Instances
        /\ \A k \in Instances : /\ inst'[k].state = inst[k].state
                                /\ inst'[k].completion = inst[k].completion
                                /\ inst'[k].readers = inst[k].readers
        /\ inst'[i].content = writes + 1
        /\ \A k \in Instances : k # i => inst'[k].content = inst[k].content
    BY <1>1, <1>3, ContentStep
  <1>5. Jobs' = Jobs
    BY <1>1 DEF Jobs
  <1>6. Read' /\ Apart'
    BY <1>1, <1>4, <1>5, ReadBack DEF Finished
  <1>7. Kept'
    <2>1. ASSUME NEW j \in Jobs, ~Finished(j)
          PROVE  inst'[jobs[j].source].content = jobs[j].content
      BY <1>1, <1>4, <2>1, TransferFacts
    <2>2. ASSUME NEW j \in Jobs, jobs[j].state = "running"
          PROVE  inst'[jobs[j].destination].content = Torn
      <3>1. ~Finished(j) /\ inst[jobs[j].destination].content = Torn
        BY <2>2 DEF TInv, Kept, Finished
      <3> QED BY <1>1, <1>4, <3>1, UnderWay
    <2>3. \A k \in Instances : inst'[k].content = Gone => inst'[k].state = "closed"
      BY <1>3, <1>4 DEF TInv, Kept
    <2> QED BY <1>1, <1>4, <1>5, <2>1, <2>2, <2>3 DEF Kept, Finished
  <1>8. NothingTorn'
    BY <1>1, <1>3, <1>4, <1>5 DEF TInv, NothingTorn, TornIsMarked, NothingTornCopied
  <1> QED BY <1>6, <1>7, <1>8 DEF TInv

\* The steps that only change what a client is doing.
LEMMA CallTransfers ==
  ASSUME BInv, TInv, NEW c \in Clients,
         \/ \E s, d \in Instances : Transfer(c, s, d)
         \/ \E i \in Instances : Close(c, i) \/ ShutdownNext(c, i)
         \/ Shutdown(c) \/ ShutdownEnds(c)
  PROVE  TInv'
  <1>1. inst' = inst /\ jobs' = jobs /\ call[c].op \in {"idle", "shutdown"}
    BY DEF Transfer, Close, ShutdownNext, Shutdown, ShutdownEnds, Ready
  <1>2. call \in [Clients -> ClientState]
    BY DEF BInv, TypeOK
  <1>3. /\ call'[c].op \in {"idle", "transfer", "close", "shutdown"}
        /\ \A b \in Clients : b # c => call'[b] = call[b]
    <2>1. CASE Return(c)
      BY <1>2, <2>1 DEF Return, Idle
    <2>2. ASSUME NEW op \in {"transfer", "close", "shutdown"}, NEW s, NEW d, NEW w, Enter(c, op, s, d, w)
          PROVE  /\ call'[c].op \in {"idle", "transfer", "close", "shutdown"}
                 /\ \A b \in Clients : b # c => call'[b] = call[b]
      BY <1>2, <2>2 DEF Enter
    <2> QED BY <2>1, <2>2 DEF Transfer, Close, ShutdownNext, Shutdown, ShutdownEnds
  <1> QED BY <1>1, <1>3, QuietCall

\* Waiting changes what a client is doing.
LEMMA WaitTransfers ==
  ASSUME BInv, TInv, NEW c \in Clients, Wait(c)
  PROVE  TInv'
  <1>1. /\ inst' = inst /\ jobs' = jobs /\ call[c].waits # {} /\ call[c] \in ClientState
        /\ call[c].op \notin {"filter", "record"}
    BY CallFacts DEF Wait, CallOK
  <1>2. call \in [Clients -> ClientState]
    BY DEF BInv, TypeOK
  <1>3. call'[c].op \in {"idle", call[c].op} /\ \A b \in Clients : b # c => call'[b] = call[b]
    <2>1. CASE Return(c)
      BY <1>2, <2>1 DEF Return, Idle
    <2>2. ASSUME NEW j, call' = [call EXCEPT ![c].waits = @ \ {j}]
          PROVE  call'[c].op = call[c].op /\ \A b \in Clients : b # c => call'[b] = call[b]
      BY <1>1, <1>2, <2>2 DEF ClientState
    <2> QED BY <2>1, <2>2 DEF Wait
  <1> QED BY <1>1, <1>3, QuietCall

-----------------------------------------------------------------------------
(* The second half is an invariant where no two transfers are called from  *)
(* one source at once.                                                     *)

\* There is no transfer and no instance.
LEMMA TransfersInit == Init => TInv
  <1> SUFFICES ASSUME Init PROVE TInv
    OBVIOUS
  <1>1. Instances = {} /\ Jobs = {} /\ \A c \in Clients : call[c].op = "idle"
    BY DEF Init, Instances, Jobs, Idle
  <1> QED BY <1>1 DEF TInv, Read, Apart, Kept, NothingTorn, TornIsMarked, NothingTornCopied

\* Nothing changes.
LEMMA TransfersStutter == TInv /\ UNCHANGED vars => TInv'
  BY DEF vars, TInv, Read, Adding, Apart, Kept, NothingTorn, TornIsMarked, NothingTornCopied,
     Open, Finished, Instances, Jobs

\* Every step keeps the second half.
LEMMA TransfersStep == ~SharedSource /\ BInv /\ TInv /\ [Next]_vars => TInv'
  <1> SUFFICES ASSUME ~SharedSource, BInv, TInv, [Next]_vars PROVE TInv'
    OBVIOUS
  <1>1. ASSUME NEW c \in Clients, NEW v \in Values, NEW t \in Tiers, Allocate(c, v, t) PROVE TInv'
    BY <1>1, AllocateTransfers
  <1>2. ASSUME NEW c \in Clients, NEW s \in Instances, NEW d \in Instances, Transfer(c, s, d)
        PROVE  TInv'
    BY <1>2, CallTransfers
  <1>3. ASSUME NEW c \in Clients, NEW i \in Instances, Close(c, i) \/ Write(c, i) \/ ShutdownNext(c, i)
        PROVE  TInv'
    BY <1>3, CallTransfers, WriteTransfers
  <1>4. ASSUME NEW c \in Clients, Shutdown(c) PROVE TInv'
    BY <1>4, CallTransfers
  <1>5. ASSUME NEW c \in Clients, Proceed(c) PROVE TInv'
    <2>1. CASE Publish(c) \/ AllocationFails(c)
      BY <2>1, PublishTransfers
    <2>2. CASE Release(c) \/ ShutdownRelease(c)
      BY <2>2, UnlinkTransfers
    <2>3. CASE ShutdownEnds(c)
      BY <2>3, CallTransfers
    <2> QED BY <1>3, <1>5, <2>1, <2>2, <2>3, WaitTransfers, SubmitTransfers, FilterTransfers,
               RecordTransfers DEF Proceed
  <1>6. ASSUME NEW j \in Jobs, Background(j) PROVE TInv'
    BY <1>6, BeginTransfers, CompleteTransfers, FailTransfers DEF Background
  <1>7. ASSUME UNCHANGED vars PROVE TInv'
    BY <1>7, TransfersStutter
  <1> QED BY <1>1, <1>2, <1>3, <1>4, <1>5, <1>6, <1>7 DEF Next

\* Both halves are invariants.
LEMMA AlwaysIInv == Spec => []IInv
  <1>1. Init => IInv
    BY BooksInit, TransfersInit DEF IInv
  <1>2. IInv /\ [Next]_vars => IInv'
    BY BooksStep, TransfersStep DEF IInv
  <1> QED BY <1>1, <1>2, PTL DEF Spec

\* Two transfers under way have different destinations, and none is the source
\* of the other.
LEMMA TransfersApart == BInv /\ TInv => TransfersUndisturbed
  <1> SUFFICES ASSUME BInv, TInv, NEW j \in Jobs, ~Finished(j)
               PROVE  /\ Open(jobs[j].source) /\ Open(jobs[j].destination)
                      /\ \A k \in Jobs \ {j} : ~Finished(k) =>
                           /\ jobs[k].destination \notin {jobs[j].source, jobs[j].destination}
                           /\ jobs[k].source # jobs[j].destination
    BY DEF TransfersUndisturbed
  <1>1. Open(jobs[j].source) /\ Open(jobs[j].destination) /\ inst[jobs[j].destination].completion = j
    BY TransferFacts, UnderWay
  <1>2. ASSUME NEW k \in Jobs, k # j, ~Finished(k)
        PROVE  /\ jobs[k].destination \notin {jobs[j].source, jobs[j].destination}
               /\ jobs[k].source # jobs[j].destination
    BY <1>1, <1>2, UnderWay DEF TInv, Apart
  <1> QED BY <1>1, <1>2

-----------------------------------------------------------------------------
(* Theorems.  They need the premise: section 6 of the README shows what    *)
(* two transfers called at once from one source do.                        *)

\* Where no two transfers are called from one source at once, a transfer under
\* way has its instances to itself: both stay open, nothing else writes what it
\* reads, nothing else reads or writes what it writes, until it has ended.
THEOREM TransfersAlwaysUndisturbed ==
  ASSUME ~SharedSource PROVE Spec => []TransfersUndisturbed
  <1>1. IInv => TransfersUndisturbed
    BY TransfersApart DEF IInv
  <1> QED BY <1>1, AlwaysIInv, PTL

\* Under the same premise an instance left half written has a completion that
\* says so, and no transfer ever takes it for its source.
THEOREM NothingEverTorn ==
  ASSUME ~SharedSource PROVE Spec => []NothingTorn
  <1>1. IInv => NothingTorn
    BY DEF IInv, TInv
  <1> QED BY <1>1, AlwaysIInv, PTL

\* Under the same premise a transfer in the background that ends well leaves in
\* its destination what its source held when it was called.
THEOREM AlwaysDelivers ==
  ASSUME ~SharedSource PROVE Spec => Delivers
  <1> DEFINE D == \A j \in Jobs : jobs[j].state # "done" /\ jobs'[j].state = "done" =>
                    inst'[jobs[j].destination].content = jobs[j].content
  <1>1. IInv /\ [Next]_vars => [D]_vars
    <2> SUFFICES ASSUME IInv, Next, NEW j \in Jobs, jobs[j].state # "done", jobs'[j].state = "done"
                 PROVE  inst'[jobs[j].destination].content = jobs[j].content
      OBVIOUS
    <2>1. BInv /\ TInv
      BY DEF IInv
    <2>2. ASSUME NEW k \in Jobs, Background(k)
          PROVE  inst'[jobs[j].destination].content = jobs[j].content
      <3>1. CASE Complete(k)
        <4>1. ~Finished(k) /\ jobs' = [jobs EXCEPT ![k] = Ended(@, "done")]
          BY <2>1, <3>1, Delivered
        <4>2. j = k
          <5>1. j # k => jobs'[j] = jobs[j]
            BY <2>1, <4>1, OutcomeStep
          <5> QED BY <5>1
        <4>3. /\ jobs[k].destination \in Instances /\ jobs[k].content \in Contents
              /\ inst' = [inst EXCEPT ![jobs[k].destination].content = jobs[k].content]
          BY <2>1, <3>1, Delivered
        <4>4. inst'[jobs[k].destination].content = jobs[k].content
          BY <2>1, <4>3, ContentStep
        <4> QED BY <4>2, <4>4
      <3>2. CASE Begin(k) \/ Fail(k)
        <4>1. PICK x \in {"running", "failed"} :
                 /\ ~Finished(k)
                 /\ \/ x = "running" /\ jobs' = [jobs EXCEPT ![k].state = "running"]
                    \/ x \in {"done", "failed"} /\ jobs' = [jobs EXCEPT ![k] = Ended(@, x)]
          BY <3>2 DEF Begin, Fail, Poison, Finished
        <4>2. jobs'[k].state = x /\ (j # k => jobs'[j] = jobs[j])
          BY <2>1, <4>1, OutcomeStep
        <4> QED BY <4>2
      <3> QED BY <2>2, <3>1, <3>2 DEF Background
    <2>3. ASSUME NEW c \in Clients, Submit(c) PROVE jobs'[j] = jobs[j]
      <3>1. \A s, d, n : s = call[c].source /\ d = call[c].target /\ n = Len(jobs) + 1 =>
              jobs'[j] = jobs[j]
        BY <2>1, <2>3, SubmitStep
      <3> QED BY <3>1
    <2>4. (\A k \in Jobs : ~Background(k)) /\ (\A c \in Clients : ~Submit(c)) => jobs' = jobs
      BY DEF Next, Proceed, Allocate, Transfer, Close, Write, Shutdown, Publish, AllocationFails,
         Wait, Filter, Record, Release, ShutdownRelease, ShutdownEnds, ShutdownNext
    <2> QED BY <2>2, <2>3, <2>4
  <1> QED BY <1>1, AlwaysIInv, PTL DEF Spec, Delivers

=============================================================================
