----------------------------- MODULE Hierarchy ------------------------------
(***************************************************************************)
(* HierarchyRuntime: physical instances of logical values in memory tiers, *)
(* and the transfers between them.  Client threads allocate, transfer and  *)
(* close; a copy between two memory tiers without a device is done by the  *)
(* caller, one that involves a device by a stream of its own, and one that *)
(* involves a file by a pool of Workers threads.                           *)
(*                                                                         *)
(* An instance is its index in inst.  A completion is the index in jobs of *)
(* the transfer it belongs to; 0 stands for None, also for an instance.    *)
(* Logical name, version and capacity go together and are one constant.    *)
(* Lists of completions are sets: no property depends on their order.      *)
(***************************************************************************)
EXTENDS Integers, FiniteSets, Sequences

CONSTANTS
  Clients,       \* threads that call the runtime
  Values,        \* logical names with their version
  Size,          \* capacity_bytes of each
  Tiers,         \* allocatable tiers
  FileTiers,     \* those kept in a file (nvme)
  DeviceTiers,   \* those copied by a stream (device)
  Budget,        \* budget of each tier
  Workers,       \* io_workers
  MayFail,       \* may allocations and file transfers fail?
  SharedSource,  \* may two transfers from one source be called at once?
  MaxInstances, MaxTransfers, MaxWrites \* bounds of the model

ASSUME HierarchyAssumption ==
  /\ FileTiers \subseteq Tiers /\ DeviceTiers \subseteq Tiers \ FileTiers
  /\ Size \in [Values -> Nat] /\ Budget \in [Tiers -> Nat]
  /\ Workers \in Nat \ {0}
  /\ MayFail \in BOOLEAN /\ SharedSource \in BOOLEAN
  /\ MaxInstances \in Nat /\ MaxTransfers \in Nat /\ MaxWrites \in Nat

VARIABLES
  inst,   \* every instance ever reserved
  live,   \* live_bytes of each tier
  jobs,   \* every transfer ever submitted; an ended one keeps its outcome
  call,   \* what each client is doing
  files,  \* the instances whose file exists
  status, \* is the runtime "up", "closing" or "down"?
  writes  \* how many contents the clients have written

vars == <<inst, live, jobs, call, files, status, writes>>

Instances == 1 .. Len(inst)
Jobs      == 1 .. Len(jobs)

\* What an instance holds: what a client wrote, or one of these.
Fresh == 0
Torn  == -1
Gone  == -2

\* A client: its operation, the instances it works on, the completions it has
\* still to wait for, and the readers it keeps.
Idle == [op |-> "idle", source |-> 0, target |-> 0, waits |-> {}, kept |-> {}]

Init ==
  /\ inst = <<>> /\ jobs = <<>> /\ files = {}
  /\ live = [t \in Tiers |-> 0]
  /\ call = [c \in Clients |-> Idle]
  /\ status = "up" /\ writes = 0

Open(i) == inst[i].state = "open"

\* Variant: waiting only for a transfer that ends well.
Succeeded(j) == jobs[j].state = "done"

Finished(j) == jobs[j].state \in {"done", "failed"}

\* The completions to wait for: the last write of i, and its readers.
Written(i) == {inst[i].completion} \ {0}
Pending(i) == Written(i) \cup inst[i].readers

Held(c) == {call[c].source, call[c].target} \ {0}

\* No other call in progress uses one of the instances; two transfers may
\* share their source when SharedSource says so.
Free(c, source, target) ==
  \A b \in Clients \ {c} :
    /\ target \notin Held(b)
    /\ source \in Held(b) => SharedSource /\ source = call[b].source

Enter(c, op, source, target, waits) ==
  call' = [call EXCEPT ![c] =
    [op |-> op, source |-> source, target |-> target, waits |-> waits, kept |-> {}]]
Return(c) == call' = [call EXCEPT ![c] = Idle]
Ready(c)  == status = "up" /\ call[c].op = "idle"

-----------------------------------------------------------------------------
(* allocate: bytes are reserved under the lock, the buffer or file is made *)
(* outside it, and the instance is published, or the bytes are given back. *)

Fits(t, v) == live[t] + Size[v] <= Budget[t]

Allocate(c, v, t) ==
  /\ Ready(c) /\ Len(inst) < MaxInstances /\ Fits(t, v)
  /\ live' = [live EXCEPT ![t] = @ + Size[v]]
  /\ inst' = Append(inst, [value |-> v, tier |-> t, state |-> "reserved",
                           completion |-> 0, readers |-> {}, content |-> Fresh])
  /\ Enter(c, "allocate", 0, Len(inst) + 1, {})
  /\ UNCHANGED <<jobs, files, status, writes>>

Publish(c) ==
  /\ call[c].op = "allocate"
  /\ LET i == call[c].target
     IN  /\ inst' = [inst EXCEPT ![i].state = "open"]
         /\ files' = IF inst[i].tier \in FileTiers THEN files \cup {i} ELSE files
  /\ Return(c)
  /\ UNCHANGED <<live, jobs, status, writes>>

\* Variant: the reservation survives the failure.
KeepBytes(i) == i \in Instances /\ UNCHANGED live

GiveBack(i) == live' = [live EXCEPT ![inst[i].tier] = @ - Size[inst[i].value]]

AllocationFails(c) ==
  /\ MayFail /\ call[c].op = "allocate"
  /\ LET i == call[c].target
     IN  GiveBack(i) /\ inst' = [inst EXCEPT ![i].state = "closed", ![i].content = Gone]
  /\ Return(c)
  /\ UNCHANGED <<jobs, files, status, writes>>

-----------------------------------------------------------------------------
(* transfer, and the waits it shares with close.                           *)

\* Variant: only the last write of the destination is waited for.
BlindWaits(s, d) == Written(s) \cup Written(d)

\* Variant: the last write of the source is not waited for.
EagerWaits(s, d) == Pending(d) \ Written(s)

TransferWaits(s, d) == Written(s) \cup Pending(d)

Transfer(c, s, d) ==
  /\ Ready(c) /\ Len(jobs) + Cardinality({b \in Clients : call[b].op = "transfer"}) < MaxTransfers
  /\ Open(s) /\ Open(d) /\ s # d /\ inst[s].value = inst[d].value
  /\ Free(c, s, d)
  /\ Enter(c, "transfer", s, d, TransferWaits(s, d))
  /\ UNCHANGED <<inst, live, jobs, files, status, writes>>

\* A completion is there.  Its failure ends a transfer; a close goes on.
Wait(c) ==
  /\ \E j \in call[c].waits :
       /\ Finished(j)
       /\ IF call[c].op = "transfer" /\ jobs[j].state = "failed"
          THEN Return(c)
          ELSE call' = [call EXCEPT ![c].waits = @ \ {j}]
  /\ UNCHANGED <<inst, live, jobs, files, status, writes>>

Ended(job, outcome) ==
  [job EXCEPT !.source = 0, !.destination = 0, !.kind = "copy", !.state = outcome]

Kind(s, d) ==
  IF {inst[s].tier, inst[d].tier} \cap FileTiers # {} THEN "file"
  ELSE IF {inst[s].tier, inst[d].tier} \cap DeviceTiers # {} THEN "stream" ELSE "copy"

Submit(c) ==
  /\ call[c].op = "transfer" /\ call[c].waits = {}
  /\ LET s == call[c].source
         d == call[c].target
         copied == Kind(s, d) = "copy"
         job == [source |-> s, destination |-> d, kind |-> Kind(s, d),
                 state |-> "queued", content |-> inst[s].content]
     IN  /\ jobs' = Append(jobs, IF copied THEN Ended(job, "done") ELSE job)
         /\ inst' = [inst EXCEPT ![d].completion = Len(jobs) + 1, ![d].readers = {},
                                 ![d].content = IF copied THEN inst[s].content ELSE @]
  /\ call' = [call EXCEPT ![c].op = "filter"]
  /\ UNCHANGED <<live, files, status, writes>>

\* The source's list of readers is rebuilt without those that have ended ...
Filter(c) ==
  /\ call[c].op = "filter"
  /\ call' = [call EXCEPT ![c].op = "record",
                ![c].kept = {j \in inst[call[c].source].readers : ~Finished(j)}]
  /\ UNCHANGED <<inst, live, jobs, files, status, writes>>

\* ... and replaced, the new transfer appended.
Record(c) ==
  /\ call[c].op = "record"
  /\ LET s == call[c].source
         d == call[c].target
     IN  inst' = [inst EXCEPT ![s].readers = call[c].kept \cup {inst[d].completion}]
  /\ Return(c)
  /\ UNCHANGED <<live, jobs, files, status, writes>>

-----------------------------------------------------------------------------
(* The transfers in the background.  A file transfer truncates or          *)
(* overwrites its destination chunk by chunk; it is torn until the end.    *)

Running == {j \in Jobs : jobs[j].kind = "file" /\ jobs[j].state = "running"}

Begin(j) ==
  /\ jobs[j].state = "queued"
  /\ jobs[j].kind = "file" =>
       /\ Cardinality(Running) < Workers
       /\ \A k \in 1 .. j - 1 : jobs[k].kind = "file" => jobs[k].state # "queued"
  /\ LET d == jobs[j].destination
     IN  /\ inst' = [inst EXCEPT ![d].content = Torn]
         /\ files' = IF inst[d].tier \in FileTiers THEN files \cup {d} ELSE files
  /\ jobs' = [jobs EXCEPT ![j].state = "running"]
  /\ UNCHANGED <<live, call, status, writes>>

\* What was read is whole if the source still holds what it held at the call.
Complete(j) ==
  /\ jobs[j].state = "running"
  /\ LET d == jobs[j].destination
         read == inst[jobs[j].source].content
     IN  inst' = [inst EXCEPT ![d].content =
                    IF @ = Torn /\ read = jobs[j].content THEN read ELSE Torn]
  /\ jobs' = [jobs EXCEPT ![j] = Ended(@, "done")]
  /\ UNCHANGED <<live, call, files, status, writes>>

Poison(j) == jobs' = [jobs EXCEPT ![j] = Ended(@, "failed")]

Fail(j) ==
  /\ MayFail /\ jobs[j].kind = "file" /\ jobs[j].state = "running" /\ Poison(j)
  /\ UNCHANGED <<inst, live, call, files, status, writes>>

-----------------------------------------------------------------------------
(* close, of an instance and of the runtime.                               *)

\* Variant: closing waits for the last write only.
CloseUnread(i) == Written(i)

CloseWaits(i) == Pending(i)

Close(c, i) ==
  /\ Ready(c) /\ Open(i)
  /\ Free(c, 0, i)
  /\ Enter(c, "close", 0, i, CloseWaits(i))
  /\ UNCHANGED <<inst, live, jobs, files, status, writes>>

Unlink(i) ==
  /\ inst' = [inst EXCEPT ![i].state = "closed", ![i].content = Gone,
                          ![i].completion = 0, ![i].readers = {}]
  /\ files' = files \ {i}
  /\ GiveBack(i)

Release(c) ==
  /\ call[c].op = "close" /\ call[c].waits = {}
  /\ Unlink(call[c].target)
  /\ Return(c)
  /\ UNCHANGED <<jobs, status, writes>>

Shutdown(c) ==
  /\ \A b \in Clients : Ready(b)
  /\ status' = "closing"
  /\ Enter(c, "shutdown", 0, 0, {})
  /\ UNCHANGED <<inst, live, jobs, files, writes>>

\* The open instances are closed one after the other, in any order.
ShutdownNext(c, i) ==
  /\ call[c].op = "shutdown" /\ call[c].target = 0 /\ Open(i)
  /\ Enter(c, "shutdown", 0, i, CloseWaits(i))
  /\ UNCHANGED <<inst, live, jobs, files, status, writes>>

ShutdownRelease(c) ==
  /\ call[c].op = "shutdown" /\ call[c].target # 0 /\ call[c].waits = {}
  /\ Unlink(call[c].target)
  /\ Enter(c, "shutdown", 0, 0, {})
  /\ UNCHANGED <<jobs, status, writes>>

\* The pool is drained and the directory removed.
ShutdownEnds(c) ==
  /\ call[c].op = "shutdown" /\ \A i \in Instances : ~Open(i)
  /\ \A j \in Jobs : jobs[j].kind = "file" => Finished(j)
  /\ status' = "down"
  /\ Return(c)
  /\ UNCHANGED <<inst, live, jobs, files, writes>>

-----------------------------------------------------------------------------
(* A client writes the buffer of an instance: a kernel's output, or new    *)
(* input.  It does so when no transfer of its own is under way there.      *)

Write(c, i) ==
  /\ Ready(c) /\ Free(c, 0, i) /\ Open(i) /\ inst[i].tier \notin FileTiers
  /\ \A j \in Jobs : i \in {jobs[j].source, jobs[j].destination} => Finished(j)
  /\ writes < MaxWrites /\ writes' = writes + 1
  /\ inst' = [inst EXCEPT ![i].content = writes + 1]
  /\ UNCHANGED <<live, jobs, call, files, status>>

-----------------------------------------------------------------------------
Proceed(c) ==
  \/ Publish(c) \/ AllocationFails(c) \/ Wait(c) \/ Submit(c) \/ Filter(c) \/ Record(c)
  \/ Release(c) \/ ShutdownRelease(c) \/ ShutdownEnds(c)
  \/ \E i \in Instances : ShutdownNext(c, i)

Background(j) == Begin(j) \/ Complete(j) \/ Fail(j)

Next ==
  \/ \E c \in Clients :
       \/ \E v \in Values, t \in Tiers : Allocate(c, v, t)
       \/ \E s, d \in Instances : Transfer(c, s, d)
       \/ \E i \in Instances : Close(c, i) \/ Write(c, i)
       \/ Shutdown(c) \/ Proceed(c)
  \/ \E j \in Jobs : Background(j)

Spec ==
  /\ Init /\ [][Next]_vars
  /\ \A c \in Clients : WF_vars(Proceed(c))
  /\ \A j \in 1 .. MaxTransfers : WF_vars(j \in Jobs /\ Background(j))

-----------------------------------------------------------------------------
Contents == {Torn, Gone, Fresh} \cup 1 .. MaxWrites

PhysicalInstance ==
  [value : Values, tier : Tiers, state : {"reserved", "open", "closed"},
   completion : {0} \cup Jobs, readers : SUBSET Jobs, content : Contents]

HierarchyCompletion ==
  [source : {0} \cup Instances, destination : {0} \cup Instances,
   kind : {"file", "stream", "copy"},
   state : {"queued", "running", "done", "failed"}, content : Contents]

ClientState ==
  [op : {"idle", "allocate", "transfer", "filter", "record", "close", "shutdown"},
   source : {0} \cup Instances, target : {0} \cup Instances,
   waits : SUBSET Jobs, kept : SUBSET Jobs]

TypeOK ==
  /\ inst \in Seq(PhysicalInstance) /\ jobs \in Seq(HierarchyCompletion)
  /\ call \in [Clients -> ClientState]
  /\ live \in [Tiers -> Int] /\ files \subseteq Instances
  /\ status \in {"up", "closing", "down"} /\ writes \in 0 .. MaxWrites

\* The bytes in use in tier t, those of an instance that is being made included.
BytesIn(t) ==
  UNION {{i} \X (1 .. Size[inst[i].value]) :
           i \in {k \in Instances : inst[k].tier = t /\ inst[k].state # "closed"}}

\* live_bytes counts exactly these bytes, and never exceeds the budget, whatever
\* failed on the way.
LiveExact ==
  \A t \in Tiers : live[t] = Cardinality(BytesIn(t)) /\ live[t] <= Budget[t]

\* While a transfer is under way both its instances are open, nothing else
\* writes what it reads, and nothing else touches what it writes.
TransfersUndisturbed ==
  \A j \in Jobs : ~Finished(j) =>
    /\ Open(jobs[j].source) /\ Open(jobs[j].destination)
    /\ \A k \in Jobs \ {j} : ~Finished(k) =>
         /\ jobs[k].destination \notin {jobs[j].source, jobs[j].destination}
         /\ jobs[k].source # jobs[j].destination

\* An instance left half written is one whose completion says so.
TornIsMarked ==
  \A i \in Instances : inst[i].content = Torn =>
    inst[i].completion # 0 /\ jobs[inst[i].completion].state # "done"

\* No transfer takes its data from a half-written instance.
NothingTornCopied == \A j \in Jobs : jobs[j].content \notin {Torn, Gone}

\* A runtime that has shut down holds no bytes and has left no file behind.
NothingLeft == status = "down" => files = {} /\ \A t \in Tiers : live[t] = 0

\* The state is well typed, and between its first allocation and its shutdown
\* the runtime never loses a byte or a file: what failed has been given back.
BytesOK == TypeOK /\ LiveExact /\ NothingLeft

\* A file transfer that fails half way harms nobody: its completion tells, and
\* no later transfer takes the half-written instance for a source.
NothingTorn == TornIsMarked /\ NothingTornCopied

\* A transfer that ends well delivers what the source held when it was called.
Delivers ==
  [][\A j \in Jobs : jobs[j].state # "done" /\ jobs'[j].state = "done" =>
       inst'[jobs[j].destination].content = jobs[j].content]_vars

\* Every call returns or raises.
CallsReturn == \A c \in Clients : (call[c].op # "idle") ~> (call[c].op = "idle")
=============================================================================
