------------------------------- MODULE Bundle -------------------------------
(***************************************************************************)
(* Execution bundles: runtime/plan.py binds a compiler plan, in one piece  *)
(* or phase by phase; runtime/bundle.py verifies the dependency graph and  *)
(* submits the launches in a topological order, each with the completions  *)
(* of the launches it names; interop/torch/provider.py turns completions   *)
(* into CUDA stream order.                                                 *)
(*                                                                         *)
(* A launch waits for its direct dependencies only, and wait() waits for   *)
(* the terminals only.  What makes that enough is the verification, the    *)
(* order of submission and the FIFO order of a stream together.            *)
(***************************************************************************)
EXTENDS Naturals, Sequences, FiniteSets

CONSTANTS
  N,          \* number of launches of a plan
  Streams,    \* CUDA streams the caller may have made current
  Plans,      \* the plans under study, see PlanType
  Providers   \* subset of {"sync", "cuda"}

Launches == 1 .. N
NoStream == "no stream"
Phases == {"materialize", "execute"}

\* One access: what it touches, whether it writes, and the part it owns
\* ("all" when the access names no partitioning).
AccessType == [binding : {"row_worklist", "output"},
               writes : BOOLEAN,
               part : {"all", "p1", "p2"}]

\* deps, accesses and phase of every launch, its snapshot version, whether it
\* is a kernel (the release of a resource without close() counts as one), an
\* event join or runs on the host, whether the terminals the
\* compiler serialised are those of the graph, and how the plan is bound.
PlanType ==
  [deps : [Launches -> SUBSET Launches],
   acc : [Launches -> SUBSET AccessType],
   phase : [Launches -> Phases],
   version : [Launches -> Nat],
   kind : [Launches -> {"kernel", "join", "host"}],
   terminalsAgree : BOOLEAN,
   phased : BOOLEAN]

ASSUME BundleAssumption ==
  /\ N \in Nat \ {0}
  /\ Plans \subseteq PlanType
  /\ Providers \subseteq {"sync", "cuda"}
  /\ NoStream \notin Streams

VARIABLES
  plan,       \* the plan, fixed
  provider,   \* the submission provider, fixed
  stage,      \* "whole", or the phase being bound
  step,       \* how far the calling thread is
  queue,      \* _verify: launches whose dependencies are all in order
  order,      \* _order
  reach,      \* _verify: reachable, as a set per launch
  next,       \* position in order of the loop that runs
  submitted,  \* launches handed to the device, or run on the host
  stream,     \* the stream a launch was put on
  handle,     \* the _stream its completion holds
  after,      \* launches that must finish before it starts
  begun,      \* launches that have started
  done        \* launches that have finished

static == <<plan, provider>>
graph == <<queue, order, reach>>
device == <<submitted, stream, handle, after>>
vars == <<plan, provider, stage, step, queue, order, reach, next, submitted,
          stream, handle, after, begun, done>>

-----------------------------------------------------------------------------
Selected ==
  IF stage = "whole" THEN Launches
  ELSE {i \in Launches : plan.phase[i] = stage}

\* depends_on of the KernelInvocation: the names the phase selects.
Deps(i) == plan.deps[i] \cap Selected

Successors(i) == {j \in Selected : i \in Deps(j)}

Terminals == {i \in Selected : Successors(i) = {}}

\* Two accesses of one binding, one of them a write, not proven disjoint.
AccessesClash(a, b) ==
  /\ a.binding = b.binding
  /\ a.writes \/ b.writes
  /\ a.part = "all" \/ b.part = "all" \/ a.part = b.part

Conflict(l, r) ==
  \E a \in plan.acc[l], b \in plan.acc[r] : AccessesClash(a, b)

Ordered == {order[k] : k \in 1 .. Len(order)}

\* The sequences that list S in index order (there is one).
Listings(S) ==
  {q \in [1 .. Cardinality(S) -> S] :
     \A j, k \in DOMAIN q : j < k => q[j] < q[k]}

OnStream(s) == {i \in submitted : stream[i] = s}

\* Variant: other streams are not waited for.
WaitForVariant(i) == {d \in Deps(i) : FALSE}

\* wait_for, and those of them a CUDA launch must not run ahead of: every
\* completion that holds a stream stands for all the work on that stream.
WaitFor(i) == {d \in Deps(i) : handle[d] # NoStream}

WaitsForDevice(i) == \E d \in Deps(i) : handle[d] = NoStream

\* The work in front of a launch put on stream s now.
Ahead(i, s) ==
  OnStream(s) \cup UNION {OnStream(handle[d]) : d \in WaitFor(i)}

\* The launches that run in the calling thread are over.
CallerFree ==
  \A i \in begun :
    provider = "sync" \/ plan.kind[i] = "host" => i \in done

\* A completion's wait() returns: its stream, or the whole device, is idle.
Drained(h) == IF h = NoStream THEN submitted \subseteq done
                              ELSE OnStream(h) \subseteq done

\* Variant: a submission that is ready with its first terminal.
ReadyVariant ==
  /\ step = "submitted"
  /\ \E t \in Terminals : \/ provider = "sync"
                          \/ handle[t] # NoStream /\ Drained(handle[t])

\* BundleSubmission.ready, one query per terminal.
Ready ==
  /\ step = "submitted"
  /\ \A t \in Terminals : \/ provider = "sync"
                          \/ handle[t] # NoStream /\ Drained(handle[t])

-----------------------------------------------------------------------------
Init ==
  /\ plan \in Plans
  /\ provider \in Providers
  /\ stage = IF plan.phased THEN "materialize" ELSE "whole"
  /\ step = "bind"
  /\ queue = <<>>
  /\ order = <<>>
  /\ reach = [i \in Launches |-> {}]
  /\ next = 0
  /\ submitted = {}
  /\ stream = [i \in Launches |-> NoStream]
  /\ handle = [i \in Launches |-> NoStream]
  /\ after = [i \in Launches |-> {}]
  /\ begun = {}
  /\ done = {}

\* _bind and the first loop of _verify: an empty phase, mixed snapshot
\* versions and a launch that names itself are refused.
Bind ==
  /\ step = "bind"
  /\ order' = <<>>
  /\ reach' = [i \in Launches |-> {}]
  /\ \/ /\ \/ Cardinality({plan.version[i] : i \in Selected}) # 1
           \/ \E i \in Selected : i \in Deps(i)
        /\ step' = "refused"
        /\ queue' = <<>>
     \/ /\ Cardinality({plan.version[i] : i \in Selected}) = 1
        /\ \A i \in Selected : i \notin Deps(i)
        /\ step' = "sort"
        /\ queue' \in Listings({i \in Selected : Deps(i) = {}})
  /\ UNCHANGED <<static, stage, next, device, begun, done>>

\* queue.pop(0): the successors whose last dependency this was join the queue.
Pop ==
  /\ step = "sort"
  /\ queue # <<>>
  /\ order' = Append(order, Head(queue))
  /\ \E ready \in Listings({j \in Successors(Head(queue)) :
                              Deps(j) \subseteq Ordered \cup {Head(queue)}}) :
        queue' = Tail(queue) \o ready
  /\ UNCHANGED <<static, stage, step, reach, next, device, begun, done>>

\* The queue is empty: a launch that was never reached is on a cycle.
Sorted ==
  /\ step = "sort"
  /\ queue = <<>>
  /\ \/ /\ Len(order) # Cardinality(Selected)
        /\ step' = "refused"
        /\ next' = next
     \/ /\ Len(order) = Cardinality(Selected)
        /\ step' = "close"
        /\ next' = Len(order)
  /\ UNCHANGED <<static, stage, graph, device, begun, done>>

\* The loop over reversed(order) that fills reachable.
Close ==
  /\ step = "close"
  /\ next > 0
  /\ LET source == order[next]
     IN  reach' = [reach EXCEPT ![source] =
                     Successors(source)
                       \cup UNION {reach[t] : t \in Successors(source)}]
  /\ next' = next - 1
  /\ UNCHANGED <<static, stage, step, queue, order, device, begun, done>>

\* Every conflicting pair must be ordered; bind() also compares the terminals.
Check ==
  /\ step = "close"
  /\ next = 0
  /\ \/ /\ \/ \E l, r \in Selected : /\ l < r
                                     /\ Conflict(l, r)
                                     /\ r \notin reach[l]
                                     /\ l \notin reach[r]
           \/ stage = "whole" /\ ~plan.terminalsAgree
        /\ step' = "refused"
        /\ next' = next
     \/ /\ \A l, r \in Selected :
             l < r /\ Conflict(l, r) => r \in reach[l] \/ l \in reach[r]
        /\ stage = "whole" => plan.terminalsAgree
        /\ step' = "submit"
        /\ next' = 1
  /\ UNCHANGED <<static, stage, graph, device, begun, done>>

-----------------------------------------------------------------------------
\* SynchronousProvider.submit: the wait_for are immediate, the launch runs in
\* the calling thread, which goes on when it is over.
SubmitSync ==
  /\ step = "submit"
  /\ provider = "sync"
  /\ next <= Len(order)
  /\ CallerFree
  /\ submitted' = submitted \cup {order[next]}
  /\ begun' = begun \cup {order[next]}
  /\ next' = next + 1
  /\ UNCHANGED <<static, stage, step, graph, stream, handle, after, done>>

\* TorchCudaSubmissionProvider.submit with s current: a completion without a
\* stream is waited for on the host, one of another stream by wait_stream, one
\* of this stream is in front already.  A host launch runs at once.
SubmitCuda(s) ==
  /\ step = "submit"
  /\ provider = "cuda"
  /\ next <= Len(order)
  /\ CallerFree
  /\ LET i == order[next]
     IN  /\ WaitsForDevice(i) => submitted \subseteq done
         /\ submitted' = submitted \cup {i}
         /\ stream' = [stream EXCEPT ![i] = s]
         /\ handle' = [handle EXCEPT ![i] =
                         IF Deps(i) = {} /\ i \in Terminals THEN NoStream
                         ELSE s]
         /\ after' = [after EXCEPT ![i] = Ahead(i, s)]
         /\ begun' = IF plan.kind[i] = "host" THEN begun \cup {i} ELSE begun
  /\ next' = next + 1
  /\ UNCHANGED <<static, stage, step, graph, done>>

\* The provider, or the launch it calls, raises: submit() leaves and the
\* completions of what was already submitted are lost with it.
SubmitRaises ==
  /\ step = "submit"
  /\ next <= Len(order)
  /\ CallerFree
  /\ step' = "raised"
  /\ UNCHANGED <<static, stage, graph, next, device, begun, done>>

\* The BundleSubmission is built.
Submit ==
  /\ step = "submit"
  /\ next > Len(order)
  /\ CallerFree
  /\ step' = "submitted"
  /\ UNCHANGED <<static, stage, graph, next, device, begun, done>>

\* BundleSubmission.wait(): every terminal; the phases follow each other.
Wait ==
  /\ step = "submitted"
  /\ \A t \in Terminals : provider = "cuda" => Drained(handle[t])
  /\ \/ /\ stage = "materialize"
        /\ stage' = "execute"
        /\ step' = "bind"
     \/ /\ stage # "materialize"
        /\ stage' = stage
        /\ step' = "returned"
  /\ UNCHANGED <<static, graph, next, device, begun, done>>

-----------------------------------------------------------------------------
\* The runner of message_passing.py: an execute phase without dependencies
\* between kernels is launched without completions, on one stream, joins
\* left out, and nothing waits for it here.
MayGoDirect ==
  /\ stage = "execute"
  /\ provider = "cuda"
  /\ \E i \in Selected : plan.kind[i] # "join"
  /\ \A i \in Selected : plan.kind[i] # "join" => Deps(i) = {}
  /\ \A i \in Selected : plan.kind[i] = "join" =>
       \A d \in Deps(i) : plan.kind[d] # "join"

GoDirect ==
  /\ step = "submit"
  /\ next = 1
  /\ MayGoDirect
  /\ step' = "direct"
  /\ UNCHANGED <<static, stage, graph, next, device, begun, done>>

\* launch_same_stream, in the order of the plan.
LaunchDirect(s) ==
  /\ step = "direct"
  /\ next \in Selected
  /\ plan.kind[next] # "join"
  /\ CallerFree
  /\ submitted' = submitted \cup {next}
  /\ stream' = [stream EXCEPT ![next] = s]
  /\ after' = [after EXCEPT ![next] = OnStream(s)]
  /\ begun' = IF plan.kind[next] = "host" THEN begun \cup {next} ELSE begun
  /\ next' = next + 1
  /\ UNCHANGED <<static, stage, step, graph, handle, done>>

PassOver ==
  /\ step = "direct"
  /\ next \in Launches
  /\ next \in Selected => plan.kind[next] = "join"
  /\ next' = next + 1
  /\ UNCHANGED <<static, stage, step, graph, device, begun, done>>

-----------------------------------------------------------------------------
\* The device: the head of a stream starts when what it waits for is over.
Start(i) ==
  /\ i \in submitted \ begun
  /\ after[i] \subseteq done
  /\ begun' = begun \cup {i}
  /\ UNCHANGED <<static, stage, step, graph, next, device, done>>

Finish(i) ==
  /\ i \in begun \ done
  /\ done' = done \cup {i}
  /\ UNCHANGED <<static, stage, step, graph, next, device, begun>>

Host ==
  \/ Bind \/ Pop \/ Sorted \/ Close \/ Check
  \/ SubmitSync \/ SubmitRaises \/ Submit \/ Wait \/ GoDirect \/ PassOver
  \/ \E s \in Streams : SubmitCuda(s) \/ LaunchDirect(s)

Next == Host \/ \E i \in Launches : Start(i) \/ Finish(i)

Spec == Init /\ [][Next]_vars

-----------------------------------------------------------------------------
TypeOK ==
  /\ plan \in Plans
  /\ provider \in Providers
  /\ stage \in Phases \cup {"whole"}
  /\ step \in {"bind", "sort", "close", "submit", "submitted", "returned",
               "direct", "refused", "raised"}
  /\ queue \in Seq(Launches)
  /\ order \in Seq(Launches)
  /\ reach \in [Launches -> SUBSET Launches]
  /\ next \in Nat
  /\ submitted \in SUBSET Launches
  /\ stream \in [Launches -> Streams \cup {NoStream}]
  /\ handle \in [Launches -> Streams \cup {NoStream}]
  /\ after \in [Launches -> SUBSET Launches]
  /\ begun \in SUBSET submitted
  /\ done \in SUBSET begun

\* The dependencies of the whole plan, over any number of launches.
Ancestors(l) ==
  {k \in Launches : \A S \in SUBSET Launches :
     plan.deps[l] \subseteq S /\ (\A x \in S : plan.deps[x] \subseteq S)
       => k \in S}

Before == {p \in Launches \X Launches : p[1] \in Ancestors(p[2])}

\* Launches that may not run at the same time.
Clash == {p \in Launches \X Launches : p[1] # p[2] /\ Conflict(p[1], p[2])}

\* The promise: see LaunchOrder.
Order == INSTANCE LaunchOrder WITH
  before <- Before, clash <- Clash, begun <- begun, done <- done,
  returned <- (step = "returned")

\* A bundle in submission runs launches in dependency order, never two that
\* conflict at once, and a wait() that returned leaves none of them running,
\* although a launch names only direct dependencies and wait() only terminals.
ImplementsLaunchOrder == Order!Spec

\* A submission that says it is ready has nothing left to run: the terminals
\* answer for every launch, through stream order alone.
ReadyMeansDone == Ready => Selected \subseteq done
=============================================================================
