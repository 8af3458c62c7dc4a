--------------------------- MODULE CompileWorker ---------------------------
(***************************************************************************)
(* PersistentCompileWorker: callers, one at a time under a lock, send a    *)
(* request over a pipe to a child process and read its answer.  The child  *)
(* may crash or hang and a caller may be interrupted (KeyboardInterrupt)   *)
(* while it sends or waits, leaving what it sent, or part of it, behind.   *)
(* A request is taken to fit into the pipe: sending it never blocks.       *)
(*                                                                         *)
(* A request is its id; Garbled is a line that is not JSON.  An answer has *)
(* the id it repeats, the request whose module was compiled and whether    *)
(* that worked.                                                            *)
(***************************************************************************)
EXTENDS Integers, Sequences

CONSTANTS
  Callers,
  MaxRequests, \* bound on the ids given out
  MaxFaults    \* bound on crashes, hangs and interrupts

ASSUME WorkerAssumption ==
  MaxRequests \in Nat /\ MaxFaults \in Nat

VARIABLES
  phase,    \* what each caller is doing; any but "idle" holds the lock
  request,  \* the id of its request
  answer,   \* the request that the last answer it returned was made for
  nextId,   \* ids given out
  process,  \* the current child
  faults, failures \* what went wrong, and the compiles that raised for it

client     == <<phase, request, answer>>
workerVars == <<client, nextId, process, faults, failures>>

Garbled == 0

Child == [state |-> "up", stdin |-> <<>>, cut |-> FALSE, busy |-> <<>>,
          last |-> Garbled, stdout |-> <<>>]
None  == [Child EXCEPT !.state = "none"]

WorkerInit ==
  /\ phase = [c \in Callers |-> "idle"]
  /\ request = [c \in Callers |-> 0] /\ answer = [c \in Callers |-> 0]
  /\ nextId = 0 /\ process = None
  /\ faults = 0 /\ failures = 0

Alive  == process.state \in {"up", "hung"}
Locked == \E c \in Callers : phase[c] # "idle"

-----------------------------------------------------------------------------
(* The caller.                                                             *)

\* compile takes the lock and starts a child unless there is one alive; a dead
\* one is dropped as it is.
Start(c) ==
  /\ ~Locked /\ nextId < MaxRequests
  /\ process' = IF Alive THEN process ELSE Child
  /\ nextId' = nextId + 1
  /\ request' = [request EXCEPT ![c] = nextId + 1]
  /\ phase' = [phase EXCEPT ![c] = "send"]
  /\ UNCHANGED <<answer, faults, failures>>

Written(p, line) ==
  [p EXCEPT !.stdin = Append(@, IF p.cut THEN Garbled ELSE line), !.cut = FALSE]

Send(c) ==
  /\ phase[c] = "send" /\ Alive
  /\ process' = Written(process, request[c])
  /\ phase' = [phase EXCEPT ![c] = "select"]
  /\ UNCHANGED <<request, answer, nextId, faults, failures>>

End(c) == phase' = [phase EXCEPT ![c] = "idle"]

\* Variant: the child that failed stays the current one.
Keep(c) ==
  /\ End(c) /\ failures' = failures + 1
  /\ UNCHANGED <<request, answer, nextId, process, faults>>

\* The child is killed and waited for, its pipes are closed, compile raises.
Discard(c) ==
  /\ End(c) /\ failures' = failures + 1 /\ process' = None
  /\ UNCHANGED <<request, answer, nextId, faults>>

\* The pipe is broken; closing it in _discard flushes again and raises as well.
SendFails(c) ==
  /\ phase[c] = "send" /\ process.state = "dead"
  /\ End(c) /\ failures' = failures + 1 /\ process' = None
  /\ UNCHANGED <<request, answer, nextId, faults>>

\* Variant: waiting for an answer without a timeout.
WaitOn(c) == FALSE /\ Discard(c)

TimeOut(c) ==
  /\ phase[c] = "select" /\ process.state = "hung" /\ process.stdout = <<>>
  /\ Discard(c)

EndOfFile(c) ==
  /\ phase[c] = "select" /\ process.state = "dead" /\ process.stdout = <<>>
  /\ Discard(c)

Received == Head(process.stdout)

Consume == process' = [process EXCEPT !.stdout = Tail(@)]

\* The child died while it was writing: half a line is not JSON.  The child
\* stays the current one.
Truncated(c) ==
  /\ phase[c] = "select" /\ process.stdout # <<>> /\ Received.cut
  /\ Consume /\ End(c) /\ failures' = failures + 1
  /\ UNCHANGED <<request, answer, nextId, faults>>

\* Variant: any answer is taken for the answer to this request.
AnyAnswer(c) == request[c] > 0

Matches(c) == Received.id = request[c]

Desynchronized(c) ==
  /\ phase[c] = "select" /\ process.stdout # <<>> /\ ~Received.cut /\ ~Matches(c)
  /\ Discard(c)

Answered(c) ==
  /\ phase[c] = "select" /\ process.stdout # <<>> /\ ~Received.cut /\ Matches(c)
  /\ answer' = IF Received.ok THEN [answer EXCEPT ![c] = Received.of] ELSE answer
  /\ Consume /\ End(c)
  /\ UNCHANGED <<request, nextId, faults, failures>>

\* A KeyboardInterrupt leaves compile; nothing, all or part of the request may
\* have been written.
Interrupt(c) ==
  /\ phase[c] \in {"send", "select"} /\ faults < MaxFaults
  /\ faults' = faults + 1
  /\ End(c)
  /\ \/ UNCHANGED process
     \/ phase[c] = "send" /\ process' = Written(process, request[c])
     \/ phase[c] = "send" /\ process' = [process EXCEPT !.cut = TRUE]
  /\ UNCHANGED <<request, answer, nextId, failures>>

\* close, or the crash the tests simulate.
Close ==
  /\ ~Locked /\ process # None
  /\ process' = None
  /\ UNCHANGED <<client, nextId, faults, failures>>

-----------------------------------------------------------------------------
(* The child, in _serve.                                                   *)

Take ==
  /\ process.state = "up" /\ process.busy = <<>> /\ process.stdin # <<>>
  /\ process' = [process EXCEPT !.stdin = Tail(@), !.busy = <<Head(process.stdin)>>]
  /\ UNCHANGED <<client, nextId, faults, failures>>

\* The answer to a line that is not JSON repeats the id of the request before.
Result(line, ok) ==
  [id |-> IF line = Garbled THEN process.last ELSE line, of |-> line,
   ok |-> ok /\ line # Garbled, cut |-> FALSE]

Answer(ok) ==
  /\ process.state = "up" /\ process.busy # <<>>
  /\ LET line == Head(process.busy)
     IN  process' = [process EXCEPT !.busy = <<>>,
                       !.last = IF line = Garbled THEN @ ELSE line,
                       !.stdout = Append(@, Result(line, ok))]
  /\ UNCHANGED <<client, nextId, faults, failures>>

\* A crash loses what was not read and may cut the answer being written.
Crash ==
  /\ Alive /\ faults < MaxFaults /\ faults' = faults + 1
  /\ \E cut \in IF process.busy = <<>> THEN {FALSE} ELSE BOOLEAN :
       process' = [process EXCEPT !.state = "dead", !.stdin = <<>>, !.busy = <<>>,
                     !.stdout = IF cut THEN Append(@, [Result(Garbled, FALSE) EXCEPT !.cut = TRUE])
                                ELSE @]
  /\ UNCHANGED <<client, nextId, failures>>

Hang ==
  /\ process.state = "up" /\ process.busy # <<>>
  /\ faults < MaxFaults /\ faults' = faults + 1
  /\ process' = [process EXCEPT !.state = "hung"]
  /\ UNCHANGED <<client, nextId, failures>>

-----------------------------------------------------------------------------
Proceed(c) ==
  \/ Send(c) \/ SendFails(c) \/ TimeOut(c) \/ EndOfFile(c) \/ Truncated(c)
  \/ Desynchronized(c) \/ Answered(c)

Serve == Take \/ \E ok \in BOOLEAN : Answer(ok)

WorkerNext ==
  \/ \E c \in Callers : Start(c) \/ Proceed(c) \/ Interrupt(c)
  \/ Close \/ Serve \/ Crash \/ Hang

WorkerSpec ==
  /\ WorkerInit /\ [][WorkerNext]_workerVars
  /\ \A c \in Callers : WF_workerVars(Proceed(c))
  /\ WF_workerVars(Serve)

-----------------------------------------------------------------------------
Lines == 0 .. MaxRequests

WorkerTypeOK ==
  /\ phase \in [Callers -> {"idle", "send", "select"}]
  /\ request \in [Callers -> Lines] /\ answer \in [Callers -> Lines]
  /\ nextId \in Lines
  /\ process \in [state : {"none", "up", "hung", "dead"}, stdin : Seq(Lines),
                  cut : BOOLEAN, busy : Seq(Lines), last : Lines,
                  stdout : Seq([id : Lines, of : Lines, ok : BOOLEAN, cut : BOOLEAN])]
  /\ faults \in 0 .. MaxFaults /\ failures \in Nat

\* An answer that compile returns was made for the module it was called with,
\* although an interrupted compile leaves its request and answer behind.
OwnAnswer == [][\A c \in Callers : answer'[c] # answer[c] => answer'[c] = request[c]]_workerVars

\* Recovery is complete: each crash, hang or interrupt makes at most one
\* compile raise, and the next one meets a child without a past.
EachFaultCostsOne == failures <= faults

\* The state is well typed and no fault has consequences for a later compile.
WorkerOK == WorkerTypeOK /\ EachFaultCostsOne

\* Whoever holds the lock gives it up.
CompileEnds == \A c \in Callers : (phase[c] # "idle") ~> (phase[c] = "idle")
=============================================================================
