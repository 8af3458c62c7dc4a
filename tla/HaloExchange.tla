---------------------------- MODULE HaloExchange ----------------------------
(***************************************************************************)
(* Halo exchange between ranks: distributed/transport.py over the data     *)
(* plane of tcp.py.  All ranks run one program of sharded calls, backward  *)
(* passes and halos posted to the progress threads of DistributedRuntime.  *)
(* Every exchange of a rank uses the same stream per peer, and a frame     *)
(* says only how long it is: which exchange it belongs to follows from the *)
(* order in which both sides work, and from nothing else.                  *)
(***************************************************************************)
EXTENDS Partition, Sequences, FiniteSets

CONSTANTS
  E, W, Cols,   \* entities, world_size and the sources of each row
  Fields,       \* fields of the calls
  Widths,       \* what one entity of each field may take in bytes
  Program,      \* the steps of every rank: a mode and its fields in order
  Workers,      \* progress_threads
  Buffers,      \* how many unread frames a stream may hold when a send returns
  Transports,   \* subset of {"tcp", "pipe"}
  MaxFaults     \* bound: faults in one behaviour

Ranks == 0 .. (W - 1)
Modes == {"call", "backward", "posted"}
Steps == 1 .. Len(Program)
Exchanges == UNION {{s} \X (1 .. Len(Program[s].fields)) : s \in Steps}
FaultKinds == {"timeout", "crash", "interior", "read"}
Foreign == <<0, 0>>    \* bytes that are no frame's payload
\* What a stream holds of a frame: all of it or its beginning, or what a reader
\* of the header has left of either.
Parts == {"whole", "cut", "body", "scrap"}

ASSUME HaloAssumption ==
  /\ E \in Nat /\ W \in Nat \ {0}
  /\ Cols \in [0 .. (E - 1) -> SUBSET (0 .. (E - 1))]
  /\ Widths \subseteq [Fields -> Nat]
  /\ Program \in Seq([mode : Modes, fields : Seq(Fields)])
  /\ \A s \in Steps : Program[s].fields # <<>>
  /\ Workers \in Nat \ {0} /\ Buffers \subseteq Nat /\ MaxFaults \in Nat
  /\ Transports \subseteq {"tcp", "pipe"}

VARIABLES
  transport,     \* what carries the frames, fixed
  buffer,        \* its capacity in frames, fixed
  element_bytes, \* width of every field, fixed
  main,      \* the program of a rank: step, field, phase
  status,    \* an exchange of a rank
  send,      \* its message to a peer
  head,      \* whether the frame it reads now has shown its length
  got,       \* what it received from a peer
  wire,      \* frames on the way from one rank to another
  faults     \* what went wrong so far

fixed == <<transport, buffer, element_bytes>>
vars == <<fixed, main, status, send, head, got, wire, faults>>

-----------------------------------------------------------------------------
\* The halo map of a rank, seen by an exchange: whom it sends to and whom it
\* receives from; reverse_halo_values exchanges the two.
Asking == [r \in Ranks |-> {p \in Ranks : SendTo(Cols, E, W, r, p) # {}}]
Owning == [r \in Ranks |-> {o \in Ranks : ReceiveFrom(Cols, E, W, r, o) # {}}]
Backward(x) == Program[x[1]].mode = "backward"
Targets(r, x) == IF Backward(x) THEN Owning[r] ELSE Asking[r]
Sources(r, x) == IF Backward(x) THEN Asking[r] ELSE Owning[r]

\* A forward frame on TCP is the bytes alone, its receiver knows how many to
\* expect; all others are objects that name their entities.  Two frames between
\* the same ranks have one length when they have one format and one width.
Bare(x) == transport = "tcp" /\ ~ Backward(x)
Width(x) == element_bytes[Program[x[1]].fields[x[2]]]
Fits(x, y) == (Backward(x) <=> Backward(y)) /\ Width(x) = Width(y)

Left(r) == main[r].phase \in {"gone", "done"}
Last(x) == x[2] = Len(Program[x[1]].fields)
Here(r) == <<main[r].step, main[r].field>>
Ended(s) == s \in {"ok", "failed"}
Awaited(r, x) == Sources(r, x) \ DOMAIN got[r][x]
\* Variant: the threads of the sends are not waited for.
SendsEndedVariant(r, x) == TRUE

SendsEnded(r, x) == \A q \in Targets(r, x) : send[r][x][q] \in {"sent", "broken"}

TypeOK ==
  /\ transport \in Transports /\ buffer \in Buffers
  /\ element_bytes \in Widths
  /\ main \in [Ranks -> [step : 1 .. (Len(Program) + 1), field : Nat,
                         phase : {"next", "inline", "submit", "interior", "drain",
                                  "collect", "raised", "gone", "done"}]]
  /\ status \in [Ranks -> [Exchanges ->
                  {"none", "queued", "running", "failing", "ok", "failed"}]]
  /\ send \in [Ranks -> [Exchanges -> [Ranks -> {"idle", "begun", "sent", "broken"}]]]
  /\ head \in [Ranks -> [Exchanges -> BOOLEAN]]
  /\ got \in [Ranks -> [Exchanges -> UNION {[S -> Exchanges \cup {Foreign}] : S \in SUBSET Ranks}]]
  /\ \A r \in Ranks, x \in Exchanges : DOMAIN got[r][x] \subseteq Sources(r, x)
  /\ wire \in [Ranks -> [Ranks -> Seq([of : Exchanges, part : Parts])]]
  /\ \A r, q \in Ranks :
       (\A x \in Exchanges : send[r][x][q] # "broken") => Len(wire[r][q]) <= buffer + 1
  /\ faults \subseteq [kind : FaultKinds, rank : Ranks, step : 1 .. (Len(Program) + 1)]

Init ==
  /\ transport \in Transports /\ buffer \in Buffers
  /\ element_bytes \in Widths
  /\ main = [r \in Ranks |-> [step |-> 1, field |-> 1, phase |-> "next"]]
  /\ status = [r \in Ranks |-> [x \in Exchanges |-> "none"]]
  /\ send = [r \in Ranks |-> [x \in Exchanges |-> [q \in Ranks |-> "idle"]]]
  /\ head = [r \in Ranks |-> [x \in Exchanges |-> FALSE]]
  /\ got = [r \in Ranks |-> [x \in Exchanges |-> <<>>]]
  /\ wire = [r \in Ranks |-> [q \in Ranks |-> <<>>]]
  /\ faults = {}

Fault(r, kind) ==
  /\ Cardinality(faults) < MaxFaults
  /\ faults' = faults \cup {[kind |-> kind, rank |-> r, step |-> main[r].step]}

-----------------------------------------------------------------------------
(* exchange_packed and reverse_halo_values.  Every message has a thread of *)
(* its own; the receives run one after another, in the order of the peers. *)

Started(r, x) == status[r][x] \notin {"none", "queued"}
\* The stream took all that was sent: the rest of it is with the reader.
Accepted(r, q) == Len(wire[r][q]) <= buffer

Sending(r, q) == \E x \in Exchanges : send[r][x][q] = "begun"

CanBegin(r, x, q) ==
  /\ Started(r, x) /\ ~ Left(r) /\ ~ Left(q)
  /\ q \in Targets(r, x) /\ send[r][x][q] = "idle" /\ ~ Sending(r, q)

\* TCPTransport.send_bytes takes the lock of the peer and hands over a frame.
SendBegins(r, x, q) ==
  /\ CanBegin(r, x, q)
  /\ send' = [send EXCEPT ![r][x][q] = "begun"]
  /\ wire' = [wire EXCEPT ![r][q] = Append(@, [of |-> x, part |-> "whole"])]
  /\ UNCHANGED <<fixed, main, status, head, got, faults>>

CanReturn(r, x, q) == ~ Left(r) /\ send[r][x][q] = "begun" /\ Accepted(r, q)

\* sendall returns once the stream took the last byte.
SendReturns(r, x, q) ==
  /\ CanReturn(r, x, q)
  /\ send' = [send EXCEPT ![r][x][q] = "sent"]
  /\ UNCHANGED <<fixed, main, status, head, got, wire, faults>>

CanBreak(r, x, q) ==
  /\ ~ Left(r) /\ Left(q) /\ Started(r, x) /\ q \in Targets(r, x)
  /\ \/ send[r][x][q] = "idle" /\ ~ Sending(r, q)
     \/ send[r][x][q] = "begun" /\ ~ Accepted(r, q)

\* The peer has gone: a send that is not through raises.
SendBreaks(r, x, q) ==
  /\ CanBreak(r, x, q)
  /\ send' = [send EXCEPT ![r][x][q] = "broken"]
  /\ UNCHANGED <<fixed, main, status, head, got, wire, faults>>

\* The beginning of what is there of a frame.
Short(part) == CASE part = "whole" -> "cut" [] part = "body" -> "scrap" [] OTHER -> part

Cut(q) ==
  IF q = <<>> THEN q
  ELSE [q EXCEPT ![Len(q)] = [of |-> @.of, part |-> Short(@.part)]]

\* The wait for room in the stream ends with part of a frame sent.
SendTimesOut(r, x, q) ==
  /\ ~ Left(r) /\ send[r][x][q] = "begun" /\ ~ Accepted(r, q)
  /\ send' = [send EXCEPT ![r][x][q] = "broken"]
  /\ wire' = [wire EXCEPT ![r][q] = Cut(@)]
  /\ UNCHANGED <<status, got>>

\* Variant: the messages are sent before the first is received.
ReadingVariant(r, x, p) ==
  /\ status[r][x] = "running" /\ ~ Left(r) /\ SendsEnded(r, x)
  /\ p \in Awaited(r, x) /\ \A o \in Awaited(r, x) : p <= o

\* The exchange x of r is about to read from p.
Reading(r, x, p) ==
  /\ status[r][x] = "running" /\ ~ Left(r)
  /\ p \in Awaited(r, x) /\ \A o \in Awaited(r, x) : p <= o

Fail(r, x) == status' = [status EXCEPT ![r][x] = "failing"]

\* The beginning of a stream has been read: its first frame has no header now.
Bite(q) ==
  [q EXCEPT ![1] = [of |-> @.of,
                    part |-> IF @.part \in {"whole", "body"} THEN "body" ELSE "scrap"]]

\* _recv_exactly of the header: the length is that of x, or it is another and
\* receive_bytes raises with the payload still in the stream.  What is left
\* of a payload is no header.
ReadHeader(r, x, p) ==
  /\ Reading(r, x, p) /\ ~ head[r][x] /\ wire[p][r] # <<>>
  /\ IF /\ wire[p][r][1].part \in {"whole", "cut"}
        /\ ~ Bare(x) \/ Fits(x, wire[p][r][1].of)
     THEN head' = [head EXCEPT ![r][x] = TRUE] /\ UNCHANGED status
     ELSE Fail(r, x) /\ UNCHANGED head
  /\ wire' = [wire EXCEPT ![p][r] = Bite(@)]
  /\ UNCHANGED <<fixed, main, send, got, faults>>

\* _recv_exactly of the payload.  A frame that was cut takes its missing bytes
\* from the next one; a frame whose header another reader left unread is taken
\* for a payload.  An object says what it carries.
ReadPayload(r, x, p) ==
  /\ Reading(r, x, p) /\ head[r][x] /\ wire[p][r] # <<>>
  /\ wire[p][r][1].part = "scrap" => Len(wire[p][r]) > 1
  /\ wire' = [wire EXCEPT ![p][r] =
                CASE @[1].part = "body" -> Tail(@)
                  [] @[1].part = "scrap" -> Bite(Tail(@))
                  [] OTHER -> Bite(@)]
  /\ head' = [head EXCEPT ![r][x] = FALSE]
  /\ LET whole == wire[p][r][1].part = "body"
         value == IF whole THEN wire[p][r][1].of ELSE Foreign
     IN  IF ~ Bare(x) /\ ~ (whole /\ Fits(x, wire[p][r][1].of))
         THEN Fail(r, x) /\ UNCHANGED got
         ELSE /\ got' = [got EXCEPT ![r][x] =
                    [o \in DOMAIN @ \cup {p} |-> IF o = p THEN value ELSE @[o]]]
              /\ UNCHANGED status
  /\ UNCHANGED <<fixed, main, send, faults>>

\* The bytes x waits for are not there.
Starved(r, x, p) ==
  \/ wire[p][r] = <<>>
  \/ head[r][x] /\ wire[p][r][1].part = "scrap" /\ Len(wire[p][r]) = 1

ReadTimesOut(r, x, p) ==
  /\ Reading(r, x, p) /\ Starved(r, x, p) /\ Fail(r, x)
  /\ UNCHANGED <<send, got, wire>>

\* The stream ends: the peer has gone and what it sent is read.
ReadEnds(r, x, p) ==
  /\ Reading(r, x, p) /\ Starved(r, x, p) /\ Left(p)
  /\ Fail(r, x)
  /\ UNCHANGED <<fixed, main, send, head, got, wire, faults>>

CanFinish(r, x) ==
  /\ ~ Left(r) /\ SendsEnded(r, x)
  /\ \/ status[r][x] = "running" /\ Awaited(r, x) = {}
     \/ status[r][x] = "failing"

\* The exchange leaves its ThreadPoolExecutor: all sends have ended.
Finish(r, x) ==
  /\ CanFinish(r, x)
  /\ status' = [status EXCEPT ![r][x] =
       IF @ = "running" /\ \A q \in Targets(r, x) : send[r][x][q] # "broken"
       THEN "ok" ELSE "failed"]
  /\ UNCHANGED <<fixed, main, send, head, got, wire, faults>>

-----------------------------------------------------------------------------
(* DistributedRuntime: a pool of progress threads with a FIFO queue.       *)

Pool(r) == {x \in Exchanges : Program[x[1]].mode = "posted"}
Earlier(x, y) == x[1] < y[1] \/ (x[1] = y[1] /\ x[2] < y[2])
Idle(r) == \A x \in Pool(r) : status[r][x] \notin {"queued", "running", "failing"}

CanPickUp(r, x) ==
  /\ ~ Left(r) /\ status[r][x] = "queued"
  /\ \A y \in Pool(r) : Earlier(y, x) => status[r][y] # "queued"
  /\ Cardinality({y \in Pool(r) : status[r][y] \in {"running", "failing"}}) < Workers

PickUp(r, x) ==
  /\ CanPickUp(r, x)
  /\ status' = [status EXCEPT ![r][x] = "running"]
  /\ UNCHANGED <<fixed, main, send, head, got, wire, faults>>

-----------------------------------------------------------------------------
(* The program of a rank: execute_sharded_message_passing, serialized or   *)
(* with its halos posted, and the realization of a gradient.               *)

Goto(r, next, field) ==
  main' = [main EXCEPT ![r].phase = next, ![r].field = field]

BeginStep(r) ==
  /\ main[r].phase = "next"
  /\ \/ /\ main[r].step \notin Steps /\ Idle(r)
        /\ Goto(r, "done", 1) /\ UNCHANGED status
     \/ /\ main[r].step \in Steps /\ Program[main[r].step].mode = "posted"
        /\ Goto(r, "submit", 1) /\ UNCHANGED status
     \/ /\ main[r].step \in Steps /\ Program[main[r].step].mode # "posted"
        /\ Goto(r, "inline", 1)
        /\ status' = [status EXCEPT ![r][<<main[r].step, 1>>] = "running"]
  /\ UNCHANGED <<fixed, send, head, got, wire, faults>>

NextStep(r) ==
  main' = [main EXCEPT ![r] = [step |-> @.step + 1, field |-> 1, phase |-> "next"]]

\* exchange_halo on the main thread, one field after the other.
Inline(r) ==
  /\ main[r].phase = "inline" /\ Ended(status[r][Here(r)])
  /\ IF status[r][Here(r)] = "failed"
     THEN Goto(r, "raised", 1) /\ UNCHANGED status
     ELSE IF Last(Here(r)) THEN NextStep(r) /\ UNCHANGED status
     ELSE /\ Goto(r, "inline", main[r].field + 1)
          /\ status' = [status EXCEPT ![r][<<main[r].step, main[r].field + 1>>] = "running"]
  /\ UNCHANGED <<fixed, send, head, got, wire, faults>>

\* Every field is submitted before the interior rows are computed.
Submit(r) ==
  /\ main[r].phase = "submit"
  /\ status' = [status EXCEPT ![r][Here(r)] = "queued"]
  /\ IF Last(Here(r)) THEN Goto(r, "interior", 1) ELSE Goto(r, "submit", main[r].field + 1)
  /\ UNCHANGED <<fixed, send, head, got, wire, faults>>

\* physical_bytes raises: the fields submitted before are not drained.
ReadFails(r) ==
  /\ main[r].phase = "submit" /\ Fault(r, "read") /\ Goto(r, "raised", 1)
  /\ UNCHANGED <<fixed, status, send, head, got, wire>>

Interior(r) ==
  /\ main[r].phase = "interior" /\ Goto(r, "collect", 1)
  /\ UNCHANGED <<fixed, status, send, head, got, wire, faults>>

\* Variant: what has not begun is cancelled.
InteriorFailsVariant(r) ==
  /\ main[r].phase = "interior" /\ Fault(r, "interior") /\ Goto(r, "raised", 1)
  /\ status' = [status EXCEPT ![r] =
       [x \in Exchanges |-> IF @[x] = "queued" THEN "none" ELSE @[x]]]
  /\ UNCHANGED <<fixed, send, head, got, wire>>

InteriorFails(r) ==
  /\ main[r].phase = "interior" /\ Fault(r, "interior") /\ Goto(r, "drain", 1)
  /\ UNCHANGED <<fixed, status, send, head, got, wire>>

\* The completions are waited for in order, whatever each of them raises.
Drain(r) ==
  /\ main[r].phase = "drain" /\ Ended(status[r][Here(r)])
  /\ IF Last(Here(r)) THEN Goto(r, "raised", 1) ELSE Goto(r, "drain", main[r].field + 1)
  /\ UNCHANGED <<fixed, status, send, head, got, wire, faults>>

\* completion.result() of every field, the first failure ends the call.
Collect(r) ==
  /\ main[r].phase = "collect" /\ Ended(status[r][Here(r)])
  /\ IF status[r][Here(r)] = "failed" THEN Goto(r, "raised", 1)
     ELSE IF Last(Here(r)) THEN NextStep(r)
     ELSE Goto(r, "collect", main[r].field + 1)
  /\ UNCHANGED <<fixed, status, send, head, got, wire, faults>>

\* The exception leaves the runtime's with block, whose close() waits for all
\* that was submitted; the process ends and its streams with it.
Close(r) ==
  /\ main[r].phase = "raised" /\ Idle(r) /\ Goto(r, "gone", 1)
  /\ UNCHANGED <<fixed, status, send, head, got, wire, faults>>

\* The process is killed; of the frames it was sending some are cut.
Crash(r) ==
  /\ ~ Left(r) /\ Fault(r, "crash") /\ Goto(r, "gone", 1)
  /\ \E some \in SUBSET {q \in Ranks : Sending(r, q)} :
       wire' = [wire EXCEPT ![r] = [q \in Ranks |-> IF q \in some THEN Cut(@[q]) ELSE @[q]]]
  /\ UNCHANGED <<fixed, status, send, head, got>>

-----------------------------------------------------------------------------
Progress(r) ==
  \/ BeginStep(r) \/ Inline(r) \/ Submit(r) \/ Interior(r) \/ Drain(r)
  \/ Collect(r) \/ Close(r)
  \/ \E x \in Exchanges : PickUp(r, x) \/ Finish(r, x)

Receive(r) ==
  \E x \in Exchanges, p \in Ranks :
    ReadHeader(r, x, p) \/ ReadPayload(r, x, p) \/ ReadEnds(r, x, p)

Send(r, q) ==
  \E x \in Exchanges :
    SendBegins(r, x, q) \/ SendReturns(r, x, q) \/ SendBreaks(r, x, q)

\* Variant: only the receives have a timeout.
TimesOutVariant(r) ==
  /\ transport = "tcp"
  /\ \E x \in Exchanges, p \in Ranks : ReadTimesOut(r, x, p)
  /\ UNCHANGED <<fixed, main, head>>

TimesOut(r) ==
  /\ transport = "tcp"
  /\ \E x \in Exchanges, p \in Ranks : SendTimesOut(r, x, p) \/ ReadTimesOut(r, x, p)
  /\ UNCHANGED <<fixed, main, head>>

Runs(r) == Progress(r) \/ Receive(r) \/ \E q \in Ranks : Send(r, q)

\* A wait is cut short although its peer is only slow: a fault.
TooSlow(r) == TimesOut(r) /\ Fault(r, "timeout")

\* The program of the rank waits for nothing.
Proceeds(r) ==
  \/ main[r].phase = "next" /\ (main[r].step \in Steps \/ Idle(r))
  \/ main[r].phase \in {"submit", "interior"}
  \/ main[r].phase \in {"inline", "drain", "collect"} /\ Ended(status[r][Here(r)])
  \/ main[r].phase = "raised" /\ Idle(r)

\* Runs(r) has a step to take: ENABLED Runs(r), guard by guard.
Able(r) ==
  \/ Proceeds(r)
  \/ \E x \in Exchanges : CanPickUp(r, x) \/ CanFinish(r, x)
  \/ \E x \in Exchanges, p \in Ranks :
       Reading(r, x, p) /\ (~ Starved(r, x, p) \/ Left(p))
  \/ \E x \in Exchanges, q \in Ranks :
       CanBegin(r, x, q) \/ CanReturn(r, x, q) \/ CanBreak(r, x, q)

\* Nobody gets any further: the next wait of TCP to expire ends the stall.
Stalled == \A r \in Ranks : ~ Able(r)
Expire(r) == Stalled /\ TimesOut(r) /\ UNCHANGED faults

Faulty(r) == ReadFails(r) \/ InteriorFails(r) \/ Crash(r) \/ TooSlow(r)

Next == \E r \in Ranks : Runs(r) \/ Expire(r) \/ Faulty(r)

\* Threads run; a thread that can read or write does so in the end, and the
\* clock of a socket runs.
Fairness ==
  /\ WF_vars(\E r \in Ranks : Expire(r))
  /\ \A r \in Ranks :
       /\ WF_vars(Progress(r)) /\ WF_vars(Receive(r))
       /\ \A q \in Ranks : WF_vars(Send(r, q))

Spec == Init /\ [][Next]_vars /\ Fairness

-----------------------------------------------------------------------------
\* A step that ended without an error put into its fields, for every ghost,
\* the value its owner gave to this field in this step, whatever failed or
\* was delayed before, here or elsewhere; and the state is well typed, a stream
\* on which no send was cut off holding no more frames than it has room for and
\* one being written.
CallsExact ==
  TypeOK /\ \A r \in Ranks, x \in Exchanges :
    x[1] < main[r].step =>
      /\ status[r][x] = "ok"
      /\ got[r][x] = [p \in Sources(r, x) |-> x]

\* As long as nothing goes wrong no exchange fails: the ranks never wait in a
\* circle, and no frame is taken for another.
FailsOnlyAfterFault ==
  faults = {} => \A r \in Ranks, x \in Exchanges : status[r][x] \notin {"failing", "failed"}

\* A computation that fails on one rank harms no other in the same step: its
\* peers still get what they wait for.
ComputeFailureStaysLocal ==
  \A r \in Ranks, x \in Exchanges :
    /\ status[r][x] \in {"failing", "failed"}
    /\ \A f \in faults : f.kind = "interior"
    => \E f \in faults : f.step < x[1]

\* Every rank comes to an end: no exchange waits for ever, for a peer that
\* failed or for one that is itself waiting to be read.
RanksEnd == \A r \in Ranks : <>Left(r)
=============================================================================
