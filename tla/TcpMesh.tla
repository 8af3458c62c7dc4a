------------------------------ MODULE TcpMesh ------------------------------
(***************************************************************************)
(* How the ranks of a TCPTransport find each other.  One process hosts a   *)
(* rendezvous; every other one registers there, receives the plan (which   *)
(* rank listens where), dials all lower ranks and accepts all higher ones. *)
(*                                                                         *)
(* A process acts for the rank and the world size it was started with;     *)
(* some may have been started with wrong ones.  Dialling a listener that   *)
(* is open and sending a short frame never block; accepting and receiving  *)
(* do, and may time out.  What a process sent before it failed can still   *)
(* be read by the other end.                                               *)
(***************************************************************************)
EXTENDS Integers, FiniteSets, Sequences

CONSTANTS
  Procs,     \* the processes started
  Host,      \* the one that calls TCPTransport.host
  WorldSize, \* world_size of the host
  RankOf,    \* the rank each process is started with
  WorldOf,   \* the world_size each process is started with
  Patience   \* may a wait last longer than the timeout?  The cases to consider

ASSUME RanksAssumption ==
  /\ IsFiniteSet(Procs) /\ Host \in Procs
  /\ WorldOf \in [Procs -> Nat \ {0}] /\ WorldOf[Host] = WorldSize
  /\ RankOf \in [Procs -> Nat]
  /\ \A p \in Procs : RankOf[p] < WorldOf[p]
ASSUME PatienceAssumption == Patience \subseteq BOOLEAN

VARIABLES
  impatient, \* may some wait of this run last longer than the timeout?
  phase,   \* what each process is doing
  backlog, \* registrations queued at the rendezvous listener
  plan,    \* the processes whose registration the host accepted, and itself
  pending, \* accepted registrations that have not been sent the plan
  reply,   \* the answer to each process's registration
  queue,   \* diallers queued at each process's mesh listener
  answer,  \* the answer to each dialler's mesh handshake with each acceptor
  peers    \* the connections each process has recorded

rendezvous == <<backlog, plan, pending, reply>>
mesh       == <<queue, answer, peers>>
meshVars   == <<impatient, phase, rendezvous, mesh>>

Answers == {"none", "ok", "error", "reset"}

Elements(s) == {s[i] : i \in 1 .. Len(s)}

MeshInit ==
  /\ impatient \in Patience
  /\ phase = [p \in Procs |-> "start"]
  /\ backlog = <<>> /\ plan = {Host} /\ pending = <<>>
  /\ reply = [p \in Procs |-> "none"]
  /\ queue = [p \in Procs |-> <<>>]
  /\ answer = [p \in Procs |-> [q \in Procs |-> "none"]]
  /\ peers = [p \in Procs |-> {}]

-----------------------------------------------------------------------------
(* Closing.  Connections still queued at a closed listener are reset.      *)

RendezvousOpen == phase[Host] \in {"register", "mesh", "handshake"}
MeshOpen(p)    == phase[p] \in {"register", "await", "mesh", "handshake"}

\* The process p leaves host or join: its listeners close.
LeaveMesh(p, end) ==
  /\ phase' = [phase EXCEPT ![p] = end]
  /\ queue' = [queue EXCEPT ![p] = <<>>]
  /\ answer' = [r \in Procs |-> [q \in Procs |->
                  IF q = p /\ r \in Elements(queue[p]) THEN "reset" ELSE answer[r][q]]]
  /\ reply' = [q \in Procs |->
                 IF p = Host /\ q \in Elements(backlog) \cup Elements(pending)
                 THEN "reset" ELSE reply[q]]
  /\ backlog' = IF p = Host THEN <<>> ELSE backlog
  /\ pending' = IF p = Host THEN <<>> ELSE pending
  /\ UNCHANGED <<impatient, plan>>

\* An exception also closes the connections already recorded.
Raise(p) == LeaveMesh(p, "failed") /\ peers' = [peers EXCEPT ![p] = {}]

-----------------------------------------------------------------------------
(* The rendezvous.                                                         *)

StartHost ==
  /\ phase[Host] = "start"
  /\ phase' = [phase EXCEPT ![Host] = "register"]
  /\ UNCHANGED <<impatient, rendezvous, mesh>>

\* join dials the rendezvous, retrying while it is refused, and registers.
Register(p) ==
  /\ p # Host /\ phase[p] = "start" /\ RendezvousOpen
  /\ phase' = [phase EXCEPT ![p] = "await"]
  /\ backlog' = Append(backlog, p)
  /\ UNCHANGED <<impatient, plan, pending, reply, mesh>>

\* A host that is gone refuses until the timeout; one not up yet may as well.
RegisterRefused(p) ==
  /\ p # Host /\ phase[p] = "start"
  /\ phase[Host] \in {"done", "failed"} \/ (phase[Host] = "start" /\ impatient)
  /\ Raise(p)

Complete == Cardinality(plan) = WorldSize

\* Variant: not checking that the rank is already taken.
AdmissibleTwice(p) ==
  /\ WorldOf[p] = WorldSize /\ RankOf[p] < WorldSize /\ RankOf[p] # RankOf[Host]

Admissible(p) ==
  /\ WorldOf[p] = WorldSize /\ RankOf[p] < WorldSize
  /\ \A q \in plan : RankOf[q] # RankOf[p]

\* The host rejects a registration and goes on waiting.
Reject(p) ==
  /\ reply' = [reply EXCEPT ![p] = "error"]
  /\ UNCHANGED <<plan, pending>>

AcceptRegistration ==
  /\ phase[Host] = "register" /\ ~Complete /\ backlog # <<>>
  /\ LET p == Head(backlog)
     IN  \/ /\ Admissible(p)
            /\ plan' = plan \cup {p} /\ pending' = Append(pending, p)
            /\ UNCHANGED reply
         \/ ~Admissible(p) /\ Reject(p)
  /\ backlog' = Tail(backlog)
  /\ UNCHANGED <<impatient, phase, mesh>>

\* Once everyone is registered each gets the plan; a peer that has given up in
\* the meantime may make the send fail.
SendPlan ==
  /\ phase[Host] = "register" /\ Complete /\ pending # <<>>
  /\ reply' = [reply EXCEPT ![Head(pending)] = "ok"]
  /\ pending' = Tail(pending)
  /\ UNCHANGED <<impatient, phase, backlog, plan, mesh>>

SendPlanFails ==
  /\ phase[Host] = "register" /\ Complete /\ pending # <<>>
  /\ phase[Head(pending)] = "failed"
  /\ Raise(Host)

PlanSent ==
  /\ phase[Host] = "register" /\ Complete /\ pending = <<>>
  /\ phase' = [phase EXCEPT ![Host] = "mesh"]
  /\ UNCHANGED <<impatient, rendezvous, mesh>>

RegistrationTimesOut ==
  /\ impatient /\ phase[Host] = "register" /\ ~Complete /\ backlog = <<>>
  /\ Raise(Host)

ReceivePlan(p) ==
  /\ phase[p] = "await" /\ reply[p] = "ok"
  /\ phase' = [phase EXCEPT ![p] = "mesh"]
  /\ UNCHANGED <<impatient, rendezvous, mesh>>

NoPlan(p) ==
  /\ phase[p] = "await"
  /\ reply[p] \in {"error", "reset"} \/ (reply[p] = "none" /\ impatient)
  /\ Raise(p)

-----------------------------------------------------------------------------
(* The mesh.                                                               *)

Lower(p) == {q \in plan : RankOf[q] < RankOf[p]}

\* The next rank to dial is the lowest one not connected yet.
Target(p, q) ==
  /\ q \in Lower(p) \ peers[p]
  /\ \A r \in Lower(p) \ peers[p] : RankOf[q] <= RankOf[r]

Dial(p, q) ==
  /\ phase[p] = "mesh" /\ Target(p, q) /\ MeshOpen(q)
  /\ phase' = [phase EXCEPT ![p] = "handshake"]
  /\ queue' = [queue EXCEPT ![q] = Append(@, p)]
  /\ UNCHANGED <<impatient, rendezvous, answer, peers>>

DialRefused(p, q) ==
  /\ phase[p] = "mesh" /\ Target(p, q) /\ ~MeshOpen(q)
  /\ Raise(p)

Validated(p, q) ==
  /\ phase[p] = "handshake" /\ Target(p, q) /\ answer[p][q] = "ok"
  /\ phase' = [phase EXCEPT ![p] = "mesh"]
  /\ peers' = [peers EXCEPT ![p] = @ \cup {q}]
  /\ UNCHANGED <<impatient, rendezvous, queue, answer>>

HandshakeFails(p, q) ==
  /\ phase[p] = "handshake" /\ Target(p, q)
  /\ answer[p][q] \in {"error", "reset"} \/ (answer[p][q] = "none" /\ impatient)
  /\ Raise(p)

Accepting(p) == phase[p] = "mesh" /\ Lower(p) \subseteq peers[p]

Expected(p, q) ==
  RankOf[p] < RankOf[q] /\ \A r \in peers[p] : RankOf[r] # RankOf[q]

\* The handshake of the first dialler in the queue is read and answered, also
\* when that dialler has given up.
Accept(p) ==
  /\ Accepting(p) /\ Cardinality(peers[p]) < WorldSize - 1 /\ queue[p] # <<>>
  /\ LET q == Head(queue[p])
         good == Expected(p, q)
     IN  /\ answer' = [answer EXCEPT ![q][p] = IF good THEN "ok" ELSE "error"]
         /\ peers' = IF good THEN [peers EXCEPT ![p] = @ \cup {q}] ELSE peers
  /\ queue' = [queue EXCEPT ![p] = Tail(@)]
  /\ UNCHANGED <<impatient, phase, rendezvous>>

\* Variant: waiting for the higher ranks without a timeout.
AcceptForever(p) == FALSE /\ Raise(p)

AcceptTimesOut(p) ==
  /\ impatient /\ Accepting(p)
  /\ Cardinality(peers[p]) < WorldSize - 1 /\ queue[p] = <<>>
  /\ Raise(p)

\* Variant: returning one connection early.
AllButOne(p) == Accepting(p) /\ Cardinality(peers[p]) >= WorldSize - 2

Connected(p) == Accepting(p) /\ Cardinality(peers[p]) = WorldSize - 1

Return(p) == Connected(p) /\ LeaveMesh(p, "done") /\ UNCHANGED peers

-----------------------------------------------------------------------------
HostStep ==
  \/ StartHost \/ AcceptRegistration \/ SendPlan \/ SendPlanFails \/ PlanSent
  \/ RegistrationTimesOut

ProcStep(p) ==
  \/ p = Host /\ HostStep
  \/ Register(p) \/ RegisterRefused(p) \/ ReceivePlan(p) \/ NoPlan(p)
  \/ \E q \in Procs :
       Dial(p, q) \/ DialRefused(p, q) \/ Validated(p, q) \/ HandshakeFails(p, q)
  \/ Accept(p) \/ AcceptTimesOut(p) \/ Return(p)

MeshNext == \E p \in Procs : ProcStep(p)

MeshSpec == MeshInit /\ [][MeshNext]_meshVars /\ \A p \in Procs : WF_meshVars(ProcStep(p))

-----------------------------------------------------------------------------
MeshTypeOK ==
  /\ impatient \in Patience
  /\ phase \in [Procs -> {"start", "register", "await", "mesh", "handshake",
                          "done", "failed"}]
  /\ plan \subseteq Procs
  /\ backlog \in Seq(Procs) /\ pending \in Seq(Procs)
  /\ reply \in [Procs -> Answers]
  /\ queue \in [Procs -> Seq(Procs)]
  /\ answer \in [Procs -> [Procs -> Answers]]
  /\ peers \in [Procs -> SUBSET Procs]

\* A returned transport has one validated connection to a planned process of
\* every other rank; two that were both returned are connected to each other.
ReturnedIsConnected ==
  \A p \in Procs : phase[p] = "done" =>
    /\ {RankOf[q] : q \in peers[p]} = (0 .. WorldSize - 1) \ {RankOf[p]}
    /\ \A q \in peers[p] : q \in plan /\ "ok" \in {answer[p][q], answer[q][p]}
    /\ \A q \in Procs \ {p} : phase[q] = "done" => q \in peers[p]

\* The state is well typed and every mesh that is returned is complete and
\* agreed on by both ends, whatever ranks the others claim and whoever gives up.
MeshOK == MeshTypeOK /\ ReturnedIsConnected

\* Nobody waits for ever: each process returns a transport or raises.
EveryoneReturns == \A p \in Procs : <>(phase[p] \in {"done", "failed"})

\* When no wait times out and every rank is claimed by some process with the
\* right world size, one process per rank returns, whatever the others claim.
WorldComesUp ==
  ~impatient => <>[](Cardinality({p \in Procs : phase[p] = "done"}) = WorldSize)
=============================================================================
