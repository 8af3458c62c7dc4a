-------------------------- MODULE TransportProofs --------------------------
(***************************************************************************)
(* The two halves of the distributed transport: how the ranks of a world   *)
(* find each other, and the halo exchange over their streams.              *)
(*                                                                         *)
(* For every set of processes, whatever ranks and worlds they claim and    *)
(* whoever gives up: a transport that is returned is connected to every    *)
(* other rank, and both ends agree.                                        *)
(*                                                                         *)
(* For every number of entities and of ranks, fewer entities than ranks    *)
(* included: the two formulas of the destination partition agree.  For     *)
(* every program of sharded calls, whatever fails or is delayed: what a    *)
(* completed step received is what the owners sent in it, if exchanges of  *)
(* a rank run one at a time; and no exchange fails unless something went   *)
(* wrong, here or elsewhere, that may harm its step.                       *)
(***************************************************************************)
EXTENDS HaloExchange, TcpMesh, SequenceTheorems, FiniteSetTheorems,
        WellFoundedInduction, TLAPS

-----------------------------------------------------------------------------
(* The rendezvous and the mesh: the invariant.                             *)

\* No value twice in a sequence.
Distinct(s) == \A i, j \in 1 .. Len(s) : s[i] = s[j] => i = j

\* p never dialled q.
Untried(p, q) == answer[p][q] = "none" /\ p \notin Elements(queue[q])

\* Who has the plan: the mesh is built after the last registration.
Meshed(p) == phase[p] \in {"mesh", "handshake", "done"}

\* The planned processes claim ranks of their own, and the plan reaches them
\* only when it is complete.
PlanInv ==
  /\ Host \in plan
  /\ \A p \in plan : RankOf[p] < WorldSize
  /\ \A p, q \in plan : RankOf[p] = RankOf[q] => p = q
  /\ \A i \in 1 .. Len(pending) : pending[i] \in plan
  /\ \A p \in Procs : reply[p] = "ok" \/ Meshed(p) => p \in plan /\ Complete

\* A listener queues each process at most once, unanswered, and one that still
\* waits is waiting for this listener.
QueueInv ==
  \A q \in Procs :
    /\ Distinct(queue[q])
    /\ \A p \in Elements(queue[q]) :
         /\ answer[p][q] = "none" /\ p \in plan /\ q \in Lower(p)
         /\ phase[p] = "failed" \/ (phase[p] = "handshake" /\ Target(p, q))

\* A process dials in the order of the ranks: those beyond are untried.
DialInv ==
  \A p \in Procs :
    /\ phase[p] \in {"start", "register", "await"} => \A q \in Procs : Untried(p, q)
    /\ phase[p] = "mesh" => \A q \in Lower(p) \ peers[p] : Untried(p, q)
    /\ phase[p] = "handshake" =>
         \A q \in Lower(p) \ peers[p] : Target(p, q) \/ Untried(p, q)

\* A recorded connection has been validated at its dialling end.
PeerInv ==
  \A p \in Procs :
    /\ ~Meshed(p) => peers[p] = {}
    /\ \A q \in peers[p] :
         /\ q \in plan /\ RankOf[q] # RankOf[p]
         /\ RankOf[q] < RankOf[p] => answer[p][q] = "ok"
         /\ RankOf[p] < RankOf[q] => answer[q][p] = "ok"
    /\ phase[p] = "done" => peers[p] = plan \ {p}

MeshInv == MeshTypeOK /\ PlanInv /\ QueueInv /\ DialInv /\ PeerInv

-----------------------------------------------------------------------------
(* Sequences and the set of their elements.                                *)

LEMMA NoElements ==
  /\ Elements(<<>>) = {} /\ Distinct(<<>>)
  BY DEF Elements, Distinct

LEMMA ElementsTyped ==
  ASSUME NEW S, NEW s \in Seq(S)
  PROVE  /\ Elements(s) \subseteq S
         /\ Len(s) \in Nat
         /\ \A i \in 1 .. Len(s) : s[i] \in Elements(s)
  BY DEF Elements

\* A new value at the end.
LEMMA ElementsAppend ==
  ASSUME NEW S, NEW s \in Seq(S), NEW x \in S
  PROVE  /\ Append(s, x) \in Seq(S)
         /\ Elements(Append(s, x)) = Elements(s) \cup {x}
         /\ Distinct(s) /\ x \notin Elements(s) => Distinct(Append(s, x))
  <1> DEFINE t == Append(s, x)
  <1>1. /\ t \in Seq(S) /\ Len(s) \in Nat /\ Len(t) = Len(s) + 1
        /\ \A i \in 1 .. Len(s) : t[i] = s[i]
        /\ t[Len(s) + 1] = x
    OBVIOUS
  <1> HIDE DEF t
  <1>2. Elements(t) = Elements(s) \cup {x}
    <2>1. ASSUME NEW i \in 1 .. Len(t)
          PROVE  t[i] \in Elements(s) \cup {x}
      BY <1>1 DEF Elements
    <2>2. ASSUME NEW i \in 1 .. Len(s)
          PROVE  s[i] \in Elements(t)
      <3>1. i \in 1 .. Len(t) /\ t[i] = s[i]
        BY <1>1
      <3> QED BY <3>1 DEF Elements
    <2>3. x \in Elements(t)
      <3>1. Len(s) + 1 \in 1 .. Len(t)
        BY <1>1
      <3> QED BY <3>1, <1>1 DEF Elements
    <2> QED BY <2>1, <2>2, <2>3 DEF Elements
  <1>3. ASSUME Distinct(s), x \notin Elements(s)
        PROVE  Distinct(t)
    <2> SUFFICES ASSUME NEW i \in 1 .. Len(t), NEW j \in 1 .. Len(t), t[i] = t[j]
                 PROVE  i = j
      BY DEF Distinct
    <2>1. \A k \in 1 .. Len(s) : s[k] # x
      BY <1>3 DEF Elements
    <2>2. CASE i \in 1 .. Len(s) /\ j \in 1 .. Len(s)
      BY <2>2, <1>1, <1>3 DEF Distinct
    <2>3. CASE i = Len(s) + 1 \/ j = Len(s) + 1
      BY <2>3, <2>1, <1>1
    <2> QED BY <2>2, <2>3, <1>1
  <1> QED BY <1>1, <1>2, <1>3 DEF t

\* The first value taken away.
LEMMA ElementsTail ==
  ASSUME NEW S, NEW s \in Seq(S), s # <<>>
  PROVE  /\ Head(s) \in Elements(s) /\ Head(s) \in S
         /\ Tail(s) \in Seq(S)
         /\ Elements(Tail(s)) \subseteq Elements(s)
         /\ Distinct(s) => Distinct(Tail(s)) /\ Head(s) \notin Elements(Tail(s))
  <1> DEFINE t == Tail(s)
  <1>1. /\ t \in Seq(S) /\ Len(s) \in Nat /\ Len(s) > 0 /\ Len(t) = Len(s) - 1
        /\ \A i \in 1 .. Len(t) : t[i] = s[i + 1]
        /\ Head(s) = s[1]
    OBVIOUS
  <1> HIDE DEF t
  <1>2. 1 \in 1 .. Len(s)
    BY <1>1
  <1>3. \A i \in 1 .. Len(t) : i + 1 \in 1 .. Len(s) /\ i + 1 # 1
    BY <1>1
  <1>4. Head(s) \in Elements(s) /\ Head(s) \in S
    BY <1>1, <1>2 DEF Elements
  <1>5. Elements(t) \subseteq Elements(s)
    BY <1>1, <1>3 DEF Elements
  <1>6. ASSUME Distinct(s)
        PROVE  Distinct(t) /\ Head(s) \notin Elements(t)
    <2>1. ASSUME NEW i \in 1 .. Len(t), NEW j \in 1 .. Len(t), t[i] = t[j]
          PROVE  i = j
      <3>1. s[i + 1] = s[j + 1] /\ i + 1 \in 1 .. Len(s) /\ j + 1 \in 1 .. Len(s)
        BY <2>1, <1>1, <1>3
      <3>2. i + 1 = j + 1
        BY <3>1, <1>6 DEF Distinct
      <3> QED BY <3>2
    <2>2. ASSUME NEW i \in 1 .. Len(t), t[i] = Head(s)
          PROVE  FALSE
      <3>1. s[i + 1] = s[1] /\ i + 1 \in 1 .. Len(s) /\ i + 1 # 1
        BY <2>2, <1>1, <1>3
      <3> QED BY <3>1, <1>2, <1>6 DEF Distinct
    <2> QED BY <2>1, <2>2 DEF Distinct, Elements
  <1> QED BY <1>1, <1>4, <1>5, <1>6 DEF t

-----------------------------------------------------------------------------
(* Every step keeps the invariant.                                         *)

LEMMA MeshInvInit == MeshInit => MeshInv
  <1> SUFFICES ASSUME MeshInit PROVE MeshInv
    OBVIOUS
  <1>1. MeshTypeOK
    BY RanksAssumption DEF MeshInit, MeshTypeOK, Answers
  <1>2. PlanInv
    BY RanksAssumption DEF MeshInit, PlanInv, Meshed
  <1>3. QueueInv
    BY NoElements DEF MeshInit, QueueInv
  <1>4. DialInv
    BY NoElements DEF MeshInit, DialInv, Untried
  <1>5. PeerInv
    BY DEF MeshInit, PeerInv, Meshed
  <1> QED BY <1>1, <1>2, <1>3, <1>4, <1>5 DEF MeshInv

\* A step at the rendezvous moves one process on, at most into the mesh, and
\* adds to the plan only while nobody has it.
LEMMA RendezvousKeeps ==
  ASSUME MeshInv, MeshTypeOK', PlanInv', UNCHANGED mesh, NEW p \in Procs,
         \A q \in Procs \ {p} : phase'[q] = phase[q],
         \/ phase'[p] = phase[p]
         \/ /\ phase[p] \in {"start", "register", "await"}
            /\ phase'[p] \in {"start", "register", "await", "mesh"},
         plan \subseteq plan',
         plan' = plan \/ ~Complete
  PROVE  MeshInv'
  <1> USE DEF mesh
  <1>1. \A q \in Procs : Meshed(q) => plan' = plan
    BY DEF MeshInv, PlanInv
  <1>2. QueueInv'
    <2> SUFFICES ASSUME NEW q \in Procs
                 PROVE  /\ Distinct(queue[q])
                        /\ \A r \in Elements(queue[q]) :
                             /\ answer[r][q] = "none" /\ r \in plan' /\ q \in Lower(r)'
                             /\ phase'[r] = "failed" \/ (phase'[r] = "handshake" /\ Target(r, q)')
      BY DEF QueueInv
    <2>1. Distinct(queue[q])
      BY DEF MeshInv, QueueInv
    <2> SUFFICES ASSUME NEW r \in Elements(queue[q])
                 PROVE  /\ answer[r][q] = "none" /\ r \in plan' /\ q \in Lower(r)'
                        /\ phase'[r] = "failed" \/ (phase'[r] = "handshake" /\ Target(r, q)')
      BY <2>1
    <2>2. /\ answer[r][q] = "none" /\ r \in plan /\ q \in Lower(r)
          /\ phase[r] = "failed" \/ (phase[r] = "handshake" /\ Target(r, q))
      BY DEF MeshInv, QueueInv
    <2>3. r \in Procs /\ phase'[r] = phase[r]
      BY <2>2 DEF MeshInv, MeshTypeOK
    <2>4. phase[r] = "handshake" => plan' = plan
      BY <1>1, <2>3 DEF Meshed
    <2> QED BY <2>2, <2>3, <2>4 DEF Lower, Target
  <1>3. DialInv'
    <2> SUFFICES ASSUME NEW q \in Procs
                 PROVE  /\ phase'[q] \in {"start", "register", "await"} =>
                             \A r \in Procs : Untried(q, r)
                        /\ phase'[q] = "mesh" =>
                             \A r \in Lower(q)' \ peers[q] : Untried(q, r)
                        /\ phase'[q] = "handshake" =>
                             \A r \in Lower(q)' \ peers[q] : Target(q, r)' \/ Untried(q, r)
      BY DEF DialInv, Untried
    <2>1. Lower(q)' \subseteq Procs
      BY DEF Lower, MeshTypeOK
    <2>2. CASE phase'[q] = phase[q]
      <3>1. Meshed(q) => Lower(q)' = Lower(q) /\ \A r \in Procs : Target(q, r)' <=> Target(q, r)
        BY <1>1 DEF Lower, Target
      <3> QED BY <2>2, <3>1, <2>1 DEF MeshInv, DialInv, Meshed
    <2>3. CASE phase'[q] # phase[q]
      <3>1. \A r \in Procs : Untried(q, r)
        BY <2>3 DEF MeshInv, DialInv
      <3> QED BY <3>1, <2>1
    <2> QED BY <2>2, <2>3
  <1>4. PeerInv'
    <2> SUFFICES ASSUME NEW q \in Procs
                 PROVE  /\ ~Meshed(q)' => peers[q] = {}
                        /\ \A r \in peers[q] :
                             /\ r \in plan' /\ RankOf[r] # RankOf[q]
                             /\ RankOf[r] < RankOf[q] => answer[q][r] = "ok"
                             /\ RankOf[q] < RankOf[r] => answer[r][q] = "ok"
                        /\ phase'[q] = "done" => peers[q] = plan' \ {q}
      BY DEF PeerInv
    <2>1. ~Meshed(q)' => ~Meshed(q)
      BY DEF Meshed
    <2>2. phase'[q] = "done" => phase[q] = "done" /\ plan' = plan
      BY <1>1 DEF Meshed
    <2> QED BY <2>1, <2>2 DEF MeshInv, PeerInv
  <1> QED BY <1>2, <1>3, <1>4 DEF MeshInv

\* A process leaves: those queued at its listener are reset, they were going to
\* be told so or have left themselves.
LEMMA LeaveKeeps ==
  ASSUME MeshInv, NEW p \in Procs, NEW end \in {"failed", "done"}, LeaveMesh(p, end),
         \/ end = "failed" /\ peers' = [peers EXCEPT ![p] = {}]
         \/ end = "done" /\ Connected(p) /\ UNCHANGED peers
  PROVE  MeshInv'
  <1> USE DEF MeshInv
  <1>1. /\ phase' = [phase EXCEPT ![p] = end]
        /\ queue' = [queue EXCEPT ![p] = <<>>]
        /\ plan' = plan /\ impatient' = impatient
        /\ backlog' \in {<<>>, backlog} /\ pending' \in {<<>>, pending}
        /\ answer' = [r \in Procs |-> [q \in Procs |->
                  IF q = p /\ r \in Elements(queue[p]) THEN "reset" ELSE answer[r][q]]]
        /\ reply' = [q \in Procs |->
                 IF p = Host /\ q \in Elements(backlog) \cup Elements(pending)
                 THEN "reset" ELSE reply[q]]
    BY DEF LeaveMesh
  <1>2. MeshTypeOK'
    <2>1. phase' \in [Procs -> {"start", "register", "await", "mesh", "handshake",
                                "done", "failed"}]
      BY <1>1 DEF MeshTypeOK
    <2>2. queue' \in [Procs -> Seq(Procs)]
      BY <1>1 DEF MeshTypeOK
    <2>3. answer' \in [Procs -> [Procs -> Answers]] /\ reply' \in [Procs -> Answers]
      BY <1>1 DEF MeshTypeOK, Answers
    <2>4. peers' \in [Procs -> SUBSET Procs]
      BY DEF MeshTypeOK
    <2>5. backlog' \in Seq(Procs) /\ pending' \in Seq(Procs)
      <3>1. <<>> \in Seq(Procs)
        OBVIOUS
      <3>2. backlog \in Seq(Procs) /\ pending \in Seq(Procs)
        BY DEF MeshTypeOK
      <3> QED BY <3>1, <3>2, <1>1
    <2> QED BY <2>1, <2>2, <2>3, <2>4, <2>5, <1>1 DEF MeshTypeOK
  <1>3. /\ Elements(queue'[p]) = {} /\ Distinct(queue'[p])
        /\ \A q \in Procs \ {p} : queue'[q] = queue[q]
    BY <1>1, NoElements DEF MeshTypeOK
  <1>4. \A q \in Procs \ {p} : phase'[q] = phase[q] /\ peers'[q] = peers[q]
    BY <1>1 DEF MeshTypeOK
  <1>5. phase'[p] = end
    BY <1>1 DEF MeshTypeOK
  <1>6. end = "done" => phase[p] = "mesh" /\ Cardinality(peers[p]) = WorldSize - 1
    BY DEF Connected, Accepting
  \* What was answered stays answered.
  <1>7. \A r, q \in Procs :
          /\ answer[r][q] # "none" => answer'[r][q] = answer[r][q]
          /\ q # p => answer'[r][q] = answer[r][q]
          /\ r \notin Elements(queue[q]) => answer'[r][q] = answer[r][q]
    BY <1>1 DEF QueueInv
  <1>8. Lower(p)' = Lower(p) /\ \A q \in Procs : Lower(q)' = Lower(q)
    BY <1>1 DEF Lower
  <1>9. \A q \in Procs \ {p} : \A r \in Procs : Target(q, r)' <=> Target(q, r)
    BY <1>4, <1>8 DEF Target
  <1>10. \A q \in Procs : Untried(q, p)' \/ ~Untried(q, p)
    BY <1>3, <1>7 DEF Untried
  <1>11. \A r, q \in Procs : Untried(r, q) => Untried(r, q)'
    BY <1>3, <1>7, <1>10 DEF Untried
  <1>12. PlanInv'
    <2>1. \A q \in Procs : reply'[q] = "ok" => reply[q] = "ok"
      BY <1>1
    <2>2. \A q \in Procs : Meshed(q)' => Meshed(q)
      BY <1>4, <1>5, <1>6 DEF Meshed
    <2>3. Complete' <=> Complete
      BY <1>1 DEF Complete
    <2> QED BY <1>1, <2>1, <2>2, <2>3 DEF PlanInv
  <1>13. QueueInv'
    <2> SUFFICES ASSUME NEW q \in Procs, q # p
                 PROVE  /\ Distinct(queue'[q])
                        /\ \A r \in Elements(queue'[q]) :
                             /\ answer'[r][q] = "none" /\ r \in plan' /\ q \in Lower(r)'
                             /\ phase'[r] = "failed"
                                  \/ (phase'[r] = "handshake" /\ Target(r, q)')
      BY <1>3 DEF QueueInv
    <2>1. Distinct(queue'[q])
      BY <1>3 DEF QueueInv
    <2> SUFFICES ASSUME NEW r \in Elements(queue[q])
                 PROVE  /\ answer'[r][q] = "none" /\ r \in plan' /\ q \in Lower(r)'
                        /\ phase'[r] = "failed" \/ (phase'[r] = "handshake" /\ Target(r, q)')
      BY <2>1, <1>3
    <2>2. /\ answer[r][q] = "none" /\ r \in plan /\ q \in Lower(r)
          /\ phase[r] = "failed" \/ (phase[r] = "handshake" /\ Target(r, q))
      BY DEF QueueInv
    <2>3. r \in Procs
      BY <2>2 DEF MeshTypeOK
    <2>4. r = p => phase'[r] = "failed"
      BY <2>2, <1>5, <1>6
    <2> QED BY <2>2, <2>3, <2>4, <1>1, <1>4, <1>7, <1>8, <1>9
  <1>14. DialInv'
    <2> SUFFICES ASSUME NEW q \in Procs, q # p
                 PROVE  /\ phase'[q] \in {"start", "register", "await"} =>
                             \A r \in Procs : Untried(q, r)'
                        /\ phase'[q] = "mesh" =>
                             \A r \in Lower(q)' \ peers'[q] : Untried(q, r)'
                        /\ phase'[q] = "handshake" =>
                             \A r \in Lower(q)' \ peers'[q] : Target(q, r)' \/ Untried(q, r)'
      BY <1>5 DEF DialInv
    <2>1. Lower(q) \subseteq Procs
      BY DEF Lower, MeshTypeOK
    <2> QED BY <2>1, <1>4, <1>8, <1>9, <1>11 DEF DialInv
  <1>15. PeerInv'
    <2> SUFFICES ASSUME NEW q \in Procs
                 PROVE  /\ ~Meshed(q)' => peers'[q] = {}
                        /\ \A r \in peers'[q] :
                             /\ r \in plan' /\ RankOf[r] # RankOf[q]
                             /\ RankOf[r] < RankOf[q] => answer'[q][r] = "ok"
                             /\ RankOf[q] < RankOf[r] => answer'[r][q] = "ok"
                        /\ phase'[q] = "done" => peers'[q] = plan' \ {q}
      BY DEF PeerInv
    <2>1. peers'[q] \subseteq peers[q] /\ peers[q] \subseteq Procs
      BY DEF MeshTypeOK
    <2>2. \A r \in peers'[q] :
             /\ r \in plan' /\ RankOf[r] # RankOf[q]
             /\ RankOf[r] < RankOf[q] => answer'[q][r] = "ok"
             /\ RankOf[q] < RankOf[r] => answer'[r][q] = "ok"
      BY <2>1, <1>1, <1>7 DEF PeerInv
    <2>3. CASE q # p
      <3>1. phase'[q] = phase[q] /\ peers'[q] = peers[q] /\ plan' = plan
        BY <2>3, <1>1, <1>4
      <3>2. /\ ~Meshed(q) => peers[q] = {}
            /\ phase[q] = "done" => peers[q] = plan \ {q}
        BY DEF PeerInv
      <3> QED BY <2>2, <3>1, <3>2 DEF Meshed
    <2>4. CASE q = p /\ end = "failed"
      BY <2>2, <2>4, <1>5 DEF MeshTypeOK
    <2>5. CASE q = p /\ end = "done"
      <3>1. p \in plan /\ Cardinality(plan) = WorldSize
        BY <2>5, <1>6 DEF PlanInv, Meshed, Complete
      <3>2. peers'[p] = peers[p]
        BY <2>5
      <3>3. peers[p] \subseteq plan \ {p}
        BY DEF PeerInv
      <3>4. IsFiniteSet(plan) /\ IsFiniteSet(plan \ {p})
        BY FS_Subset, RanksAssumption DEF MeshTypeOK
      <3>5. Cardinality(plan \ {p}) = WorldSize - 1
        BY <3>1, <3>4, FS_RemoveElement
      <3>6. peers[p] = plan \ {p}
        BY <3>3, <3>4, <3>5, <2>5, <1>6, FS_Subset
      <3> QED BY <2>2, <2>5, <3>2, <3>6, <1>1, <1>5 DEF Meshed
    <2> QED BY <2>3, <2>4, <2>5
  <1> QED BY <1>2, <1>12, <1>13, <1>14, <1>15

LEMMA RaiseKeeps ==
  ASSUME MeshInv, NEW p \in Procs, Raise(p)
  PROVE  MeshInv'
  BY LeaveKeeps DEF Raise

LEMMA ReturnKeeps ==
  ASSUME MeshInv, NEW p \in Procs, Return(p)
  PROVE  MeshInv'
  BY LeaveKeeps DEF Return

\* A dialler is queued where it dialled and waits there.
LEMMA DialKeeps ==
  ASSUME MeshInv, NEW p \in Procs, NEW q \in Procs, Dial(p, q)
  PROVE  MeshInv'
  <1> USE DEF MeshInv
  <1>1. /\ phase[p] = "mesh" /\ Target(p, q)
        /\ phase' = [phase EXCEPT ![p] = "handshake"]
        /\ queue' = [queue EXCEPT ![q] = Append(queue[q], p)]
        /\ UNCHANGED <<impatient, backlog, plan, pending, reply, answer, peers>>
    BY DEF Dial, rendezvous
  <1>2. q \in Lower(p) \ peers[p] /\ p \in plan
    BY <1>1 DEF Target, PlanInv, Meshed
  <1>3. Untried(p, q)
    BY <1>1, <1>2 DEF DialInv
  <1>4. queue[q] \in Seq(Procs)
    BY DEF MeshTypeOK
  <1>5. /\ queue'[q] \in Seq(Procs)
        /\ Elements(queue'[q]) = Elements(queue[q]) \cup {p}
        /\ Distinct(queue'[q])
        /\ \A r \in Procs \ {q} : queue'[r] = queue[r]
    <2>1. queue'[q] = Append(queue[q], p) /\ \A r \in Procs \ {q} : queue'[r] = queue[r]
      BY <1>1 DEF MeshTypeOK
    <2>2. Distinct(queue[q]) /\ p \notin Elements(queue[q])
      BY <1>3 DEF QueueInv, Untried
    <2> QED BY <2>1, <2>2, <1>4, ElementsAppend
  <1>6. MeshTypeOK'
    <2>1. queue' \in [Procs -> Seq(Procs)]
      BY <1>1, <1>5 DEF MeshTypeOK
    <2>2. phase' \in [Procs -> {"start", "register", "await", "mesh", "handshake",
                                "done", "failed"}]
      BY <1>1 DEF MeshTypeOK
    <2> QED BY <2>1, <2>2, <1>1 DEF MeshTypeOK
  <1>7. phase'[p] = "handshake" /\ \A r \in Procs \ {p} : phase'[r] = phase[r]
    BY <1>1 DEF MeshTypeOK
  <1>8. /\ \A r \in Procs : Lower(r)' = Lower(r)
        /\ \A r, s \in Procs : Target(r, s)' <=> Target(r, s)
        /\ \A r \in Procs : Meshed(r)' <=> Meshed(r)
        /\ Complete' <=> Complete
    BY <1>1, <1>7 DEF Lower, Target, Meshed, Complete
  <1>9. \A r, s \in Procs : (r # p \/ s # q) /\ Untried(r, s) => Untried(r, s)'
    BY <1>1, <1>5 DEF Untried
  <1>10. PlanInv'
    BY <1>1, <1>8 DEF PlanInv
  <1>11. QueueInv'
    <2> SUFFICES ASSUME NEW s \in Procs
                 PROVE  /\ Distinct(queue'[s])
                        /\ \A r \in Elements(queue'[s]) :
                             /\ answer[r][s] = "none" /\ r \in plan /\ s \in Lower(r)
                             /\ phase'[r] = "failed"
                                  \/ (phase'[r] = "handshake" /\ Target(r, s)')
      BY <1>1, <1>8 DEF QueueInv, MeshTypeOK
    <2>1. Distinct(queue'[s])
      BY <1>5 DEF QueueInv
    <2> SUFFICES ASSUME NEW r \in Elements(queue'[s])
                 PROVE  /\ answer[r][s] = "none" /\ r \in plan /\ s \in Lower(r)
                        /\ phase'[r] = "failed" \/ (phase'[r] = "handshake" /\ Target(r, s)')
      BY <2>1
    <2>2. CASE r = p /\ s = q
      BY <2>2, <1>1, <1>2, <1>3, <1>7, <1>8 DEF Untried
    <2>3. CASE r # p \/ s # q
      <3>1. r \in Elements(queue[s])
        BY <2>3, <1>5
      <3>2. /\ answer[r][s] = "none" /\ r \in plan /\ s \in Lower(r)
            /\ phase[r] = "failed" \/ (phase[r] = "handshake" /\ Target(r, s))
        BY <3>1 DEF QueueInv
      <3>3. r \in Procs /\ r # p
        BY <3>2, <1>1 DEF MeshTypeOK
      <3> QED BY <3>2, <3>3, <1>7, <1>8
    <2> QED BY <2>2, <2>3
  <1>12. DialInv'
    <2> SUFFICES ASSUME NEW r \in Procs
                 PROVE  /\ phase'[r] \in {"start", "register", "await"} =>
                             \A s \in Procs : Untried(r, s)'
                        /\ phase'[r] = "mesh" =>
                             \A s \in Lower(r) \ peers[r] : Untried(r, s)'
                        /\ phase'[r] = "handshake" =>
                             \A s \in Lower(r) \ peers[r] : Target(r, s)' \/ Untried(r, s)'
      BY <1>1, <1>8 DEF DialInv
    <2>1. Lower(r) \subseteq Procs
      BY DEF Lower, MeshTypeOK
    <2>2. CASE r = p
      <3>1. \A s \in Lower(p) \ peers[p] : Untried(p, s)
        BY <1>1 DEF DialInv
      <3> QED BY <2>1, <2>2, <3>1, <1>1, <1>7, <1>8, <1>9
    <2>3. CASE r # p
      BY <2>1, <2>3, <1>7, <1>8, <1>9 DEF DialInv
    <2> QED BY <2>2, <2>3
  <1>13. PeerInv'
    BY <1>1, <1>7, <1>8 DEF PeerInv
  <1> QED BY <1>6, <1>10, <1>11, <1>12, <1>13

\* The planned ranks are different: one process is dialled at a time.
LEMMA OneTarget ==
  ASSUME MeshTypeOK, PlanInv, NEW p \in Procs, NEW q, NEW r, Target(p, q), Target(p, r)
  PROVE  q = r
  <1>1. /\ q \in plan /\ r \in plan
        /\ RankOf[q] <= RankOf[r] /\ RankOf[r] <= RankOf[q]
    BY DEF Target, Lower
  <1>2. RankOf[q] \in Nat /\ RankOf[r] \in Nat
    BY <1>1, RanksAssumption DEF MeshTypeOK
  <1>3. RankOf[q] = RankOf[r]
    BY <1>1, <1>2
  <1> QED BY <1>1, <1>3 DEF PlanInv

\* The lowest rank that was missing is connected; those beyond are untried.
LEMMA ValidatedKeeps ==
  ASSUME MeshInv, NEW p \in Procs, NEW q \in Procs, Validated(p, q)
  PROVE  MeshInv'
  <1> USE DEF MeshInv
  <1>1. /\ phase[p] = "handshake" /\ Target(p, q) /\ answer[p][q] = "ok"
        /\ phase' = [phase EXCEPT ![p] = "mesh"]
        /\ peers' = [peers EXCEPT ![p] = peers[p] \cup {q}]
        /\ UNCHANGED <<impatient, backlog, plan, pending, reply, queue, answer>>
    BY DEF Validated, rendezvous
  <1>2. /\ q \in Lower(p) \ peers[p] /\ p \in plan /\ q \in plan
        /\ RankOf[q] < RankOf[p] /\ RankOf[p] \in Nat /\ RankOf[q] \in Nat
    BY <1>1, RanksAssumption DEF Target, PlanInv, Meshed, Lower
  <1>3. MeshTypeOK'
    <2>1. peers' \in [Procs -> SUBSET Procs]
      BY <1>1 DEF MeshTypeOK
    <2>2. phase' \in [Procs -> {"start", "register", "await", "mesh", "handshake",
                                "done", "failed"}]
      BY <1>1 DEF MeshTypeOK
    <2> QED BY <2>1, <2>2, <1>1 DEF MeshTypeOK
  <1>4. /\ phase'[p] = "mesh" /\ peers'[p] = peers[p] \cup {q}
        /\ \A r \in Procs \ {p} : phase'[r] = phase[r] /\ peers'[r] = peers[r]
    BY <1>1 DEF MeshTypeOK
  <1>5. /\ \A r \in Procs : Lower(r)' = Lower(r)
        /\ \A r \in Procs \ {p} : \A s \in Procs : Target(r, s)' <=> Target(r, s)
        /\ \A r \in Procs : Meshed(r)' <=> Meshed(r)
        /\ Complete' <=> Complete
        /\ \A r, s \in Procs : Untried(r, s)' <=> Untried(r, s)
    BY <1>1, <1>4 DEF Lower, Target, Meshed, Complete, Untried
  <1>6. PlanInv'
    BY <1>1, <1>5 DEF PlanInv
  <1>7. \A s \in Procs : p \notin Elements(queue[s])
    <2> SUFFICES ASSUME NEW s \in Procs, p \in Elements(queue[s]) PROVE FALSE
      OBVIOUS
    <2>1. answer[p][s] = "none" /\ Target(p, s)
      BY <1>1 DEF QueueInv
    <2>2. s = q
      BY <2>1, <1>1, OneTarget
    <2> QED BY <2>1, <2>2, <1>1
  <1>8. QueueInv'
    <2> SUFFICES ASSUME NEW s \in Procs
                 PROVE  /\ Distinct(queue[s])
                        /\ \A r \in Elements(queue[s]) :
                             /\ answer[r][s] = "none" /\ r \in plan /\ s \in Lower(r)
                             /\ phase'[r] = "failed"
                                  \/ (phase'[r] = "handshake" /\ Target(r, s)')
      BY <1>1, <1>5 DEF QueueInv, MeshTypeOK
    <2>1. Distinct(queue[s])
      BY DEF QueueInv
    <2> SUFFICES ASSUME NEW r \in Elements(queue[s])
                 PROVE  /\ answer[r][s] = "none" /\ r \in plan /\ s \in Lower(r)
                        /\ phase'[r] = "failed" \/ (phase'[r] = "handshake" /\ Target(r, s)')
      BY <2>1
    <2>2. /\ answer[r][s] = "none" /\ r \in plan /\ s \in Lower(r)
          /\ phase[r] = "failed" \/ (phase[r] = "handshake" /\ Target(r, s))
      BY DEF QueueInv
    <2>3. r \in Procs /\ r # p
      BY <2>2, <1>7 DEF MeshTypeOK
    <2> QED BY <2>2, <2>3, <1>4, <1>5
  <1>9. DialInv'
    <2> SUFFICES ASSUME NEW r \in Procs
                 PROVE  /\ phase'[r] \in {"start", "register", "await"} =>
                             \A s \in Procs : Untried(r, s)
                        /\ phase'[r] = "mesh" =>
                             \A s \in Lower(r) \ peers'[r] : Untried(r, s)
                        /\ phase'[r] = "handshake" =>
                             \A s \in Lower(r) \ peers'[r] : Target(r, s)' \/ Untried(r, s)
      BY <1>5 DEF DialInv, Lower, MeshTypeOK, Untried
    <2>1. Lower(r) \subseteq Procs
      BY DEF Lower, MeshTypeOK
    <2>2. CASE r = p
      <3>1. ASSUME NEW s \in Lower(p) \ peers'[p]
            PROVE  Untried(p, s)
        <4>1. s \in Lower(p) \ peers[p] /\ s # q
          BY <1>4
        <4>2. ~Target(p, s)
          BY <4>1, <1>1, OneTarget
        <4> QED BY <4>1, <4>2, <1>1 DEF DialInv
      <3> QED BY <2>2, <3>1, <1>4
    <2>3. CASE r # p
      BY <2>1, <2>3, <1>4, <1>5 DEF DialInv
    <2> QED BY <2>2, <2>3
  <1>10. PeerInv'
    <2> SUFFICES ASSUME NEW r \in Procs
                 PROVE  /\ ~Meshed(r) => peers'[r] = {}
                        /\ \A s \in peers'[r] :
                             /\ s \in plan /\ RankOf[s] # RankOf[r]
                             /\ RankOf[s] < RankOf[r] => answer[r][s] = "ok"
                             /\ RankOf[r] < RankOf[s] => answer[s][r] = "ok"
                        /\ phase'[r] = "done" => peers'[r] = plan \ {r}
      BY <1>1, <1>5 DEF PeerInv
    <2>1. CASE r = p
      <3>1. Meshed(p)
        BY <1>1 DEF Meshed
      <3> QED BY <2>1, <3>1, <1>1, <1>2, <1>4 DEF PeerInv
    <2>2. CASE r # p
      BY <2>2, <1>4 DEF PeerInv
    <2> QED BY <2>1, <2>2
  <1> QED BY <1>3, <1>6, <1>8, <1>9, <1>10

\* The first dialler in the queue is answered, and recorded if it is expected.
LEMMA AcceptKeeps ==
  ASSUME MeshInv, NEW p \in Procs, Accept(p)
  PROVE  MeshInv'
  <1> USE DEF MeshInv
  <1>0. PICK q \in Procs : q = Head(queue[p])
    <2>1. queue[p] \in Seq(Procs) /\ queue[p] # <<>>
      BY DEF MeshTypeOK, Accept
    <2> QED BY <2>1, ElementsTail
  <1> DEFINE good == Expected(p, q)
             said == IF good THEN "ok" ELSE "error"
  <1>1. /\ phase[p] = "mesh" /\ queue[p] # <<>>
        /\ answer' = [answer EXCEPT ![q][p] = said]
        /\ peers' = IF good THEN [peers EXCEPT ![p] = peers[p] \cup {q}] ELSE peers
        /\ queue' = [queue EXCEPT ![p] = Tail(queue[p])]
        /\ UNCHANGED <<impatient, phase, backlog, plan, pending, reply>>
    BY <1>0 DEF Accept, Accepting, rendezvous
  <1>2. /\ q \in Elements(queue[p])
        /\ Tail(queue[p]) \in Seq(Procs)
        /\ Elements(Tail(queue[p])) \subseteq Elements(queue[p])
        /\ Distinct(Tail(queue[p])) /\ q \notin Elements(Tail(queue[p]))
    <2>1. queue[p] \in Seq(Procs) /\ Distinct(queue[p])
      BY DEF MeshTypeOK, QueueInv
    <2> QED BY <2>1, <1>0, <1>1, ElementsTail
  <1>3. good => RankOf[p] < RankOf[q]
    BY DEF Expected
  <1> HIDE DEF good
  <1>4. /\ answer[q][p] = "none" /\ q \in plan /\ p \in Lower(q)
        /\ phase[q] = "failed" \/ (phase[q] = "handshake" /\ Target(q, p))
    BY <1>2 DEF QueueInv
  <1>5. q # p
    BY <1>1, <1>4
  <1>6. /\ answer'[q][p] = said
        /\ \A r, s \in Procs : r # q \/ s # p => answer'[r][s] = answer[r][s]
        /\ answer' \in [Procs -> [Procs -> Answers]]
    BY <1>1, <1>2 DEF MeshTypeOK, Answers
  <1>7. /\ queue'[p] = Tail(queue[p])
        /\ \A r \in Procs \ {p} : queue'[r] = queue[r] /\ peers'[r] = peers[r]
        /\ peers'[p] = IF good THEN peers[p] \cup {q} ELSE peers[p]
    BY <1>1 DEF MeshTypeOK
  <1>8. MeshTypeOK'
    <2>1. peers' \in [Procs -> SUBSET Procs]
      BY <1>1, <1>2 DEF MeshTypeOK
    <2>2. queue' \in [Procs -> Seq(Procs)]
      BY <1>1, <1>2 DEF MeshTypeOK
    <2> QED BY <2>1, <2>2, <1>1, <1>6 DEF MeshTypeOK
  <1>9. /\ \A r \in Procs : Lower(r)' = Lower(r)
        /\ \A r \in Procs \ {p} : \A s \in Procs : Target(r, s)' <=> Target(r, s)
        /\ \A r \in Procs : Meshed(r)' <=> Meshed(r)
        /\ Complete' <=> Complete
    BY <1>1, <1>7 DEF Lower, Target, Meshed, Complete
  <1>10. \A r, s \in Procs : (r # q \/ s # p) /\ Untried(r, s) => Untried(r, s)'
    BY <1>2, <1>6, <1>7 DEF Untried
  <1>11. \A s \in Procs : p \notin Elements(queue[s])
    BY <1>1 DEF QueueInv
  <1>12. PlanInv'
    BY <1>1, <1>9 DEF PlanInv
  <1>13. QueueInv'
    <2> SUFFICES ASSUME NEW s \in Procs
                 PROVE  /\ Distinct(queue'[s])
                        /\ \A r \in Elements(queue'[s]) :
                             /\ answer'[r][s] = "none" /\ r \in plan /\ s \in Lower(r)
                             /\ phase[r] = "failed"
                                  \/ (phase[r] = "handshake" /\ Target(r, s)')
      BY <1>1, <1>9, <1>8 DEF QueueInv, MeshTypeOK
    <2>1. Distinct(queue'[s])
      BY <1>2, <1>7 DEF QueueInv
    <2> SUFFICES ASSUME NEW r \in Elements(queue'[s])
                 PROVE  /\ answer'[r][s] = "none" /\ r \in plan /\ s \in Lower(r)
                        /\ phase[r] = "failed" \/ (phase[r] = "handshake" /\ Target(r, s)')
      BY <2>1
    <2>2. r \in Elements(queue[s]) /\ (r # q \/ s # p)
      BY <1>2, <1>7
    <2>3. /\ answer[r][s] = "none" /\ r \in plan /\ s \in Lower(r)
          /\ phase[r] = "failed" \/ (phase[r] = "handshake" /\ Target(r, s))
      BY <2>2 DEF QueueInv
    <2>4. r \in Procs /\ r # p
      BY <2>2, <2>3, <1>11 DEF MeshTypeOK
    <2> QED BY <2>2, <2>3, <2>4, <1>6, <1>9
  <1>14. DialInv'
    <2> SUFFICES ASSUME NEW r \in Procs
                 PROVE  /\ phase[r] \in {"start", "register", "await"} =>
                             \A s \in Procs : Untried(r, s)'
                        /\ phase[r] = "mesh" =>
                             \A s \in Lower(r) \ peers'[r] : Untried(r, s)'
                        /\ phase[r] = "handshake" =>
                             \A s \in Lower(r) \ peers'[r] : Target(r, s)' \/ Untried(r, s)'
      BY <1>1, <1>9 DEF DialInv
    <2>1. Lower(r) \subseteq Procs
      BY DEF Lower, MeshTypeOK
    <2>2. CASE r = q
      <3>1. phase[q] = "handshake" => Target(q, p)'
        BY <1>4, <1>2, <1>5, <1>9
      <3>2. phase[q] \notin {"start", "register", "await", "mesh"}
        BY <1>4
      <3>3. ASSUME phase[q] = "handshake", NEW s \in Lower(q) \ peers'[q]
            PROVE  Target(q, s)' \/ Untried(q, s)'
        <4>1. s \in Procs /\ s \in Lower(q) \ peers[q]
          BY <2>1, <2>2, <3>3, <1>2, <1>5, <1>7
        <4>2. Target(q, s) \/ Untried(q, s)
          BY <4>1, <3>3, <1>2 DEF DialInv
        <4> QED BY <4>1, <4>2, <3>1, <3>3, <1>2, <1>5, <1>9, <1>10
      <3> QED BY <2>2, <3>2, <3>3
    <2>3. CASE r # q /\ r # p
      <3>1. peers'[r] = peers[r]
        BY <2>3, <1>7
      <3> QED BY <2>1, <2>3, <3>1, <1>9, <1>10 DEF DialInv
    <2>4. CASE r = p
      <3>1. \A s \in Lower(p) \ peers'[p] : s \in Procs /\ Untried(p, s)
        BY <2>1, <2>4, <1>1, <1>7 DEF DialInv
      <3> QED BY <2>4, <3>1, <1>1, <1>5, <1>10
    <2> QED BY <2>2, <2>3, <2>4
  <1>15. PeerInv'
    <2> SUFFICES ASSUME NEW r \in Procs
                 PROVE  /\ ~Meshed(r) => peers'[r] = {}
                        /\ \A s \in peers'[r] :
                             /\ s \in plan /\ RankOf[s] # RankOf[r]
                             /\ RankOf[s] < RankOf[r] => answer'[r][s] = "ok"
                             /\ RankOf[r] < RankOf[s] => answer'[s][r] = "ok"
                        /\ phase[r] = "done" => peers'[r] = plan \ {r}
      BY <1>1, <1>9 DEF PeerInv
    <2>1. peers[r] \subseteq Procs
      BY DEF MeshTypeOK
    \* No answer but the one that was missing changes.
    <2>2. \A s \in peers[r] :
            /\ s \in plan /\ RankOf[s] # RankOf[r]
            /\ RankOf[s] < RankOf[r] => answer'[r][s] = "ok"
            /\ RankOf[r] < RankOf[s] => answer'[s][r] = "ok"
      BY <2>1, <1>2, <1>4, <1>6 DEF PeerInv
    <2>3. CASE r # p
      BY <2>2, <2>3, <1>7 DEF PeerInv
    <2>4. CASE r = p /\ ~good
      BY <2>2, <2>4, <1>7 DEF PeerInv
    <2>5. CASE r = p /\ good
      <3>1. RankOf[p] < RankOf[q] /\ RankOf[p] \in Nat /\ RankOf[q] \in Nat
        BY <2>5, <1>2, <1>3, RanksAssumption
      <3>2. RankOf[q] # RankOf[p] /\ ~(RankOf[q] < RankOf[p])
        BY <3>1
      <3>3. answer'[q][p] = "ok"
        BY <2>5, <1>6
      <3>4. Meshed(p) /\ phase[p] # "done"
        BY <1>1 DEF Meshed
      <3> QED BY <2>2, <2>5, <3>2, <3>3, <3>4, <1>4, <1>7
    <2> QED BY <2>3, <2>4, <2>5
  <1> QED BY <1>8, <1>12, <1>13, <1>14, <1>15

\* The steps of the rendezvous that admit a process or hand over the plan.
LEMMA HostKeeps ==
  ASSUME MeshInv, HostStep
  PROVE  MeshInv'
  <1> USE DEF MeshInv
  <1>0. Host \in Procs
    BY RanksAssumption
  <1>1. CASE StartHost
    <2>1. /\ phase[Host] = "start" /\ phase' = [phase EXCEPT ![Host] = "register"]
          /\ UNCHANGED <<impatient, backlog, plan, pending, reply, mesh>>
      BY <1>1 DEF StartHost, rendezvous
    <2>2. MeshTypeOK'
      BY <2>1 DEF MeshTypeOK, mesh
    <2>3. phase'[Host] = "register" /\ \A q \in Procs \ {Host} : phase'[q] = phase[q]
      BY <2>1, <1>0 DEF MeshTypeOK
    <2>4. PlanInv'
      BY <2>1, <2>3 DEF PlanInv, Meshed, Complete
    <2> QED BY <2>1, <2>2, <2>3, <2>4, <1>0, RendezvousKeeps
  <1>2. CASE AcceptRegistration
    <2> DEFINE p == Head(backlog)
    <2>1. /\ ~Complete /\ backlog # <<>> /\ backlog' = Tail(backlog)
          /\ UNCHANGED <<impatient, phase, mesh>>
          /\ \/ /\ Admissible(p)
                /\ plan' = plan \cup {p} /\ pending' = Append(pending, p)
                /\ UNCHANGED reply
             \/ /\ reply' = [reply EXCEPT ![p] = "error"] /\ UNCHANGED <<plan, pending>>
      BY <1>2 DEF AcceptRegistration, Reject
    <2>2. p \in Procs /\ Tail(backlog) \in Seq(Procs)
      BY <2>1, ElementsTail DEF MeshTypeOK
    <2> HIDE DEF p
    <2>3. Append(pending, p) \in Seq(Procs)
      BY <2>2, ElementsAppend DEF MeshTypeOK
    <2>4. MeshTypeOK'
      <3>1. reply' \in [Procs -> Answers]
        BY <2>1 DEF MeshTypeOK, Answers
      <3>2. plan' \subseteq Procs /\ pending' \in Seq(Procs)
        BY <2>1, <2>2, <2>3 DEF MeshTypeOK
      <3> QED BY <3>1, <3>2, <2>1, <2>2 DEF MeshTypeOK, mesh
    <2>5. PlanInv'
      <3>1. \A q \in Procs : reply[q] # "ok" /\ ~Meshed(q)
        BY <2>1 DEF PlanInv
      <3>2. \A q \in Procs : reply'[q] # "ok" /\ ~Meshed(q)'
        BY <3>1, <2>1, <2>2 DEF Meshed, MeshTypeOK
      <3>3. CASE /\ Admissible(p)
                 /\ plan' = plan \cup {p} /\ pending' = Append(pending, p)
        <4>1. pending \in Seq(Procs) /\ pending' \in Seq(Procs)
          BY <2>4 DEF MeshTypeOK
        <4>2. Elements(pending') = Elements(pending) \cup {p}
          BY <3>3, <4>1, <2>2, ElementsAppend
        <4>3. \A i \in 1 .. Len(pending') : pending'[i] \in plan'
          BY <3>3, <4>2 DEF Elements, PlanInv
        <4>4. RankOf[p] < WorldSize /\ \A q \in plan : RankOf[q] # RankOf[p]
          BY <3>3 DEF Admissible
        <4> QED BY <3>2, <3>3, <4>3, <4>4 DEF PlanInv
      <3>4. CASE UNCHANGED <<plan, pending>>
        BY <3>2, <3>4 DEF PlanInv
      <3> QED BY <3>3, <3>4, <2>1
    <2>6. plan \subseteq plan'
      BY <2>1
    <2> QED BY <2>1, <2>2, <2>4, <2>5, <2>6, RendezvousKeeps
  <1>3. CASE SendPlan
    <2> DEFINE p == Head(pending)
    <2>1. /\ Complete /\ pending # <<>>
          /\ reply' = [reply EXCEPT ![p] = "ok"] /\ pending' = Tail(pending)
          /\ UNCHANGED <<impatient, phase, backlog, plan, mesh>>
      BY <1>3 DEF SendPlan
    <2>2. /\ p \in Elements(pending) /\ p \in Procs
          /\ Tail(pending) \in Seq(Procs)
          /\ Elements(Tail(pending)) \subseteq Elements(pending)
      BY <2>1, ElementsTail DEF MeshTypeOK
    <2> HIDE DEF p
    <2>3. MeshTypeOK'
      <3>1. reply' \in [Procs -> Answers]
        BY <2>1 DEF MeshTypeOK, Answers
      <3> QED BY <3>1, <2>1, <2>2 DEF MeshTypeOK, mesh
    <2>4. PlanInv'
      <3>1. p \in plan /\ \A i \in 1 .. Len(pending') : pending'[i] \in plan
        BY <2>1, <2>2 DEF Elements, PlanInv
      <3>2. Complete' /\ \A q \in Procs : Meshed(q)' <=> Meshed(q)
        BY <2>1 DEF Complete, Meshed
      <3>3. \A q \in Procs : reply'[q] = "ok" => reply[q] = "ok" \/ q = p
        BY <2>1, <2>2 DEF MeshTypeOK
      <3> QED BY <2>1, <3>1, <3>2, <3>3 DEF PlanInv
    <2> QED BY <2>1, <2>2, <2>3, <2>4, RendezvousKeeps
  <1>4. CASE SendPlanFails
    BY <1>4, <1>0, RaiseKeeps DEF SendPlanFails
  <1>5. CASE PlanSent
    <2>1. /\ phase[Host] = "register" /\ Complete /\ phase' = [phase EXCEPT ![Host] = "mesh"]
          /\ UNCHANGED <<impatient, backlog, plan, pending, reply, mesh>>
      BY <1>5 DEF PlanSent, rendezvous
    <2>2. MeshTypeOK'
      BY <2>1 DEF MeshTypeOK, mesh
    <2>3. phase'[Host] = "mesh" /\ \A q \in Procs \ {Host} : phase'[q] = phase[q]
      BY <2>1, <1>0 DEF MeshTypeOK
    <2>4. PlanInv'
      BY <2>1, <2>3 DEF PlanInv, Meshed, Complete
    <2> QED BY <2>1, <2>2, <2>3, <2>4, <1>0, RendezvousKeeps
  <1>6. CASE RegistrationTimesOut
    BY <1>6, <1>0, RaiseKeeps DEF RegistrationTimesOut
  <1> QED BY <1>1, <1>2, <1>3, <1>4, <1>5, <1>6 DEF HostStep

LEMMA JoinKeeps ==
  ASSUME MeshInv, NEW p \in Procs,
         Register(p) \/ RegisterRefused(p) \/ ReceivePlan(p) \/ NoPlan(p)
  PROVE  MeshInv'
  <1> USE DEF MeshInv
  <1>1. CASE Register(p)
    <2>1. /\ phase[p] = "start" /\ phase' = [phase EXCEPT ![p] = "await"]
          /\ backlog' = Append(backlog, p)
          /\ UNCHANGED <<impatient, plan, pending, reply, mesh>>
      BY <1>1 DEF Register
    <2>2. MeshTypeOK'
      <3>1. backlog' \in Seq(Procs)
        BY <2>1, ElementsAppend DEF MeshTypeOK
      <3> QED BY <3>1, <2>1 DEF MeshTypeOK, mesh
    <2>3. phase'[p] = "await" /\ \A q \in Procs \ {p} : phase'[q] = phase[q]
      BY <2>1 DEF MeshTypeOK
    <2>4. PlanInv'
      BY <2>1, <2>3 DEF PlanInv, Meshed, Complete
    <2> QED BY <2>1, <2>2, <2>3, <2>4, RendezvousKeeps
  <1>2. CASE RegisterRefused(p)
    BY <1>2, RaiseKeeps DEF RegisterRefused
  <1>3. CASE ReceivePlan(p)
    <2>1. /\ phase[p] = "await" /\ reply[p] = "ok" /\ phase' = [phase EXCEPT ![p] = "mesh"]
          /\ UNCHANGED <<impatient, backlog, plan, pending, reply, mesh>>
      BY <1>3 DEF ReceivePlan, rendezvous
    <2>2. MeshTypeOK'
      BY <2>1 DEF MeshTypeOK, mesh
    <2>3. phase'[p] = "mesh" /\ \A q \in Procs \ {p} : phase'[q] = phase[q]
      BY <2>1 DEF MeshTypeOK
    <2>4. PlanInv'
      BY <2>1, <2>3 DEF PlanInv, Meshed, Complete
    <2> QED BY <2>1, <2>2, <2>3, <2>4, RendezvousKeeps
  <1>4. CASE NoPlan(p)
    BY <1>4, RaiseKeeps DEF NoPlan
  <1> QED BY <1>1, <1>2, <1>3, <1>4

LEMMA MeshInvNext == MeshInv /\ [MeshNext]_meshVars => MeshInv'
  <1> SUFFICES ASSUME MeshInv, [MeshNext]_meshVars PROVE MeshInv'
    OBVIOUS
  <1>1. ASSUME NEW p \in Procs, ProcStep(p)
        PROVE  MeshInv'
    <2>1. CASE HostStep
      BY <2>1, HostKeeps
    <2>2. CASE Register(p) \/ RegisterRefused(p) \/ ReceivePlan(p) \/ NoPlan(p)
      BY <2>2, JoinKeeps
    <2>3. ASSUME NEW q \in Procs, Dial(p, q) PROVE MeshInv'
      BY <2>3, DialKeeps
    <2>4. ASSUME NEW q \in Procs, DialRefused(p, q) PROVE MeshInv'
      BY <2>4, RaiseKeeps DEF DialRefused
    <2>5. ASSUME NEW q \in Procs, Validated(p, q) PROVE MeshInv'
      BY <2>5, ValidatedKeeps
    <2>6. ASSUME NEW q \in Procs, HandshakeFails(p, q) PROVE MeshInv'
      BY <2>6, RaiseKeeps DEF HandshakeFails
    <2>7. CASE Accept(p)
      BY <2>7, AcceptKeeps
    <2>8. CASE AcceptTimesOut(p)
      BY <2>8, RaiseKeeps DEF AcceptTimesOut
    <2>9. CASE Return(p)
      BY <2>9, ReturnKeeps
    <2> QED BY <1>1, <2>1, <2>2, <2>3, <2>4, <2>5, <2>6, <2>7, <2>8, <2>9 DEF ProcStep
  <1>2. CASE UNCHANGED meshVars
    BY <1>2 DEF meshVars, rendezvous, mesh, MeshInv, MeshTypeOK, PlanInv, QueueInv, DialInv,
       PeerInv, Meshed, Complete, Lower, Target, Untried
  <1> QED BY <1>1, <1>2 DEF MeshNext

-----------------------------------------------------------------------------
(* What is returned is complete.                                           *)

\* As many processes as ranks, no rank twice and none beyond the world: every
\* rank is claimed.
LEMMA RanksFilled ==
  ASSUME MeshInv, Complete
  PROVE  {RankOf[q] : q \in plan} = 0 .. (WorldSize - 1)
  <1> DEFINE Taken == {RankOf[q] : q \in plan}
             All   == 0 .. (WorldSize - 1)
             rank  == [q \in plan |-> RankOf[q]]
  <1>1. WorldSize \in Nat /\ WorldSize > 0 /\ \A q \in Procs : RankOf[q] \in Nat
    BY RanksAssumption
  <1>2. plan \subseteq Procs /\ IsFiniteSet(plan) /\ Cardinality(plan) = WorldSize
    BY FS_Subset, RanksAssumption DEF MeshInv, MeshTypeOK, Complete
  <1>3. Taken \subseteq All
    BY <1>1, <1>2 DEF MeshInv, PlanInv
  <1>4. IsFiniteSet(All) /\ Cardinality(All) = WorldSize
    BY <1>1, FS_Interval
  <1>5. rank \in Bijection(plan, Taken)
    BY DEF MeshInv, PlanInv, Bijection, Injection, Surjection, IsInjective
  <1>6. IsFiniteSet(Taken) /\ Cardinality(Taken) = WorldSize
    <2>1. ExistsBijection(plan, Taken)
      BY <1>5 DEF ExistsBijection
    <2> HIDE DEF Taken
    <2> QED BY <2>1, <1>2, FS_Bijection
  <1>7. Taken = All
    <2> HIDE DEF Taken, All
    <2> QED BY <1>3, <1>4, <1>6, FS_Subset
  <1> QED BY <1>7

LEMMA InvMeshOK == MeshInv => MeshOK
  <1> SUFFICES ASSUME MeshInv PROVE MeshOK
    OBVIOUS
  <1>1. ReturnedIsConnected
    <2> SUFFICES ASSUME NEW p \in Procs, phase[p] = "done"
                 PROVE  /\ {RankOf[q] : q \in peers[p]} = (0 .. WorldSize - 1) \ {RankOf[p]}
                        /\ \A q \in peers[p] : q \in plan /\ "ok" \in {answer[p][q], answer[q][p]}
                        /\ \A q \in Procs \ {p} : phase[q] = "done" => q \in peers[p]
      BY DEF ReturnedIsConnected
    <2>1. p \in plan /\ Complete /\ peers[p] = plan \ {p}
      BY DEF MeshInv, PlanInv, PeerInv, Meshed
    <2>2. {RankOf[q] : q \in peers[p]} = (0 .. WorldSize - 1) \ {RankOf[p]}
      <3>1. {RankOf[q] : q \in plan} = 0 .. (WorldSize - 1)
        BY <2>1, RanksFilled
      <3>2. \A q \in peers[p] : RankOf[q] # RankOf[p]
        BY DEF MeshInv, PeerInv
      <3> QED BY <2>1, <3>1, <3>2
    <2>3. ASSUME NEW q \in peers[p]
          PROVE  q \in plan /\ "ok" \in {answer[p][q], answer[q][p]}
      <3>1. /\ q \in plan /\ RankOf[q] # RankOf[p]
            /\ RankOf[q] < RankOf[p] => answer[p][q] = "ok"
            /\ RankOf[p] < RankOf[q] => answer[q][p] = "ok"
        BY DEF MeshInv, PeerInv
      <3>2. RankOf[p] \in Nat /\ RankOf[q] \in Nat
        BY <3>1, RanksAssumption DEF MeshInv, MeshTypeOK
      <3>3. RankOf[q] < RankOf[p] \/ RankOf[p] < RankOf[q]
        BY <3>1, <3>2
      <3> QED BY <3>1, <3>3
    <2>4. \A q \in Procs \ {p} : phase[q] = "done" => q \in peers[p]
      BY <2>1 DEF MeshInv, PlanInv, Meshed
    <2> QED BY <2>2, <2>3, <2>4
  <1> QED BY <1>1 DEF MeshOK, MeshInv

\* Every transport that host or join returns is connected to one process of
\* every other rank and agreed on by both ends, for every set of processes,
\* whatever ranks and worlds they claim and whoever gives up.
THEOREM MeshAlwaysOK == MeshSpec => []MeshOK
  <1>1. MeshSpec => []MeshInv
    BY MeshInvInit, MeshInvNext, PTL DEF MeshSpec
  <1> QED BY <1>1, InvMeshOK, PTL

-----------------------------------------------------------------------------
(* Division.                                                               *)

\* Division with remainder, as Python's divmod on non-negative integers.
LEMMA DivMod ==
  ASSUME NEW a \in Nat, NEW b \in Nat \ {0}
  PROVE  /\ a \div b \in Nat
         /\ a % b \in 0 .. (b - 1)
         /\ a = b * (a \div b) + (a % b)
  OBVIOUS

\* Multiplication keeps the order.
LEMMA MonotoneProduct ==
  ASSUME NEW a \in Nat, NEW b \in Nat, NEW c \in Nat, a <= b
  PROVE  a * c <= b * c
  OBVIOUS

\* A quotient is the last multiple that is not beyond.
LEMMA Quotient ==
  ASSUME NEW a \in Nat, NEW b \in Nat \ {0}
  PROVE  /\ a \div b \in Nat
         /\ b * (a \div b) <= a
         /\ a < b * (a \div b) + b
  OBVIOUS

\* A quotient below a bound: a < b * n gives a \div b < n.
LEMMA QuotientBelow ==
  ASSUME NEW a \in Nat, NEW b \in Nat \ {0}, NEW n \in Nat, a < b * n
  PROVE  a \div b < n
  <1> DEFINE q == a \div b
  <1>1. q \in Nat /\ b * q <= a
    BY Quotient
  <1> HIDE DEF q
  <1>2. CASE n <= q
    <2>1. n * b <= q * b
      BY <1>1, <1>2, MonotoneProduct
    <2> QED
      BY <1>1, <2>1
  <1> QED
    BY <1>1, <1>2 DEF q

-----------------------------------------------------------------------------
(* Owners, ranges and halos.                                               *)

\* Every entity lies in the range of the rank destination_owner names.
THEOREM OwnerOwns ==
  ASSUME NEW Entities \in Nat, NEW World \in Nat \ {0}, NEW e \in 0 .. (Entities - 1)
  PROVE  /\ DestinationOwner(e, Entities, World) \in 0 .. (World - 1)
         /\ e \in OwnedRange(Entities, World, DestinationOwner(e, Entities, World))
  <1> DEFINE b == Base(Entities, World)
             m == Wider(Entities, World)
             wide == (b + 1) * m
  <1>1. b \in Nat /\ m \in 0 .. (World - 1) /\ Entities = World * b + m
    BY DivMod DEF Base, Wider
  <1>2. e \in Nat /\ e < Entities /\ wide \in Nat /\ m \in Nat
    BY <1>1
  <1>3. CASE e < wide
    <2> DEFINE q == e \div (b + 1)
    <2>1. DestinationOwner(e, Entities, World) = q
      BY <1>3 DEF DestinationOwner
    <2>2. q \in Nat /\ (b + 1) * q <= e /\ e < (b + 1) * q + (b + 1)
      <3> HIDE DEF b, m, wide
      <3>1. b + 1 \in Nat \ {0}
        BY <1>1
      <3> QED
        BY <1>2, <3>1, Quotient
    <2>3. q < m
      <3>1. b + 1 \in Nat \ {0}
        BY <1>1
      <3>2. e < (b + 1) * m
        BY <1>3
      <3> HIDE DEF b, m, wide
      <3> QED
        BY <1>2, <3>1, <3>2, QuotientBelow
    <2> HIDE DEF q, b, m, wide
    <2>4. OwnedBegin(Entities, World, q) = q * b + q /\ OwnedEnd(Entities, World, q) = q * b + q + b + 1
      BY <1>1, <2>2, <2>3 DEF OwnedBegin, OwnedEnd, b, m
    <2>5. (b + 1) * q = q * b + q
      BY <1>1, <2>2
    <2>6. q \in 0 .. (World - 1)
      BY <1>1, <2>2, <2>3
    <2> QED
      BY <1>1, <1>2, <2>1, <2>2, <2>4, <2>5, <2>6 DEF OwnedRange
  <1>4. CASE ~ (e < wide)
    <2> DEFINE q == (e - wide) \div b
    <2>1. b # 0
      <3> SUFFICES ASSUME b = 0
                   PROVE  FALSE
        OBVIOUS
      <3>1. Entities = m /\ wide = m
        BY <1>1, <1>2
      <3> QED
        BY <1>2, <1>4, <3>1
    <2>2. DestinationOwner(e, Entities, World) = m + q
      BY <1>4, <2>1 DEF DestinationOwner
    <2>3. q \in Nat /\ b * q <= e - wide /\ e - wide < b * q + b
      <3> HIDE DEF b, m, wide
      <3>1. b \in Nat \ {0} /\ e - wide \in Nat
        BY <1>1, <1>2, <1>4, <2>1
      <3> QED
        BY <3>1, Quotient
    <2>4. e - wide < b * (World - m)
      <3>1. wide = b * m + m
        BY <1>1
      <3>2. b * (World - m) = World * b - b * m
        BY <1>1
      <3> QED
        BY <1>1, <1>2, <3>1, <3>2
    <2>5. q < World - m
      <3> HIDE DEF b, m, wide
      <3>1. b \in Nat \ {0} /\ e - wide \in Nat /\ World - m \in Nat
        BY <1>1, <1>2, <1>4, <2>1
      <3> QED
        BY <2>4, <3>1, QuotientBelow
    <2>6. /\ OwnedBegin(Entities, World, m + q) = (m + q) * b + m
          /\ OwnedEnd(Entities, World, m + q) = (m + q) * b + m + b
      BY <1>1, <2>3 DEF OwnedBegin, OwnedEnd, b, m
    <2>7. (m + q) * b + m = wide + b * q
      BY <1>1, <2>3
    <2> HIDE DEF q, b, m, wide
    <2>8. m + q \in 0 .. (World - 1)
      BY <1>1, <2>3, <2>5
    <2>9. wide \in Int /\ b * q \in Int
      BY <1>1, <1>2, <2>3
    <2> QED
      BY <1>1, <1>2, <1>4, <2>2, <2>3, <2>6, <2>7, <2>8, <2>9 DEF OwnedRange
  <1> QED
    BY <1>3, <1>4

\* An entity in the range of a rank is owned by that rank: the ranges are
\* disjoint, so owner and range say the same.
THEOREM RangeIsOwned ==
  ASSUME NEW Entities \in Nat, NEW World \in Nat \ {0}, NEW r \in 0 .. (World - 1),
         NEW e \in OwnedRange(Entities, World, r)
  PROVE  e \in 0 .. (Entities - 1) /\ DestinationOwner(e, Entities, World) = r
  <1> DEFINE b == Base(Entities, World)
             m == Wider(Entities, World)
  <1>1. b \in Nat /\ m \in 0 .. (World - 1) /\ Entities = World * b + m /\ m \in Nat /\ r \in Nat
    <2>1. b \in Nat /\ m \in 0 .. (World - 1) /\ Entities = World * b + m
      BY DivMod DEF Base, Wider
    <2> HIDE DEF b, m
    <2> QED
      BY <2>1
  <1>2. OwnedEnd(Entities, World, r) <= Entities /\ OwnedBegin(Entities, World, r) \in Nat
    <2> HIDE DEF b, m
    <2>1. (r + 1) * b <= World * b
      BY <1>1, MonotoneProduct
    <2>2. (r + 1) * b = r * b + b /\ r * b \in Nat /\ World * b \in Nat
      BY <1>1
    <2> QED
      BY <1>1, <2>1, <2>2 DEF OwnedBegin, OwnedEnd, b, m
  <1>3. e \in 0 .. (Entities - 1)
    <2>1. OwnedEnd(Entities, World, r) \in Int
      BY <1>1 DEF OwnedBegin, OwnedEnd
    <2> QED
      BY <1>2, <2>1 DEF OwnedRange
  <1>4. PICK o \in 0 .. (World - 1) :
          o = DestinationOwner(e, Entities, World) /\ e \in OwnedRange(Entities, World, o)
    BY <1>3, OwnerOwns
  \* The range of a smaller rank ends before that of a larger one begins.
  <1>5. ASSUME NEW i \in 0 .. (World - 1), NEW j \in 0 .. (World - 1), i < j
        PROVE  OwnedEnd(Entities, World, i) <= OwnedBegin(Entities, World, j)
    <2> HIDE DEF b, m
    <2>1. (i + 1) * b <= j * b
      BY <1>1, <1>5, MonotoneProduct
    <2>2. (i + 1) * b = i * b + b /\ i * b \in Nat /\ j * b \in Nat
      BY <1>1
    <2> QED
      BY <1>1, <1>5, <2>1, <2>2 DEF OwnedBegin, OwnedEnd, b, m
  <1>6. \A i \in 0 .. (World - 1) : OwnedBegin(Entities, World, i) \in Int /\ OwnedEnd(Entities, World, i) \in Int
    BY <1>1 DEF OwnedBegin, OwnedEnd
  <1>7. ~ (o < r) /\ ~ (r < o)
    BY <1>4, <1>5, <1>6 DEF OwnedRange
  <1> QED
    BY <1>3, <1>4, <1>7

\* The maps of all ranks fit together: what a rank is to send it owns, what it
\* receives are its ghosts and no others, and no request is refused.
THEOREM MapsAgree ==
  ASSUME NEW Entities \in Nat, NEW World \in Nat \ {0},
         NEW cols \in [0 .. (Entities - 1) -> SUBSET (0 .. (Entities - 1))],
         NEW r \in 0 .. (World - 1)
  PROVE  /\ ~ Refused(cols, Entities, World, r)
         /\ GhostIds(cols, Entities, World, r) =
              UNION {ReceiveFrom(cols, Entities, World, r, o) : o \in 0 .. (World - 1)}
         /\ ReceiveFrom(cols, Entities, World, r, r) = {}
  <1>1. \A d \in OwnedRange(Entities, World, r) : d \in 0 .. (Entities - 1)
    BY RangeIsOwned
  <1>2. \A p \in 0 .. (World - 1) : GhostIds(cols, Entities, World, p) \subseteq 0 .. (Entities - 1)
    BY RangeIsOwned DEF GhostIds
  <1>3. ~ Refused(cols, Entities, World, r)
    BY <1>2, OwnerOwns DEF Refused, SendTo, ReceiveFrom
  <1>4. GhostIds(cols, Entities, World, r) =
          UNION {ReceiveFrom(cols, Entities, World, r, o) : o \in 0 .. (World - 1)}
    BY <1>2, OwnerOwns DEF ReceiveFrom
  <1>5. ReceiveFrom(cols, Entities, World, r, r) = {}
    <2>1. ASSUME NEW s \in GhostIds(cols, Entities, World, r)
          PROVE  DestinationOwner(s, Entities, World) # r
      <3>1. s \in 0 .. (Entities - 1) /\ s \notin OwnedRange(Entities, World, r)
        BY <1>2, <2>1 DEF GhostIds
      <3>2. s \in OwnedRange(Entities, World, DestinationOwner(s, Entities, World))
        BY <3>1, OwnerOwns
      <3> QED
        BY <3>1, <3>2
    <2> QED
      BY <2>1 DEF ReceiveFrom
  <1> QED
    BY <1>3, <1>4, <1>5

-----------------------------------------------------------------------------
(* Exchanges and frames.                                                   *)

Frame == [of : Exchanges, part : Parts]

\* An exchange is a field of a step.
LEMMA ExchangeShape ==
  /\ \A x \in Exchanges : /\ x = <<x[1], x[2]>> /\ x[1] \in Steps
                          /\ x[2] \in 1 .. Len(Program[x[1]].fields)
  /\ \A s \in Steps : \A f \in 1 .. Len(Program[s].fields) : <<s, f>> \in Exchanges
  /\ \A s \in Steps : Len(Program[s].fields) \in Nat \ {0}
  /\ Len(Program) \in Nat /\ Steps = 1 .. Len(Program)
  <1>1. Len(Program) \in Nat /\ Steps = 1 .. Len(Program)
    BY HaloAssumption DEF Steps
  <1>2. \A s \in Steps : Program[s].fields \in Seq(Fields) /\ Program[s].fields # <<>>
    <2> SUFFICES ASSUME NEW s \in Steps PROVE Program[s].fields \in Seq(Fields)
      BY HaloAssumption
    <2>1. Program[s] \in [mode : Modes, fields : Seq(Fields)]
      BY HaloAssumption, ElementOfSeq DEF Steps
    <2> QED BY <2>1
  <1>3. \A s \in Steps : Len(Program[s].fields) \in Nat \ {0}
    BY <1>2, Zenon, EmptySeq
  <1>4. ASSUME NEW x \in Exchanges
        PROVE  x = <<x[1], x[2]>> /\ x[1] \in Steps /\ x[2] \in 1 .. Len(Program[x[1]].fields)
    <2>1. PICK s \in Steps : x \in {s} \X (1 .. Len(Program[s].fields))
      BY DEF Exchanges
    <2> QED BY <2>1
  <1>5. ASSUME NEW s \in Steps, NEW f \in 1 .. Len(Program[s].fields)
        PROVE  <<s, f>> \in Exchanges
    <2>1. <<s, f>> \in {s} \X (1 .. Len(Program[s].fields))
      OBVIOUS
    <2> QED BY <2>1 DEF Exchanges
  <1> QED BY <1>1, <1>3, <1>4, <1>5

LEMMA EarlierIsOrder ==
  ASSUME NEW x \in Exchanges, NEW y \in Exchanges
  PROVE  /\ x = y \/ Earlier(x, y) \/ Earlier(y, x)
         /\ ~ (Earlier(x, y) /\ Earlier(y, x)) /\ ~ Earlier(x, x)
         /\ Earlier(x, y) => x[1] <= y[1]
         /\ x[1] \in Int /\ x[2] \in Int
         /\ x[1] < y[1] => Earlier(x, y)
         /\ x[1] = y[1] => (Earlier(x, y) <=> x[2] < y[2])
  <1>1. x = <<x[1], x[2]>> /\ y = <<y[1], y[2]>> /\ x[1] \in Int /\ y[1] \in Int
        /\ x[2] \in Int /\ y[2] \in Int
    BY ExchangeShape
  <1> QED BY <1>1 DEF Earlier

\* Foreign bytes belong to no exchange.
LEMMA ForeignIsNone == Foreign \notin Exchanges
  <1>1. Foreign[1] = 0 /\ 0 \notin Steps
    BY ExchangeShape DEF Foreign
  <1> QED BY <1>1, ExchangeShape

\* What one rank receives in an exchange the other one sends: the maps of the
\* ranks fit together, and all fields of a step have the same.
LEMMA Neighbours ==
  ASSUME NEW p \in Ranks, NEW q \in Ranks, NEW x \in Exchanges
  PROVE  /\ q \in Targets(p, x) <=> p \in Sources(q, x)
         /\ Targets(q, x) \subseteq Ranks /\ Sources(q, x) \subseteq Ranks
         /\ \A y \in Exchanges : x[1] = y[1] => Sources(q, x) = Sources(q, y)
  BY DEF Targets, Sources, Asking, Owning, SendTo, Backward

\* Reading the beginning of a stream, and cutting its end.
LEMMA BiteFacts ==
  ASSUME NEW s \in Seq(Frame), s # <<>>
  PROVE  /\ Bite(s) \in Seq(Frame) /\ Len(Bite(s)) = Len(s)
         /\ \A i \in 1 .. Len(s) :
              /\ Bite(s)[i].of = s[i].of
              /\ Bite(s)[i].part =
                   IF i > 1 THEN s[i].part
                   ELSE IF s[1].part \in {"whole", "body"} THEN "body" ELSE "scrap"
  <1>1. 1 \in 1 .. Len(s) /\ Len(s) \in Nat
    BY EmptySeq
  <1> DEFINE f == [of |-> s[1].of,
                   part |-> IF s[1].part \in {"whole", "body"} THEN "body" ELSE "scrap"]
  <1>2. f \in Frame
    <2>1. s[1] \in Frame
      BY <1>1, ElementOfSeq
    <2> QED BY <2>1 DEF Frame, Parts
  <1>3. Bite(s) = [s EXCEPT ![1] = f]
    BY DEF Bite
  <1> HIDE DEF f
  <1>4. /\ Bite(s) \in Seq(Frame) /\ Len(Bite(s)) = Len(s)
        /\ \A i \in 1 .. Len(s) : Bite(s)[i] = IF i = 1 THEN f ELSE s[i]
    BY <1>1, <1>2, <1>3, ExceptSeq
  <1> QED BY <1>1, <1>4 DEF f

LEMMA CutFacts ==
  ASSUME NEW s \in Seq(Frame)
  PROVE  /\ Cut(s) \in Seq(Frame) /\ Len(Cut(s)) = Len(s)
         /\ \A i \in 1 .. Len(s) :
              /\ Cut(s)[i].of = s[i].of
              /\ Cut(s)[i].part = IF i = Len(s) THEN Short(s[i].part) ELSE s[i].part
  <1>1. CASE s = <<>>
    BY <1>1 DEF Cut
  <1>2. CASE s # <<>>
    <2>1. Len(s) \in 1 .. Len(s) /\ Len(s) \in Nat
      BY <1>2, EmptySeq
    <2> DEFINE n == Len(s)
               f == [of |-> s[n].of, part |-> Short(s[n].part)]
    <2>2. f \in Frame
      <3>1. s[n] \in Frame
        BY <2>1, ElementOfSeq
      <3> QED BY <3>1 DEF Frame, Parts, Short
    <2>3. Cut(s) = [s EXCEPT ![n] = f]
      BY <1>2 DEF Cut
    <2> HIDE DEF f
    <2>4. /\ Cut(s) \in Seq(Frame) /\ Len(Cut(s)) = Len(s)
          /\ \A i \in 1 .. Len(s) : Cut(s)[i] = IF i = n THEN f ELSE s[i]
      BY <2>1, <2>2, <2>3, ExceptSeq
    <2> QED BY <2>4 DEF f
  <1> QED BY <1>1, <1>2

-----------------------------------------------------------------------------
(* The inductive invariant, for ranks whose exchanges run one at a time.   *)

\* What a rank has been through: the steps before its own, in order.
Completed ==
  \A r \in Ranks, x \in Exchanges :
    /\ x[1] < main[r].step => status[r][x] = "ok"
    /\ x[1] > main[r].step => status[r][x] = "none"

Working == {"inline", "submit", "interior", "drain", "collect"}
Posted  == {"interior", "drain", "collect"}

\* And how far it is in its own.
Within(r) ==
  /\ main[r].phase \in Working =>
       main[r].step \in Steps /\ main[r].field \in 1 .. Len(Program[main[r].step].fields)
  /\ main[r].phase = "submit" => Program[main[r].step].mode = "posted"
  /\ \A x \in Exchanges : x[1] = main[r].step =>
       /\ main[r].phase = "next" => status[r][x] = "none"
       /\ main[r].phase = "inline" =>
            /\ x[2] < main[r].field => status[r][x] = "ok"
            /\ x[2] = main[r].field => Started(r, x)
            /\ x[2] > main[r].field => status[r][x] = "none"
       /\ main[r].phase = "submit" => (x[2] < main[r].field <=> status[r][x] # "none")
       /\ main[r].phase \in Posted => status[r][x] # "none"
       /\ main[r].phase = "collect" /\ x[2] < main[r].field => status[r][x] = "ok"

InStep == \A r \in Ranks : Within(r)

\* A rank works on one exchange at a time.
Ordered ==
  \A r \in Ranks, x \in Exchanges, y \in Exchanges : Earlier(x, y) =>
    /\ status[r][y] # "none" => status[r][x] # "none"
    /\ Started(r, y) => Ended(status[r][x])

\* What the status of an exchange says of its sends and receives.
Ends ==
  \A r \in Ranks, x \in Exchanges :
    /\ status[r][x] = "queued" => x \in Pool(r)
    /\ head[r][x] => Started(r, x)
    /\ status[r][x] = "ok" => Awaited(r, x) = {}
    /\ \A q \in Ranks :
         /\ send[r][x][q] # "idle" => Started(r, x) /\ q \in Targets(r, x)
         /\ Ended(status[r][x]) /\ q \in Targets(r, x) => send[r][x][q] \in {"sent", "broken"}
         /\ status[r][x] = "ok" => send[r][x][q] # "broken"

\* The frames of a stream are in the order of the exchanges, and the last one
\* belongs to the send under way; without one there is room for the frames, if
\* no send was cut off.
InLine(p, q) ==
  /\ \A i \in 1 .. Len(wire[p][q]) :
       /\ send[p][wire[p][q][i].of][q] # "idle"
       /\ \A j \in 1 .. Len(wire[p][q]) : i < j => Earlier(wire[p][q][i].of, wire[p][q][j].of)
  /\ \A x \in Exchanges :
       send[p][x][q] = "begun" /\ wire[p][q] # <<>> => wire[p][q][Len(wire[p][q])].of = x
  /\ (\A x \in Exchanges : send[p][x][q] # "broken") =>
       /\ Len(wire[p][q]) <= buffer + 1
       /\ (\A x \in Exchanges : send[p][x][q] # "begun") => Len(wire[p][q]) <= buffer

Queued == \A p, q \in Ranks : InLine(p, q)

\* No exchange of the rank has failed.
Clean(q) == ~ Left(q) /\ \A x \in Exchanges : status[q][x] \notin {"failing", "failed"}

Remains == {"body", "scrap"}
Severed == {"cut", "scrap"}
HeadOf(q, p) == \E x \in Exchanges : Reading(q, x, p) /\ head[q][x]

\* The stream from p holds what q has still to read, and q knows where a frame
\* begins.
Aligned(p, q) ==
  /\ \A x \in Exchanges : p \in DOMAIN got[q][x] => send[p][x][q] # "idle" /\ got[q][x][p] = x
  /\ \A x \in Exchanges :
       (\E i \in 1 .. Len(wire[p][q]) : wire[p][q][i].of = x)
         <=> send[p][x][q] # "idle" /\ p \notin DOMAIN got[q][x]
  /\ HeadOf(q, p) => wire[p][q] # <<>>
  /\ \A i \in 1 .. Len(wire[p][q]) :
       /\ wire[p][q][i].part \in Remains <=> i = 1 /\ HeadOf(q, p)
       /\ wire[p][q][i].part \in Severed =>
            \/ send[p][wire[p][q][i].of][q] = "broken"
            \/ Left(p) /\ i = Len(wire[p][q])

\* q has taken bytes of the next frame for those of a frame that was cut: it
\* will not find another header, and needs one before its step can end.
Doomed(p, q) ==
  /\ \E y \in Exchanges : y[1] = main[q].step /\ p \in Awaited(q, y)
  /\ ~ HeadOf(q, p) /\ wire[p][q] # <<>> /\ wire[p][q][1].part \in Remains

Streams == \A p, q \in Ranks : Clean(q) => Aligned(p, q) \/ Doomed(p, q)

Exact ==
  \A r \in Ranks, x \in Exchanges :
    x[1] < main[r].step => got[r][x] = [p \in Sources(r, x) |-> x]

IInv == TypeOK /\ Completed /\ InStep /\ Ordered /\ Ends /\ Queued /\ Streams /\ Exact

-----------------------------------------------------------------------------
(* The program of a rank.                                                  *)

\* A rank that left stays away, and a failure stays.
Onwards ==
  /\ \A r \in Ranks : Left(r) => Left(r)'
  /\ \A r \in Ranks : Clean(r)' => Clean(r)

\* An exchange gets further.
LEMMA StatusStep ==
  ASSUME IInv, NEW r \in Ranks, NEW x \in Exchanges,
         NEW s \in {"running", "failing", "ok", "failed"},
         status[r][x] \in {"queued", "running", "failing"},
         status[r][x] = "failing" => s = "failed",
         \A y \in Exchanges : Earlier(y, x) => Ended(status[r][y]),
         status' = [status EXCEPT ![r][x] = s], UNCHANGED main
  PROVE  Completed' /\ InStep' /\ Ordered' /\ Onwards
  <1>1. /\ status \in [Ranks -> [Exchanges -> {"none", "queued", "running", "failing", "ok", "failed"}]]
        /\ Completed /\ InStep /\ Ordered
    BY DEF IInv, TypeOK
  <1>2. /\ \A q \in Ranks, y \in Exchanges :
             status'[q][y] = IF q = r /\ y = x THEN s ELSE status[q][y]
        /\ x[1] = main[r].step
    <2>1. \A q \in Ranks, y \in Exchanges :
             status'[q][y] = IF q = r /\ y = x THEN s ELSE status[q][y]
      BY <1>1
    <2>2. ~ (x[1] < main[r].step) /\ ~ (x[1] > main[r].step)
      BY <1>1 DEF Completed
    <2>3. x[1] \in Int /\ main[r].step \in Int
      BY EarlierIsOrder DEF IInv, TypeOK
    <2> QED BY <2>1, <2>2, <2>3
  <1>3. Completed'
    BY <1>1, <1>2 DEF Completed
  <1>4. InStep'
    BY <1>1, <1>2 DEF InStep, Within, Started
  <1>5. Ordered'
    <2> SUFFICES ASSUME NEW q \in Ranks, NEW y \in Exchanges, NEW z \in Exchanges, Earlier(y, z)
                 PROVE  /\ status'[q][z] # "none" => status'[q][y] # "none"
                        /\ Started(q, z)' => Ended(status'[q][y])
      BY DEF Ordered
    <2>1. CASE q = r /\ z = x
      BY <1>1, <1>2, <2>1, EarlierIsOrder DEF Ordered, Ended
    <2>2. CASE q = r /\ y = x
      BY <1>1, <1>2, <2>2, EarlierIsOrder DEF Ordered, Ended, Started
    <2>3. CASE ~ (q = r /\ z = x) /\ ~ (q = r /\ y = x)
      BY <1>1, <1>2, <2>3 DEF Ordered, Ended, Started
    <2> QED BY <2>1, <2>2, <2>3
  <1>6. Onwards
    <2>1. \A q \in Ranks : Left(q)' <=> Left(q)
      BY DEF Left
    <2>2. ASSUME NEW q \in Ranks, Clean(q)' PROVE Clean(q)
      BY <1>2, <2>1, <2>2 DEF Clean
    <2> QED BY <2>1, <2>2 DEF Onwards
  <1> QED BY <1>3, <1>4, <1>5, <1>6

\* Of two exchanges of a rank, one is over.
LEMMA OneRuns ==
  ASSUME IInv, NEW r \in Ranks, NEW x \in Exchanges, Started(r, x)
  PROVE  /\ \A y \in Exchanges : Earlier(y, x) => Ended(status[r][y])
         /\ ~ Ended(status[r][x]) =>
              \A y \in Exchanges : y # x /\ Started(r, y) => Ended(status[r][y])
  <1>1. \A y, z \in Exchanges : Earlier(y, z) /\ Started(r, z) => Ended(status[r][y])
    BY DEF IInv, Ordered
  <1> QED BY <1>1, EarlierIsOrder

Phases == {"next", "inline", "submit", "interior", "drain", "collect", "raised", "gone", "done"}

\* What a rank's own move changes.
LEMMA GotoFacts ==
  ASSUME TypeOK, NEW r \in Ranks, NEW next \in Phases, NEW field \in Nat, Goto(r, next, field)
  PROVE  /\ main' \in [Ranks -> [step : 1 .. (Len(Program) + 1), field : Nat, phase : Phases]]
         /\ main'[r].step = main[r].step /\ main'[r].field = field /\ main'[r].phase = next
         /\ \A q \in Ranks : q # r => main'[q] = main[q]
  <1>1. main \in [Ranks -> [step : 1 .. (Len(Program) + 1), field : Nat, phase : Phases]]
    BY DEF TypeOK, Phases
  <1> QED BY <1>1 DEF Goto

\* A rank moves within its step, and may start one exchange.
LEMMA MoveStep ==
  ASSUME IInv, NEW r \in Ranks, ~ Left(r),
         \A q \in Ranks : q # r => main'[q] = main[q],
         main'[r].step = main[r].step,
         NEW x, NEW s \in {"running", "queued"},
         \/ UNCHANGED status
         \/ /\ x \in Exchanges /\ x[1] = main[r].step /\ status[r][x] = "none"
            /\ status' = [status EXCEPT ![r][x] = s]
            /\ \A y \in Exchanges : Earlier(y, x) =>
                 status[r][y] # "none" /\ (s = "running" => Ended(status[r][y])),
         Within(r)'
  PROVE  Completed' /\ InStep' /\ Ordered' /\ Onwards
  <1>1. /\ status \in [Ranks -> [Exchanges -> {"none", "queued", "running", "failing", "ok", "failed"}]]
        /\ Completed /\ InStep /\ Ordered
    BY DEF IInv, TypeOK
  <1>2. PICK starts \in BOOLEAN :
          /\ \A q \in Ranks, y \in Exchanges :
               status'[q][y] = IF starts /\ q = r /\ y = x THEN s ELSE status[q][y]
          /\ starts => /\ x \in Exchanges /\ x[1] = main[r].step /\ status[r][x] = "none"
                       /\ \A y \in Exchanges : Earlier(y, x) =>
                            status[r][y] # "none" /\ (s = "running" => Ended(status[r][y]))
    <2>1. CASE UNCHANGED status
      BY <2>1
    <2>2. CASE ~ UNCHANGED status
      <3>1. \A q \in Ranks, y \in Exchanges :
              status'[q][y] = IF q = r /\ y = x THEN s ELSE status[q][y]
        BY <1>1, <2>2
      <3> QED BY <2>2, <3>1
    <2> QED BY <2>1, <2>2
  <1>3. \A q \in Ranks : main'[q].step = main[q].step
    OBVIOUS
  <1>4. Completed'
    <2> SUFFICES ASSUME NEW q \in Ranks, NEW y \in Exchanges
                 PROVE  /\ y[1] < main[q].step => status'[q][y] = "ok"
                        /\ y[1] > main[q].step => status'[q][y] = "none"
      BY <1>3 DEF Completed
    <2>1. y[1] \in Int /\ main[q].step \in Int
      BY EarlierIsOrder DEF IInv, TypeOK
    <2> QED BY <1>1, <1>2, <2>1 DEF Completed
  <1>5. InStep'
    <2> SUFFICES ASSUME NEW q \in Ranks, q # r PROVE Within(q)'
      BY DEF InStep
    <2>1. main'[q] = main[q] /\ \A y \in Exchanges : status'[q][y] = status[q][y]
      BY <1>2
    <2>2. Within(q)
      BY <1>1 DEF InStep
    <2> QED BY <2>1, <2>2 DEF Within, Started
  <1>6. Ordered'
    <2> SUFFICES ASSUME NEW q \in Ranks, NEW y \in Exchanges, NEW z \in Exchanges, Earlier(y, z)
                 PROVE  /\ status'[q][z] # "none" => status'[q][y] # "none"
                        /\ Started(q, z)' => Ended(status'[q][y])
      BY DEF Ordered
    <2>1. CASE starts /\ q = r /\ z = x
      <3>1. y # x
        BY <2>1, EarlierIsOrder
      <3> QED BY <1>2, <2>1, <3>1 DEF Started
    <2>2. CASE starts /\ q = r /\ y = x
      <3>1. z # x /\ status[q][z] = "none"
        BY <1>1, <1>2, <2>2, EarlierIsOrder DEF Ordered
      <3> QED BY <1>2, <2>2, <3>1 DEF Started
    <2>3. CASE ~ (starts /\ q = r /\ z = x) /\ ~ (starts /\ q = r /\ y = x)
      BY <1>1, <1>2, <2>3 DEF Ordered, Started
    <2> QED BY <2>1, <2>2, <2>3
  <1>7. Onwards
    <2>1. \A q \in Ranks : Left(q) => Left(q)'
      BY DEF Left
    <2>2. ASSUME NEW q \in Ranks, Clean(q)' PROVE Clean(q)
      BY <1>2, <2>1, <2>2 DEF Clean
    <2> QED BY <2>1, <2>2 DEF Onwards
  <1> QED BY <1>4, <1>5, <1>6, <1>7

\* A rank has done all exchanges of its step.
LEMMA StepEnds ==
  ASSUME IInv, NEW r \in Ranks, main[r].phase \in {"inline", "collect"},
         main[r].field = Len(Program[main[r].step].fields),
         status[r][Here(r)] = "ok", NextStep(r), UNCHANGED status
  PROVE  /\ \A x \in Exchanges : x[1] <= main[r].step => status[r][x] = "ok"
         /\ main' \in [Ranks -> [step : 1 .. (Len(Program) + 1), field : Nat, phase : Phases]]
         /\ main'[r].step = main[r].step + 1
         /\ \A q \in Ranks : q # r => main'[q] = main[q]
         /\ \A q \in Ranks : Left(q)' <=> Left(q)
         /\ Completed' /\ InStep' /\ Ordered' /\ Onwards
  <1>1. /\ main \in [Ranks -> [step : 1 .. (Len(Program) + 1), field : Nat, phase : Phases]]
        /\ Completed /\ InStep /\ Ordered
    BY DEF IInv, TypeOK, Phases
  <1>2. main[r].step \in Steps /\ Len(Program) \in Nat /\ Steps = 1 .. Len(Program)
    BY <1>1, ExchangeShape DEF InStep, Within, Working
  <1>3. /\ main' \in [Ranks -> [step : 1 .. (Len(Program) + 1), field : Nat, phase : Phases]]
        /\ main'[r].step = main[r].step + 1 /\ main'[r].phase = "next"
        /\ \A q \in Ranks : q # r => main'[q] = main[q]
    BY <1>1, <1>2 DEF NextStep, Phases
  <1>4. ASSUME NEW x \in Exchanges, x[1] <= main[r].step PROVE status[r][x] = "ok"
    <2>1. CASE x[1] < main[r].step
      BY <1>1, <2>1 DEF Completed
    <2>2. CASE x[1] = main[r].step
      <3>1. x = <<x[1], x[2]>> /\ x[2] \in 1 .. main[r].field /\ main[r].field \in Nat
        BY <1>1, <2>2, ExchangeShape
      <3>2. CASE x[2] = main[r].field
        <4>1. x = Here(r)
          BY <2>2, <3>1, <3>2 DEF Here
        <4> QED BY <4>1
      <3>3. CASE x[2] < main[r].field
        BY <1>1, <2>2, <3>3 DEF InStep, Within
      <3> QED BY <3>1, <3>2, <3>3
    <2>3. x[1] \in Int /\ main[r].step \in Int
      BY <1>1, EarlierIsOrder
    <2> QED BY <1>4, <2>1, <2>2, <2>3
  <1>5. Completed'
    <2> SUFFICES ASSUME NEW q \in Ranks, NEW x \in Exchanges
                 PROVE  /\ x[1] < main'[q].step => status[q][x] = "ok"
                        /\ x[1] > main'[q].step => status[q][x] = "none"
      BY DEF Completed
    <2>1. x[1] \in Int /\ main[r].step \in Int
      BY <1>1, EarlierIsOrder
    <2>2. CASE q = r
      BY <1>1, <1>3, <1>4, <2>1, <2>2 DEF Completed
    <2>3. CASE q # r
      BY <1>1, <1>3, <2>3 DEF Completed
    <2> QED BY <2>2, <2>3
  <1>6. InStep'
    <2> SUFFICES ASSUME NEW q \in Ranks PROVE Within(q)'
      BY DEF InStep
    <2>1. CASE q # r
      BY <1>1, <1>3, <2>1 DEF InStep, Within, Started
    <2>2. CASE q = r
      <3>1. \A x \in Exchanges : x[1] = main'[r].step => status[r][x] = "none"
        <4> SUFFICES ASSUME NEW x \in Exchanges, x[1] = main'[r].step PROVE status[r][x] = "none"
          OBVIOUS
        <4>1. x[1] > main[r].step
          BY <1>1, <1>3
        <4> QED BY <1>1, <4>1 DEF Completed
      <3> QED BY <1>3, <2>2, <3>1 DEF Within, Working, Posted
    <2> QED BY <2>1, <2>2
  <1>7. Ordered'
    BY <1>1 DEF Ordered, Started
  <1>8. \A q \in Ranks : Left(q)' <=> Left(q)
    BY <1>3 DEF Left
  <1>9. Onwards
    BY <1>8 DEF Onwards, Clean
  <1> QED BY <1>3, <1>4, <1>5, <1>6, <1>7, <1>8, <1>9

\* What a move of a rank's program does to the rest.
Control ==
  /\ Completed' /\ InStep' /\ Ordered' /\ Onwards
  /\ main' \in [Ranks -> [step : 1 .. (Len(Program) + 1), field : Nat, phase : Phases]]
  /\ status' \in [Ranks -> [Exchanges -> {"none", "queued", "running", "failing", "ok", "failed"}]]
  /\ \A q \in Ranks, y \in Exchanges :
       \/ status'[q][y] = status[q][y]
       \/ status[q][y] = "none" /\ (status'[q][y] = "running" \/ (status'[q][y] = "queued" /\ y \in Pool(q)))
  /\ \A q \in Ranks :
       \/ main'[q].step = main[q].step
       \/ /\ main'[q].step = main[q].step + 1 /\ ~ Left(q)
          /\ \A x \in Exchanges : x[1] <= main[q].step => status[q][x] = "ok"

Moves(r) ==
  \/ BeginStep(r) \/ Inline(r) \/ Submit(r) \/ Interior(r) \/ Drain(r) \/ Collect(r)
  \/ Close(r) \/ ReadFails(r) \/ InteriorFails(r) \/ Crash(r)

\* A rank moves without starting or ending anything.
LEMMA PlainMove ==
  ASSUME IInv, NEW r \in Ranks, ~ Left(r), NEW next \in Phases, NEW field \in Nat,
         Goto(r, next, field), UNCHANGED status, Within(r)'
  PROVE  Control
  <1>1. TypeOK
    BY DEF IInv
  <1>2. /\ main' \in [Ranks -> [step : 1 .. (Len(Program) + 1), field : Nat, phase : Phases]]
        /\ \A q \in Ranks : q # r => main'[q] = main[q]
        /\ main'[r].step = main[r].step
    BY <1>1, GotoFacts
  <1>3. Completed' /\ InStep' /\ Ordered' /\ Onwards
    BY <1>2, MoveStep
  <1> QED BY <1>1, <1>2, <1>3 DEF Control, TypeOK

\* A rank moves and starts an exchange of its step.
LEMMA StartingMove ==
  ASSUME IInv, NEW r \in Ranks, ~ Left(r), NEW next \in Phases, NEW field \in Nat,
         Goto(r, next, field), NEW x \in Exchanges, NEW s \in {"running", "queued"},
         status' = [status EXCEPT ![r][x] = s], s = "queued" => x \in Pool(r),
         x[1] = main[r].step, status[r][x] = "none",
         \A y \in Exchanges : Earlier(y, x) =>
           status[r][y] # "none" /\ (s = "running" => Ended(status[r][y])),
         Within(r)'
  PROVE  Control
  <1>1. TypeOK
    BY DEF IInv
  <1>2. /\ main' \in [Ranks -> [step : 1 .. (Len(Program) + 1), field : Nat, phase : Phases]]
        /\ \A q \in Ranks : q # r => main'[q] = main[q]
        /\ main'[r].step = main[r].step
    BY <1>1, GotoFacts
  <1>3. Completed' /\ InStep' /\ Ordered' /\ Onwards
    BY <1>2, MoveStep
  <1>4. status' \in [Ranks -> [Exchanges -> {"none", "queued", "running", "failing", "ok", "failed"}]]
    BY <1>1 DEF TypeOK
  <1>5. \A q \in Ranks, y \in Exchanges :
          status'[q][y] = status[q][y] \/ (q = r /\ y = x /\ status'[q][y] = s)
    BY <1>1 DEF TypeOK
  <1>6. \A q \in Ranks, y \in Exchanges :
          \/ status'[q][y] = status[q][y]
          \/ status[q][y] = "none" /\ (status'[q][y] = "running" \/ (status'[q][y] = "queued" /\ y \in Pool(q)))
    BY <1>5 DEF Pool
  <1>7. \A q \in Ranks : main'[q].step = main[q].step
    BY <1>2
  <1> QED BY <1>2, <1>3, <1>4, <1>6, <1>7 DEF Control

\* A rank ends its step.
LEMMA EndingMove ==
  ASSUME IInv, NEW r \in Ranks, main[r].phase \in {"inline", "collect"},
         Last(Here(r)), Ended(status[r][Here(r)]), status[r][Here(r)] # "failed", NextStep(r), UNCHANGED status
  PROVE  Control
  <1>1. status[r][Here(r)] = "ok" /\ main[r].field = Len(Program[main[r].step].fields)
    BY DEF Ended, Last, Here
  <1>2. /\ \A x \in Exchanges : x[1] <= main[r].step => status[r][x] = "ok"
        /\ main' \in [Ranks -> [step : 1 .. (Len(Program) + 1), field : Nat, phase : Phases]]
        /\ main'[r].step = main[r].step + 1
        /\ \A q \in Ranks : q # r => main'[q] = main[q]
        /\ Completed' /\ InStep' /\ Ordered' /\ Onwards
    BY <1>1, StepEnds
  <1>3. ~ Left(r)
    BY DEF Left
  <1> QED BY <1>2, <1>3 DEF Control, IInv, TypeOK

LEMMA ControlStep ==
  ASSUME IInv, NEW r \in Ranks, Moves(r) PROVE Control
  <1> DEFINE m == main[r]
  <1>1. /\ main \in [Ranks -> [step : 1 .. (Len(Program) + 1), field : Nat, phase : Phases]]
        /\ status \in [Ranks -> [Exchanges -> {"none", "queued", "running", "failing", "ok", "failed"}]]
        /\ Completed /\ Within(r) /\ Ordered /\ TypeOK
    BY DEF IInv, TypeOK, InStep, Phases
  <1>2. m.phase \in Working =>
          /\ m.step \in Steps /\ m.field \in 1 .. Len(Program[m.step].fields)
          /\ Here(r) \in Exchanges /\ Here(r)[1] = m.step /\ Here(r)[2] = m.field
          /\ m.field \in Nat /\ m.field + 1 \in Nat
          /\ ~ Last(Here(r)) => /\ m.field + 1 \in 1 .. Len(Program[m.step].fields)
                                /\ <<m.step, m.field + 1>> \in Exchanges
    <2> SUFFICES ASSUME m.phase \in Working
                 PROVE  /\ m.step \in Steps /\ m.field \in 1 .. Len(Program[m.step].fields)
                        /\ Here(r) \in Exchanges
                        /\ m.field \in Nat /\ m.field + 1 \in Nat
                        /\ ~ Last(Here(r)) => /\ m.field + 1 \in 1 .. Len(Program[m.step].fields)
                                              /\ <<m.step, m.field + 1>> \in Exchanges
      BY DEF Here
    <2>1. m.step \in Steps /\ m.field \in 1 .. Len(Program[m.step].fields)
      BY <1>1 DEF Within
    <2>2. Len(Program[m.step].fields) \in Nat /\ Here(r) \in Exchanges
      BY <2>1, ExchangeShape DEF Here
    <2>3. ASSUME ~ Last(Here(r)) PROVE m.field + 1 \in 1 .. Len(Program[m.step].fields)
      <3>1. m.field # Len(Program[m.step].fields)
        BY <2>3 DEF Last, Here
      <3> QED BY <2>1, <2>2, <3>1
    <2>4. m.field + 1 \in 1 .. Len(Program[m.step].fields) => <<m.step, m.field + 1>> \in Exchanges
      BY <2>1, ExchangeShape
    <2> HIDE DEF m
    <2> QED BY <2>1, <2>2, <2>3, <2>4
  <1>3. \A x \in Exchanges : /\ x[1] \in Int /\ x[2] \in Int /\ x = <<x[1], x[2]>> /\ x[2] >= 1
                            /\ x[2] <= Len(Program[x[1]].fields) /\ Len(Program[x[1]].fields) \in Nat
    BY ExchangeShape
  <1>4. \A p \in Phases, f \in Nat : Goto(r, p, f) =>
          /\ main'[r].step = m.step /\ main'[r].field = f /\ main'[r].phase = p
    BY <1>1, GotoFacts
  <1>5. m.step \in Nat /\ m.field \in Nat
    BY <1>1
  <1>6. \A s \in Steps : <<s, 1>> \in Exchanges /\ 1 \in 1 .. Len(Program[s].fields)
    BY ExchangeShape
  <1>7. CASE BeginStep(r)
    <2>1. ~ Left(r) /\ m.phase = "next" /\ \A x \in Exchanges : x[1] = m.step => status[r][x] = "none"
      <3>1. m.phase = "next"
        BY <1>7 DEF BeginStep
      <3> QED BY <1>1, <3>1 DEF Left, Within
    <2>2. CASE m.step \notin Steps
      <3>1. Goto(r, "done", 1) /\ UNCHANGED status
        BY <1>7, <2>2 DEF BeginStep
      <3>2. Within(r)'
        BY <1>4, <3>1 DEF Within, Working, Posted, Phases
      <3> QED BY <2>1, <3>1, <3>2, PlainMove DEF Phases
    <2>3. CASE m.step \in Steps /\ Program[m.step].mode = "posted"
      <3>1. Goto(r, "submit", 1) /\ UNCHANGED status
        BY <1>7, <2>3 DEF BeginStep
      <3>2. main'[r].step = m.step /\ main'[r].field = 1 /\ main'[r].phase = "submit"
        BY <1>4, <3>1 DEF Phases
      <3>3. 1 \in 1 .. Len(Program[m.step].fields)
            /\ \A y \in Exchanges : y[1] = m.step => status'[r][y] = "none" /\ ~ (y[2] < 1)
        <4>1. \A y \in Exchanges : ~ (y[2] < 1)
          BY <1>3
        <4>2. status' = status
          BY <3>1
        <4> QED BY <1>6, <2>1, <2>3, <4>1, <4>2
      <3>4. Within(r)'
        BY <2>3, <3>2, <3>3 DEF Within, Working, Posted
      <3> QED BY <2>1, <3>1, <3>4, PlainMove DEF Phases
    <2>4. CASE m.step \in Steps /\ Program[m.step].mode # "posted"
      <3> DEFINE x == <<m.step, 1>>
      <3>1. Goto(r, "inline", 1) /\ status' = [status EXCEPT ![r][x] = "running"]
        BY <1>7, <2>4 DEF BeginStep
      <3>2. main'[r].step = m.step /\ main'[r].field = 1 /\ main'[r].phase = "inline"
        BY <1>4, <3>1 DEF Phases
      <3>3. x \in Exchanges /\ x[1] = m.step /\ x[2] = 1 /\ status[r][x] = "none"
        BY <1>6, <2>1, <2>4
      <3> HIDE DEF x
      <3>4. \A y \in Exchanges : status'[r][y] = IF y = x THEN "running" ELSE status[r][y]
        BY <1>1, <3>1, <3>3
      <3>5. \A y \in Exchanges : y[2] = 1 /\ y[1] = m.step => y = x
        BY <1>3 DEF x
      <3>6. Within(r)'
        BY <1>3, <1>6, <2>1, <2>4, <3>2, <3>3, <3>4, <3>5 DEF Within, Working, Posted, Started
      <3>7. \A y \in Exchanges : Earlier(y, x) => status[r][y] = "ok"
        <4> SUFFICES ASSUME NEW y \in Exchanges, Earlier(y, x) PROVE status[r][y] = "ok"
          OBVIOUS
        <4>1. y[1] < m.step
          BY <1>3, <1>5, <3>3, EarlierIsOrder
        <4> QED BY <1>1, <4>1 DEF Completed
      <3> QED BY <2>1, <3>1, <3>3, <3>6, <3>7, StartingMove DEF Phases, Ended
    <2> QED BY <2>2, <2>3, <2>4
  <1>8. CASE Inline(r)
    <2>1. /\ ~ Left(r) /\ m.phase = "inline" /\ m.phase \in Working /\ Ended(status[r][Here(r)])
          /\ \A x \in Exchanges : x[1] = m.step =>
               /\ x[2] < m.field => status[r][x] = "ok"
               /\ x[2] > m.field => status[r][x] = "none"
      BY <1>1, <1>8 DEF Inline, Left, Within, Working
    <2>2. CASE status[r][Here(r)] = "failed"
      <3>1. Goto(r, "raised", 1) /\ UNCHANGED status
        BY <1>8, <2>2 DEF Inline
      <3>2. Within(r)'
        BY <1>4, <3>1 DEF Within, Working, Posted, Phases
      <3> QED BY <2>1, <3>1, <3>2, PlainMove DEF Phases
    <2>3. CASE status[r][Here(r)] # "failed" /\ Last(Here(r))
      BY <1>8, <2>1, <2>3, EndingMove DEF Inline
    <2>4. CASE status[r][Here(r)] # "failed" /\ ~ Last(Here(r))
      <3> DEFINE f == m.field + 1
                 x == <<m.step, f>>
      <3>1. Goto(r, "inline", f) /\ status' = [status EXCEPT ![r][x] = "running"]
        BY <1>8, <2>4 DEF Inline
      <3>a. f \in Nat
        BY <1>5
      <3>2. main'[r].step = m.step /\ main'[r].field = f /\ main'[r].phase = "inline"
        BY <1>4, <3>1, <3>a DEF Phases
      <3>3. x \in Exchanges /\ x[1] = m.step /\ x[2] = f /\ status[r][x] = "none" /\ m.step \in Steps
            /\ f \in 1 .. Len(Program[m.step].fields)
        <4>1. x \in Exchanges /\ x[1] = m.step /\ x[2] = f /\ f > m.field
          BY <1>2, <1>5, <2>1, <2>4
        <4> HIDE DEF x
        <4> QED BY <1>2, <2>1, <2>4, <4>1
      <3> HIDE DEF x
      <3>4. \A y \in Exchanges : status'[r][y] = IF y = x THEN "running" ELSE status[r][y]
        BY <1>1, <3>1, <3>3
      <3>5. \A y \in Exchanges : y[2] = f /\ y[1] = m.step => y = x
        BY <1>3 DEF x
      <3>6. \A y \in Exchanges : y[1] = m.step /\ y[2] < f => status[r][y] = "ok"
        <4> SUFFICES ASSUME NEW y \in Exchanges, y[1] = m.step, y[2] < f PROVE status[r][y] = "ok"
          OBVIOUS
        <4>1. CASE y[2] < m.field
          BY <2>1, <4>1
        <4>2. CASE y[2] = m.field
          <5>1. y = Here(r)
            BY <1>3, <4>2 DEF Here
          <5> QED BY <2>1, <2>4, <5>1 DEF Ended
        <4> QED BY <1>3, <1>5, <4>1, <4>2
      <3>7. Within(r)'
        <4>1. \A y \in Exchanges : y[1] = m.step =>
                /\ y[2] < f => status'[r][y] = "ok"
                /\ y[2] = f => status'[r][y] = "running"
                /\ y[2] > f => status'[r][y] = "none"
          BY <1>3, <1>5, <2>1, <3>3, <3>4, <3>5, <3>6
        <4> QED BY <3>2, <3>3, <4>1 DEF Within, Working, Posted, Started
      <3>8. \A y \in Exchanges : Earlier(y, x) => status[r][y] = "ok"
        <4> SUFFICES ASSUME NEW y \in Exchanges, Earlier(y, x) PROVE status[r][y] = "ok"
          OBVIOUS
        <4>1. y[1] < m.step \/ (y[1] = m.step /\ y[2] < f)
          BY <1>3, <1>5, <3>3, EarlierIsOrder
        <4> QED BY <1>1, <3>6, <4>1 DEF Completed
      <3> QED BY <2>1, <3>1, <3>a, <3>3, <3>7, <3>8, StartingMove DEF Phases, Ended
    <2> QED BY <2>2, <2>3, <2>4
  <1>9. CASE Submit(r)
    <2>1. /\ ~ Left(r) /\ m.phase = "submit" /\ m.phase \in Working
          /\ \A x \in Exchanges : x[1] = m.step => (x[2] < m.field <=> status[r][x] # "none")
          /\ status' = [status EXCEPT ![r][Here(r)] = "queued"]
      BY <1>1, <1>9 DEF Submit, Left, Within, Working
    <2> DEFINE x == Here(r)
    <2>2. x \in Exchanges /\ x[1] = m.step /\ x[2] = m.field /\ status[r][x] = "none"
      BY <1>2, <1>5, <2>1
    <2>3. \A y \in Exchanges : status'[r][y] = IF y = x THEN "queued" ELSE status[r][y]
      BY <1>1, <2>1, <2>2
    <2> HIDE DEF x
    <2>4. \A y \in Exchanges : y[2] = m.field /\ y[1] = m.step => y = x
      BY <1>3 DEF x, Here
    <2>5. \A y \in Exchanges : Earlier(y, x) => status[r][y] # "none"
      <3> SUFFICES ASSUME NEW y \in Exchanges, Earlier(y, x) PROVE status[r][y] # "none"
        OBVIOUS
      <3>1. y[1] < m.step \/ (y[1] = m.step /\ y[2] < m.field)
        BY <1>3, <1>5, <2>2, EarlierIsOrder
      <3> QED BY <1>1, <2>1, <3>1 DEF Completed
    <2>6. \A y \in Exchanges : y[1] = m.step => (y[2] < m.field + 1 <=> status'[r][y] # "none")
      <3> SUFFICES ASSUME NEW y \in Exchanges, y[1] = m.step
                   PROVE  y[2] < m.field + 1 <=> status'[r][y] # "none"
        OBVIOUS
      <3>1. CASE y = x
        BY <1>5, <2>2, <2>3, <3>1
      <3>2. CASE y # x
        BY <1>3, <1>5, <2>1, <2>3, <2>4, <3>2
      <3> QED BY <3>1, <3>2
    <2>7. x \in Pool(r)
      BY <1>1, <2>1, <2>2 DEF Within, Pool
    <2>8. CASE Last(Here(r))
      <3>1. Goto(r, "interior", 1)
        BY <1>9, <2>8 DEF Submit
      <3>2. main'[r].step = m.step /\ main'[r].field = 1 /\ main'[r].phase = "interior"
        BY <1>4, <3>1 DEF Phases
      <3>3. \A y \in Exchanges : y[1] = m.step => status'[r][y] # "none"
        <4> SUFFICES ASSUME NEW y \in Exchanges, y[1] = m.step PROVE status'[r][y] # "none"
          OBVIOUS
        <4>1. m.field = Len(Program[m.step].fields)
          BY <2>8 DEF Last, Here
        <4>2. y[2] < m.field + 1
          BY <1>3, <1>5, <4>1
        <4> QED BY <2>6, <4>2
      <3>4. Within(r)'
        BY <1>2, <1>6, <2>1, <3>2, <3>3 DEF Within, Working, Posted
      <3> QED BY <2>1, <2>2, <2>5, <2>7, <3>1, <3>4, StartingMove DEF Phases, x
    <2>9. CASE ~ Last(Here(r))
      <3>1. Goto(r, "submit", m.field + 1) /\ m.field + 1 \in Nat
        BY <1>5, <1>9, <2>9 DEF Submit
      <3>2. main'[r].step = m.step /\ main'[r].field = m.field + 1 /\ main'[r].phase = "submit"
        BY <1>4, <3>1 DEF Phases
      <3>4. Within(r)'
        <4>1. /\ m.step \in Steps /\ m.field + 1 \in 1 .. Len(Program[m.step].fields)
              /\ Program[m.step].mode = "posted"
          BY <1>1, <1>2, <2>1, <2>9 DEF Within
        <4>2. \A y \in Exchanges : y[1] = main'[r].step => (y[2] < main'[r].field <=> status'[r][y] # "none")
          BY <2>6, <3>2
        <4> QED BY <3>2, <4>1, <4>2 DEF Within, Working, Posted
      <3> QED BY <2>1, <2>2, <2>5, <2>7, <3>1, <3>4, StartingMove DEF Phases, x
    <2> QED BY <2>8, <2>9
  <1>10. CASE Interior(r) \/ InteriorFails(r)
    <2>1. PICK p \in {"collect", "drain"} : Goto(r, p, 1)
      BY <1>10 DEF Interior, InteriorFails
    <2>2. ~ Left(r) /\ m.phase = "interior" /\ UNCHANGED status
      BY <1>10 DEF Interior, InteriorFails, Left
    <2>3. main'[r].step = m.step /\ main'[r].field = 1 /\ main'[r].phase = p
      BY <1>4, <2>1 DEF Phases
    <2>4. \A y \in Exchanges : y[1] = m.step => status[r][y] # "none" /\ ~ (y[2] < 1)
      BY <1>1, <1>3, <2>2 DEF Within, Posted
    <2>5. Within(r)'
      BY <1>2, <1>6, <2>2, <2>3, <2>4 DEF Within, Working, Posted
    <2> QED BY <2>1, <2>2, <2>5, PlainMove DEF Phases
  <1>11. CASE Drain(r) \/ Collect(r)
    <2>1. /\ ~ Left(r) /\ m.phase \in {"drain", "collect"} /\ m.phase \in Working /\ UNCHANGED status
          /\ Ended(status[r][Here(r)])
      BY <1>11 DEF Drain, Collect, Left, Working
    <2>2. CASE Goto(r, "raised", 1)
      <3>1. Within(r)'
        BY <1>4, <2>2 DEF Within, Working, Posted, Phases
      <3> QED BY <2>1, <2>2, <3>1, PlainMove DEF Phases
    <2>3. CASE ~ Last(Here(r)) /\ Goto(r, m.phase, m.field + 1) /\ (m.phase = "collect" => status[r][Here(r)] # "failed")
      <3>1. m.field + 1 \in Nat /\ m.phase \in Phases
        BY <1>5, <2>1 DEF Phases
      <3>2. main'[r].step = m.step /\ main'[r].field = m.field + 1 /\ main'[r].phase = m.phase
        BY <1>4, <2>3, <3>1
      <3>3. \A y \in Exchanges : y[1] = m.step =>
              /\ status[r][y] # "none"
              /\ m.phase = "collect" /\ y[2] < m.field + 1 => status[r][y] = "ok"
        <4> SUFFICES ASSUME NEW y \in Exchanges, y[1] = m.step
                     PROVE  /\ status[r][y] # "none"
                            /\ m.phase = "collect" /\ y[2] < m.field + 1 => status[r][y] = "ok"
          OBVIOUS
        <4>1. status[r][y] # "none" /\ (m.phase = "collect" /\ y[2] < m.field => status[r][y] = "ok")
          BY <1>1, <2>1 DEF Within, Posted
        <4>2. CASE m.phase = "collect" /\ y[2] = m.field
          <5>1. y = Here(r)
            BY <1>3, <4>2 DEF Here
          <5> QED BY <2>1, <2>3, <4>1, <4>2, <5>1 DEF Ended
        <4> QED BY <1>3, <1>5, <4>1, <4>2
      <3>4. Within(r)'
        BY <1>2, <2>1, <2>3, <3>2, <3>3 DEF Within, Working, Posted
      <3> QED BY <2>1, <2>3, <3>1, <3>4, PlainMove
    <2>4. CASE m.phase = "collect" /\ status[r][Here(r)] # "failed" /\ Last(Here(r)) /\ NextStep(r)
      BY <2>1, <2>4, EndingMove
    <2>5. \/ Goto(r, "raised", 1)
          \/ ~ Last(Here(r)) /\ Goto(r, m.phase, m.field + 1) /\ (m.phase = "collect" => status[r][Here(r)] # "failed")
          \/ m.phase = "collect" /\ status[r][Here(r)] # "failed" /\ Last(Here(r)) /\ NextStep(r)
      BY <1>11 DEF Drain, Collect
    <2> QED BY <2>2, <2>3, <2>4, <2>5
  <1>12. CASE Close(r) \/ ReadFails(r) \/ Crash(r)
    <2>1. PICK p \in {"raised", "gone"} : Goto(r, p, 1)
      BY <1>12 DEF Close, ReadFails, Crash
    <2>2. ~ Left(r) /\ UNCHANGED status
      BY <1>12 DEF Close, ReadFails, Crash, Left
    <2>3. Within(r)'
      BY <1>4, <2>1 DEF Within, Working, Posted, Phases
    <2> QED BY <2>1, <2>2, <2>3, PlainMove DEF Phases
  <1> QED BY <1>7, <1>8, <1>9, <1>10, <1>11, <1>12 DEF Moves

-----------------------------------------------------------------------------
(* What does not touch the streams.                                        *)

Statuses == {"none", "queued", "running", "failing", "ok", "failed"}

Shape ==
  /\ UNCHANGED fixed
  /\ main' \in [Ranks -> [step : 1 .. (Len(Program) + 1), field : Nat, phase : Phases]]
  /\ status' \in [Ranks -> [Exchanges -> Statuses]]
  /\ send' \in [Ranks -> [Exchanges -> [Ranks -> {"idle", "begun", "sent", "broken"}]]]
  /\ head' \in [Ranks -> [Exchanges -> BOOLEAN]]
  /\ got' \in [Ranks -> [Exchanges -> UNION {[S -> Exchanges \cup {Foreign}] : S \in SUBSET Ranks}]]
  /\ \A r \in Ranks, x \in Exchanges : DOMAIN got'[r][x] \subseteq Sources(r, x)
  /\ wire' \in [Ranks -> [Ranks -> Seq(Frame)]]

LEMMA Typed ==
  ASSUME TypeOK
  PROVE  /\ buffer \in Nat
         /\ main \in [Ranks -> [step : 1 .. (Len(Program) + 1), field : Nat, phase : Phases]]
         /\ status \in [Ranks -> [Exchanges -> Statuses]]
         /\ send \in [Ranks -> [Exchanges -> [Ranks -> {"idle", "begun", "sent", "broken"}]]]
         /\ head \in [Ranks -> [Exchanges -> BOOLEAN]]
         /\ got \in [Ranks -> [Exchanges -> UNION {[S -> Exchanges \cup {Foreign}] : S \in SUBSET Ranks}]]
         /\ \A r \in Ranks, x \in Exchanges : DOMAIN got[r][x] \subseteq Sources(r, x)
         /\ wire \in [Ranks -> [Ranks -> Seq(Frame)]]
         /\ \A p, q \in Ranks : wire[p][q] \in Seq(Frame) /\ Len(wire[p][q]) \in Nat
         /\ \A p, q \in Ranks : \A i \in 1 .. Len(wire[p][q]) : wire[p][q][i] \in Frame
  <1>1. wire \in [Ranks -> [Ranks -> Seq(Frame)]]
    BY DEF TypeOK, Frame
  <1>2. \A p, q \in Ranks : wire[p][q] \in Seq(Frame)
    BY <1>1
  <1>3. \A p, q \in Ranks : Len(wire[p][q]) \in Nat /\ \A i \in 1 .. Len(wire[p][q]) : wire[p][q][i] \in Frame
    BY <1>2, ElementOfSeq, LenProperties
  <1>4. buffer \in Nat
    BY HaloAssumption DEF TypeOK
  <1> QED BY <1>1, <1>2, <1>3, <1>4 DEF TypeOK, Phases, Statuses

\* The state stays well typed when its parts do.
LEMMA TypeStays ==
  ASSUME TypeOK, Shape, Queued', faults' \subseteq [kind : FaultKinds, rank : Ranks, step : 1 .. (Len(Program) + 1)]
  PROVE  TypeOK'
  <1>1. ASSUME NEW p \in Ranks, NEW q \in Ranks, \A x \in Exchanges : send'[p][x][q] # "broken"
        PROVE  Len(wire'[p][q]) <= buffer' + 1
    BY <1>1 DEF Queued, InLine
  <1> QED BY <1>1 DEF TypeOK, Shape, fixed, Phases, Statuses, Frame

LEMMA FaultTyped ==
  ASSUME TypeOK, NEW r \in Ranks, NEW kind \in FaultKinds, UNCHANGED faults \/ Fault(r, kind)
  PROVE  faults' \subseteq [kind : FaultKinds, rank : Ranks, step : 1 .. (Len(Program) + 1)]
  BY DEF TypeOK, Fault

\* A pair of ranks is left alone.
LEMMA AlignedStays ==
  ASSUME NEW p \in Ranks, NEW q \in Ranks, Aligned(p, q), wire'[p][q] = wire[p][q], got'[q] = got[q],
         HeadOf(q, p)' <=> HeadOf(q, p), Left(p) => Left(p)',
         \A x \in Exchanges : /\ send'[p][x][q] = "idle" <=> send[p][x][q] = "idle"
                              /\ send[p][x][q] = "broken" => send'[p][x][q] = "broken",
         TypeOK
  PROVE  Aligned(p, q)'
  <1>1. \A i \in 1 .. Len(wire[p][q]) : wire[p][q][i].of \in Exchanges
    BY Typed DEF Frame
  <1>2. \A x \in Exchanges :
          p \in DOMAIN got[q][x] => send'[p][x][q] # "idle" /\ got[q][x][p] = x
    BY DEF Aligned
  <1>3. \A x \in Exchanges :
          (\E i \in 1 .. Len(wire[p][q]) : wire[p][q][i].of = x)
            <=> send'[p][x][q] # "idle" /\ p \notin DOMAIN got[q][x]
    BY DEF Aligned
  <1>4. /\ HeadOf(q, p)' => wire[p][q] # <<>>
        /\ \A i \in 1 .. Len(wire[p][q]) :
             /\ wire[p][q][i].part \in Remains <=> i = 1 /\ HeadOf(q, p)'
             /\ wire[p][q][i].part \in Severed =>
                  send'[p][wire[p][q][i].of][q] = "broken" \/ (Left(p)' /\ i = Len(wire[p][q]))
    BY <1>1 DEF Aligned
  <1>5. /\ \A x \in Exchanges : p \in DOMAIN got'[q][x] => send'[p][x][q] # "idle" /\ got'[q][x][p] = x
        /\ \A x \in Exchanges :
             (\E i \in 1 .. Len(wire'[p][q]) : wire'[p][q][i].of = x)
               <=> send'[p][x][q] # "idle" /\ p \notin DOMAIN got'[q][x]
    BY <1>2, <1>3
  <1>6. /\ HeadOf(q, p)' => wire'[p][q] # <<>>
        /\ \A i \in 1 .. Len(wire'[p][q]) :
             /\ wire'[p][q][i].part \in Remains <=> i = 1 /\ HeadOf(q, p)'
             /\ wire'[p][q][i].part \in Severed =>
                  send'[p][wire'[p][q][i].of][q] = "broken" \/ (Left(p)' /\ i = Len(wire'[p][q]))
    BY <1>4
  <1> QED BY <1>5, <1>6 DEF Aligned

LEMMA DoomedStays ==
  ASSUME NEW p \in Ranks, NEW q \in Ranks, Doomed(p, q), wire'[p][q] = wire[p][q], got'[q] = got[q],
         HeadOf(q, p)' <=> HeadOf(q, p), main'[q].step = main[q].step
  PROVE  Doomed(p, q)'
  BY DEF Doomed, Awaited, Sources

LEMMA HeadStays ==
  ASSUME NEW p \in Ranks, NEW q \in Ranks, Left(q)' <=> Left(q), got'[q] = got[q],
         \A x \in Exchanges :
           \/ status'[q][x] = status[q][x] /\ head'[q][x] = head[q][x]
           \/ ~ head[q][x] /\ ~ head'[q][x]
           \/ Awaited(q, x) = {}
  PROVE  HeadOf(q, p)' <=> HeadOf(q, p)
  <1>1. \A x \in Exchanges : Awaited(q, x)' = Awaited(q, x)
    BY DEF Awaited, Sources
  <1>2. \A x \in Exchanges : (Reading(q, x, p) /\ head[q][x])' <=> (Reading(q, x, p) /\ head[q][x])
    BY <1>1 DEF Reading
  <1> QED BY <1>2 DEF HeadOf

\* A rank that has all of a step has it from its owners.
LEMMA StepIsExact ==
  ASSUME IInv, NEW q \in Ranks, ~ Left(q), \A x \in Exchanges : x[1] <= main[q].step => status[q][x] = "ok"
  PROVE  /\ \A p \in Ranks : Aligned(p, q)
         /\ \A x \in Exchanges : x[1] <= main[q].step => got[q][x] = [p \in Sources(q, x) |-> x]
  <1>1. Clean(q)
    <2> SUFFICES ASSUME NEW x \in Exchanges PROVE status[q][x] \notin {"failing", "failed"}
      BY DEF Clean
    <2>1. x[1] \in Int /\ main[q].step \in Int
      BY EarlierIsOrder, Typed DEF IInv
    <2>2. x[1] > main[q].step => status[q][x] = "none"
      BY DEF IInv, Completed
    <2> QED BY <2>1, <2>2
  <1>2. ASSUME NEW p \in Ranks PROVE Aligned(p, q)
    <2>1. ~ Doomed(p, q)
      <3> SUFFICES ASSUME NEW y \in Exchanges, y[1] = main[q].step, p \in Awaited(q, y) PROVE FALSE
        BY DEF Doomed
      <3>1. status[q][y] = "ok"
        BY Typed DEF IInv
      <3> QED BY <3>1 DEF IInv, Ends
    <2> QED BY <1>1, <2>1 DEF IInv, Streams
  <1>3. ASSUME NEW x \in Exchanges, x[1] <= main[q].step PROVE got[q][x] = [p \in Sources(q, x) |-> x]
    <2>1. PICK S \in SUBSET Ranks : got[q][x] \in [S -> Exchanges \cup {Foreign}]
      <3>1. got[q][x] \in UNION {[S -> Exchanges \cup {Foreign}] : S \in SUBSET Ranks}
        BY Typed DEF IInv
      <3> QED BY <3>1
    <2>2. DOMAIN got[q][x] = S /\ S \subseteq Sources(q, x)
      BY <2>1, Typed DEF IInv
    <2>3. Awaited(q, x) = {}
      BY <1>3 DEF IInv, Ends
    <2>4. S = Sources(q, x)
      BY <2>2, <2>3 DEF Awaited
    <2>5. \A p \in S : got[q][x][p] = x
      BY <1>2, <2>2 DEF Aligned
    <2> QED BY <2>1, <2>4, <2>5
  <1> QED BY <1>2, <1>3

\* Streams and values when nothing is read or written.
LEMMA Calm ==
  ASSUME IInv, UNCHANGED <<wire, got, head>>, Onwards,
         \A q \in Ranks :
           \/ main'[q].step = main[q].step
           \/ /\ main'[q].step = main[q].step + 1 /\ ~ Left(q)
              /\ \A x \in Exchanges : x[1] <= main[q].step => status[q][x] = "ok",
         \A q \in Ranks, x \in Exchanges : Clean(q)' =>
           status'[q][x] = status[q][x] \/ ~ head[q][x] \/ Awaited(q, x) = {},
         \A p \in Ranks, q \in Ranks, x \in Exchanges : ~ Left(q) =>
           /\ send'[p][x][q] = "idle" <=> send[p][x][q] = "idle"
           /\ send[p][x][q] = "broken" => send'[p][x][q] = "broken"
  PROVE  Streams' /\ Exact'
  <1>1. ASSUME NEW p \in Ranks, NEW q \in Ranks, Clean(q)' PROVE (Aligned(p, q) \/ Doomed(p, q))'
    <2>1. Clean(q) /\ ~ Left(q) /\ ~ Left(q)' /\ (Left(p) => Left(p)')
      BY <1>1 DEF Onwards, Clean
    <2>2. HeadOf(q, p)' <=> HeadOf(q, p)
      BY <1>1, <2>1, HeadStays
    <2>3. CASE Aligned(p, q)
      <3>1. Aligned(p, q)'
        BY <2>1, <2>2, <2>3, AlignedStays DEF IInv
      <3> QED BY <3>1
    <2>4. CASE Doomed(p, q) /\ main'[q].step = main[q].step
      <3>1. Doomed(p, q)'
        BY <2>2, <2>4, DoomedStays
      <3> QED BY <3>1
    <2>5. CASE \A x \in Exchanges : x[1] <= main[q].step => status[q][x] = "ok"
      <3>1. Aligned(p, q)
        BY <2>1, <2>5, StepIsExact
      <3>2. Aligned(p, q)'
        BY <2>1, <2>2, <3>1, AlignedStays DEF IInv
      <3> QED BY <3>2
    <2>6. Aligned(p, q) \/ Doomed(p, q)
      BY <2>1 DEF IInv, Streams
    <2> QED BY <2>3, <2>4, <2>5, <2>6
  <1>2. Streams'
    BY <1>1 DEF Streams
  <1>3. Exact'
    <2> SUFFICES ASSUME NEW q \in Ranks, NEW x \in Exchanges, x[1] < main'[q].step
                 PROVE  got[q][x] = [p \in Sources(q, x) |-> x]
      BY DEF Exact, Sources
    <2>1. CASE main'[q].step = main[q].step
      BY <2>1 DEF IInv, Exact
    <2>2. CASE main'[q].step # main[q].step
      <3>1. x[1] \in Int /\ main[q].step \in Int
        BY EarlierIsOrder, Typed DEF IInv
      <3>2. x[1] <= main[q].step
        BY <2>2, <3>1
      <3> QED BY <2>2, <3>2, StepIsExact
    <2> QED BY <2>1, <2>2
  <1> QED BY <1>2, <1>3

\* What an exchange of a rank has sent and received, when the rank moves.
LEMMA ControlEnds ==
  ASSUME IInv, Control, UNCHANGED <<send, head, got>> PROVE Ends'
  <1> SUFFICES ASSUME NEW r \in Ranks, NEW x \in Exchanges
               PROVE  /\ status'[r][x] = "queued" => x \in Pool(r)
                      /\ head[r][x] => Started(r, x)'
                      /\ status'[r][x] = "ok" => Awaited(r, x) = {}
                      /\ \A q \in Ranks :
                           /\ send[r][x][q] # "idle" => Started(r, x)' /\ q \in Targets(r, x)
                           /\ Ended(status'[r][x]) /\ q \in Targets(r, x) => send[r][x][q] \in {"sent", "broken"}
                           /\ status'[r][x] = "ok" => send[r][x][q] # "broken"
    BY DEF Ends, Pool, Awaited, Sources, Targets
  <1>1. \/ status'[r][x] = status[r][x]
        \/ status[r][x] = "none" /\ (status'[r][x] = "running" \/ (status'[r][x] = "queued" /\ x \in Pool(r)))
    BY DEF Control
  <1>2. Ends
    BY DEF IInv
  <1> QED BY <1>1, <1>2 DEF Ends, Started, Ended

\* Streams keep their frames.
LEMMA InLineStays ==
  ASSUME TypeOK, NEW p \in Ranks, NEW q \in Ranks, InLine(p, q), wire'[p][q] = wire[p][q], buffer' = buffer,
         \A x \in Exchanges : send'[p][x][q] = send[p][x][q]
  PROVE  InLine(p, q)'
  <1>1. \A i \in 1 .. Len(wire[p][q]) : wire[p][q][i].of \in Exchanges
    BY Typed DEF Frame
  <1> QED BY <1>1 DEF InLine

LEMMA QueuedStays ==
  ASSUME IInv, UNCHANGED <<wire, send, buffer>> PROVE Queued'
  BY DEF IInv, Queued, InLine

\* A move of the program, the death of the process apart.
LEMMA MovesKeep ==
  ASSUME IInv, NEW r \in Ranks, Moves(r), UNCHANGED wire PROVE IInv'
  <1>1. Control
    BY ControlStep
  <1>2. /\ UNCHANGED <<fixed, send, head, got>>
        /\ \E kind \in FaultKinds : UNCHANGED faults \/ Fault(r, kind)
    BY DEF Moves, BeginStep, Inline, Submit, Interior, Drain, Collect, Close, ReadFails,
           InteriorFails, Crash, FaultKinds
  <1>3. Ends' /\ Queued'
    BY <1>1, <1>2, ControlEnds, QueuedStays DEF fixed
  <1>4. TypeOK'
    <2>1. TypeOK
      BY DEF IInv
    <2>2. Shape
      BY <1>1, <1>2, <2>1, Typed DEF Shape, Control, Statuses
    <2> QED BY <1>2, <1>3, <2>1, <2>2, FaultTyped, TypeStays
  <1>5. Streams' /\ Exact'
    <2>1. \A q \in Ranks, x \in Exchanges : status'[q][x] = status[q][x] \/ ~ head[q][x]
      <3> SUFFICES ASSUME NEW q \in Ranks, NEW x \in Exchanges, status'[q][x] # status[q][x]
                   PROVE  ~ head[q][x]
        OBVIOUS
      <3>1. status[q][x] = "none"
        BY <1>1 DEF Control
      <3> QED BY <3>1 DEF IInv, Ends, Started
    <2> QED BY <1>1, <1>2, <2>1, Calm DEF Control
  <1> QED BY <1>1, <1>3, <1>4, <1>5 DEF IInv, Control

\* An exchange ends, fails or leaves the queue.
LEMMA AdvanceKeeps ==
  ASSUME IInv, NEW r \in Ranks, NEW x \in Exchanges, NEW s \in {"running", "failing", "ok", "failed"},
         status[r][x] \in {"queued", "running", "failing"},
         status[r][x] = "failing" => s = "failed",
         status[r][x] = "queued" => s = "running",
         \A y \in Exchanges : Earlier(y, x) => Ended(status[r][y]),
         Ended(s) => SendsEnded(r, x),
         s = "ok" => Awaited(r, x) = {} /\ \A q \in Targets(r, x) : send[r][x][q] # "broken",
         status' = [status EXCEPT ![r][x] = s], UNCHANGED <<fixed, main, send, head, got, wire>>,
         NEW kind \in FaultKinds, UNCHANGED faults \/ Fault(r, kind)
  PROVE  IInv'
  <1>1. Completed' /\ InStep' /\ Ordered' /\ Onwards
    BY StatusStep
  <1>2. TypeOK /\ \A q \in Ranks, y \in Exchanges :
                   status'[q][y] = IF q = r /\ y = x THEN s ELSE status[q][y]
    BY Typed DEF IInv
  <1>3. Queued'
    BY QueuedStays DEF fixed
  <1>4. TypeOK'
    <2>1. status' \in [Ranks -> [Exchanges -> Statuses]]
      BY <1>2, Typed DEF Statuses
    <2>2. Shape
      BY <1>2, <2>1, Typed DEF Shape
    <2> QED BY <1>2, <1>3, <2>2, FaultTyped, TypeStays
  <1>5. Ends'
    <2> SUFFICES ASSUME NEW q \in Ranks, NEW y \in Exchanges
                 PROVE  /\ status'[q][y] = "queued" => y \in Pool(q)
                        /\ head[q][y] => Started(q, y)'
                        /\ status'[q][y] = "ok" => Awaited(q, y) = {}
                        /\ \A p \in Ranks :
                             /\ send[q][y][p] # "idle" => Started(q, y)' /\ p \in Targets(q, y)
                             /\ Ended(status'[q][y]) /\ p \in Targets(q, y) => send[q][y][p] \in {"sent", "broken"}
                             /\ status'[q][y] = "ok" => send[q][y][p] # "broken"
      BY DEF Ends, Pool, Awaited, Sources, Targets
    <2>1. Ends
      BY DEF IInv
    <2>2. CASE q = r /\ y = x
      <3>1. status'[q][y] = s
        BY <1>2, <2>2
      <3> QED BY <2>1, <2>2, <3>1, <1>2, Typed DEF Ends, Started, Ended, SendsEnded
    <2>3. CASE ~ (q = r /\ y = x)
      <3>1. status'[q][y] = status[q][y]
        BY <1>2, <2>3
      <3> QED BY <2>1, <3>1 DEF Ends, Started
    <2> QED BY <2>2, <2>3
  <1>6. Streams' /\ Exact'
    <2>1. ASSUME NEW q \in Ranks, NEW y \in Exchanges, Clean(q)'
          PROVE  status'[q][y] = status[q][y] \/ ~ head[q][y] \/ Awaited(q, y) = {}
      <3>1. CASE q = r /\ y = x
        <4>1. s \in {"running", "ok"}
          BY <1>2, <2>1, <3>1 DEF Clean
        <4>2. CASE s = "ok"
          BY <3>1, <4>2
        <4>3. CASE s = "running"
          <5>1. status[r][x] = "queued" \/ status[r][x] = "running" \/ status[r][x] = "failing"
            OBVIOUS
          <5>2. status[r][x] = "queued" => ~ head[r][x]
            BY DEF IInv, Ends, Started
          <5> QED BY <1>2, <3>1, <4>3, <5>1, <5>2
        <4> QED BY <4>1, <4>2, <4>3
      <3>2. CASE ~ (q = r /\ y = x)
        BY <1>2, <3>2
      <3> QED BY <3>1, <3>2
    <2> QED BY <1>1, <2>1, Calm
  <1> QED BY <1>1, <1>3, <1>4, <1>5, <1>6 DEF IInv

\* A progress thread takes the next exchange; there is one thread.
LEMMA PickUpKeeps ==
  ASSUME IInv, Workers = 1, NEW r \in Ranks, NEW x \in Exchanges, PickUp(r, x) PROVE IInv'
  <1>1. /\ status[r][x] = "queued" /\ \A y \in Pool(r) : Earlier(y, x) => status[r][y] # "queued"
        /\ Cardinality({y \in Pool(r) : status[r][y] \in {"running", "failing"}}) < 1
        /\ status' = [status EXCEPT ![r][x] = "running"]
        /\ UNCHANGED <<fixed, main, send, head, got, wire, faults>>
    BY DEF PickUp, CanPickUp
  <1>2. Completed /\ Ordered /\ Ends /\ x \in Pool(r)
    BY <1>1 DEF IInv, Ends
  <1>3. \A y \in Exchanges : Earlier(y, x) => Ended(status[r][y])
    <2> SUFFICES ASSUME NEW y \in Exchanges, Earlier(y, x) PROVE Ended(status[r][y])
      OBVIOUS
    <2>1. CASE y[1] < x[1]
      <3>1. ~ (x[1] > main[r].step)
        BY <1>1, <1>2 DEF Completed
      <3>2. y[1] < main[r].step
        BY <2>1, <3>1, EarlierIsOrder, Typed DEF IInv
      <3> QED BY <1>2, <3>2 DEF Completed, Ended
    <2>2. CASE y[1] = x[1]
      <3>1. y \in Pool(r) /\ status[r][y] # "queued" /\ status[r][y] # "none"
        BY <1>1, <1>2, <2>2 DEF Pool, Ordered
      <3>2. status[r][y] \notin {"running", "failing"}
        <4> SUFFICES ASSUME status[r][y] \in {"running", "failing"} PROVE FALSE
          OBVIOUS
        <4>1. \A z \in Exchanges : z # y => status[r][z] \notin {"running", "failing"}
          BY OneRuns DEF Started, Ended
        <4>2. {z \in Pool(r) : status[r][z] \in {"running", "failing"}} = {y}
          BY <3>1, <4>1 DEF Pool
        <4> QED BY <1>1, <4>2, FS_Singleton
      <3>3. status[r][y] \in Statuses
        BY Typed DEF IInv
      <3> QED BY <3>1, <3>2, <3>3 DEF Statuses, Ended
    <2>3. y[1] <= x[1] /\ y[1] \in Int /\ x[1] \in Int
      BY EarlierIsOrder
    <2> QED BY <2>1, <2>2, <2>3
  <1>4. "timeout" \in FaultKinds
    BY DEF FaultKinds
  <1> QED BY <1>1, <1>3, <1>4, AdvanceKeeps DEF Ended

LEMMA FinishKeeps ==
  ASSUME IInv, NEW r \in Ranks, NEW x \in Exchanges, Finish(r, x) PROVE IInv'
  <1> DEFINE s == IF status[r][x] = "running" /\ \A q \in Targets(r, x) : send[r][x][q] # "broken"
                  THEN "ok" ELSE "failed"
  <1>1. /\ SendsEnded(r, x) /\ status[r][x] \in {"running", "failing"}
        /\ status[r][x] = "running" => Awaited(r, x) = {}
        /\ UNCHANGED <<fixed, main, send, head, got, wire, faults>>
    BY DEF Finish, CanFinish
  <1>2. status' = [status EXCEPT ![r][x] = s]
    BY Typed DEF Finish, CanFinish, IInv
  <1>3. \A y \in Exchanges : Earlier(y, x) => Ended(status[r][y])
    BY <1>1, OneRuns DEF Started
  <1>4. /\ s \in {"running", "failing", "ok", "failed"} /\ (status[r][x] = "failing" => s = "failed")
        /\ s = "ok" => Awaited(r, x) = {} /\ \A q \in Targets(r, x) : send[r][x][q] # "broken"
    BY <1>1
  <1>5. "timeout" \in FaultKinds
    BY DEF FaultKinds
  <1> HIDE DEF s
  <1> QED BY <1>1, <1>2, <1>3, <1>4, <1>5, AdvanceKeeps

\* An exchange stops reading.
LEMMA FailKeeps ==
  ASSUME IInv, NEW r \in Ranks, NEW x \in Exchanges, NEW p \in Ranks, Reading(r, x, p), Fail(r, x),
         UNCHANGED <<fixed, main, send, head, got, wire>>,
         NEW kind \in FaultKinds, UNCHANGED faults \/ Fault(r, kind)
  PROVE  IInv'
  <1>1. status[r][x] = "running" /\ status' = [status EXCEPT ![r][x] = "failing"]
    BY DEF Reading, Fail
  <1>2. \A y \in Exchanges : Earlier(y, x) => Ended(status[r][y])
    BY <1>1, OneRuns DEF Started
  <1> QED BY <1>1, <1>2, AdvanceKeeps DEF Ended

-----------------------------------------------------------------------------
(* The sends.                                                              *)

\* What a send changes: of the rest of a rank's state nothing.
Quiet == UNCHANGED <<fixed, main, status, head, got>>

LEMMA QuietKeeps ==
  ASSUME IInv, Quiet
  PROVE  /\ Completed' /\ InStep' /\ Ordered' /\ Exact' /\ Onwards
         /\ \A q \in Ranks : Clean(q)' => Clean(q)
         /\ \A p, q \in Ranks : HeadOf(q, p)' <=> HeadOf(q, p)
  <1>1. Completed' /\ Ordered'
    BY DEF IInv, Quiet, Completed, Ordered, Started
  <1>2. InStep'
    BY DEF IInv, Quiet, InStep, Within, Started
  <1>3. Exact'
    BY DEF IInv, Quiet, Exact, Sources
  <1>4. (\A q \in Ranks : Left(q)' <=> Left(q)) /\ Onwards /\ \A q \in Ranks : Clean(q)' => Clean(q)
    BY DEF Quiet, Left, Onwards, Clean
  <1>5. \A p, q \in Ranks : HeadOf(q, p)' <=> HeadOf(q, p)
    BY <1>4, HeadStays DEF Quiet
  <1> QED BY <1>1, <1>2, <1>3, <1>4, <1>5

\* What becomes of one message.
Marks(r, x, q, s) == send' = [send EXCEPT ![r][x][q] = s]

Marked(r, x, q, s) ==
  \A o \in Ranks, y \in Exchanges, p \in Ranks :
    send'[o][y][p] = IF o = r /\ y = x /\ p = q THEN s ELSE send[o][y][p]

LEMMA SendStep ==
  ASSUME IInv, Quiet, NEW r \in Ranks, NEW x \in Exchanges, NEW q \in Ranks,
         NEW s \in {"begun", "sent", "broken"}, Marks(r, x, q, s),
         Started(r, x), q \in Targets(r, x),
         Ended(status[r][x]) => s \in {"sent", "broken"},
         status[r][x] = "ok" => s # "broken"
  PROVE  /\ Ends'
         /\ send' \in [Ranks -> [Exchanges -> [Ranks -> {"idle", "begun", "sent", "broken"}]]]
         /\ Marked(r, x, q, s)
  <1>1. send \in [Ranks -> [Exchanges -> [Ranks -> {"idle", "begun", "sent", "broken"}]]]
    BY Typed DEF IInv
  <1>2. /\ send' \in [Ranks -> [Exchanges -> [Ranks -> {"idle", "begun", "sent", "broken"}]]]
        /\ Marked(r, x, q, s)
    BY <1>1 DEF Marks, Marked
  <1>3. Ends'
    <2> SUFFICES ASSUME NEW o \in Ranks, NEW y \in Exchanges
                 PROVE  /\ status[o][y] = "queued" => y \in Pool(o)
                        /\ head[o][y] => Started(o, y)
                        /\ status[o][y] = "ok" => Awaited(o, y) = {}
                        /\ \A p \in Ranks :
                             /\ send'[o][y][p] # "idle" => Started(o, y) /\ p \in Targets(o, y)
                             /\ Ended(status[o][y]) /\ p \in Targets(o, y) => send'[o][y][p] \in {"sent", "broken"}
                             /\ status[o][y] = "ok" => send'[o][y][p] # "broken"
      BY DEF Ends, Pool, Awaited, Sources, Targets, Quiet, Started
    <2>1. Ends
      BY DEF IInv
    <2>2. CASE o = r /\ y = x
      <3>1. \A p \in Ranks : send'[o][y][p] = IF p = q THEN s ELSE send[o][y][p]
        BY <1>2, <2>2 DEF Marked
      <3> QED BY <2>1, <2>2, <3>1 DEF Ends
    <2>3. CASE ~ (o = r /\ y = x)
      <3>1. \A p \in Ranks : send'[o][y][p] = send[o][y][p]
        BY <1>2, <2>3 DEF Marked
      <3> QED BY <2>1, <3>1 DEF Ends
    <2> QED BY <2>2, <2>3
  <1> QED BY <1>2, <1>3

\* The frames of a stream on which no message begins.
LEMMA QueuedMarks ==
  ASSUME IInv, wire' = wire, buffer' = buffer, NEW r \in Ranks, NEW x \in Exchanges, NEW q \in Ranks,
         NEW s \in {"sent", "broken"}, s = "sent" => Accepted(r, q),
         Marked(r, x, q, s)
  PROVE  Queued'
  <1>1. TypeOK /\ Queued
    BY DEF IInv
  <1>2. ASSUME NEW p \in Ranks, NEW o \in Ranks, ~ (p = r /\ o = q) PROVE InLine(p, o)'
    <2>1. InLine(p, o) /\ \A y \in Exchanges : send'[p][y][o] = send[p][y][o]
      BY <1>1, <1>2 DEF Queued, Marked
    <2> QED BY <1>1, <2>1, InLineStays
  <1>3. InLine(r, q)'
    <2>1. \A i \in 1 .. Len(wire[r][q]) : wire[r][q][i].of \in Exchanges
      BY <1>1, Typed DEF Frame
    <2>2. InLine(r, q) /\ buffer \in Nat /\ Len(wire[r][q]) \in Nat
      BY <1>1, Typed DEF Queued
    <2>3. \A y \in Exchanges : send'[r][y][q] = IF y = x THEN s ELSE send[r][y][q]
      BY DEF Marked
    <2>4. (\A y \in Exchanges : send'[r][y][q] # "broken") => Len(wire[r][q]) <= buffer
      BY <2>3 DEF Accepted
    <2>5. (\A y \in Exchanges : send'[r][y][q] # "broken") =>
            Len(wire[r][q]) <= buffer + 1 /\ Len(wire[r][q]) <= buffer
      BY <2>2, <2>4
    <2>6. \A y \in Exchanges : /\ send[r][y][q] # "idle" => send'[r][y][q] # "idle"
                               /\ send'[r][y][q] = "begun" => send[r][y][q] = "begun"
      BY <2>3
    <2>7. \A i \in 1 .. Len(wire[r][q]) :
            /\ send'[r][wire[r][q][i].of][q] # "idle"
            /\ \A j \in 1 .. Len(wire[r][q]) : i < j => Earlier(wire[r][q][i].of, wire[r][q][j].of)
      <3>1. \A i \in 1 .. Len(wire[r][q]) :
              /\ send[r][wire[r][q][i].of][q] # "idle"
              /\ \A j \in 1 .. Len(wire[r][q]) : i < j => Earlier(wire[r][q][i].of, wire[r][q][j].of)
        BY <2>2 DEF InLine
      <3>2. ASSUME NEW i \in 1 .. Len(wire[r][q]) PROVE send'[r][wire[r][q][i].of][q] # "idle"
        <4>1. wire[r][q][i].of \in Exchanges /\ send[r][wire[r][q][i].of][q] # "idle"
          BY <2>1, <3>1
        <4> QED BY <2>6, <4>1
      <3> QED BY <3>1, <3>2
    <2>8. \A y \in Exchanges :
            send'[r][y][q] = "begun" /\ wire[r][q] # <<>> => wire[r][q][Len(wire[r][q])].of = y
      BY <2>2, <2>6 DEF InLine
    <2> QED BY <2>5, <2>7, <2>8 DEF InLine
  <1> QED BY <1>2, <1>3 DEF Queued

\* A message is through, or it broke off.
LEMMA MarkKeeps ==
  ASSUME IInv, Quiet, UNCHANGED <<wire, faults>>, NEW r \in Ranks, NEW x \in Exchanges, NEW q \in Ranks,
         Started(r, x), q \in Targets(r, x), send[r][x][q] \in {"idle", "begun"},
         NEW s \in {"sent", "broken"}, Marks(r, x, q, s),
         s = "sent" => send[r][x][q] = "begun" /\ Accepted(r, q),
         s = "broken" => Left(q)
  PROVE  IInv'
  <1>1. status[r][x] # "ok"
    BY DEF IInv, Ends, Ended
  <1>2. /\ Ends'
        /\ send' \in [Ranks -> [Exchanges -> [Ranks -> {"idle", "begun", "sent", "broken"}]]]
        /\ Marked(r, x, q, s)
    <2>1. s \in {"begun", "sent", "broken"} /\ (Ended(status[r][x]) => s \in {"sent", "broken"})
          /\ (status[r][x] = "ok" => s # "broken")
      BY <1>1
    <2> QED BY <2>1, SendStep
  <1>3. TypeOK /\ buffer' = buffer
    <2>1. TypeOK
      BY DEF IInv
    <2>2. buffer' = buffer
      BY DEF Quiet, fixed
    <2> QED BY <2>1, <2>2
  <1>4. Queued'
    <2>1. (s = "sent" => Accepted(r, q)) /\ wire' = wire
      OBVIOUS
    <2> QED BY <1>2, <1>3, <2>1, QueuedMarks
  <1>5. TypeOK'
    <2>1. Shape
      BY <1>2, <1>3, Typed DEF Shape, Quiet
    <2>2. "timeout" \in FaultKinds
      BY DEF FaultKinds
    <2> QED BY <1>3, <1>4, <2>1, <2>2, FaultTyped, TypeStays
  <1>6. Streams'
    <2>1. \A p \in Ranks, o \in Ranks, y \in Exchanges : ~ Left(o) =>
            /\ send'[p][y][o] = "idle" <=> send[p][y][o] = "idle"
            /\ send[p][y][o] = "broken" => send'[p][y][o] = "broken"
      <3> SUFFICES ASSUME NEW p \in Ranks, NEW o \in Ranks, NEW y \in Exchanges, ~ Left(o)
                   PROVE  /\ send'[p][y][o] = "idle" <=> send[p][y][o] = "idle"
                          /\ send[p][y][o] = "broken" => send'[p][y][o] = "broken"
        OBVIOUS
      <3>1. CASE p = r /\ y = x /\ o = q
        <4>1. send'[p][y][o] = s /\ s = "sent" /\ send[p][y][o] = "begun"
          BY <1>2, <3>1 DEF Marked
        <4> QED BY <4>1
      <3>2. CASE ~ (p = r /\ y = x /\ o = q)
        BY <1>2, <3>2 DEF Marked
      <3> QED BY <3>1, <3>2
    <2> QED BY <2>1, QuietKeeps, Calm DEF Quiet
  <1> QED BY <1>2, <1>4, <1>5, <1>6, QuietKeeps DEF IInv

LEMMA SendReturnsKeeps ==
  ASSUME IInv, NEW r \in Ranks, NEW x \in Exchanges, NEW q \in Ranks, SendReturns(r, x, q) PROVE IInv'
  <1>1. /\ send[r][x][q] = "begun" /\ Accepted(r, q) /\ send' = [send EXCEPT ![r][x][q] = "sent"]
        /\ Quiet /\ UNCHANGED <<wire, faults>>
    BY DEF SendReturns, CanReturn, Quiet
  <1>2. Started(r, x) /\ q \in Targets(r, x)
    BY <1>1 DEF IInv, Ends
  <1> DEFINE s == "sent"
  <1>3. s \in {"sent", "broken"} /\ s = "sent"
    OBVIOUS
  <1>4. Marks(r, x, q, s)
    BY <1>1 DEF Marks
  <1> HIDE DEF s
  <1> QED BY <1>1, <1>2, <1>3, <1>4, MarkKeeps

LEMMA SendBreaksKeeps ==
  ASSUME IInv, NEW r \in Ranks, NEW x \in Exchanges, NEW q \in Ranks, SendBreaks(r, x, q) PROVE IInv'
  <1>1. /\ send[r][x][q] \in {"idle", "begun"}
        /\ Left(q) /\ Started(r, x) /\ q \in Targets(r, x)
        /\ Quiet /\ UNCHANGED <<wire, faults>>
    BY DEF SendBreaks, CanBreak, Quiet
  <1> DEFINE s == "broken"
  <1>2. s \in {"sent", "broken"} /\ s # "sent"
    OBVIOUS
  <1>3. Marks(r, x, q, s)
    BY DEF SendBreaks, CanBreak, Marks
  <1> HIDE DEF s
  <1> QED BY <1>1, <1>2, <1>3, MarkKeeps

\* The stream of another pair is left alone when r writes to q.
LEMMA OtherStreams ==
  ASSUME IInv, Quiet, NEW r \in Ranks, NEW q \in Ranks, NEW p \in Ranks, NEW o \in Ranks,
         ~ (p = r /\ o = q), wire'[p][o] = wire[p][o],
         \A y \in Exchanges : send'[p][y][o] = send[p][y][o], Clean(o)'
  PROVE  (Aligned(p, o) \/ Doomed(p, o))'
  <1>1. /\ Clean(o) /\ (HeadOf(o, p)' <=> HeadOf(o, p)) /\ got'[o] = got[o] /\ main'[o] = main[o]
        /\ TypeOK /\ (Left(p) => Left(p)')
    <2>1. Clean(o) /\ (HeadOf(o, p)' <=> HeadOf(o, p)) /\ Onwards
      BY QuietKeeps
    <2>2. got'[o] = got[o] /\ main'[o] = main[o]
      BY DEF Quiet
    <2>3. TypeOK
      BY DEF IInv
    <2> QED BY <2>1, <2>2, <2>3 DEF Onwards
  <1>2. CASE Aligned(p, o)
    <2>1. Aligned(p, o)'
      BY <1>1, <1>2, AlignedStays
    <2> QED BY <2>1
  <1>3. CASE Doomed(p, o)
    <2>1. Doomed(p, o)'
      BY <1>1, <1>3, DoomedStays
    <2> QED BY <2>1
  <1> QED BY <1>1, <1>2, <1>3 DEF IInv, Streams


\* A rank starts a message when its earlier ones are over.
LEMMA BeginsInLine ==
  ASSUME IInv, NEW r \in Ranks, NEW x \in Exchanges, NEW q \in Ranks, Started(r, x),
         q \in Targets(r, x), send[r][x][q] = "idle", ~ Sending(r, q), buffer' = buffer,
         Marked(r, x, q, "begun"), wire'[r][q] = Append(wire[r][q], [of |-> x, part |-> "whole"])
  PROVE  InLine(r, q)'
  <1> DEFINE s == wire[r][q]
             t == wire'[r][q]
             n == Len(s)
  <1>1. /\ s \in Seq(Frame) /\ n \in Nat /\ buffer \in Nat /\ InLine(r, q)
        /\ \A i \in 1 .. n : s[i].of \in Exchanges
    BY Typed DEF IInv, Queued, Frame
  <1>2. Len(t) = n + 1 /\ \A i \in 1 .. n + 1 : t[i].of = IF i <= n THEN s[i].of ELSE x
    <2>1. [of |-> x, part |-> "whole"] \in Frame
      BY DEF Frame, Parts
    <2>2. /\ Len(t) = n + 1 /\ t[n + 1] = [of |-> x, part |-> "whole"]
          /\ \A i \in 1 .. n : t[i] = s[i]
      BY <1>1, <2>1, AppendProperties
    <2> QED BY <1>1, <2>2
  <1>3. \A y \in Exchanges : send'[r][y][q] = IF y = x THEN "begun" ELSE send[r][y][q]
    BY DEF Marked
  <1>4. ASSUME NEW i \in 1 .. n PROVE Earlier(s[i].of, x) /\ send[r][s[i].of][q] # "idle"
    <2>1. s[i].of \in Exchanges /\ send[r][s[i].of][q] # "idle"
      BY <1>1 DEF InLine
    <2>2. Started(r, s[i].of) /\ s[i].of # x
      BY <2>1 DEF IInv, Ends
    <2>3. ~ Ended(status[r][x])
      BY DEF IInv, Ends
    <2>4. ~ Earlier(x, s[i].of)
      BY <2>1, <2>2, <2>3, OneRuns
    <2> QED BY <2>1, <2>2, <2>4, EarlierIsOrder
  <1>5. ASSUME NEW i \in 1 .. n + 1
        PROVE  send'[r][t[i].of][q] # "idle"
    <2>1. CASE i <= n
      <3>1. i \in 1 .. n /\ t[i].of = s[i].of /\ s[i].of \in Exchanges
        BY <1>1, <1>2, <2>1
      <3> QED BY <1>3, <1>4, <3>1
    <2>2. CASE ~ (i <= n)
      BY <1>2, <1>3, <2>2
    <2> QED BY <2>1, <2>2
  <1>6. ASSUME NEW i \in 1 .. n + 1, NEW j \in 1 .. n + 1, i < j
        PROVE  Earlier(t[i].of, t[j].of)
    <2>1. i \in 1 .. n /\ t[i].of = s[i].of
      BY <1>1, <1>2, <1>6
    <2>2. CASE j <= n
      <3>1. j \in 1 .. n /\ t[j].of = s[j].of
        BY <1>1, <1>2, <2>2
      <3> QED BY <1>1, <1>6, <2>1, <3>1 DEF InLine
    <2>3. CASE ~ (j <= n)
      BY <1>2, <1>4, <2>1, <2>3
    <2> QED BY <2>2, <2>3
  <1>7. ASSUME NEW y \in Exchanges, send'[r][y][q] = "begun" PROVE t[n + 1].of = y
    <2>1. y = x
      BY <1>3, <1>7 DEF Sending
    <2> QED BY <1>1, <1>2, <2>1
  <1>8. ASSUME \A y \in Exchanges : send'[r][y][q] # "broken"
        PROVE  n + 1 <= buffer + 1 /\ \E y \in Exchanges : send'[r][y][q] = "begun"
    <2>1. \A y \in Exchanges : send[r][y][q] # "broken"
      BY <1>3, <1>8
    <2>2. n <= buffer
      BY <1>1, <2>1 DEF InLine, Sending
    <2> QED BY <1>1, <1>3, <2>2
  <1> HIDE DEF t, n
  <1>9. /\ \A i \in 1 .. Len(t) : /\ send'[r][t[i].of][q] # "idle"
                                  /\ \A j \in 1 .. Len(t) : i < j => Earlier(t[i].of, t[j].of)
        /\ \A y \in Exchanges : send'[r][y][q] = "begun" => t[Len(t)].of = y
        /\ (\A y \in Exchanges : send'[r][y][q] # "broken") =>
              Len(t) <= buffer' + 1 /\ \E y \in Exchanges : send'[r][y][q] = "begun"
    BY <1>2, <1>5, <1>6, <1>7, <1>8
  <1> QED BY <1>9 DEF InLine, t

\* The frame joins the end of the stream.
LEMMA BeginsStream ==
  ASSUME IInv, Quiet, NEW r \in Ranks, NEW x \in Exchanges, NEW q \in Ranks, ~ Left(r),
         send[r][x][q] = "idle", Clean(q)',
         Marked(r, x, q, "begun"), wire'[r][q] = Append(wire[r][q], [of |-> x, part |-> "whole"])
  PROVE  (Aligned(r, q) \/ Doomed(r, q))'
  <1> DEFINE s == wire[r][q]
             t == wire'[r][q]
             n == Len(s)
             f == [of |-> x, part |-> "whole"]
  <1>1. /\ s \in Seq(Frame) /\ n \in Nat /\ (Aligned(r, q) \/ Doomed(r, q))
        /\ \A i \in 1 .. n : s[i].of \in Exchanges
    <2>1. Clean(q) /\ TypeOK
      BY QuietKeeps DEF IInv
    <2> QED BY <2>1, Typed DEF IInv, Streams, Frame
  <1>2. Len(t) = n + 1 /\ t[n + 1] = f /\ \A i \in 1 .. n : t[i] = s[i]
    <2>1. f \in Frame
      BY DEF Frame, Parts
    <2> QED BY <1>1, <2>1, AppendProperties
  <1>3. /\ \A y \in Exchanges : send'[r][y][q] = IF y = x THEN "begun" ELSE send[r][y][q]
        /\ got' = got /\ main' = main /\ status' = status
        /\ HeadOf(q, r)' <=> HeadOf(q, r)
    BY QuietKeeps DEF Marked, Quiet
  <1>4. t # <<>> /\ (s # <<>> => n > 0 /\ t[1] = s[1]) /\ 1 .. n + 1 = (1 .. n) \cup {n + 1}
    <2>1. t # <<>>
      BY <1>1, <1>2
    <2>2. s # <<>> => n > 0
      BY <1>1, EmptySeq
    <2> QED BY <1>1, <1>2, <2>1, <2>2
  <1>5. CASE Aligned(r, q)
    <2>1. /\ \A y \in Exchanges : r \in DOMAIN got[q][y] => send[r][y][q] # "idle" /\ got[q][y][r] = y
          /\ \A y \in Exchanges :
               (\E i \in 1 .. n : s[i].of = y) <=> send[r][y][q] # "idle" /\ r \notin DOMAIN got[q][y]
          /\ HeadOf(q, r) => s # <<>>
          /\ \A i \in 1 .. n :
               /\ s[i].part \in Remains <=> i = 1 /\ HeadOf(q, r)
               /\ s[i].part \in Severed => send[r][s[i].of][q] = "broken"
      BY <1>5 DEF Aligned
    <2> HIDE DEF n, t
    <2>2. \A y \in Exchanges : r \in DOMAIN got[q][y] => send'[r][y][q] # "idle" /\ got[q][y][r] = y
      <3>1. \A y \in Exchanges : send[r][y][q] # "idle" => send'[r][y][q] # "idle"
        BY <1>3
      <3> QED BY <2>1, <3>1
    <2>3. ASSUME NEW y \in Exchanges
          PROVE  (\E i \in 1 .. Len(t) : t[i].of = y) <=> send'[r][y][q] # "idle" /\ r \notin DOMAIN got[q][y]
      <3>1. CASE y = x
        <4>1. t[n + 1].of = y /\ n + 1 \in 1 .. Len(t)
          BY <1>1, <1>2, <3>1
        <4>2. send'[r][y][q] # "idle" /\ r \notin DOMAIN got[q][y]
          BY <1>3, <2>1, <3>1
        <4> QED BY <4>1, <4>2
      <3>2. CASE y # x
        <4>1. (\E i \in 1 .. Len(t) : t[i].of = y) <=> (\E i \in 1 .. n : s[i].of = y)
          <5>1. ASSUME NEW i \in 1 .. Len(t), t[i].of = y PROVE i \in 1 .. n /\ s[i].of = y
            <6>1. i # n + 1
              BY <1>2, <3>2, <5>1
            <6> QED BY <1>2, <1>4, <5>1, <6>1
          <5>2. ASSUME NEW i \in 1 .. n, s[i].of = y PROVE i \in 1 .. Len(t) /\ t[i].of = y
            BY <1>2, <1>4, <5>2
          <5> QED BY <5>1, <5>2
        <4>2. send'[r][y][q] = send[r][y][q]
          BY <1>3, <3>2
        <4> QED BY <2>1, <4>1, <4>2
      <3> QED BY <3>1, <3>2
    <2>4. ASSUME NEW i \in 1 .. Len(t)
          PROVE  /\ t[i].part \in Remains <=> i = 1 /\ HeadOf(q, r)
                 /\ t[i].part \in Severed => send'[r][t[i].of][q] = "broken"
      <3>1. CASE i \in 1 .. n
        <4>1. t[i] = s[i] /\ s[i].of \in Exchanges
          BY <1>1, <1>2, <3>1
        <4>2. send[r][s[i].of][q] = "broken" => send'[r][s[i].of][q] = "broken"
          BY <1>3, <4>1
        <4> QED BY <2>1, <3>1, <4>1, <4>2
      <3>2. CASE i = n + 1
        <4>1. t[i].part = "whole"
          BY <1>2, <3>2
        <4>2. i = 1 => s = <<>>
          BY <1>1, <1>4, <3>2
        <4> QED BY <2>1, <4>1, <4>2 DEF Remains, Severed
      <3> QED BY <1>2, <1>4, <3>1, <3>2
    <2>5. Aligned(r, q)'
      BY <1>3, <1>4, <2>2, <2>3, <2>4 DEF Aligned, t
    <2> QED BY <2>5
  <1>6. CASE Doomed(r, q)
    <2>1. Doomed(r, q)'
      BY <1>3, <1>4, <1>6 DEF Doomed, Awaited, Sources
    <2> QED BY <2>1
  <1> QED BY <1>1, <1>5, <1>6

LEMMA SendBeginsKeeps ==
  ASSUME IInv, NEW r \in Ranks, NEW x \in Exchanges, NEW q \in Ranks, SendBegins(r, x, q) PROVE IInv'
  <1>1. /\ Started(r, x) /\ ~ Left(r) /\ ~ Left(q) /\ q \in Targets(r, x)
        /\ send[r][x][q] = "idle" /\ ~ Sending(r, q) /\ Quiet /\ UNCHANGED faults
        /\ wire' = [wire EXCEPT ![r][q] = Append(@, [of |-> x, part |-> "whole"])]
    BY DEF SendBegins, CanBegin, Quiet
  <1>2. Marks(r, x, q, "begun") /\ TypeOK /\ buffer' = buffer
    BY <1>1 DEF SendBegins, CanBegin, Marks, IInv, Quiet, fixed
  <1>3. Ends' /\ Marked(r, x, q, "begun")
        /\ send' \in [Ranks -> [Exchanges -> [Ranks -> {"idle", "begun", "sent", "broken"}]]]
    <2> DEFINE s == "begun"
    <2>1. s \in {"begun", "sent", "broken"} /\ s # "broken" /\ s = "begun"
      OBVIOUS
    <2>2. Marks(r, x, q, s) /\ ~ Ended(status[r][x])
      BY <1>1, <1>2 DEF IInv, Ends
    <2> HIDE DEF s
    <2>3. Ends' /\ Marked(r, x, q, s)
          /\ send' \in [Ranks -> [Exchanges -> [Ranks -> {"idle", "begun", "sent", "broken"}]]]
      BY <1>1, <2>1, <2>2, SendStep
    <2> QED BY <2>3 DEF s
  <1>4. /\ wire' \in [Ranks -> [Ranks -> Seq(Frame)]]
        /\ wire'[r][q] = Append(wire[r][q], [of |-> x, part |-> "whole"])
        /\ \A p, o \in Ranks : ~ (p = r /\ o = q) => wire'[p][o] = wire[p][o]
    <2>1. [of |-> x, part |-> "whole"] \in Frame /\ wire[r][q] \in Seq(Frame)
          /\ wire \in [Ranks -> [Ranks -> Seq(Frame)]]
      BY <1>2, Typed DEF Frame, Parts
    <2>2. Append(wire[r][q], [of |-> x, part |-> "whole"]) \in Seq(Frame)
      BY <2>1, AppendProperties
    <2> QED BY <1>1, <2>1, <2>2
  <1>5. \A p, o \in Ranks : ~ (p = r /\ o = q) => \A y \in Exchanges : send'[p][y][o] = send[p][y][o]
    BY <1>3 DEF Marked
  <1>6. Queued'
    <2>1. InLine(r, q)'
      BY <1>1, <1>2, <1>3, <1>4, BeginsInLine
    <2>2. \A p, o \in Ranks : ~ (p = r /\ o = q) => InLine(p, o)'
      BY <1>2, <1>4, <1>5, InLineStays DEF IInv, Queued
    <2> QED BY <2>1, <2>2 DEF Queued
  <1>7. TypeOK'
    <2>1. Shape
      BY <1>1, <1>2, <1>3, <1>4, Typed DEF Shape, Quiet
    <2>2. "timeout" \in FaultKinds
      BY DEF FaultKinds
    <2> QED BY <1>1, <1>2, <1>6, <2>1, <2>2, FaultTyped, TypeStays
  <1>8. Streams'
    <2> SUFFICES ASSUME NEW p \in Ranks, NEW o \in Ranks, Clean(o)' PROVE (Aligned(p, o) \/ Doomed(p, o))'
      BY DEF Streams
    <2>1. CASE p = r /\ o = q
      <3>1. (Aligned(r, q) \/ Doomed(r, q))'
        BY <1>1, <1>3, <1>4, <2>1, BeginsStream
      <3> QED BY <2>1, <3>1
    <2>2. CASE ~ (p = r /\ o = q)
      <3>1. wire'[p][o] = wire[p][o] /\ \A y \in Exchanges : send'[p][y][o] = send[p][y][o]
        BY <1>4, <1>5, <2>2
      <3> QED BY <1>1, <2>2, <3>1, OtherStreams
    <2> QED BY <2>1, <2>2
  <1> QED BY <1>1, <1>3, <1>6, <1>7, <1>8, QuietKeeps DEF IInv

-----------------------------------------------------------------------------
(* Frames that are cut.                                                    *)

\* The end of the stream from p to q is cut: by its sender, or with it.
CutsOff(p, q) ==
  /\ wire'[p][q] = Cut(wire[p][q])
  /\ Left(p)' \/ (wire[p][q] # <<>> => send'[p][wire[p][q][Len(wire[p][q])].of][q] = "broken")
  /\ \A y \in Exchanges :
       send'[p][y][q] # send[p][y][q] => send[p][y][q] = "begun" /\ send'[p][y][q] = "broken"

LEMMA CutKeepsLine ==
  ASSUME TypeOK, NEW p \in Ranks, NEW q \in Ranks, InLine(p, q), CutsOff(p, q), buffer' = buffer
  PROVE  InLine(p, q)'
  <1> DEFINE s == wire[p][q]
             t == wire'[p][q]
  <1>1. /\ s \in Seq(Frame) /\ \A i \in 1 .. Len(s) : s[i].of \in Exchanges
        /\ Len(s) \in Nat /\ buffer \in Nat
    BY Typed DEF Frame
  <1>2. Len(t) = Len(s) /\ \A i \in 1 .. Len(s) : t[i].of = s[i].of
    <2>1. t = Cut(s)
      BY DEF CutsOff
    <2> HIDE DEF s, t
    <2> QED BY <1>1, <2>1, CutFacts
  <1>3. t # <<>> => s # <<>> /\ Len(s) \in 1 .. Len(s)
    BY <1>1, <1>2, EmptySeq
  <1>4. \A y \in Exchanges :
          /\ send[p][y][q] # "idle" => send'[p][y][q] # "idle"
          /\ send'[p][y][q] = "begun" => send[p][y][q] = "begun"
          /\ send'[p][y][q] # "broken" => send'[p][y][q] = send[p][y][q]
    BY DEF CutsOff
  <1> HIDE DEF t
  <1>5. /\ \A i \in 1 .. Len(s) : /\ send[p][s[i].of][q] # "idle"
                                  /\ \A j \in 1 .. Len(s) : i < j => Earlier(s[i].of, s[j].of)
        /\ \A y \in Exchanges : send[p][y][q] = "begun" /\ s # <<>> => s[Len(s)].of = y
    BY DEF InLine
  <1>6. ASSUME NEW i \in 1 .. Len(t)
        PROVE  /\ send'[p][t[i].of][q] # "idle"
               /\ \A j \in 1 .. Len(t) : i < j => Earlier(t[i].of, t[j].of)
    <2>1. i \in 1 .. Len(s) /\ t[i].of = s[i].of /\ s[i].of \in Exchanges
      BY <1>1, <1>2
    <2>2. send'[p][t[i].of][q] # "idle"
      BY <1>4, <1>5, <2>1
    <2> QED BY <1>2, <1>5, <2>1, <2>2
  <1>7. ASSUME NEW y \in Exchanges, send'[p][y][q] = "begun", t # <<>> PROVE t[Len(t)].of = y
    BY <1>2, <1>3, <1>4, <1>5, <1>7
  <1>8. ASSUME \A y \in Exchanges : send'[p][y][q] # "broken"
        PROVE  /\ Len(t) <= buffer' + 1
               /\ (\A y \in Exchanges : send'[p][y][q] # "begun") => Len(t) <= buffer'
    <2>1. \A y \in Exchanges : send'[p][y][q] = send[p][y][q]
      BY <1>4, <1>8
    <2>2. /\ Len(s) <= buffer + 1
          /\ (\A y \in Exchanges : send[p][y][q] # "begun") => Len(s) <= buffer
      BY <1>8, <2>1 DEF InLine
    <2> QED BY <1>2, <2>1, <2>2
  <1> QED BY <1>6, <1>7, <1>8 DEF InLine, t

LEMMA CutKeepsStream ==
  ASSUME TypeOK, NEW p \in Ranks, NEW q \in Ranks, Aligned(p, q) \/ Doomed(p, q), CutsOff(p, q),
         got'[q] = got[q], main'[q].step = main[q].step,
         HeadOf(q, p)' <=> HeadOf(q, p), ~ Left(p)
  PROVE  (Aligned(p, q) \/ Doomed(p, q))'
  <1> DEFINE s == wire[p][q]
             t == wire'[p][q]
  <1>1. s \in Seq(Frame) /\ Len(s) \in Nat
        /\ \A i \in 1 .. Len(s) : s[i].of \in Exchanges /\ s[i].part \in Parts
    BY Typed DEF Frame
  <1>2. /\ Len(t) = Len(s)
        /\ \A i \in 1 .. Len(s) : /\ t[i].of = s[i].of
                                  /\ t[i].part = IF i = Len(s) THEN Short(s[i].part) ELSE s[i].part
    <2>1. t = Cut(s)
      BY DEF CutsOff
    <2> HIDE DEF s, t
    <2> QED BY <1>1, <2>1, CutFacts
  <1>3. /\ (t = <<>>) <=> (s = <<>>)
        /\ s # <<>> => 1 \in 1 .. Len(s)
    <2>1. t \in Seq(Frame)
      BY <1>1, CutFacts DEF CutsOff
    <2> QED BY <1>1, <1>2, <2>1, EmptySeq
  <1>4. \A i \in 1 .. Len(s) : t[i].part \in Remains <=> s[i].part \in Remains
    <2> SUFFICES ASSUME NEW i \in 1 .. Len(s) PROVE t[i].part \in Remains <=> s[i].part \in Remains
      OBVIOUS
    <2>1. s[i].part \in Parts
      BY <1>1
    <2>2. t[i].part = s[i].part \/ t[i].part = Short(s[i].part)
      BY <1>2
    <2> QED BY <2>1, <2>2 DEF Parts, Remains, Short
  <1>5. \A y \in Exchanges : /\ send'[p][y][q] = "idle" <=> send[p][y][q] = "idle"
                             /\ send[p][y][q] = "broken" => send'[p][y][q] = "broken"
    BY DEF CutsOff
  <1> HIDE DEF t
  <1>6. CASE Aligned(p, q)
    <2>1. /\ \A y \in Exchanges : p \in DOMAIN got[q][y] => send[p][y][q] # "idle" /\ got[q][y][p] = y
          /\ \A y \in Exchanges :
               (\E i \in 1 .. Len(s) : s[i].of = y) <=> send[p][y][q] # "idle" /\ p \notin DOMAIN got[q][y]
          /\ HeadOf(q, p) => s # <<>>
          /\ \A i \in 1 .. Len(s) :
               /\ s[i].part \in Remains <=> i = 1 /\ HeadOf(q, p)
               /\ s[i].part \in Severed => send[p][s[i].of][q] = "broken"
      BY <1>6 DEF Aligned
    <2>2. \A y \in Exchanges : p \in DOMAIN got'[q][y] => send'[p][y][q] # "idle" /\ got'[q][y][p] = y
      BY <1>5, <2>1
    <2>3. \A y \in Exchanges : (\E i \in 1 .. Len(t) : t[i].of = y) <=> (\E i \in 1 .. Len(s) : s[i].of = y)
      BY <1>2
    <2>4. \A y \in Exchanges :
            (\E i \in 1 .. Len(t) : t[i].of = y) <=> send'[p][y][q] # "idle" /\ p \notin DOMAIN got'[q][y]
      BY <1>5, <2>1, <2>3
    <2>5. ASSUME NEW i \in 1 .. Len(t)
          PROVE  /\ t[i].part \in Remains <=> i = 1 /\ HeadOf(q, p)
                 /\ t[i].part \in Severed => send'[p][t[i].of][q] = "broken" \/ (Left(p)' /\ i = Len(t))
      <3>1. i \in 1 .. Len(s) /\ t[i].of = s[i].of /\ s[i].of \in Exchanges /\ s # <<>>
        BY <1>1, <1>2
      <3>2. t[i].part \in Remains <=> i = 1 /\ HeadOf(q, p)
        BY <1>4, <2>1, <3>1
      <3>3. ASSUME i # Len(s), t[i].part \in Severed PROVE send'[p][t[i].of][q] = "broken"
        <4>1. send[p][s[i].of][q] = "broken"
          BY <1>2, <2>1, <3>1, <3>3
        <4> QED BY <1>5, <3>1, <4>1
      <3>4. ASSUME i = Len(s) PROVE Left(p)' \/ send'[p][t[i].of][q] = "broken"
        BY <3>1, <3>4 DEF CutsOff
      <3> QED BY <1>2, <3>2, <3>3, <3>4
    <2>6. HeadOf(q, p)' => t # <<>>
      BY <1>3, <2>1
    <2>7. Aligned(p, q)'
      BY <2>2, <2>4, <2>5, <2>6 DEF Aligned, t
    <2> QED BY <2>7
  <1>7. CASE Doomed(p, q)
    <2>1. t # <<>> /\ t[1].part \in Remains /\ ~ HeadOf(q, p)'
      BY <1>3, <1>4, <1>7 DEF Doomed
    <2>2. \E y \in Exchanges : y[1] = main'[q].step /\ p \in Awaited(q, y)'
      BY <1>7 DEF Doomed, Awaited, Sources
    <2>3. Doomed(p, q)'
      BY <2>1, <2>2 DEF Doomed, t
    <2> QED BY <2>3
  <1> QED BY <1>6, <1>7

\* A wait for room in the stream expires.
LEMMA SendTimesOutKeeps ==
  ASSUME IInv, NEW r \in Ranks, NEW x \in Exchanges, NEW q \in Ranks, SendTimesOut(r, x, q),
         UNCHANGED <<fixed, main, head>>, NEW kind \in FaultKinds, UNCHANGED faults \/ Fault(r, kind)
  PROVE  IInv'
  <1>1. /\ ~ Left(r) /\ send[r][x][q] = "begun" /\ ~ Accepted(r, q) /\ Quiet
        /\ wire' = [wire EXCEPT ![r][q] = Cut(@)] /\ Marks(r, x, q, "broken")
    BY DEF SendTimesOut, Quiet, Marks
  <1>2. TypeOK /\ buffer' = buffer /\ buffer \in Nat
    BY <1>1, Typed DEF IInv, Quiet, fixed
  <1>3. Ends' /\ Marked(r, x, q, "broken")
        /\ send' \in [Ranks -> [Exchanges -> [Ranks -> {"idle", "begun", "sent", "broken"}]]]
    <2> DEFINE s == "broken"
    <2>1. s \in {"begun", "sent", "broken"} /\ s \in {"sent", "broken"}
      OBVIOUS
    <2>2. Marks(r, x, q, s) /\ Started(r, x) /\ q \in Targets(r, x) /\ status[r][x] # "ok"
      BY <1>1 DEF IInv, Ends, Ended
    <2> HIDE DEF s
    <2>3. Ends' /\ Marked(r, x, q, s)
          /\ send' \in [Ranks -> [Exchanges -> [Ranks -> {"idle", "begun", "sent", "broken"}]]]
      BY <1>1, <2>1, <2>2, SendStep
    <2> QED BY <2>3 DEF s
  <1>4. /\ wire' \in [Ranks -> [Ranks -> Seq(Frame)]]
        /\ wire'[r][q] = Cut(wire[r][q])
        /\ \A p, o \in Ranks : ~ (p = r /\ o = q) => wire'[p][o] = wire[p][o]
    <2>1. wire[r][q] \in Seq(Frame) /\ wire \in [Ranks -> [Ranks -> Seq(Frame)]]
      BY <1>2, Typed
    <2>2. Cut(wire[r][q]) \in Seq(Frame)
      BY <2>1, CutFacts
    <2> QED BY <1>1, <2>1, <2>2
  <1>5. \A p, o \in Ranks : ~ (p = r /\ o = q) => \A y \in Exchanges : send'[p][y][o] = send[p][y][o]
    BY <1>3 DEF Marked
  <1>6. CutsOff(r, q)
    <2>1. \A y \in Exchanges : send'[r][y][q] = IF y = x THEN "broken" ELSE send[r][y][q]
      BY <1>3 DEF Marked
    <2>2. wire[r][q] # <<>> => wire[r][q][Len(wire[r][q])].of = x
      BY <1>1 DEF IInv, Queued, InLine
    <2> QED BY <1>1, <1>4, <2>1, <2>2 DEF CutsOff
  <1>7. Queued'
    <2>1. InLine(r, q)'
      BY <1>2, <1>6, CutKeepsLine DEF IInv, Queued
    <2>2. \A p, o \in Ranks : ~ (p = r /\ o = q) => InLine(p, o)'
      BY <1>2, <1>4, <1>5, InLineStays DEF IInv, Queued
    <2> QED BY <2>1, <2>2 DEF Queued
  <1>8. TypeOK'
    <2>1. Shape
      BY <1>1, <1>2, <1>3, <1>4, Typed DEF Shape, Quiet
    <2> QED BY <1>2, <1>7, <2>1, FaultTyped, TypeStays
  <1>9. Streams'
    <2> SUFFICES ASSUME NEW p \in Ranks, NEW o \in Ranks, Clean(o)' PROVE (Aligned(p, o) \/ Doomed(p, o))'
      BY DEF Streams
    <2>1. CASE p = r /\ o = q
      <3>1. /\ Aligned(r, q) \/ Doomed(r, q)
            /\ got'[q] = got[q] /\ main'[q].step = main[q].step /\ (HeadOf(q, r)' <=> HeadOf(q, r))
        <4>1. Clean(q) /\ (HeadOf(q, r)' <=> HeadOf(q, r))
          BY <1>1, <2>1, QuietKeeps
        <4> QED BY <1>1, <4>1 DEF IInv, Streams, Quiet
      <3> QED BY <1>1, <1>2, <1>6, <2>1, <3>1, CutKeepsStream
    <2>2. CASE ~ (p = r /\ o = q)
      <3>1. wire'[p][o] = wire[p][o] /\ \A y \in Exchanges : send'[p][y][o] = send[p][y][o]
        BY <1>4, <1>5, <2>2
      <3> QED BY <1>1, <2>2, <3>1, OtherStreams
    <2> QED BY <2>1, <2>2
  <1> QED BY <1>1, <1>3, <1>7, <1>8, <1>9, QuietKeeps DEF IInv

\* The process is killed.
LEMMA CrashKeeps ==
  ASSUME IInv, NEW r \in Ranks, Crash(r) PROVE IInv'
  <1>1. Control /\ TypeOK
    BY ControlStep DEF Moves, IInv
  <1>2. PICK some \in SUBSET {q \in Ranks : Sending(r, q)} :
          wire' = [wire EXCEPT ![r] = [q \in Ranks |-> IF q \in some THEN Cut(wire[r][q]) ELSE wire[r][q]]]
    BY <1>1, Typed DEF Crash
  <1>3. /\ ~ Left(r) /\ Goto(r, "gone", 1) /\ UNCHANGED <<fixed, status, send, head, got>>
        /\ Fault(r, "crash")
    BY DEF Crash
  <1>4. /\ Left(r)' /\ \A q \in Ranks : q # r => main'[q] = main[q] /\ (Left(q)' <=> Left(q))
        /\ \A q \in Ranks : main'[q].step = main[q].step
    BY <1>1, <1>3, GotoFacts DEF Phases, Left
  <1>5. /\ wire' \in [Ranks -> [Ranks -> Seq(Frame)]]
        /\ \A p, q \in Ranks : wire'[p][q] = IF p = r /\ q \in some THEN Cut(wire[p][q]) ELSE wire[p][q]
    <2>1. wire \in [Ranks -> [Ranks -> Seq(Frame)]]
      BY <1>1, Typed
    <2>2. \A q \in Ranks : Cut(wire[r][q]) \in Seq(Frame)
      BY <2>1, CutFacts
    <2> QED BY <1>2, <2>1, <2>2
  <1>6. \A q \in some : q \in Ranks /\ CutsOff(r, q)
    BY <1>3, <1>4, <1>5 DEF CutsOff
  <1>7. buffer' = buffer /\ send' = send /\ got' = got /\ status' = status /\ head' = head
    BY <1>3 DEF fixed
  <1>8. Ends'
    BY <1>1, <1>7, ControlEnds
  <1>9. Queued'
    <2> SUFFICES ASSUME NEW p \in Ranks, NEW q \in Ranks PROVE InLine(p, q)'
      BY DEF Queued
    <2>1. InLine(p, q)
      BY DEF IInv, Queued
    <2>2. CASE p = r /\ q \in some
      BY <1>1, <1>6, <1>7, <2>1, <2>2, CutKeepsLine
    <2>3. CASE ~ (p = r /\ q \in some)
      <3>1. wire'[p][q] = wire[p][q] /\ \A y \in Exchanges : send'[p][y][q] = send[p][y][q]
        BY <1>5, <1>7, <2>3
      <3> QED BY <1>1, <1>7, <2>1, <3>1, InLineStays
    <2> QED BY <2>2, <2>3
  <1>10. TypeOK'
    <2>1. Shape
      BY <1>1, <1>3, <1>5, <1>7, Typed DEF Shape, Control, Statuses
    <2>2. "crash" \in FaultKinds
      BY DEF FaultKinds
    <2> QED BY <1>1, <1>3, <1>9, <2>1, <2>2, FaultTyped, TypeStays
  <1>11. Exact'
    <2>1. Exact
      BY DEF IInv
    <2> QED BY <1>4, <1>7, <2>1 DEF Exact, Sources
  <1>12. Streams'
    <2> SUFFICES ASSUME NEW p \in Ranks, NEW o \in Ranks, Clean(o)' PROVE (Aligned(p, o) \/ Doomed(p, o))'
      BY DEF Streams
    <2>1. o # r /\ Clean(o)
      BY <1>1, <1>4 DEF Control, Onwards, Clean
    <2>2. HeadOf(o, p)' <=> HeadOf(o, p)
      BY <1>4, <1>7, <2>1, HeadStays
    <2>3. Aligned(p, o) \/ Doomed(p, o)
      BY <2>1 DEF IInv, Streams
    <2>4. CASE p = r /\ o \in some
      <3>1. CutsOff(p, o) /\ got'[o] = got[o] /\ main'[o].step = main[o].step /\ ~ Left(p)
        BY <1>3, <1>4, <1>6, <1>7, <2>4
      <3> QED BY <1>1, <2>2, <2>3, <3>1, CutKeepsStream
    <2>5. CASE ~ (p = r /\ o \in some)
      <3>1. /\ wire'[p][o] = wire[p][o] /\ got'[o] = got[o] /\ main'[o].step = main[o].step
            /\ Left(p) => Left(p)'
        <4>1. wire'[p][o] = wire[p][o] /\ got'[o] = got[o] /\ main'[o].step = main[o].step
          BY <1>4, <1>5, <1>7, <2>5
        <4> QED BY <1>4, <4>1
      <3>2. \A y \in Exchanges : /\ send'[p][y][o] = "idle" <=> send[p][y][o] = "idle"
                                 /\ send[p][y][o] = "broken" => send'[p][y][o] = "broken"
        BY <1>7
      <3>3. CASE Aligned(p, o)
        <4>1. Aligned(p, o)'
          BY <1>1, <2>2, <3>1, <3>2, <3>3, AlignedStays
        <4> QED BY <4>1
      <3>4. CASE Doomed(p, o)
        <4>1. Doomed(p, o)'
          BY <2>2, <3>1, <3>4, DoomedStays
        <4> QED BY <4>1
      <3> QED BY <2>3, <3>3, <3>4
    <2> QED BY <2>4, <2>5
  <1> QED BY <1>1, <1>8, <1>9, <1>10, <1>11, <1>12 DEF IInv, Control

-----------------------------------------------------------------------------
(* The receives.                                                           *)

\* What r reads from p next is what it waits for.
LEMMA FirstIsMine ==
  ASSUME IInv, NEW r \in Ranks, NEW x \in Exchanges, NEW p \in Ranks, Clean(r), Aligned(p, r),
         Reading(r, x, p), wire[p][r] # <<>>
  PROVE  wire[p][r][1].of = x
  <1> DEFINE s == wire[p][r]
             y == s[1].of
  <1>1. 1 \in 1 .. Len(s) /\ y \in Exchanges /\ Len(s) \in Nat
        /\ \A i \in 1 .. Len(s) : s[i].of \in Exchanges
    <2>1. s \in Seq(Frame) /\ Len(s) \in Nat /\ \A i \in 1 .. Len(s) : s[i].of \in Exchanges
      BY Typed DEF IInv, Frame
    <2>2. 1 \in 1 .. Len(s)
      BY <2>1, EmptySeq
    <2> QED BY <2>1, <2>2
  <1>2. /\ send[p][y][r] # "idle" /\ p \notin DOMAIN got[r][y]
        /\ \A i \in 1 .. Len(s) : i > 1 => Earlier(y, s[i].of)
    <2>1. send[p][y][r] # "idle" /\ p \notin DOMAIN got[r][y]
      BY <1>1 DEF Aligned
    <2>2. \A i \in 1 .. Len(s) : i > 1 => Earlier(y, s[i].of)
      BY <1>1 DEF IInv, Queued, InLine
    <2> QED BY <2>1, <2>2
  <1> HIDE DEF y
  <1>3. Started(p, y) /\ p \in Awaited(r, y)
    <2>1. Started(p, y) /\ r \in Targets(p, y)
      BY <1>1, <1>2 DEF IInv, Ends
    <2> QED BY <1>1, <1>2, <2>1, Neighbours DEF Awaited
  <1>4. Started(r, x) /\ p \in Sources(r, x) /\ p \notin DOMAIN got[r][x]
    BY DEF Reading, Started, Awaited
  <1>5. ~ Earlier(y, x)
    <2> SUFFICES ASSUME Earlier(y, x) PROVE FALSE
      OBVIOUS
    <2>1. Ended(status[r][y]) /\ status[r][y] # "failed"
      BY <1>1, <1>4, OneRuns DEF Clean
    <2>2. status[r][y] = "ok"
      BY <2>1 DEF Ended
    <2> QED BY <1>1, <1>3, <2>2 DEF IInv, Ends
  <1>6. ~ Earlier(x, y)
    <2> SUFFICES ASSUME Earlier(x, y) PROVE FALSE
      OBVIOUS
    <2>1. Ended(status[p][x])
      BY <1>1, <1>3, OneRuns
    <2>2. r \in Targets(p, x)
      BY <1>4, Neighbours
    <2>3. send[p][x][r] \in {"sent", "broken"}
      BY <2>1, <2>2 DEF IInv, Ends
    <2>4. PICK i \in 1 .. Len(s) : s[i].of = x
      BY <1>4, <2>3 DEF Aligned
    <2>5. i = 1 \/ Earlier(y, x)
      BY <1>1, <1>2, <2>4
    <2> QED BY <1>1, <1>5, <2>4, <2>5, EarlierIsOrder DEF y
  <1> QED BY <1>1, <1>5, <1>6, EarlierIsOrder DEF y

\* The reader takes from the front of a stream.
LEMMA TakenInLine ==
  ASSUME TypeOK, NEW p \in Ranks, NEW r \in Ranks, InLine(p, r), send' = send, buffer' = buffer,
         NEW k \in {0, 1}, wire'[p][r] \in Seq(Frame), Len(wire'[p][r]) = Len(wire[p][r]) - k,
         \A i \in 1 .. Len(wire'[p][r]) : wire'[p][r][i].of = wire[p][r][i + k].of
  PROVE  InLine(p, r)'
  <1> DEFINE s == wire[p][r]
             t == wire'[p][r]
  <1>1. /\ Len(s) \in Nat /\ Len(t) \in Nat /\ buffer \in Nat
        /\ \A i \in 1 .. Len(s) : s[i].of \in Exchanges
    BY Typed, LenProperties DEF Frame
  <1>2. \A i \in 1 .. Len(t) : i + k \in 1 .. Len(s) /\ t[i].of = s[i + k].of
    BY <1>1
  <1>3. t # <<>> => s # <<>> /\ t[Len(t)].of = s[Len(s)].of
    <2> SUFFICES ASSUME t # <<>> PROVE s # <<>> /\ t[Len(t)].of = s[Len(s)].of
      OBVIOUS
    <2>1. Len(t) \in 1 .. Len(t)
      BY <1>1, EmptySeq
    <2>2. Len(t) + k = Len(s) /\ Len(s) # 0
      BY <1>1, <2>1
    <2>3. s # <<>>
      BY <2>2, EmptySeq
    <2> QED BY <1>2, <2>1, <2>2, <2>3
  <1> HIDE DEF t
  <1>4. ASSUME NEW i \in 1 .. Len(t)
        PROVE  /\ send[p][t[i].of][r] # "idle"
               /\ \A j \in 1 .. Len(t) : i < j => Earlier(t[i].of, t[j].of)
    <2>1. /\ \A j \in 1 .. Len(s) : /\ send[p][s[j].of][r] # "idle"
                                    /\ \A m \in 1 .. Len(s) : j < m => Earlier(s[j].of, s[m].of)
      BY DEF InLine
    <2>2. send[p][t[i].of][r] # "idle"
      BY <1>2, <2>1
    <2>3. ASSUME NEW j \in 1 .. Len(t), i < j PROVE Earlier(t[i].of, t[j].of)
      <3>1. i + k \in 1 .. Len(s) /\ j + k \in 1 .. Len(s) /\ i + k < j + k
        BY <1>1, <1>2, <2>3
      <3> QED BY <1>2, <2>1, <3>1
    <2> QED BY <2>2, <2>3
  <1>5. \A y \in Exchanges : send[p][y][r] = "begun" /\ t # <<>> => t[Len(t)].of = y
    BY <1>3 DEF InLine
  <1>6. (\A y \in Exchanges : send[p][y][r] # "broken") =>
          /\ Len(t) <= buffer + 1
          /\ (\A y \in Exchanges : send[p][y][r] # "begun") => Len(t) <= buffer
    <2>1. (\A y \in Exchanges : send[p][y][r] # "broken") =>
            /\ Len(s) <= buffer + 1
            /\ (\A y \in Exchanges : send[p][y][r] # "begun") => Len(s) <= buffer
      BY DEF InLine
    <2>2. Len(t) <= Len(s)
      BY <1>1 DEF t
    <2> QED BY <1>1, <2>1, <2>2
  <1> QED BY <1>4, <1>5, <1>6 DEF InLine, t

\* What a read of r from p does: it takes from the stream, and adds p to what
\* the exchange has or leaves that alone.
Takes(r, x, p) ==
  /\ Reading(r, x, p) /\ UNCHANGED <<fixed, main, send, faults>>
  /\ status' = status \/ Fail(r, x)
  /\ head' \in [Ranks -> [Exchanges -> BOOLEAN]]
  /\ got' \in [Ranks -> [Exchanges -> UNION {[S -> Exchanges \cup {Foreign}] : S \in SUBSET Ranks}]]
  /\ wire' \in [Ranks -> [Ranks -> Seq(Frame)]]
  /\ \A o \in Ranks : o # r => head'[o] = head[o] /\ got'[o] = got[o]
  /\ \A y \in Exchanges : y # x => head'[r][y] = head[r][y] /\ got'[r][y] = got[r][y]
  /\ \A o, q \in Ranks : ~ (o = p /\ q = r) => wire'[o][q] = wire[o][q]
  /\ \/ got'[r][x] = got[r][x]
     \/ DOMAIN got'[r][x] = DOMAIN got[r][x] \cup {p} /\ ~ head'[r][x]
  /\ \A o \in DOMAIN got[r][x] : got'[r][x][o] = got[r][x][o]

\* What a stream not read from means to the reader.
LEMMA Aside ==
  ASSUME IInv, NEW r \in Ranks, NEW x \in Exchanges, NEW p \in Ranks, Takes(r, x, p), status' = status,
         NEW o \in Ranks, o # p, Aligned(o, r) \/ Doomed(o, r)
  PROVE  (Aligned(o, r) \/ Doomed(o, r))'
  <1>1. /\ wire'[o][r] = wire[o][r] /\ send' = send /\ main' = main
        /\ \A y \in Exchanges : y # x => head'[r][y] = head[r][y] /\ got'[r][y] = got[r][y]
        /\ TypeOK
    BY DEF Takes, IInv
  <1>2. \A y \in Exchanges : /\ o \in DOMAIN got'[r][y] <=> o \in DOMAIN got[r][y]
                             /\ o \in DOMAIN got[r][y] => got'[r][y][o] = got[r][y][o]
    <2> SUFFICES ASSUME NEW y \in Exchanges
                 PROVE  /\ o \in DOMAIN got'[r][y] <=> o \in DOMAIN got[r][y]
                        /\ o \in DOMAIN got[r][y] => got'[r][y][o] = got[r][y][o]
      OBVIOUS
    <2>1. CASE y = x
      BY <2>1 DEF Takes
    <2>2. CASE y # x
      BY <1>1, <2>2
    <2> QED BY <2>1, <2>2
  <1>3. \A y \in Exchanges : o \in Awaited(r, y)' <=> o \in Awaited(r, y)
    BY <1>2 DEF Awaited, Sources
  <1>4. ASSUME NEW y \in Exchanges
        PROVE  (Reading(r, y, o) /\ head[r][y])' <=> (Reading(r, y, o) /\ head[r][y])
    <2>1. CASE y = x
      <3>1. ~ Reading(r, x, o)
        <4> SUFFICES ASSUME Reading(r, x, o) PROVE FALSE
          OBVIOUS
        <4>1. p <= o /\ o <= p
          BY DEF Takes, Reading
        <4>2. p \in Int /\ o \in Int
          BY DEF Ranks
        <4> QED BY <4>1, <4>2
      <3>2. head'[r][x] => Awaited(r, x)' = Awaited(r, x)
        BY DEF Takes, Awaited, Sources
      <3>3. head'[r][x] => ~ Reading(r, x, o)'
        BY <1>1, <3>1, <3>2 DEF Reading, Left
      <3> QED BY <2>1, <3>1, <3>3
    <2>2. CASE y # x
      <3>1. Awaited(r, y)' = Awaited(r, y) /\ head'[r][y] = head[r][y]
        BY <1>1, <2>2 DEF Awaited, Sources
      <3>2. Reading(r, y, o)' <=> Reading(r, y, o)
        BY <1>1, <3>1 DEF Reading, Left
      <3> QED BY <3>1, <3>2
    <2> QED BY <2>1, <2>2
  <1>5. HeadOf(r, o)' <=> HeadOf(r, o)
    BY <1>4 DEF HeadOf
  <1>6. CASE Aligned(o, r)
    <2>1. \A i \in 1 .. Len(wire[o][r]) : wire[o][r][i].of \in Exchanges
      BY <1>1, Typed DEF Frame
    <2>2. Left(o)' <=> Left(o)
      BY <1>1 DEF Left
    <2>3. /\ \A y \in Exchanges : o \in DOMAIN got'[r][y] => send'[o][y][r] # "idle" /\ got'[r][y][o] = y
          /\ \A y \in Exchanges :
               (\E i \in 1 .. Len(wire'[o][r]) : wire'[o][r][i].of = y)
                 <=> send'[o][y][r] # "idle" /\ o \notin DOMAIN got'[r][y]
      <3>1. \A y \in Exchanges : o \in DOMAIN got[r][y] => send[o][y][r] # "idle" /\ got[r][y][o] = y
        BY <1>6 DEF Aligned
      <3>2. \A y \in Exchanges :
              (\E i \in 1 .. Len(wire[o][r]) : wire[o][r][i].of = y)
                <=> send[o][y][r] # "idle" /\ o \notin DOMAIN got[r][y]
        BY <1>6 DEF Aligned
      <3>3. \A y \in Exchanges : o \in DOMAIN got'[r][y] => send'[o][y][r] # "idle" /\ got'[r][y][o] = y
        BY <1>1, <1>2, <3>1
      <3>4. \A y \in Exchanges :
               (\E i \in 1 .. Len(wire'[o][r]) : wire'[o][r][i].of = y)
                 <=> send'[o][y][r] # "idle" /\ o \notin DOMAIN got'[r][y]
        BY <1>1, <1>2, <3>2
      <3> QED BY <3>3, <3>4
    <2>4. /\ HeadOf(r, o)' => wire'[o][r] # <<>>
          /\ \A i \in 1 .. Len(wire'[o][r]) :
               /\ wire'[o][r][i].part \in Remains <=> i = 1 /\ HeadOf(r, o)'
               /\ wire'[o][r][i].part \in Severed =>
                    send'[o][wire'[o][r][i].of][r] = "broken" \/ (Left(o)' /\ i = Len(wire'[o][r]))
      BY <1>1, <1>5, <1>6, <2>1, <2>2 DEF Aligned
    <2>5. Aligned(o, r)'
      BY <2>3, <2>4 DEF Aligned
    <2> QED BY <2>5
  <1>7. CASE Doomed(o, r)
    <2>1. Doomed(o, r)'
      BY <1>1, <1>3, <1>5, <1>7 DEF Doomed
    <2> QED BY <2>1
  <1> QED BY <1>6, <1>7

\* What a read keeps, if it keeps the stream it reads from.
LEMMA TakesKeep ==
  ASSUME IInv, NEW r \in Ranks, NEW x \in Exchanges, NEW p \in Ranks, Takes(r, x, p),
         InLine(p, r)', status' = status => (Clean(r) => (Aligned(p, r) \/ Doomed(p, r))')
  PROVE  IInv'
  <1>1. /\ status[r][x] = "running" /\ p \in Sources(r, x) /\ TypeOK
        /\ UNCHANGED <<fixed, main, send, faults>> /\ buffer' = buffer
    BY DEF Takes, Reading, Awaited, IInv, fixed
  <1>2. Completed' /\ InStep' /\ Ordered' /\ Onwards
        /\ status' \in [Ranks -> [Exchanges -> Statuses]]
        /\ (status' # status => ~ Clean(r)')
        /\ \A o \in Ranks, y \in Exchanges : status'[o][y] = status[o][y] \/ (o = r /\ y = x /\ status'[o][y] = "failing")
    <2>1. CASE status' = status
      <3>1. Completed' /\ Ordered'
        BY <1>1, <2>1 DEF IInv, Completed, Ordered, Started
      <3>2. InStep'
        BY <1>1, <2>1 DEF IInv, InStep, Within, Started
      <3>3. Onwards
        BY <1>1, <2>1 DEF Left, Onwards, Clean
      <3> QED BY <1>1, <2>1, <3>1, <3>2, <3>3, Typed
    <2>2. CASE Fail(r, x)
      <3>1. status' = [status EXCEPT ![r][x] = "failing"]
        BY <2>2 DEF Fail
      <3>2. \A y \in Exchanges : Earlier(y, x) => Ended(status[r][y])
        BY <1>1, OneRuns DEF Started
      <3>3. Completed' /\ InStep' /\ Ordered' /\ Onwards
        BY <1>1, <3>1, <3>2, StatusStep
      <3>4. status' \in [Ranks -> [Exchanges -> Statuses]]
        BY <1>1, <3>1, Typed DEF Statuses
      <3>5. \A o \in Ranks, y \in Exchanges : status'[o][y] = IF o = r /\ y = x THEN "failing" ELSE status[o][y]
        BY <1>1, <3>1, Typed
      <3> QED BY <3>3, <3>4, <3>5 DEF Clean
    <2> QED BY <2>1, <2>2 DEF Takes
  <1>3. Ends'
    <2> SUFFICES ASSUME NEW o \in Ranks, NEW y \in Exchanges
                 PROVE  /\ status'[o][y] = "queued" => y \in Pool(o)
                        /\ head'[o][y] => Started(o, y)'
                        /\ status'[o][y] = "ok" => Awaited(o, y)' = {}
                        /\ \A q \in Ranks :
                             /\ send[o][y][q] # "idle" => Started(o, y)' /\ q \in Targets(o, y)
                             /\ Ended(status'[o][y]) /\ q \in Targets(o, y) => send[o][y][q] \in {"sent", "broken"}
                             /\ status'[o][y] = "ok" => send[o][y][q] # "broken"
      BY <1>1 DEF Ends, Pool, Targets
    <2>1. Ends
      BY DEF IInv
    <2>2. CASE o = r /\ y = x
      <3>1. status'[o][y] \in {"running", "failing"}
        BY <1>1, <1>2, <2>2
      <3>2. \A q \in Ranks : send[o][y][q] # "idle" => q \in Targets(o, y)
        BY <2>1 DEF Ends
      <3> QED BY <3>1, <3>2 DEF Started, Ended
    <2>3. CASE ~ (o = r /\ y = x)
      <3>1. head'[o][y] = head[o][y] /\ Awaited(o, y)' = Awaited(o, y) /\ status'[o][y] = status[o][y]
        <4>1. got'[o][y] = got[o][y] /\ head'[o][y] = head[o][y]
          BY <2>3 DEF Takes
        <4> QED BY <1>2, <2>3, <4>1 DEF Awaited, Sources
      <3> QED BY <2>1, <3>1 DEF Ends, Started
    <2> QED BY <2>2, <2>3
  <1>4. Queued'
    <2>1. \A o, q \in Ranks : ~ (o = p /\ q = r) => wire'[o][q] = wire[o][q]
      BY DEF Takes
    <2>2. \A o, q \in Ranks : ~ (o = p /\ q = r) => InLine(o, q)'
      BY <1>1, <2>1, InLineStays DEF IInv, Queued
    <2> QED BY <2>2 DEF Queued
  <1>5. TypeOK'
    <2>1. \A o \in Ranks, y \in Exchanges : DOMAIN got'[o][y] \subseteq Sources(o, y)
      <3> SUFFICES ASSUME NEW o \in Ranks, NEW y \in Exchanges PROVE DOMAIN got'[o][y] \subseteq Sources(o, y)
        OBVIOUS
      <3>1. DOMAIN got[o][y] \subseteq Sources(o, y)
        BY <1>1, Typed
      <3>2. CASE o = r /\ y = x
        BY <1>1, <3>1, <3>2 DEF Takes
      <3>3. CASE ~ (o = r /\ y = x)
        <4>1. got'[o][y] = got[o][y]
          BY <3>3 DEF Takes
        <4> QED BY <3>1, <4>1
      <3> QED BY <3>2, <3>3
    <2>2. Shape
      BY <1>1, <1>2, <2>1, Typed DEF Shape, Takes
    <2>3. "timeout" \in FaultKinds
      BY DEF FaultKinds
    <2> QED BY <1>1, <1>4, <2>2, <2>3, FaultTyped, TypeStays
  <1>6. Exact'
    <2> SUFFICES ASSUME NEW o \in Ranks, NEW y \in Exchanges, y[1] < main[o].step
                 PROVE  got'[o][y] = [q \in Sources(o, y) |-> y]
      BY <1>1 DEF Exact, Sources
    <2>1. status[o][y] = "ok" /\ got[o][y] = [q \in Sources(o, y) |-> y]
      BY DEF IInv, Completed, Exact
    <2>2. ~ (o = r /\ y = x)
      BY <1>1, <2>1
    <2> QED BY <2>1, <2>2 DEF Takes
  <1>7. Streams'
    <2> SUFFICES ASSUME NEW o \in Ranks, NEW q \in Ranks, Clean(q)' PROVE (Aligned(o, q) \/ Doomed(o, q))'
      BY DEF Streams
    <2>1. Clean(q) /\ (Aligned(o, q) \/ Doomed(o, q))
      BY <1>2 DEF Onwards, IInv, Streams
    <2>2. CASE q = r
      <3>1. status' = status
        BY <1>2, <2>2
      <3>2. CASE o = p
        BY <2>1, <2>2, <3>1, <3>2
      <3>3. CASE o # p
        BY <2>1, <2>2, <3>1, <3>3, Aside
      <3> QED BY <3>2, <3>3
    <2>3. CASE q # r
      <3>1. got'[q] = got[q] /\ head'[q] = head[q] /\ wire'[o][q] = wire[o][q]
        BY <2>3 DEF Takes
      <3>2. /\ Left(q)' <=> Left(q)
            /\ Left(o) => Left(o)'
        BY <1>1 DEF Left
      <3>3. HeadOf(q, o)' <=> HeadOf(q, o)
        BY <1>2, <2>3, <3>1, <3>2, HeadStays
      <3>4. \A y \in Exchanges : /\ send'[o][y][q] = "idle" <=> send[o][y][q] = "idle"
                                 /\ send[o][y][q] = "broken" => send'[o][y][q] = "broken"
        BY <1>1
      <3>5. CASE Aligned(o, q)
        <4>1. Aligned(o, q)'
          BY <1>1, <3>1, <3>2, <3>3, <3>4, <3>5, AlignedStays
        <4> QED BY <4>1
      <3>6. CASE Doomed(o, q)
        <4>1. Doomed(o, q)'
          BY <1>1, <3>1, <3>3, <3>6, DoomedStays
        <4> QED BY <4>1
      <3> QED BY <2>1, <3>5, <3>6
    <2> QED BY <2>2, <2>3
  <1> QED BY <1>2, <1>3, <1>4, <1>5, <1>6, <1>7 DEF IInv

\* Reading a header.
LEMMA HeaderTakes ==
  ASSUME IInv, NEW r \in Ranks, NEW x \in Exchanges, NEW p \in Ranks, ReadHeader(r, x, p)
  PROVE  /\ Takes(r, x, p) /\ ~ head[r][x] /\ wire[p][r] # <<>> /\ got' = got
         /\ status' = status => wire[p][r][1].part \in {"whole", "cut"} /\ head'[r][x]
         /\ wire'[p][r] \in Seq(Frame) /\ Len(wire'[p][r]) = Len(wire[p][r])
         /\ \A i \in 1 .. Len(wire[p][r]) :
              /\ wire'[p][r][i].of = wire[p][r][i].of
              /\ wire'[p][r][i].part =
                   IF i > 1 THEN wire[p][r][i].part
                   ELSE IF wire[p][r][1].part \in {"whole", "body"} THEN "body" ELSE "scrap"
  <1> DEFINE s == wire[p][r]
             t == wire'[p][r]
  <1>1. /\ Reading(r, x, p) /\ ~ head[r][x] /\ s # <<>> /\ UNCHANGED <<fixed, main, send, got, faults>>
        /\ wire' = [wire EXCEPT ![p][r] = Bite(s)]
        /\ \/ /\ s[1].part \in {"whole", "cut"} /\ head' = [head EXCEPT ![r][x] = TRUE] /\ status' = status
           \/ Fail(r, x) /\ head' = head
    BY Typed DEF ReadHeader, IInv
  <1>2. /\ TypeOK /\ s \in Seq(Frame) /\ Len(s) \in Nat
        /\ \A i \in 1 .. Len(s) : s[i].of \in Exchanges /\ s[i].part \in Parts
        /\ head \in [Ranks -> [Exchanges -> BOOLEAN]] /\ buffer' = buffer
    BY <1>1, Typed DEF IInv, Frame, fixed
  <1>3. /\ t = Bite(s) /\ t \in Seq(Frame) /\ Len(t) = Len(s)
        /\ \A i \in 1 .. Len(s) :
             /\ t[i].of = s[i].of
             /\ t[i].part = IF i > 1 THEN s[i].part
                            ELSE IF s[1].part \in {"whole", "body"} THEN "body" ELSE "scrap"
        /\ wire' \in [Ranks -> [Ranks -> Seq(Frame)]]
        /\ \A o, q \in Ranks : ~ (o = p /\ q = r) => wire'[o][q] = wire[o][q]
    <2>1. /\ Bite(s) \in Seq(Frame) /\ Len(Bite(s)) = Len(s)
          /\ \A i \in 1 .. Len(s) :
               /\ Bite(s)[i].of = s[i].of
               /\ Bite(s)[i].part = IF i > 1 THEN s[i].part
                                    ELSE IF s[1].part \in {"whole", "body"} THEN "body" ELSE "scrap"
      BY <1>1, <1>2, BiteFacts
    <2>2. wire \in [Ranks -> [Ranks -> Seq(Frame)]]
      BY <1>2, Typed
    <2>3. /\ t = Bite(s) /\ wire' \in [Ranks -> [Ranks -> Seq(Frame)]]
          /\ \A o, q \in Ranks : ~ (o = p /\ q = r) => wire'[o][q] = wire[o][q]
      BY <1>1, <2>1, <2>2
    <2> QED BY <2>1, <2>3
  <1>4. /\ head' \in [Ranks -> [Exchanges -> BOOLEAN]]
        /\ \A o \in Ranks : o # r => head'[o] = head[o]
        /\ \A y \in Exchanges : y # x => head'[r][y] = head[r][y]
        /\ status' = status => head'[r][x]
    <2>1. CASE head' = [head EXCEPT ![r][x] = TRUE]
      BY <1>2, <2>1
    <2>2. CASE Fail(r, x) /\ head' = head
      <3>1. status'[r][x] = "failing" /\ status[r][x] = "running"
        BY <1>1, <1>2, <2>2, Typed DEF Fail, Reading
      <3> QED BY <1>2, <2>2, <3>1
    <2> QED BY <1>1, <2>1, <2>2
  <1>5. Takes(r, x, p)
    <2>1. got' = got /\ (status' = status \/ Fail(r, x))
      BY <1>1
    <2>2. got \in [Ranks -> [Exchanges -> UNION {[S -> Exchanges \cup {Foreign}] : S \in SUBSET Ranks}]]
      BY <1>2, Typed
    <2>3. UNCHANGED <<fixed, main, send, faults>>
      BY <1>1
    <2> QED BY <1>1, <1>3, <1>4, <2>1, <2>2, <2>3 DEF Takes
  <1>6. status' = status => s[1].part \in {"whole", "cut"} /\ head'[r][x]
    <2>1. Fail(r, x) => status' # status
      BY <1>1, <1>2, Typed DEF Fail, Reading
    <2> QED BY <1>1, <1>4, <2>1
  <1>7. got' = got
    BY <1>1
  <1> HIDE DEF t
  <1> QED BY <1>1, <1>3, <1>5, <1>6, <1>7 DEF t

LEMMA ReadHeaderKeeps ==
  ASSUME IInv, NEW r \in Ranks, NEW x \in Exchanges, NEW p \in Ranks, ReadHeader(r, x, p) PROVE IInv'
  <1> DEFINE s == wire[p][r]
             t == wire'[p][r]
  <1>1. /\ Takes(r, x, p) /\ ~ head[r][x] /\ s # <<>> /\ got' = got
        /\ status' = status => s[1].part \in {"whole", "cut"} /\ head'[r][x]
    BY HeaderTakes
  <1>2. /\ TypeOK /\ s \in Seq(Frame) /\ Len(s) \in Nat
        /\ \A i \in 1 .. Len(s) : s[i].of \in Exchanges /\ s[i].part \in Parts
        /\ buffer' = buffer /\ Reading(r, x, p) /\ UNCHANGED <<main, send>>
    BY <1>1, Typed DEF IInv, Frame, fixed, Takes
  <1>3. /\ t \in Seq(Frame) /\ Len(t) = Len(s)
        /\ \A i \in 1 .. Len(s) :
             /\ t[i].of = s[i].of
             /\ t[i].part = IF i > 1 THEN s[i].part
                            ELSE IF s[1].part \in {"whole", "body"} THEN "body" ELSE "scrap"
    BY HeaderTakes
  <1>6. InLine(p, r)'
    <2> DEFINE k == 0
    <2>1. k \in {0, 1} /\ Len(t) = Len(s) - k
      BY <1>2, <1>3
    <2>2. \A i \in 1 .. Len(t) : t[i].of = s[i + k].of
      BY <1>2, <1>3
    <2>3. InLine(p, r) /\ send' = send
      BY <1>2 DEF IInv, Queued
    <2> HIDE DEF k
    <2> QED BY <1>2, <1>3, <2>1, <2>2, <2>3, TakenInLine
  <1>7. ASSUME status' = status, Clean(r) PROVE (Aligned(p, r) \/ Doomed(p, r))'
    <2>1. /\ s[1].part \in {"whole", "cut"} /\ head'[r][x] /\ 1 \in 1 .. Len(s)
      BY <1>1, <1>2, <1>7, EmptySeq
    <2>2. Aligned(p, r)
      <3>1. ~ Doomed(p, r)
        BY <2>1 DEF Doomed, Remains
      <3> QED BY <1>7, <3>1 DEF IInv, Streams
    <2>3. HeadOf(r, p)' /\ t # <<>>
      <3>1. Reading(r, x, p)'
        BY <1>1, <1>2, <1>7 DEF Reading, Left, Awaited, Sources
      <3>2. t # <<>>
        BY <1>2, <1>3, <2>1, EmptySeq
      <3> QED BY <2>1, <3>1, <3>2 DEF HeadOf
    <2>4. ~ HeadOf(r, p)
      BY <2>1, <2>2 DEF Aligned, Remains
    <2>5. /\ \A y \in Exchanges : p \in DOMAIN got[r][y] => send[p][y][r] # "idle" /\ got[r][y][p] = y
          /\ \A y \in Exchanges :
               (\E i \in 1 .. Len(s) : s[i].of = y) <=> send[p][y][r] # "idle" /\ p \notin DOMAIN got[r][y]
          /\ \A i \in 1 .. Len(s) :
               /\ s[i].part \notin Remains
               /\ s[i].part \in Severed => send[p][s[i].of][r] = "broken" \/ (Left(p) /\ i = Len(s))
      BY <2>2, <2>4 DEF Aligned
    <2>6. got' = got /\ send' = send /\ (Left(p)' <=> Left(p))
      BY <1>1, <1>2 DEF Left
    <2> HIDE DEF t
    <2>7. \A y \in Exchanges :
            (\E i \in 1 .. Len(t) : t[i].of = y) <=> send'[p][y][r] # "idle" /\ p \notin DOMAIN got'[r][y]
      <3>1. \A y \in Exchanges : (\E i \in 1 .. Len(t) : t[i].of = y) <=> (\E i \in 1 .. Len(s) : s[i].of = y)
        BY <1>3
      <3> QED BY <2>5, <2>6, <3>1
    <2>8. ASSUME NEW i \in 1 .. Len(t)
          PROVE  /\ t[i].part \in Remains <=> i = 1
                 /\ t[i].part \in Severed => send[p][t[i].of][r] = "broken" \/ (Left(p) /\ i = Len(t))
      <3>1. CASE i = 1
        <4>1. t[i].part = (IF s[1].part = "whole" THEN "body" ELSE "scrap") /\ t[i].of = s[1].of
          BY <1>3, <2>1, <3>1
        <4>2. t[i].part \in Severed => s[1].part \in Severed
          BY <2>1, <4>1 DEF Severed
        <4>3. t[i].part \in Remains
          BY <4>1 DEF Remains
        <4>4. s[1].part \in Severed => send[p][s[1].of][r] = "broken" \/ (Left(p) /\ 1 = Len(s))
          BY <2>1, <2>5
        <4> QED BY <1>3, <3>1, <4>1, <4>2, <4>3, <4>4
      <3>2. CASE i # 1
        <4>1. i \in 1 .. Len(s) /\ i > 1
          BY <1>2, <1>3, <3>2
        <4>2. t[i].part = s[i].part /\ t[i].of = s[i].of
          BY <1>3, <4>1
        <4> QED BY <1>3, <2>5, <3>2, <4>1, <4>2
      <3> QED BY <3>1, <3>2
    <2>9. Aligned(p, r)'
      BY <2>3, <2>5, <2>6, <2>7, <2>8 DEF Aligned, t
    <2> QED BY <2>9
  <1> QED BY <1>1, <1>6, <1>7, TakesKeep

\* A payload that is whole is the one r waits for.
LEMMA WholePayload ==
  ASSUME IInv, NEW r \in Ranks, NEW x \in Exchanges, NEW p \in Ranks, Takes(r, x, p), Aligned(p, r),
         wire[p][r] # <<>>, wire[p][r][1].of = x, ~ HeadOf(r, p)', HeadOf(r, p),
         DOMAIN got'[r][x] = DOMAIN got[r][x] \cup {p}, got'[r][x][p] = x,
         wire'[p][r] = Tail(wire[p][r])
  PROVE  Aligned(p, r)'
  <1> DEFINE s == wire[p][r]
             t == wire'[p][r]
  <1>1. /\ s \in Seq(Frame) /\ Len(s) \in Nat /\ 1 \in 1 .. Len(s)
        /\ \A i \in 1 .. Len(s) : s[i].of \in Exchanges
    <2>1. s \in Seq(Frame) /\ Len(s) \in Nat /\ \A i \in 1 .. Len(s) : s[i].of \in Exchanges
      BY Typed DEF IInv, Frame
    <2>2. 1 \in 1 .. Len(s)
      BY <2>1, EmptySeq
    <2> QED BY <2>1, <2>2
  <1>2. Len(t) = Len(s) - 1 /\ \A i \in 1 .. Len(t) : t[i] = s[i + 1] /\ i + 1 \in 1 .. Len(s)
    <2>1. Len(t) = Len(s) - 1 /\ \A i \in 1 .. Len(t) : t[i] = s[i + 1]
      BY <1>1, HeadTailProperties
    <2> QED BY <1>1, <2>1
  <1>3. /\ \A i \in 1 .. Len(s) : i > 1 => s[i].of # x
    <2>1. \A i \in 1 .. Len(s) : i > 1 => Earlier(x, s[i].of)
      BY <1>1 DEF IInv, Queued, InLine
    <2> QED BY <2>1, EarlierIsOrder
  <1>4. /\ send' = send /\ (Left(p)' <=> Left(p))
        /\ \A y \in Exchanges : y # x => got'[r][y] = got[r][y]
        /\ \A o \in DOMAIN got[r][x] : got'[r][x][o] = got[r][x][o]
    BY DEF Takes, Left
  <1>5. /\ \A y \in Exchanges : p \in DOMAIN got[r][y] => send[p][y][r] # "idle" /\ got[r][y][p] = y
        /\ \A y \in Exchanges :
             (\E i \in 1 .. Len(s) : s[i].of = y) <=> send[p][y][r] # "idle" /\ p \notin DOMAIN got[r][y]
        /\ \A i \in 1 .. Len(s) :
             /\ s[i].part \in Remains <=> i = 1
             /\ s[i].part \in Severed => send[p][s[i].of][r] = "broken" \/ (Left(p) /\ i = Len(s))
    BY DEF Aligned
  <1> HIDE DEF t
  <1>6. ASSUME NEW y \in Exchanges, p \in DOMAIN got'[r][y]
        PROVE  send'[p][y][r] # "idle" /\ got'[r][y][p] = y
    <2>1. CASE y = x
      BY <1>1, <1>4, <1>5, <2>1
    <2>2. CASE y # x
      BY <1>4, <1>5, <1>6, <2>2
    <2> QED BY <2>1, <2>2
  <1>7. ASSUME NEW y \in Exchanges
        PROVE  (\E i \in 1 .. Len(t) : t[i].of = y) <=> send'[p][y][r] # "idle" /\ p \notin DOMAIN got'[r][y]
    <2>1. CASE y = x
      <3>1. \A i \in 1 .. Len(t) : t[i].of # x
        <4> SUFFICES ASSUME NEW i \in 1 .. Len(t) PROVE t[i].of # x
          OBVIOUS
        <4>1. i + 1 \in 1 .. Len(s) /\ i + 1 > 1 /\ t[i] = s[i + 1]
          BY <1>1, <1>2
        <4> QED BY <1>3, <4>1
      <3> QED BY <2>1, <3>1
    <2>2. CASE y # x
      <3>1. ASSUME NEW i \in 1 .. Len(s), s[i].of = y PROVE \E j \in 1 .. Len(t) : t[j].of = y
        <4>1. i # 1
          BY <2>2, <3>1
        <4>2. i - 1 \in 1 .. Len(t) /\ (i - 1) + 1 = i
          BY <1>1, <1>2, <4>1
        <4>3. t[i - 1] = s[i]
          BY <1>2, <4>2
        <4> QED BY <3>1, <4>2, <4>3
      <3>2. ASSUME NEW j \in 1 .. Len(t), t[j].of = y PROVE \E i \in 1 .. Len(s) : s[i].of = y
        BY <1>2, <3>2
      <3> QED BY <1>4, <1>5, <2>2, <3>1, <3>2
    <2> QED BY <2>1, <2>2
  <1>8. ASSUME NEW i \in 1 .. Len(t)
        PROVE  /\ t[i].part \notin Remains
               /\ t[i].part \in Severed => send[p][t[i].of][r] = "broken" \/ (Left(p) /\ i = Len(t))
    <2>1. i + 1 \in 1 .. Len(s) /\ i + 1 # 1 /\ t[i] = s[i + 1] /\ (i + 1 = Len(s) <=> i = Len(t))
      BY <1>1, <1>2
    <2>2. /\ s[i + 1].part \notin Remains
          /\ s[i + 1].part \in Severed => send[p][s[i + 1].of][r] = "broken" \/ (Left(p) /\ i + 1 = Len(s))
      BY <1>5, <2>1
    <2> QED BY <2>1, <2>2
  <1> QED BY <1>4, <1>6, <1>7, <1>8 DEF Aligned, t

\* After bytes of the next frame were taken for the end of one that was cut, the
\* next frame is of the same step.
LEMMA TornPayload ==
  ASSUME IInv, NEW r \in Ranks, NEW x \in Exchanges, NEW p \in Ranks, Takes(r, x, p), Aligned(p, r),
         Len(wire[p][r]) > 1, wire[p][r][1].of = x, wire[p][r][1].part = "scrap", ~ HeadOf(r, p)',
         wire'[p][r] = Bite(Tail(wire[p][r]))
  PROVE  Doomed(p, r)'
  <1> DEFINE s == wire[p][r]
             t == wire'[p][r]
  <1>1. /\ s \in Seq(Frame) /\ Len(s) \in Nat /\ 1 \in 1 .. Len(s) /\ 2 \in 1 .. Len(s)
        /\ \A i \in 1 .. Len(s) : s[i].of \in Exchanges
        /\ s # <<>>
    <2>1. s \in Seq(Frame) /\ Len(s) \in Nat /\ \A i \in 1 .. Len(s) : s[i].of \in Exchanges
      BY Typed DEF IInv, Frame
    <2> QED BY <2>1, EmptySeq
  <1>2. t # <<>> /\ t[1].part \in Remains
    <2> DEFINE u == Tail(s)
    <2>1. u \in Seq(Frame) /\ Len(u) = Len(s) - 1
      <3>1. u \in Seq(Frame)
        BY <1>1, HeadTailProperties
      <3>2. Len(u) = Len(s) - 1
        BY <1>1, HeadTailProperties
      <3> QED BY <3>1, <3>2
    <2>3. t = Bite(u)
      OBVIOUS
    <2> HIDE DEF u
    <2>2. u # <<>> /\ 1 \in 1 .. Len(u)
      <3>1. Len(u) >= 1 /\ Len(u) \in Nat
        BY <1>1, <2>1
      <3> QED BY <2>1, <3>1, EmptySeq
    <2>4. /\ t \in Seq(Frame) /\ Len(t) = Len(u)
          /\ t[1].part = IF u[1].part \in {"whole", "body"} THEN "body" ELSE "scrap"
      BY <2>1, <2>2, <2>3, BiteFacts
    <2>5. t # <<>>
      BY <2>2, <2>4, EmptySeq
    <2> QED BY <2>4, <2>5 DEF Remains
  <1>3. PICK y \in Exchanges : y = s[2].of /\ Earlier(x, y) /\ x # y
    <2>1. s[2].of \in Exchanges /\ Earlier(s[1].of, s[2].of)
      BY <1>1 DEF IInv, Queued, InLine
    <2> QED BY <2>1, EarlierIsOrder
  <1> HIDE DEF t
  <1>4. Started(p, y) /\ p \in Awaited(r, y)
    <2>1. send[p][y][r] # "idle" /\ p \notin DOMAIN got[r][y]
      BY <1>1, <1>3 DEF Aligned
    <2>2. Started(p, y) /\ r \in Targets(p, y)
      BY <1>3, <2>1 DEF IInv, Ends
    <2> QED BY <1>3, <2>1, <2>2, Neighbours DEF Awaited
  <1>5. status[p][x] # "ok"
    <2>1. send[p][x][r] = "broken"
      BY <1>1 DEF Aligned, Severed
    <2> QED BY <2>1 DEF IInv, Ends
  <1>6. status[r][x] = "running" /\ main'[r].step = main[r].step
    BY DEF Takes, Reading
  <1>7. y[1] = main[r].step
    <2>1. x[1] \in Int /\ y[1] \in Int /\ x[1] <= y[1] /\ main[r].step \in Int /\ main[p].step \in Int
      BY <1>3, EarlierIsOrder, Typed DEF IInv
    <2>2. ~ (x[1] < main[p].step) /\ ~ (y[1] > main[p].step)
      BY <1>3, <1>4, <1>5 DEF IInv, Completed, Started
    <2>3. ~ (x[1] < main[r].step) /\ ~ (x[1] > main[r].step)
      BY <1>6 DEF IInv, Completed
    <2> QED BY <2>1, <2>2, <2>3
  <1>8. p \in Awaited(r, y)'
    <2>1. got'[r][y] = got[r][y]
      BY <1>3 DEF Takes
    <2> QED BY <1>4, <2>1 DEF Awaited, Sources
  <1> QED BY <1>2, <1>3, <1>6, <1>7, <1>8 DEF Doomed, t

\* Reading a payload.
LEMMA PayloadTakes ==
  ASSUME IInv, NEW r \in Ranks, NEW x \in Exchanges, NEW p \in Ranks, ReadPayload(r, x, p)
  PROVE  /\ Takes(r, x, p) /\ head[r][x] /\ wire[p][r] # <<>> /\ ~ head'[r][x]
         /\ wire[p][r][1].part = "scrap" => Len(wire[p][r]) > 1
         /\ wire'[p][r] \in Seq(Frame)
         /\ \E k \in {0, 1} :
              /\ Len(wire'[p][r]) = Len(wire[p][r]) - k
              /\ \A i \in 1 .. Len(wire'[p][r]) :
                   /\ wire'[p][r][i].of = wire[p][r][i + k].of
                   /\ wire'[p][r][i].part \in Severed => wire[p][r][i + k].part \in Severed
         /\ wire[p][r][1].part = "body" => wire'[p][r] = Tail(wire[p][r])
         /\ wire[p][r][1].part = "scrap" => wire'[p][r] = Bite(Tail(wire[p][r]))
         /\ \/ /\ status' = status
               /\ DOMAIN got'[r][x] = DOMAIN got[r][x] \cup {p}
               /\ wire[p][r][1].part = "body" => got'[r][x][p] = wire[p][r][1].of
            \/ /\ Fail(r, x) /\ status' # status
               /\ wire[p][r][1].part = "body" => ~ Fits(x, wire[p][r][1].of)
  <1> DEFINE s == wire[p][r]
             t == wire'[p][r]
             part == s[1].part
             value == IF part = "body" THEN s[1].of ELSE Foreign
             fails == ~ Bare(x) /\ ~ (part = "body" /\ Fits(x, s[1].of))
             more == [got EXCEPT ![r][x] = [o \in DOMAIN got[r][x] \cup {p} |-> IF o = p THEN value ELSE got[r][x][o]]]
  <1>1. /\ Reading(r, x, p) /\ head[r][x] /\ s # <<>> /\ UNCHANGED <<fixed, main, send, faults>>
        /\ part = "scrap" => Len(s) > 1
        /\ wire' = [wire EXCEPT ![p][r] = CASE part = "body" -> Tail(s) [] part = "scrap" -> Bite(Tail(s))
                                            [] OTHER -> Bite(s)]
        /\ head' = [head EXCEPT ![r][x] = FALSE]
    BY Typed DEF ReadPayload, IInv
  <1>2. \/ fails /\ Fail(r, x) /\ got' = got
        \/ ~ fails /\ got' = more /\ status' = status
    BY Typed DEF ReadPayload, IInv
  <1>3. /\ TypeOK /\ s \in Seq(Frame) /\ Len(s) \in Nat /\ 1 \in 1 .. Len(s)
        /\ \A i \in 1 .. Len(s) : s[i].of \in Exchanges /\ s[i].part \in Parts
        /\ buffer' = buffer /\ status[r][x] = "running" /\ p \in Awaited(r, x)
    <2>1. /\ TypeOK /\ s \in Seq(Frame) /\ Len(s) \in Nat
          /\ \A i \in 1 .. Len(s) : s[i].of \in Exchanges /\ s[i].part \in Parts
      BY Typed DEF IInv, Frame
    <2>2. buffer' = buffer /\ status[r][x] = "running" /\ p \in Awaited(r, x)
      BY <1>1 DEF fixed, Reading
    <2> QED BY <1>1, <2>1, <2>2, EmptySeq
  <1>4. PICK k \in {0, 1} :
          /\ t \in Seq(Frame) /\ Len(t) = Len(s) - k
          /\ \A i \in 1 .. Len(t) :
               t[i].of = s[i + k].of /\ (t[i].part \in Severed => s[i + k].part \in Severed)
    <2>1. wire \in [Ranks -> [Ranks -> Seq(Frame)]]
      BY <1>3, Typed
    <2>2. /\ part = "body" => t = Tail(s)
          /\ part = "scrap" => t = Bite(Tail(s))
          /\ part \notin {"body", "scrap"} => t = Bite(s)
      BY <1>1, <2>1
    <2> DEFINE u == Tail(s)
    <2>3. u \in Seq(Frame) /\ Len(u) = Len(s) - 1 /\ \A i \in 1 .. Len(u) : u[i] = s[i + 1]
      BY <1>1, <1>3, HeadTailProperties
    <2> HIDE DEF t, u, part
    <2>4. CASE part = "body"
      <3>1. t = u
        BY <2>2, <2>4 DEF u
      <3> QED BY <2>3, <3>1
    <2>5. CASE part = "scrap"
      <3>1. t = Bite(u) /\ Len(s) > 1
        BY <1>1, <2>2, <2>5 DEF u, part
      <3>2. Len(u) >= 1 /\ Len(u) \in Nat
        BY <1>3, <2>3, <3>1
      <3>3. u # <<>>
        BY <2>3, <3>2, EmptySeq
      <3>4. /\ t \in Seq(Frame) /\ Len(t) = Len(u)
            /\ \A i \in 1 .. Len(u) :
                 /\ t[i].of = u[i].of
                 /\ t[i].part = IF i > 1 THEN u[i].part
                                ELSE IF u[1].part \in {"whole", "body"} THEN "body" ELSE "scrap"
        BY <2>3, <3>1, <3>3, BiteFacts
      <3>5. \A i \in 1 .. Len(u) : u[i].part \in Parts
        <4>1. \A i \in 1 .. Len(u) : u[i] \in Frame
          BY <2>3, ElementOfSeq
        <4> QED BY <4>1 DEF Frame
      <3>6. \A i \in 1 .. Len(u) : t[i].part \in Severed => u[i].part \in Severed
        BY <2>3, <3>4, <3>5 DEF Severed, Parts
      <3> DEFINE k == 1
      <3>7. k \in {0, 1} /\ Len(t) = Len(s) - k /\ \A i \in 1 .. Len(t) : u[i] = s[i + k]
        BY <2>3, <3>4
      <3>8. \A i \in 1 .. Len(t) :
              t[i].of = s[i + k].of /\ (t[i].part \in Severed => s[i + k].part \in Severed)
        BY <3>4, <3>6, <3>7
      <3> HIDE DEF k
      <3> QED BY <3>4, <3>7, <3>8
    <2>6. CASE part \notin {"body", "scrap"}
      <3>1. t = Bite(s)
        BY <2>2, <2>6
      <3>2. /\ t \in Seq(Frame) /\ Len(t) = Len(s)
            /\ \A i \in 1 .. Len(s) :
                 /\ t[i].of = s[i].of
                 /\ t[i].part = IF i > 1 THEN s[i].part
                                ELSE IF s[1].part \in {"whole", "body"} THEN "body" ELSE "scrap"
        BY <1>1, <1>3, <3>1, BiteFacts
      <3>3. \A i \in 1 .. Len(s) : t[i].part \in Severed => s[i].part \in Severed
        BY <1>3, <3>2 DEF Severed, Parts
      <3> DEFINE k == 0
      <3>4. k \in {0, 1} /\ Len(t) = Len(s) - k /\ \A i \in 1 .. Len(t) : i + k = i
        BY <1>3, <3>2
      <3>5. \A i \in 1 .. Len(t) :
              t[i].of = s[i + k].of /\ (t[i].part \in Severed => s[i + k].part \in Severed)
        BY <3>2, <3>3, <3>4
      <3> HIDE DEF k
      <3> QED BY <3>2, <3>4, <3>5
    <2> QED BY <2>4, <2>5, <2>6
  <1>5. /\ wire' \in [Ranks -> [Ranks -> Seq(Frame)]]
        /\ \A o, q \in Ranks : ~ (o = p /\ q = r) => wire'[o][q] = wire[o][q]
    <2>1. wire \in [Ranks -> [Ranks -> Seq(Frame)]]
      BY <1>3, Typed
    <2>2. wire' = [wire EXCEPT ![p][r] = t]
      BY <1>1, <2>1
    <2> HIDE DEF t
    <2> QED BY <1>4, <2>1, <2>2
  <1>6. /\ head' \in [Ranks -> [Exchanges -> BOOLEAN]] /\ ~ head'[r][x]
        /\ \A o \in Ranks : o # r => head'[o] = head[o]
        /\ \A y \in Exchanges : y # x => head'[r][y] = head[r][y]
    <2>1. head \in [Ranks -> [Exchanges -> BOOLEAN]]
      BY <1>3, Typed
    <2> QED BY <1>1, <2>1
  <1>7. /\ got' \in [Ranks -> [Exchanges -> UNION {[S -> Exchanges \cup {Foreign}] : S \in SUBSET Ranks}]]
        /\ \A o \in Ranks : o # r => got'[o] = got[o]
        /\ \A y \in Exchanges : y # x => got'[r][y] = got[r][y]
        /\ \A o \in DOMAIN got[r][x] : got'[r][x][o] = got[r][x][o]
        /\ \/ got' = got
           \/ DOMAIN got'[r][x] = DOMAIN got[r][x] \cup {p} /\ got'[r][x][p] = value
    <2> DEFINE Values == UNION {[S -> Exchanges \cup {Foreign}] : S \in SUBSET Ranks}
    <2>1. got \in [Ranks -> [Exchanges -> Values]]
      BY <1>3, Typed
    <2>2. CASE got' = got
      BY <2>1, <2>2
    <2>3. CASE got' = more
      <3> DEFINE g == [o \in DOMAIN got[r][x] \cup {p} |-> IF o = p THEN value ELSE got[r][x][o]]
      <3>1. PICK S \in SUBSET Ranks : got[r][x] \in [S -> Exchanges \cup {Foreign}]
        <4>1. got[r][x] \in Values
          BY <2>1
        <4> QED BY <4>1
      <3>2. value \in Exchanges \cup {Foreign}
        BY <1>3
      <3> HIDE DEF value
      <3>3. g \in [S \cup {p} -> Exchanges \cup {Foreign}]
        BY <3>1, <3>2
      <3>4. S \cup {p} \in SUBSET Ranks
        OBVIOUS
      <3>5. g \in Values
        BY <3>3, <3>4
      <3>6. p \notin DOMAIN got[r][x]
        BY <1>3 DEF Awaited
      <3>7. /\ DOMAIN g = DOMAIN got[r][x] \cup {p} /\ g[p] = value
            /\ \A o \in DOMAIN got[r][x] : g[o] = got[r][x][o]
        BY <3>6
      <3>8. got' = [got EXCEPT ![r][x] = g]
        BY <2>3
      <3> HIDE DEF g, Values
      <3>9. /\ got' \in [Ranks -> [Exchanges -> Values]]
            /\ \A o \in Ranks : o # r => got'[o] = got[o]
            /\ \A y \in Exchanges : y # x => got'[r][y] = got[r][y]
            /\ got'[r][x] = g
        BY <2>1, <3>5, <3>8
      <3> QED BY <3>7, <3>9 DEF Values
    <2> QED BY <1>2, <2>2, <2>3
  <1> HIDE DEF more, fails, t
  <1>8. Takes(r, x, p)
    <2>1. status' = status \/ Fail(r, x)
      BY <1>2
    <2>2. UNCHANGED <<fixed, main, send, faults>> /\ Reading(r, x, p)
      BY <1>1
    <2> QED BY <1>5, <1>6, <1>7, <2>1, <2>2 DEF Takes
  <1>9. /\ part = "body" => t = Tail(s)
        /\ part = "scrap" => t = Bite(Tail(s))
    <2>1. wire \in [Ranks -> [Ranks -> Seq(Frame)]]
      BY <1>3, Typed
    <2> QED BY <1>1, <2>1 DEF t
  <1>10. CASE fails /\ Fail(r, x) /\ got' = got
    <2>1. status' # status
      BY <1>3, <1>10, Typed DEF Fail
    <2>2. part = "body" => ~ Fits(x, s[1].of)
      BY <1>10 DEF fails
    <2> HIDE DEF s, part
    <2> QED BY <1>1, <1>4, <1>6, <1>8, <1>9, <1>10, <2>1, <2>2 DEF t, s, part
  <1>11. CASE ~ fails /\ got' = more /\ status' = status
    <2>1. got' # got
      <3>1. p \notin DOMAIN got[r][x]
        BY <1>3 DEF Awaited
      <3>2. p \in DOMAIN got'[r][x]
        BY <1>3, <1>11, Typed DEF more
      <3> QED BY <3>1, <3>2
    <2>2. DOMAIN got'[r][x] = DOMAIN got[r][x] \cup {p} /\ got'[r][x][p] = value
      BY <1>7, <2>1
    <2> QED BY <1>1, <1>4, <1>6, <1>8, <1>9, <1>11, <2>2 DEF t
  <1> QED BY <1>2, <1>10, <1>11

LEMMA ReadPayloadKeeps ==
  ASSUME IInv, NEW r \in Ranks, NEW x \in Exchanges, NEW p \in Ranks, ReadPayload(r, x, p) PROVE IInv'
  <1> DEFINE s == wire[p][r]
  <1>1. Takes(r, x, p) /\ head[r][x] /\ s # <<>> /\ ~ head'[r][x] /\ wire'[p][r] \in Seq(Frame)
    BY PayloadTakes
  <1>2. /\ TypeOK /\ s \in Seq(Frame) /\ Len(s) \in Nat /\ 1 \in 1 .. Len(s)
        /\ \A i \in 1 .. Len(s) : s[i].of \in Exchanges /\ s[i].part \in Parts
        /\ Reading(r, x, p) /\ status[r][x] = "running" /\ send' = send /\ buffer' = buffer
    <2>1. /\ TypeOK /\ s \in Seq(Frame) /\ Len(s) \in Nat
          /\ \A i \in 1 .. Len(s) : s[i].of \in Exchanges /\ s[i].part \in Parts
      BY Typed DEF IInv, Frame
    <2>2. Reading(r, x, p) /\ status[r][x] = "running" /\ send' = send /\ buffer' = buffer
      BY <1>1 DEF Takes, Reading, fixed
    <2> QED BY <1>1, <2>1, <2>2, EmptySeq
  <1>3. InLine(p, r)'
    <2>1. InLine(p, r)
      BY DEF IInv, Queued
    <2>2. PICK k \in {0, 1} :
            /\ Len(wire'[p][r]) = Len(wire[p][r]) - k
            /\ \A i \in 1 .. Len(wire'[p][r]) : wire'[p][r][i].of = wire[p][r][i + k].of
      BY PayloadTakes
    <2> QED BY <1>1, <1>2, <2>1, <2>2, TakenInLine
  <1>4. ASSUME status' = status, Clean(r) PROVE (Aligned(p, r) \/ Doomed(p, r))'
    <2>1. HeadOf(r, p) /\ ~ Doomed(p, r)
      BY <1>1, <1>2 DEF HeadOf, Doomed
    <2>2. Aligned(p, r)
      BY <1>4, <2>1 DEF IInv, Streams
    <2>3. s[1].of = x /\ s[1].part \in Remains
      <3>1. s[1].of = x
        BY <1>1, <1>2, <1>4, <2>2, FirstIsMine
      <3>2. s[1].part \in Remains
        BY <1>2, <2>1, <2>2 DEF Aligned
      <3> QED BY <3>1, <3>2
    <2>4. ~ HeadOf(r, p)'
      <3> SUFFICES ASSUME NEW y \in Exchanges, Reading(r, y, p)', head'[r][y] PROVE FALSE
        BY DEF HeadOf
      <3>1. y # x /\ head'[r][y] = head[r][y]
        BY <1>1 DEF Takes
      <3>2. status[r][y] = "running"
        BY <1>4 DEF Reading
      <3> QED BY <1>2, <3>1, <3>2, OneRuns DEF Started, Ended
    <2>5. CASE s[1].part = "body"
      <3>1. /\ DOMAIN got'[r][x] = DOMAIN got[r][x] \cup {p} /\ got'[r][x][p] = x
            /\ wire'[p][r] = Tail(wire[p][r])
        BY <1>4, <2>3, <2>5, PayloadTakes
      <3>2. Aligned(p, r)'
        BY <1>1, <2>1, <2>2, <2>3, <2>4, <3>1, WholePayload
      <3> QED BY <3>2
    <2>6. CASE s[1].part = "scrap"
      <3>1. wire'[p][r] = Bite(Tail(wire[p][r])) /\ Len(s) > 1
        BY <2>6, PayloadTakes
      <3>2. Doomed(p, r)'
        BY <1>1, <2>2, <2>3, <2>4, <2>6, <3>1, TornPayload
      <3> QED BY <3>2
    <2> QED BY <2>3, <2>5, <2>6 DEF Remains
  <1> QED BY <1>1, <1>3, <1>4, TakesKeep

-----------------------------------------------------------------------------
(* The invariant holds in every state.                                     *)

LEMMA Starts == Init => IInv
  <1> SUFFICES ASSUME Init PROVE IInv
    OBVIOUS
  <1>1. /\ transport \in Transports /\ buffer \in Buffers /\ element_bytes \in Widths
        /\ main = [r \in Ranks |-> [step |-> 1, field |-> 1, phase |-> "next"]]
        /\ status = [r \in Ranks |-> [x \in Exchanges |-> "none"]]
        /\ send = [r \in Ranks |-> [x \in Exchanges |-> [q \in Ranks |-> "idle"]]]
        /\ head = [r \in Ranks |-> [x \in Exchanges |-> FALSE]]
        /\ got = [r \in Ranks |-> [x \in Exchanges |-> <<>>]]
        /\ wire = [r \in Ranks |-> [q \in Ranks |-> <<>>]]
        /\ faults = {} /\ buffer \in Nat
    BY HaloAssumption DEF Init
  <1>2. /\ \A r \in Ranks : main[r].step = 1 /\ main[r].field = 1 /\ main[r].phase = "next"
        /\ \A r \in Ranks, x \in Exchanges : status[r][x] = "none" /\ ~ head[r][x] /\ DOMAIN got[r][x] = {}
        /\ \A r, q \in Ranks : wire[r][q] = <<>> /\ Len(wire[r][q]) = 0
        /\ \A r, q \in Ranks : \A x \in Exchanges : send[r][x][q] = "idle"
    BY <1>1
  <1>3. TypeOK
    <2>1. main \in [Ranks -> [step : 1 .. (Len(Program) + 1), field : Nat,
                              phase : {"next", "inline", "submit", "interior", "drain",
                                       "collect", "raised", "gone", "done"}]]
      <3>1. 1 \in 1 .. (Len(Program) + 1)
        BY ExchangeShape
      <3> QED BY <1>1, <3>1
    <2>2. /\ status \in [Ranks -> [Exchanges -> {"none", "queued", "running", "failing", "ok", "failed"}]]
          /\ send \in [Ranks -> [Exchanges -> [Ranks -> {"idle", "begun", "sent", "broken"}]]]
          /\ head \in [Ranks -> [Exchanges -> BOOLEAN]]
      BY <1>1
    <2>3. got \in [Ranks -> [Exchanges -> UNION {[S -> Exchanges \cup {Foreign}] : S \in SUBSET Ranks}]]
      <3>1. <<>> \in [{} -> Exchanges \cup {Foreign}] /\ {} \in SUBSET Ranks
        OBVIOUS
      <3>2. <<>> \in UNION {[S -> Exchanges \cup {Foreign}] : S \in SUBSET Ranks}
        BY <3>1
      <3> QED BY <1>1, <3>2
    <2>4. wire \in [Ranks -> [Ranks -> Seq([of : Exchanges, part : Parts])]]
      BY <1>1
    <2>5. /\ \A r \in Ranks, x \in Exchanges : DOMAIN got[r][x] \subseteq Sources(r, x)
          /\ \A r, q \in Ranks : Len(wire[r][q]) <= buffer + 1
      BY <1>1, <1>2
    <2>6. /\ transport \in Transports /\ buffer \in Buffers /\ element_bytes \in Widths
          /\ faults \subseteq [kind : FaultKinds, rank : Ranks, step : 1 .. (Len(Program) + 1)]
      BY <1>1
    <2> QED BY <2>1, <2>2, <2>3, <2>4, <2>5, <2>6 DEF TypeOK
  <1>4. Completed
    <2> SUFFICES ASSUME NEW r \in Ranks, NEW x \in Exchanges PROVE ~ (x[1] < main[r].step)
      BY <1>2 DEF Completed
    <2>1. x[1] \in 1 .. Len(Program)
      BY ExchangeShape
    <2> QED BY <1>2, <2>1
  <1>5. InStep
    BY <1>2 DEF InStep, Within, Working, Posted
  <1>6. Ordered
    BY <1>2 DEF Ordered, Started
  <1>7. Ends
    BY <1>2 DEF Ends, Ended
  <1>8. Queued
    BY <1>1, <1>2 DEF Queued, InLine
  <1>9. Streams
    <2> SUFFICES ASSUME NEW p \in Ranks, NEW q \in Ranks PROVE Aligned(p, q)
      BY DEF Streams
    <2>1. ~ HeadOf(q, p)
      BY <1>2 DEF HeadOf
    <2> QED BY <1>2, <2>1 DEF Aligned
  <1>10. Exact
    <2> SUFFICES ASSUME NEW r \in Ranks, NEW x \in Exchanges PROVE ~ (x[1] < main[r].step)
      BY DEF Exact
    <2>1. x[1] \in 1 .. Len(Program)
      BY ExchangeShape
    <2> QED BY <1>2, <2>1
  <1> QED BY <1>3, <1>4, <1>5, <1>6, <1>7, <1>8, <1>9, <1>10 DEF IInv

\* The expiry of a wait, whether it is a fault or ends a stall.
LEMMA TimesOutKeeps ==
  ASSUME IInv, NEW r \in Ranks, TimesOut(r), UNCHANGED faults \/ Fault(r, "timeout") PROVE IInv'
  <1>1. PICK x \in Exchanges, p \in Ranks : SendTimesOut(r, x, p) \/ ReadTimesOut(r, x, p)
    BY DEF TimesOut
  <1>2. UNCHANGED <<fixed, main, head>>
    BY DEF TimesOut
  <1> DEFINE kind == "timeout"
  <1>3. kind \in FaultKinds /\ (UNCHANGED faults \/ Fault(r, kind))
    BY DEF FaultKinds
  <1> HIDE DEF kind
  <1>4. CASE SendTimesOut(r, x, p)
    BY <1>2, <1>3, <1>4, SendTimesOutKeeps
  <1>5. CASE ReadTimesOut(r, x, p)
    <2>1. Reading(r, x, p) /\ Fail(r, x) /\ UNCHANGED <<fixed, main, send, head, got, wire>>
      BY <1>2, <1>5 DEF ReadTimesOut
    <2> QED BY <1>3, <2>1, FailKeeps
  <1> QED BY <1>1, <1>4, <1>5

LEMMA ReadEndsKeeps ==
  ASSUME IInv, NEW r \in Ranks, NEW x \in Exchanges, NEW p \in Ranks, ReadEnds(r, x, p) PROVE IInv'
  <1>1. /\ Reading(r, x, p) /\ Fail(r, x) /\ UNCHANGED <<fixed, main, send, head, got, wire>>
        /\ UNCHANGED faults
    BY DEF ReadEnds
  <1> DEFINE kind == "timeout"
  <1>2. kind \in FaultKinds
    BY DEF FaultKinds
  <1> HIDE DEF kind
  <1> QED BY <1>1, <1>2, FailKeeps

LEMMA Stutters ==
  ASSUME IInv, UNCHANGED vars PROVE IInv'
  <1>1. Quiet /\ UNCHANGED <<send, wire, faults, buffer>>
    BY DEF vars, Quiet, fixed
  <1>2. Ends'
    BY <1>1 DEF IInv, Ends, Quiet, Started, Pool, Awaited, Sources, Targets
  <1>3. Queued'
    BY <1>1, QueuedStays
  <1>4. Streams'
    BY <1>1, QuietKeeps, Calm DEF Quiet
  <1>5. TypeOK'
    BY <1>1 DEF IInv, TypeOK, Quiet, fixed, Sources
  <1> QED BY <1>1, <1>2, <1>3, <1>4, <1>5, QuietKeeps DEF IInv

LEMMA Keeps == ASSUME Workers = 1, IInv, [Next]_vars PROVE IInv'
  <1>1. CASE UNCHANGED vars
    BY <1>1, Stutters
  <1>2. CASE Next
    <2>1. PICK r \in Ranks : Runs(r) \/ Expire(r) \/ Faulty(r)
      BY <1>2 DEF Next
    <2>2. CASE Progress(r)
      <3>1. CASE \E x \in Exchanges : PickUp(r, x)
        BY <3>1, PickUpKeeps
      <3>2. CASE \E x \in Exchanges : Finish(r, x)
        BY <3>2, FinishKeeps
      <3>3. CASE \/ BeginStep(r) \/ Inline(r) \/ Submit(r) \/ Interior(r) \/ Drain(r)
                 \/ Collect(r) \/ Close(r)
        <4>1. Moves(r) /\ UNCHANGED wire
          BY <3>3 DEF Moves, BeginStep, Inline, Submit, Interior, Drain, Collect, Close
        <4> QED BY <4>1, MovesKeep
      <3> QED BY <2>2, <3>1, <3>2, <3>3 DEF Progress
    <2>3. CASE Receive(r)
      <3>1. PICK x \in Exchanges, p \in Ranks :
              ReadHeader(r, x, p) \/ ReadPayload(r, x, p) \/ ReadEnds(r, x, p)
        BY <2>3 DEF Receive
      <3> QED BY <3>1, ReadHeaderKeeps, ReadPayloadKeeps, ReadEndsKeeps
    <2>4. CASE \E q \in Ranks : Send(r, q)
      <3>1. PICK q \in Ranks, x \in Exchanges :
              SendBegins(r, x, q) \/ SendReturns(r, x, q) \/ SendBreaks(r, x, q)
        BY <2>4 DEF Send
      <3> QED BY <3>1, SendBeginsKeeps, SendReturnsKeeps, SendBreaksKeeps
    <2>5. CASE Expire(r) \/ TooSlow(r)
      <3>1. TimesOut(r) /\ (UNCHANGED faults \/ Fault(r, "timeout"))
        BY <2>5 DEF Expire, TooSlow
      <3> QED BY <3>1, TimesOutKeeps
    <2>6. CASE ReadFails(r) \/ InteriorFails(r)
      <3>1. Moves(r) /\ UNCHANGED wire
        BY <2>6 DEF Moves, ReadFails, InteriorFails
      <3> QED BY <3>1, MovesKeep
    <2>7. CASE Crash(r)
      BY <2>7, CrashKeeps
    <2> QED BY <2>1, <2>2, <2>3, <2>4, <2>5, <2>6, <2>7 DEF Runs, Faulty
  <1> QED BY <1>1, <1>2

\* With one progress thread: whatever fails, is killed or is delayed, here or
\* on another rank, a step of the program that ended without an error has, for
\* every ghost of every field, the value its owner gave to that field in that
\* step; and a stream on which no send was cut off never holds more than fits.
THEOREM CallsAlwaysExact ==
  ASSUME Workers = 1
  PROVE  Spec => []CallsExact
  <1>1. IInv => CallsExact
    BY DEF IInv, Completed, Exact, CallsExact
  <1> QED BY <1>1, Starts, Keeps, PTL DEF Spec

-----------------------------------------------------------------------------
(* What no fault can reach.                                                *)

\* Nothing went wrong that may harm the step s: at most the computation of a
\* rank, in this step or in a later one.
Spared(s) == \A f \in faults : f.kind = "interior" /\ s <= f.step

\* No exchange of such a step fails, and no send is cut off.
Unharmed ==
  \A r \in Ranks, x \in Exchanges : Spared(x[1]) =>
    /\ status[r][x] \notin {"failing", "failed"}
    /\ \A q \in Ranks : send[r][x][q] # "broken"

\* What is not posted runs on the main thread, which waits for it.
Alone ==
  \A r \in Ranks, x \in Exchanges :
    status[r][x] = "running" /\ x \notin Pool(r) /\ ~ Left(r)
      => main[r].phase = "inline" /\ x = Here(r)

\* A rank that gives up has submitted all of it, and completes it before it leaves.
Drained ==
  \A r \in Ranks, x \in Exchanges : Spared(x[1]) =>
    /\ main[r].phase \in {"drain", "raised"} => status[r][x] # "none"
    /\ Left(r) => status[r][x] = "ok"

\* Its frames arrive whole and are read once.
Undoomed == \A p, q \in Ranks : Clean(q) /\ Spared(main[q].step) => ~ Doomed(p, q)

Intact(p, q) ==
  \A i \in 1 .. Len(wire[p][q]) :
    Spared(wire[p][q][i].of[1]) => wire[p][q][i].part \notin Severed

TakenOut(p, q) ==
  \A x \in Exchanges : Spared(x[1]) /\ p \in DOMAIN got[q][x] =>
    /\ send[p][x][q] # "idle"
    /\ \A i \in 1 .. Len(wire[p][q]) : wire[p][q][i].of # x

Whole == \A p, q \in Ranks : Intact(p, q) /\ TakenOut(p, q)

SInv == IInv /\ Unharmed /\ Alone /\ Drained /\ Undoomed /\ Whole

-----------------------------------------------------------------------------
\* The steps before one that is spared are spared.
LEMMA SparedBelow ==
  ASSUME TypeOK, NEW s \in Int, NEW t \in Int, s <= t, Spared(t)
  PROVE  Spared(s)
  <1> SUFFICES ASSUME NEW f \in faults PROVE s <= f.step
    BY DEF Spared
  <1>1. f.step \in Int /\ t <= f.step
    BY ExchangeShape DEF TypeOK, Spared
  <1> QED BY <1>1

\* A fault spares nothing, but for the computation of a rank.
LEMMA FaultSpares ==
  ASSUME NEW r \in Ranks, NEW kind, Fault(r, kind)
  PROVE  /\ faults \subseteq faults'
         /\ kind # "interior" => \A s \in Int : ~ Spared(s)'
         /\ \A s \in Int : Spared(s)' => s <= main[r].step
  <1>1. faults \subseteq faults' /\ [kind |-> kind, rank |-> r, step |-> main[r].step] \in faults'
    BY DEF Fault
  <1> QED BY <1>1 DEF Spared

LEMMA SparedStays ==
  ASSUME faults \subseteq faults' PROVE \A s \in Int : Spared(s)' => Spared(s)
  BY DEF Spared

\* The exchange a rank has not ended is of the step it is in.
LEMMA OfThisStep ==
  ASSUME IInv, NEW r \in Ranks, NEW x \in Exchanges, status[r][x] \notin {"none", "ok"}
  PROVE  x[1] = main[r].step /\ x[1] \in Int
  <1>1. x[1] \in Int /\ main[r].step \in Int
    BY EarlierIsOrder, Typed DEF IInv
  <1>2. ~ (x[1] < main[r].step) /\ ~ (x[1] > main[r].step)
    BY DEF IInv, Completed
  <1> QED BY <1>1, <1>2

\* A rank whose step is spared has had no failure.
LEMMA CleanSoFar ==
  ASSUME SInv, NEW r \in Ranks, ~ Left(r), Spared(main[r].step)
  PROVE  Clean(r)
  <1> SUFFICES ASSUME NEW x \in Exchanges, status[r][x] \in {"failing", "failed"} PROVE FALSE
    BY DEF Clean
  <1>1. x[1] = main[r].step
    BY OfThisStep DEF SInv
  <1> QED BY <1>1 DEF SInv, Unharmed

\* What an exchange of such a step reads is its own.
LEMMA ReadsMine ==
  ASSUME SInv, NEW r \in Ranks, NEW x \in Exchanges, NEW p \in Ranks, Reading(r, x, p), Spared(x[1])
  PROVE  /\ Clean(r) /\ Aligned(p, r)
         /\ HeadOf(r, p) => head[r][x]
         /\ wire[p][r] # <<>> => /\ 1 \in 1 .. Len(wire[p][r])
                                 /\ wire[p][r][1].of = x /\ wire[p][r][1].part \notin Severed
  <1>1. status[r][x] = "running" /\ ~ Left(r) /\ IInv
    BY DEF Reading, SInv
  <1>2. x[1] = main[r].step
    BY <1>1, OfThisStep
  <1>3. Clean(r)
    BY <1>1, <1>2, CleanSoFar
  <1>4. Aligned(p, r)
    BY <1>2, <1>3 DEF SInv, Undoomed, IInv, Streams
  <1>5. ASSUME HeadOf(r, p) PROVE head[r][x]
    <2>1. PICK y \in Exchanges : Reading(r, y, p) /\ head[r][y]
      BY <1>5 DEF HeadOf
    <2>2. y = x
      BY <1>1, <2>1, OneRuns DEF Reading, Started, Ended
    <2> QED BY <2>1, <2>2
  <1>6. ASSUME wire[p][r] # <<>>
        PROVE  /\ 1 \in 1 .. Len(wire[p][r])
               /\ wire[p][r][1].of = x /\ wire[p][r][1].part \notin Severed
    <2>1. wire[p][r][1].of = x
      BY <1>1, <1>3, <1>4, <1>6, FirstIsMine
    <2>2. 1 \in 1 .. Len(wire[p][r])
      BY <1>1, <1>6, Typed, EmptySeq DEF IInv
    <2> QED BY <2>1, <2>2 DEF SInv, Whole, Intact
  <1> QED BY <1>3, <1>4, <1>5, <1>6

\* A stream that was not doomed is not doomed by a step that leaves its
\* beginning and the header read of it alone.
LEMMA UndoomedStays ==
  ASSUME SInv, NEW p \in Ranks, NEW q \in Ranks, Clean(q), Spared(main[q].step),
         wire'[p][q] # <<>> /\ wire'[p][q][1].part \in Remains
           => wire[p][q] # <<>> /\ wire[p][q][1].part \in Remains,
         HeadOf(q, p) => HeadOf(q, p)'
  PROVE  ~ Doomed(p, q)'
  <1>1. Aligned(p, q)
    BY DEF SInv, Undoomed, IInv, Streams
  <1>2. wire[p][q] # <<>> => 1 \in 1 .. Len(wire[p][q])
    BY Typed, EmptySeq DEF SInv, IInv
  <1>3. wire[p][q] # <<>> /\ wire[p][q][1].part \in Remains => HeadOf(q, p)
    BY <1>1, <1>2 DEF Aligned
  <1>4. wire'[p][q] # <<>> /\ wire'[p][q][1].part \in Remains => HeadOf(q, p)'
    BY <1>3
  <1> QED BY <1>4 DEF Doomed

-----------------------------------------------------------------------------
(* The program of a rank spares what it did.                               *)

\* The exchange a working rank is at.
LEMMA AtHere ==
  ASSUME IInv, NEW r \in Ranks, main[r].phase \in Working
  PROVE  /\ Here(r) \in Exchanges /\ Here(r)[1] = main[r].step /\ Here(r)[2] = main[r].field
         /\ main[r].step \in Steps
  <1>1. main[r].step \in Steps /\ main[r].field \in 1 .. Len(Program[main[r].step].fields)
    BY DEF IInv, InStep, Within
  <1> QED BY <1>1, ExchangeShape DEF Here

LEMMA AloneKeeps ==
  ASSUME IInv, Alone, NEW r \in Ranks, Moves(r) PROVE Alone'
  <1>1. /\ main \in [Ranks -> [step : 1 .. (Len(Program) + 1), field : Nat, phase : Phases]]
        /\ status \in [Ranks -> [Exchanges -> Statuses]]
    BY Typed DEF IInv
  <1>2. ASSUME NEW next, NEW field, Goto(r, next, field)
        PROVE  /\ main'[r].phase = next /\ main'[r].step = main[r].step /\ main'[r].field = field
               /\ \A q \in Ranks : q # r => main'[q] = main[q]
    BY <1>1, <1>2 DEF Goto
  <1> SUFFICES ASSUME NEW q \in Ranks, NEW x \in Exchanges, status'[q][x] = "running",
                      x \notin Pool(q), ~ Left(q)'
               PROVE  main'[q].phase = "inline" /\ x = Here(q)'
    BY DEF Alone, Pool
  <1> DEFINE m == main[r]
  <1>3. CASE BeginStep(r)
    <2>1. m.phase = "next"
      BY <1>3 DEF BeginStep
    <2>2. CASE q = r
      <3>1. status[r][x] # "running"
        BY <2>1, <2>2, <1>2, <1>3 DEF Alone, Left
      <3>2. CASE Goto(r, "inline", 1) /\ status' = [status EXCEPT ![r][<<m.step, 1>>] = "running"]
        <4>1. main'[r].phase = "inline" /\ main'[r].step = m.step /\ main'[r].field = 1
          BY <1>2, <3>2
        <4>2. x = <<m.step, 1>>
          BY <1>1, <2>2, <3>1, <3>2
        <4> QED BY <2>2, <4>1, <4>2 DEF Here
      <3>3. CASE status' = status
        BY <2>2, <3>1, <3>3
      <3> QED BY <1>3, <3>2, <3>3 DEF BeginStep
    <2>3. CASE q # r
      <3>1. main'[q] = main[q] /\ status'[q] = status[q]
        BY <1>1, <1>2, <1>3, <2>3 DEF BeginStep
      <3> QED BY <3>1 DEF Alone, Left, Here
    <2> QED BY <2>2, <2>3
  <1>4. CASE Inline(r)
    <2>1. m.phase = "inline" /\ Ended(status[r][Here(r)])
      BY <1>4 DEF Inline
    <2>2. \A y \in Exchanges : y \notin Pool(r) => status[r][y] # "running"
      BY <2>1 DEF Alone, Left, Ended
    <2>3. CASE Goto(r, "inline", m.field + 1)
               /\ status' = [status EXCEPT ![r][<<m.step, m.field + 1>>] = "running"]
      <3>1. /\ main'[r].phase = "inline" /\ main'[r].step = m.step /\ main'[r].field = m.field + 1
            /\ \A o \in Ranks : o # r => main'[o] = main[o]
        BY <1>2, <2>3
      <3>2. CASE q = r
        <4>1. x = <<m.step, m.field + 1>>
          BY <1>1, <2>2, <2>3, <3>2
        <4> QED BY <3>1, <3>2, <4>1 DEF Here
      <3>3. CASE q # r
        <4>1. main'[q] = main[q] /\ status'[q] = status[q]
          BY <1>1, <2>3, <3>1, <3>3
        <4> QED BY <4>1 DEF Alone, Left, Here
      <3> QED BY <3>2, <3>3
    <2>4. CASE status' = status
      <3>1. q # r
        BY <2>2, <2>4
      <3>2. main'[q] = main[q]
        BY <1>1, <1>2, <1>4, <3>1 DEF Inline, NextStep
      <3> QED BY <2>4, <3>2 DEF Alone, Left, Here
    <2> QED BY <1>4, <2>3, <2>4 DEF Inline
  <1>5. CASE Submit(r) \/ Interior(r) \/ Drain(r) \/ Collect(r) \/ Close(r) \/ ReadFails(r)
             \/ InteriorFails(r) \/ Crash(r)
    <2>1. /\ m.phase # "inline" \/ Left(r)'
          /\ status[q][x] = "running"
          /\ \A o \in Ranks : o # r => main'[o] = main[o]
          /\ m.phase # "gone" /\ m.phase # "done"
      <3>1. CASE Submit(r)
        BY <1>1, <1>2, <3>1 DEF Submit
      <3>2. CASE Collect(r)
        BY <1>1, <1>2, <3>2 DEF Collect, NextStep
      <3>3. CASE Crash(r)
        BY <1>1, <1>2, <3>3 DEF Crash, Left
      <3>4. CASE Interior(r) \/ Drain(r) \/ Close(r) \/ ReadFails(r) \/ InteriorFails(r)
        BY <1>1, <1>2, <3>4 DEF Interior, Drain, Close, ReadFails, InteriorFails
      <3> QED BY <1>5, <3>1, <3>2, <3>3, <3>4
    <2>2. q # r
      BY <2>1 DEF Alone, Left
    <2> QED BY <2>1, <2>2 DEF Alone, Left, Here
  <1> QED BY <1>3, <1>4, <1>5 DEF Moves

\* What a rank that is not spared further has behind it.
LEMMA BehindIt ==
  ASSUME SInv, NEW r \in Ranks, NEW x \in Exchanges, Spared(x[1]), ~ Spared(main[r].step)
  PROVE  status[r][x] = "ok"
  <1>1. x[1] \in Int /\ main[r].step \in Int
    BY EarlierIsOrder, Typed DEF SInv, IInv
  <1>2. ~ (main[r].step <= x[1])
    BY <1>1, SparedBelow DEF SInv, IInv
  <1> QED BY <1>1, <1>2 DEF SInv, IInv, Completed

LEMMA DrainedKeeps ==
  ASSUME SInv, NEW r \in Ranks, Moves(r), faults \subseteq faults' PROVE Drained'
  <1> DEFINE m == main[r]
  <1>1. /\ main \in [Ranks -> [step : 1 .. (Len(Program) + 1), field : Nat, phase : Phases]]
        /\ status \in [Ranks -> [Exchanges -> Statuses]] /\ IInv /\ TypeOK
        /\ Len(Program) \in Nat /\ Steps = 1 .. Len(Program)
    BY Typed, ExchangeShape DEF SInv, IInv
  <1>2. ASSUME NEW next, NEW field, Goto(r, next, field)
        PROVE  /\ main'[r].phase = next /\ main'[r].step = m.step /\ main'[r].field = field
               /\ \A q \in Ranks : q # r => main'[q] = main[q]
    BY <1>1, <1>2 DEF Goto
  <1> SUFFICES ASSUME NEW q \in Ranks, NEW x \in Exchanges, Spared(x[1])'
               PROVE  /\ main'[q].phase \in {"drain", "raised"} => status'[q][x] # "none"
                      /\ Left(q)' => status'[q][x] = "ok"
    BY DEF Drained
  <1>3. x[1] \in Int /\ m.step \in Int /\ Spared(x[1])
    BY <1>1, EarlierIsOrder, SparedStays
  <1>4. \A y \in Exchanges : status'[q][y] = status[q][y] \/ status[q][y] = "none"
    BY ControlStep, <1>1 DEF Control
  <1>5. /\ main[q].phase \in {"drain", "raised"} => status[q][x] # "none"
        /\ Left(q) => status[q][x] = "ok"
    BY <1>3 DEF SInv, Drained
  <1>6. CASE q # r
    <2>1. main'[q] = main[q] /\ status'[q] = status[q]
      BY <1>1, <1>2, <1>6 DEF Moves, BeginStep, Inline, NextStep, Submit, Interior, Drain, Collect, Close,
            ReadFails, InteriorFails, Crash
    <2> QED BY <1>5, <2>1 DEF Left
  <1>7. CASE q = r /\ main'[r].phase \in {"drain", "raised", "gone", "done"}
    <2>1. CASE BeginStep(r)
      <3>1. m.step \notin Steps /\ status' = status
        BY <1>2, <1>7, <2>1 DEF BeginStep
      <3>2. x[1] < m.step
        BY <1>1, <1>3, <3>1, ExchangeShape
      <3> QED BY <1>1, <1>7, <3>1, <3>2 DEF IInv, Completed
    <2>2. CASE Inline(r) \/ Collect(r)
      <3>1. status[r][Here(r)] = "failed" /\ status' = status /\ m.phase \in Working
            /\ main'[r].phase = "raised"
        BY <1>1, <1>2, <1>7, <2>2 DEF Inline, Collect, NextStep, Working
      <3>2. ~ Spared(m.step)
        BY <1>1, <3>1, AtHere DEF SInv, Unharmed
      <3> QED BY <1>3, <1>7, <3>1, <3>2, BehindIt DEF Left
    <2>3. CASE Submit(r) \/ Interior(r)
      BY <1>2, <1>7, <2>3 DEF Submit, Interior
    <2>4. CASE ReadFails(r) \/ Crash(r)
      <3>1. \E kind \in {"read", "crash"} : Fault(r, kind)
        BY <2>4 DEF ReadFails, Crash
      <3> QED BY <1>3, <3>1, FaultSpares
    <2>5. CASE InteriorFails(r)
      <3>1. Fault(r, "interior") /\ status' = status /\ m.phase = "interior" /\ main'[r].phase = "drain"
        BY <1>2, <2>5 DEF InteriorFails
      <3>2. x[1] <= m.step
        BY <1>3, <3>1, FaultSpares
      <3>3. CASE x[1] = m.step
        BY <1>1, <1>7, <3>1, <3>3 DEF IInv, InStep, Within, Posted, Left
      <3>4. CASE x[1] < m.step
        BY <1>1, <1>7, <3>1, <3>4 DEF IInv, Completed, Left
      <3> QED BY <1>3, <3>2, <3>3, <3>4
    <2>6. CASE Drain(r)
      BY <1>2, <1>5, <1>7, <2>6 DEF Drain, Left
    <2>7. CASE Close(r)
      <3>1. m.phase = "raised" /\ Idle(r) /\ status' = status
        BY <2>7 DEF Close
      <3>2. status[r][x] # "none" /\ status[r][x] \notin {"failing", "failed"}
        BY <1>3, <1>5, <1>7, <3>1 DEF SInv, Unharmed
      <3>3. status[r][x] # "queued"
        BY <1>1, <3>1 DEF IInv, Ends, Idle
      <3>4. status[r][x] # "running"
        BY <3>1 DEF SInv, Alone, Idle, Left
      <3>5. status[r][x] = "ok"
        BY <1>1, <3>2, <3>3, <3>4 DEF Statuses
      <3> QED BY <1>7, <3>1, <3>5
    <2> QED BY <2>1, <2>2, <2>3, <2>4, <2>5, <2>6, <2>7 DEF Moves
  <1>8. CASE q = r /\ main'[r].phase \notin {"drain", "raised", "gone", "done"}
    BY <1>8 DEF Left
  <1> QED BY <1>6, <1>7, <1>8

\* A rank moves on.
LEMMA MovesSpare ==
  ASSUME SInv, NEW r \in Ranks, Moves(r), UNCHANGED wire PROVE SInv'
  <1>1. /\ IInv /\ IInv' /\ TypeOK /\ TypeOK' /\ Control
    BY MovesKeep, ControlStep DEF SInv, IInv
  <1>2. /\ UNCHANGED <<fixed, send, head, got, wire>>
        /\ \E kind \in FaultKinds : UNCHANGED faults \/ Fault(r, kind)
    BY DEF Moves, BeginStep, Inline, Submit, Interior, Drain, Collect, Close, ReadFails,
           InteriorFails, Crash, FaultKinds
  <1>3. faults \subseteq faults'
    BY <1>2, FaultSpares
  <1>4. \A s \in Int : Spared(s)' => Spared(s)
    BY <1>3, SparedStays
  <1>5. \A x \in Exchanges : x[1] \in Int
    BY EarlierIsOrder
  <1>6. Alone' /\ Drained'
    BY <1>1, <1>3, AloneKeeps, DrainedKeeps DEF SInv
  <1>7. Unharmed'
    <2> SUFFICES ASSUME NEW q \in Ranks, NEW x \in Exchanges, Spared(x[1])'
                 PROVE  /\ status'[q][x] \notin {"failing", "failed"}
                        /\ \A p \in Ranks : send[q][x][p] # "broken"
      BY <1>2 DEF Unharmed
    <2>1. \/ status'[q][x] = status[q][x]
          \/ status'[q][x] \in {"running", "queued"}
      BY <1>1 DEF Control
    <2> QED BY <1>4, <1>5, <2>1 DEF SInv, Unharmed
  <1>8. Undoomed'
    <2> SUFFICES ASSUME NEW p \in Ranks, NEW q \in Ranks, Clean(q)', Spared(main[q].step)'
                 PROVE  ~ Doomed(p, q)'
      BY DEF Undoomed
    <2>1. Clean(q) /\ ~ Left(q) /\ ~ Left(q)'
      BY <1>1 DEF Control, Onwards, Clean
    <2>2. Spared(main[q].step)
      <3>1. /\ main[q].step \in Int /\ main'[q].step \in Int
            /\ main'[q].step = main[q].step \/ main'[q].step = main[q].step + 1
        BY <1>1, Typed DEF Control
      <3>2. PICK t \in Int : t = main'[q].step
        BY <3>1
      <3>3. Spared(t)'
        BY <3>2 DEF Spared
      <3>4. Spared(t)
        BY <1>4, <3>3
      <3> QED BY <1>1, <3>1, <3>2, <3>4, SparedBelow
    <2>3. HeadOf(q, p)' <=> HeadOf(q, p)
      <3>1. \A x \in Exchanges : status'[q][x] = status[q][x] \/ ~ head[q][x]
        BY <1>1 DEF Control, IInv, Ends, Started
      <3> QED BY <1>2, <2>1, <3>1, HeadStays
    <2> QED BY <1>2, <2>1, <2>2, <2>3, UndoomedStays
  <1>9. Whole'
    <2> SUFFICES ASSUME NEW p \in Ranks, NEW q \in Ranks PROVE (Intact(p, q) /\ TakenOut(p, q))'
      BY DEF Whole
    <2>1. Intact(p, q) /\ TakenOut(p, q)
      BY DEF SInv, Whole
    <2>2. \A i \in 1 .. Len(wire[p][q]) : wire[p][q][i].of \in Exchanges
      BY <1>1, Typed DEF Frame
    <2> QED BY <1>2, <1>4, <1>5, <2>1, <2>2 DEF Intact, TakenOut
  <1> QED BY <1>1, <1>6, <1>7, <1>8, <1>9 DEF SInv

\* After any other fault nothing is spared.
LEMMA NothingSpared ==
  ASSUME IInv', Alone', \A s \in Int : ~ Spared(s)' PROVE SInv'
  <1>1. /\ \A x \in Exchanges : x[1] \in Int
        /\ \A q \in Ranks : main'[q].step \in Int
        /\ \A p, q \in Ranks : \A i \in 1 .. Len(wire'[p][q]) : wire'[p][q][i].of \in Exchanges
    <2>1. \A x \in Exchanges : x[1] \in Int
      BY EarlierIsOrder
    <2>2. TypeOK'
      BY DEF IInv
    <2>3. \A q \in Ranks : main'[q].step \in Int
      BY <2>2 DEF TypeOK
    <2>4. wire' \in [Ranks -> [Ranks -> Seq([of : Exchanges, part : Parts])]]
      BY <2>2 DEF TypeOK
    <2>5. \A p, q \in Ranks : \A i \in 1 .. Len(wire'[p][q]) : wire'[p][q][i].of \in Exchanges
      <3> SUFFICES ASSUME NEW p \in Ranks, NEW q \in Ranks, NEW i \in 1 .. Len(wire'[p][q])
                   PROVE  wire'[p][q][i].of \in Exchanges
        OBVIOUS
      <3>1. wire'[p][q] \in Seq([of : Exchanges, part : Parts])
        BY <2>4
      <3>2. wire'[p][q][i] \in [of : Exchanges, part : Parts]
        BY <3>1, ElementOfSeq
      <3> QED BY <3>2
    <2> QED BY <2>1, <2>3, <2>5
  <1>2. \A x \in Exchanges : ~ Spared(x[1])'
    BY <1>1
  <1>3. Unharmed' /\ Drained'
    BY <1>2 DEF Unharmed, Drained
  <1>4. Undoomed'
    <2> SUFFICES ASSUME NEW q \in Ranks, Spared(main[q].step)' PROVE FALSE
      BY DEF Undoomed
    <2>1. PICK t \in Int : t = main'[q].step
      BY <1>1
    <2> QED BY <2>1 DEF Spared
  <1>5. Whole'
    <2> SUFFICES ASSUME NEW p \in Ranks, NEW q \in Ranks PROVE (Intact(p, q) /\ TakenOut(p, q))'
      BY DEF Whole
    <2>1. \A i \in 1 .. Len(wire'[p][q]) : ~ Spared(wire[p][q][i].of[1])'
      <3> SUFFICES ASSUME NEW i \in 1 .. Len(wire'[p][q]), Spared(wire[p][q][i].of[1])' PROVE FALSE
        OBVIOUS
      <3>1. PICK x \in Exchanges : x = wire'[p][q][i].of
        BY <1>1
      <3>2. Spared(x[1])'
        BY <3>1 DEF Spared
      <3> QED BY <1>2, <3>2
    <2> QED BY <1>2, <2>1 DEF Intact, TakenOut
  <1> QED BY <1>3, <1>4, <1>5 DEF SInv

LEMMA CrashSpares ==
  ASSUME SInv, NEW r \in Ranks, Crash(r) PROVE SInv'
  <1>1. IInv' /\ Alone'
    BY CrashKeeps, AloneKeeps DEF SInv, Moves
  <1> DEFINE kind == "crash"
  <1>2. Fault(r, kind) /\ kind # "interior"
    BY DEF Crash
  <1> HIDE DEF kind
  <1>3. \A s \in Int : ~ Spared(s)'
    BY <1>2, FaultSpares
  <1> QED BY <1>1, <1>3, NothingSpared

-----------------------------------------------------------------------------
(* An exchange starts, ends or fails.                                      *)

LEMMA AdvanceSpares ==
  ASSUME SInv, IInv', NEW r \in Ranks, NEW x \in Exchanges, NEW s \in {"running", "failing", "ok", "failed"},
         status[r][x] \in {"queued", "running", "failing"}, ~ Left(r),
         s = "running" => status[r][x] = "queued", s = "ok" => Awaited(r, x) = {},
         Spared(x[1])' => s \notin {"failing", "failed"},
         status' = [status EXCEPT ![r][x] = s], UNCHANGED <<fixed, main, send, head, got, wire>>,
         faults \subseteq faults'
  PROVE  SInv'
  <1>1. /\ TypeOK /\ TypeOK'
        /\ \A q \in Ranks, y \in Exchanges : status'[q][y] = IF q = r /\ y = x THEN s ELSE status[q][y]
    BY Typed DEF SInv, IInv
  <1>2. \A t \in Int : Spared(t)' => Spared(t)
    BY SparedStays
  <1>3. \A y \in Exchanges : y[1] \in Int
    BY EarlierIsOrder
  <1>4. \A q \in Ranks : Left(q)' <=> Left(q)
    BY DEF Left
  <1>5. Unharmed'
    <2> SUFFICES ASSUME NEW q \in Ranks, NEW y \in Exchanges, Spared(y[1])'
                 PROVE  /\ status'[q][y] \notin {"failing", "failed"}
                        /\ \A p \in Ranks : send[q][y][p] # "broken"
      BY DEF Unharmed
    <2> QED BY <1>1, <1>2, <1>3 DEF SInv, Unharmed
  <1>6. Alone'
    <2> SUFFICES ASSUME NEW q \in Ranks, NEW y \in Exchanges, status'[q][y] = "running",
                        y \notin Pool(q), ~ Left(q)
                 PROVE  main[q].phase = "inline" /\ y = Here(q)
      BY <1>4 DEF Alone, Pool, Here
    <2>1. CASE q = r /\ y = x
      <3>1. status[q][y] = "queued"
        BY <1>1, <2>1
      <3> QED BY <3>1 DEF SInv, IInv, Ends
    <2>2. CASE ~ (q = r /\ y = x)
      BY <1>1, <2>2 DEF SInv, Alone
    <2> QED BY <2>1, <2>2
  <1>7. Drained'
    <2> SUFFICES ASSUME NEW q \in Ranks, NEW y \in Exchanges, Spared(y[1])'
                 PROVE  /\ main[q].phase \in {"drain", "raised"} => status'[q][y] # "none"
                        /\ Left(q) => status'[q][y] = "ok"
      BY <1>4 DEF Drained
    <2> QED BY <1>1, <1>2, <1>3 DEF SInv, Drained
  <1>8. Undoomed'
    <2> SUFFICES ASSUME NEW p \in Ranks, NEW q \in Ranks, Clean(q)', Spared(main[q].step)'
                 PROVE  ~ Doomed(p, q)'
      BY DEF Undoomed
    <2>1. ~ Left(q) /\ Spared(main[q].step)
      <3>1. PICK t \in Int : t = main[q].step /\ t = main'[q].step
        BY <1>1, Typed
      <3>2. Spared(t)'
        BY <3>1 DEF Spared
      <3> QED BY <1>2, <1>4, <3>1, <3>2 DEF Clean
    <2>2. Clean(q)
      BY <2>1, CleanSoFar
    <2>3. HeadOf(q, p)' <=> HeadOf(q, p)
      <3>1. ASSUME NEW y \in Exchanges
            PROVE  status'[q][y] = status[q][y] \/ ~ head[q][y] \/ Awaited(q, y) = {}
        <4>1. CASE q = r /\ y = x
          <5>1. s \notin {"failing", "failed"}
            BY <1>1, <4>1 DEF Clean
          <5>2. CASE s = "ok"
            BY <4>1, <5>2
          <5>3. CASE s = "running"
            BY <4>1, <5>3 DEF SInv, IInv, Ends, Started
          <5> QED BY <5>1, <5>2, <5>3
        <4>2. CASE ~ (q = r /\ y = x)
          BY <1>1, <4>2
        <4> QED BY <4>1, <4>2
      <3> QED BY <1>4, <3>1, HeadStays
    <2> QED BY <2>1, <2>2, <2>3, UndoomedStays
  <1>9. Whole'
    <2> SUFFICES ASSUME NEW p \in Ranks, NEW q \in Ranks PROVE (Intact(p, q) /\ TakenOut(p, q))'
      BY DEF Whole
    <2>1. Intact(p, q) /\ TakenOut(p, q)
      BY DEF SInv, Whole
    <2>2. \A i \in 1 .. Len(wire[p][q]) : wire[p][q][i].of \in Exchanges
      BY <1>1, Typed DEF Frame
    <2> QED BY <1>2, <1>3, <2>1, <2>2 DEF Intact, TakenOut
  <1> QED BY <1>5, <1>6, <1>7, <1>8, <1>9 DEF SInv

LEMMA PickUpSpares ==
  ASSUME SInv, Workers = 1, NEW r \in Ranks, NEW x \in Exchanges, PickUp(r, x) PROVE SInv'
  <1>1. IInv'
    BY PickUpKeeps DEF SInv
  <1>2. /\ status[r][x] = "queued" /\ ~ Left(r) /\ status' = [status EXCEPT ![r][x] = "running"]
        /\ UNCHANGED <<fixed, main, send, head, got, wire, faults>>
    BY DEF PickUp, CanPickUp
  <1> QED BY <1>1, <1>2, AdvanceSpares

\* Its sends have not been cut off: an exchange that is spared ends well.
LEMMA FinishSpares ==
  ASSUME SInv, NEW r \in Ranks, NEW x \in Exchanges, Finish(r, x) PROVE SInv'
  <1> DEFINE s == IF status[r][x] = "running" /\ \A q \in Targets(r, x) : send[r][x][q] # "broken"
                  THEN "ok" ELSE "failed"
  <1>1. IInv'
    BY FinishKeeps DEF SInv
  <1>2. /\ ~ Left(r) /\ status[r][x] \in {"running", "failing"}
        /\ status[r][x] = "running" => Awaited(r, x) = {}
        /\ UNCHANGED <<fixed, main, send, head, got, wire, faults>>
    BY DEF Finish, CanFinish
  <1>3. status' = [status EXCEPT ![r][x] = s]
    BY Typed DEF Finish, CanFinish, SInv, IInv
  <1>4. Spared(x[1])' => s \notin {"failing", "failed"}
    <2> SUFFICES ASSUME Spared(x[1]) PROVE s = "ok"
      BY <1>2 DEF Spared
    <2>1. /\ status[r][x] \notin {"failing", "failed"}
          /\ \A q \in Ranks : send[r][x][q] # "broken"
      BY DEF SInv, Unharmed
    <2> QED BY <1>2, <2>1, Neighbours
  <1>5. s \in {"running", "failing", "ok", "failed"} /\ s # "running" /\ (s = "ok" => Awaited(r, x) = {})
    BY <1>2
  <1> HIDE DEF s
  <1> QED BY <1>1, <1>2, <1>3, <1>4, <1>5, AdvanceSpares

\* An exchange that is not spared stops reading.
LEMMA FailSpares ==
  ASSUME SInv, IInv', NEW r \in Ranks, NEW x \in Exchanges, NEW p \in Ranks, Reading(r, x, p), Fail(r, x),
         UNCHANGED <<fixed, main, send, head, got, wire>>, faults \subseteq faults', ~ Spared(x[1])'
  PROVE  SInv'
  <1>1. status[r][x] = "running" /\ ~ Left(r) /\ status' = [status EXCEPT ![r][x] = "failing"]
    BY DEF Reading, Fail
  <1> QED BY <1>1, AdvanceSpares

-----------------------------------------------------------------------------
(* Nobody waits for ever: a stall is the end of what is spared.            *)

LEMMA Least ==
  ASSUME NEW S \in SUBSET Nat, S # {}
  PROVE  \E m \in S : \A k \in S : m <= k
  <1>0. PICK n \in S : TRUE
    OBVIOUS
  <1> DEFINE T        == {b \in S : b <= n}
             below(b) == {k \in S : k < b}
             downs    == {below(b) : b \in T}
  <1>1. IsFiniteSet(0 .. n)
    BY FS_Interval
  <1>2. IsWellFoundedOn(StrictSubsetOrdering(0 .. n), FiniteSubsetsOf(0 .. n))
    BY FS_StrictSubsetOrderingWellFounded
  <1>3. \A b \in T : below(b) \subseteq 0 .. n
    <2> SUFFICES ASSUME NEW b \in T, NEW k \in below(b) PROVE k \in 0 .. n
      OBVIOUS
    <2>1. k \in Nat /\ b \in Nat /\ n \in Nat /\ k < b /\ b <= n
      OBVIOUS
    <2> QED BY <2>1
  <1>a. downs \subseteq FiniteSubsetsOf(0 .. n)
    <2>1. \A b \in T : IsFiniteSet(below(b))
      <3> HIDE DEF T, below
      <3> QED BY <1>1, <1>3, FS_Subset
    <2> HIDE DEF T, below
    <2> QED BY <1>3, <2>1 DEF FiniteSubsetsOf
  <1>4. downs # {}
    <2>1. n \in T
      BY <1>0
    <2> HIDE DEF T, below
    <2> QED BY <2>1
  <1>5. PICK m \in downs : \A y \in downs : <<y, m>> \notin StrictSubsetOrdering(0 .. n)
    <2> HIDE DEF downs
    <2> QED BY <1>2, <1>a, <1>4, WFMin
  <1>6. PICK b \in T : m = below(b)
    BY <1>5
  <1>7. \A k \in S : b <= k
    <2> SUFFICES ASSUME NEW k \in S, k < b PROVE FALSE
      OBVIOUS
    <2>1. k \in T /\ k \in below(b) /\ k \notin below(k) /\ \A e \in below(k) : e \in below(b)
      OBVIOUS
    <2>2. below(k) \subseteq 0 .. n /\ below(b) \subseteq 0 .. n
      BY <1>3, <2>1
    <2>3. <<below(k), below(b)>> \in StrictSubsetOrdering(0 .. n)
      BY <2>1, <2>2 DEF StrictSubsetOrdering
    <2> QED BY <1>5, <1>6, <2>1, <2>3
  <1> QED BY <1>7

\* Of some exchanges one is the first.
LEMMA FirstOne ==
  ASSUME NEW S \in SUBSET Exchanges, S # {}
  PROVE  \E y \in S : \A z \in S : ~ Earlier(z, y)
  <1> DEFINE steps == {x[1] : x \in S}
  <1>1. \A x \in S : x = <<x[1], x[2]>> /\ x[1] \in Nat /\ x[2] \in Nat
    BY ExchangeShape
  <1>2. PICK s \in steps : \A t \in steps : s <= t
    <2>1. steps \in SUBSET Nat /\ steps # {}
      BY <1>1
    <2> HIDE DEF steps
    <2> QED BY <2>1, Least
  <1> DEFINE fields == {x[2] : x \in {y \in S : y[1] = s}}
  <1>3. PICK f \in fields : \A g \in fields : f <= g
    <2>1. fields \in SUBSET Nat /\ fields # {}
      BY <1>1, <1>2
    <2> HIDE DEF fields
    <2> QED BY <2>1, Least
  <1>4. PICK y \in S : y[1] = s /\ y[2] = f
    BY <1>3
  <1>5. ASSUME NEW z \in S PROVE ~ Earlier(z, y)
    <2>1. s <= z[1] /\ z[1] \in Nat /\ s \in Nat /\ (z[1] = s => f <= z[2]) /\ z[2] \in Nat /\ f \in Nat
      BY <1>1, <1>2, <1>3, <1>4
    <2> QED BY <1>4, <2>1 DEF Earlier
  <1> QED BY <1>5

\* y is the first exchange, of those that are spared, that somebody has to end.
Foremost(y) ==
  Spared(y[1]) /\ \A z \in Exchanges : Earlier(z, y) => \A r \in Ranks : status[r][z] = "ok"

\* Every rank has come to it: nothing before it holds the rank up.
LEMMA AllBegan ==
  ASSUME SInv, Workers = 1, Stalled, NEW y \in Exchanges, Foremost(y), NEW r \in Ranks
  PROVE  /\ status[r][y] \in {"running", "ok"}
         /\ status[r][y] = "running" => ~ Left(r)
  <1> DEFINE m == main[r]
  <1>1. /\ IInv /\ ~ Able(r) /\ Within(r) /\ status[r][y] \in Statuses
        /\ m.step \in 1 .. (Len(Program) + 1) /\ m.phase \in Phases
        /\ Len(Program) \in Nat /\ Steps = 1 .. Len(Program)
    BY Typed, ExchangeShape DEF SInv, IInv, InStep, Stalled
  <1>2. /\ \A z \in Exchanges : Earlier(z, y) => status[r][z] = "ok"
        /\ status[r][y] \notin {"failing", "failed"}
        /\ Left(r) => status[r][y] = "ok"
        /\ m.phase \in {"drain", "raised"} => status[r][y] # "none"
    BY DEF Foremost, SInv, Unharmed, Drained
  <1>3. y[1] \in Steps /\ y[1] \in Int /\ m.step \in Int
    BY <1>1, ExchangeShape
  <1>4. status[r][y] # "queued"
    <2> SUFFICES ASSUME status[r][y] = "queued" PROVE FALSE
      OBVIOUS
    <2>1. ~ CanPickUp(r, y)
      BY <1>1 DEF Able
    <2>2. ~ Left(r)
      BY <1>2
    <2>3. \A z \in Pool(r) : Earlier(z, y) => status[r][z] # "queued"
      BY <1>2 DEF Pool
    <2>4. {z \in Pool(r) : status[r][z] \in {"running", "failing"}} = {}
      <3> SUFFICES ASSUME NEW z \in Exchanges, status[r][z] \in {"running", "failing"} PROVE FALSE
        BY DEF Pool
      <3>1. z # y /\ ~ Earlier(z, y)
        BY <1>2
      <3>2. Earlier(y, z)
        BY <3>1, EarlierIsOrder
      <3> QED BY <1>1, <3>2, OneRuns DEF Started, Ended
    <2>5. Cardinality({z \in Pool(r) : status[r][z] \in {"running", "failing"}}) < Workers
      BY <2>4, FS_EmptySet
    <2> QED BY <2>1, <2>2, <2>3, <2>5 DEF CanPickUp
  <1>5. status[r][y] # "none"
    <2> SUFFICES ASSUME status[r][y] = "none" PROVE FALSE
      OBVIOUS
    <2>1. m.step <= y[1]
      BY <1>1, <1>3 DEF IInv, Completed
    <2>2. ~ Proceeds(r) /\ ~ Left(r)
      BY <1>1, <1>2 DEF Able
    <2>3. m.phase # "next"
      BY <1>1, <1>3, <2>1, <2>2 DEF Proceeds
    <2>4. m.phase \in {"inline", "collect"}
      BY <1>1, <1>2, <2>2, <2>3 DEF Proceeds, Phases, Left
    <2>5. Here(r) \in Exchanges /\ Here(r)[1] = m.step /\ Here(r)[2] = m.field /\ ~ Ended(status[r][Here(r)])
      BY <1>1, <2>2, <2>4, AtHere DEF Proceeds, Working
    <2>6. ~ Earlier(Here(r), y)
      BY <1>2, <2>5 DEF Ended
    <2>7. status[r][Here(r)] # "none"
      BY <1>1, <2>4, <2>5 DEF Within, Started, Posted
    <2>8. ~ Earlier(y, Here(r))
      BY <1>1, <2>5, <2>7 DEF IInv, Ordered
    <2> QED BY <2>5, <2>6, <2>7, <2>8, EarlierIsOrder
  <1> QED BY <1>1, <1>2, <1>4, <1>5 DEF Statuses

\* A rank that works on it sends nothing else.
LEMMA NothingElse ==
  ASSUME IInv, NEW r \in Ranks, NEW y \in Exchanges, status[r][y] = "running", NEW q \in Ranks,
         send[r][y][q] = "idle"
  PROVE  ~ Sending(r, q)
  <1> SUFFICES ASSUME NEW z \in Exchanges, send[r][z][q] = "begun" PROVE FALSE
    BY DEF Sending
  <1>1. z # y /\ Started(r, z) /\ q \in Targets(r, z)
    BY DEF IInv, Ends
  <1>2. Ended(status[r][z])
    BY <1>1, OneRuns DEF Started, Ended
  <1> QED BY <1>1, <1>2 DEF IInv, Ends

\* And waits for nobody: whoever owes it a message has sent it, or can.
LEMMA AllRead ==
  ASSUME SInv, Workers = 1, Stalled, NEW y \in Exchanges, Foremost(y), NEW r \in Ranks,
         status[r][y] = "running"
  PROVE  Awaited(r, y) = {}
  <1> SUFFICES ASSUME Awaited(r, y) # {} PROVE FALSE
    OBVIOUS
  <1>1. IInv /\ ~ Left(r) /\ ~ Able(r)
    BY AllBegan DEF SInv, Stalled
  <1>2. PICK p \in Awaited(r, y) : \A o \in Awaited(r, y) : p <= o
    <2>1. Awaited(r, y) \in SUBSET Nat
      <3>1. Sources(r, y) \subseteq Ranks
        BY Neighbours
      <3>2. Ranks \subseteq Nat
        BY HaloAssumption DEF Ranks
      <3> QED BY <3>1, <3>2 DEF Awaited
    <2> QED BY <2>1, Least
  <1>3. p \in Ranks /\ p \in Sources(r, y) /\ p \notin DOMAIN got[r][y] /\ Reading(r, y, p)
    BY <1>1, <1>2, Neighbours DEF Awaited, Reading
  <1>4. /\ Clean(r) /\ Aligned(p, r)
        /\ wire[p][r] # <<>> => wire[p][r][1].part \notin Severed
    BY <1>3, ReadsMine DEF Foremost
  <1>5. Starved(r, y, p) /\ ~ Left(p)
    BY <1>1, <1>3 DEF Able
  <1>6. wire[p][r] = <<>>
    BY <1>4, <1>5 DEF Starved, Severed
  <1>7. send[p][y][r] = "idle"
    <2>1. Len(wire[p][r]) = 0
      BY <1>6
    <2>2. ~ \E i \in 1 .. Len(wire[p][r]) : wire[p][r][i].of = y
      BY <2>1
    <2> QED BY <1>3, <1>4, <2>2 DEF Aligned
  <1>8. r \in Targets(p, y)
    BY <1>3, Neighbours
  <1>9. status[p][y] = "running"
    <2>1. status[p][y] \in {"running", "ok"}
      BY <1>3, AllBegan
    <2> QED BY <1>1, <1>3, <1>7, <1>8, <2>1 DEF IInv, Ends, Ended
  <1>10. CanBegin(p, y, r)
    BY <1>1, <1>3, <1>5, <1>7, <1>8, <1>9, NothingElse DEF CanBegin, Started
  <1> QED BY <1>3, <1>10 DEF Stalled, Able

\* Nor for room: what it sent has been read.
LEMMA AllSent ==
  ASSUME SInv, Workers = 1, Stalled, NEW y \in Exchanges, Foremost(y), NEW r \in Ranks,
         status[r][y] = "running"
  PROVE  SendsEnded(r, y)
  <1> SUFFICES ASSUME NEW q \in Targets(r, y), send[r][y][q] \notin {"sent", "broken"} PROVE FALSE
    BY DEF SendsEnded
  <1>1. IInv /\ ~ Left(r) /\ ~ Able(r) /\ q \in Ranks /\ buffer \in Nat
    BY AllBegan, Neighbours, Typed DEF SInv, IInv, Stalled
  <1>2. ~ CanBegin(r, y, q) /\ ~ CanReturn(r, y, q) /\ ~ CanBreak(r, y, q)
    BY <1>1 DEF Able
  <1>3. send[r][y][q] \in {"idle", "begun", "sent", "broken"}
    BY <1>1, Typed DEF IInv
  <1>4. CASE send[r][y][q] = "idle"
    <2>1. ~ Sending(r, q)
      BY <1>1, <1>4, NothingElse
    <2> QED BY <1>1, <1>2, <1>4, <2>1 DEF CanBegin, CanBreak, Started
  <1>5. CASE send[r][y][q] = "begun"
    <2>1. ~ Accepted(r, q)
      BY <1>1, <1>2, <1>5 DEF CanReturn
    <2>2. Len(wire[r][q]) \in 1 .. Len(wire[r][q]) /\ wire[r][q] # <<>>
      <3>1. wire[r][q] \in Seq(Frame) /\ Len(wire[r][q]) \in Nat
        BY <1>1, Typed DEF IInv
      <3>2. Len(wire[r][q]) > 0
        BY <1>1, <2>1, <3>1 DEF Accepted
      <3> QED BY <3>1, <3>2, EmptySeq
    <2>3. wire[r][q][Len(wire[r][q])].of = y
      BY <1>1, <1>5, <2>2 DEF IInv, Queued, InLine
    <2>4. r \in DOMAIN got[q][y]
      <3>1. Awaited(q, y) = {}
        <4>1. status[q][y] \in {"running", "ok"}
          BY <1>1, AllBegan
        <4> QED BY <1>1, <4>1, AllRead DEF IInv, Ends
      <3> QED BY <1>1, <3>1, Neighbours DEF Awaited
    <2> QED BY <1>1, <2>2, <2>3, <2>4 DEF SInv, Whole, TakenOut, Foremost
  <1> QED BY <1>3, <1>4, <1>5

\* In a stall everything is done that no fault could reach.
LEMMA StallSpares ==
  ASSUME SInv, Workers = 1, Stalled, NEW r \in Ranks, NEW x \in Exchanges, Spared(x[1])
  PROVE  status[r][x] = "ok"
  <1> SUFFICES ASSUME status[r][x] # "ok" PROVE FALSE
    OBVIOUS
  <1> DEFINE open == {y \in Exchanges : Spared(y[1]) /\ \E q \in Ranks : status[q][y] # "ok"}
  <1>1. PICK y \in open : \A z \in open : ~ Earlier(z, y)
    <2>1. open \in SUBSET Exchanges /\ open # {}
      OBVIOUS
    <2> HIDE DEF open
    <2> QED BY <2>1, FirstOne
  <1>2. \A z \in Exchanges : Earlier(z, y) => Spared(z[1])
    BY EarlierIsOrder, SparedBelow DEF SInv, IInv
  <1>3. Foremost(y)
    BY <1>1, <1>2 DEF Foremost
  <1>4. PICK q \in Ranks : status[q][y] # "ok"
    BY <1>1
  <1>5. status[q][y] = "running" /\ ~ Left(q)
    BY <1>3, <1>4, AllBegan
  <1>6. CanFinish(q, y)
    BY <1>3, <1>5, AllRead, AllSent DEF CanFinish
  <1> QED BY <1>6 DEF Stalled, Able

-----------------------------------------------------------------------------
(* The sends spare what they can.                                          *)

LEMMA MarkSpares ==
  ASSUME SInv, IInv', Quiet, NEW r \in Ranks, NEW x \in Exchanges, NEW q \in Ranks,
         NEW s \in {"begun", "sent", "broken"}, Marked(r, x, q, s), s = "broken" => ~ Spared(x[1])',
         \A p, o \in Ranks : ~ (p = r /\ o = q) => wire'[p][o] = wire[p][o],
         Intact(r, q)', TakenOut(r, q)',
         wire'[r][q] # <<>> /\ wire'[r][q][1].part \in Remains
           => wire[r][q] # <<>> /\ wire[r][q][1].part \in Remains,
         faults \subseteq faults'
  PROVE  SInv'
  <1>1. /\ TypeOK /\ main' = main /\ status' = status /\ got' = got
        /\ \A o \in Ranks : (Left(o)' <=> Left(o)) /\ Here(o)' = Here(o) /\ (Clean(o)' <=> Clean(o))
    BY DEF SInv, IInv, Quiet, Left, Here, Clean
  <1>2. \A t \in Int : Spared(t)' => Spared(t)
    BY SparedStays
  <1>3. \A y \in Exchanges : y[1] \in Int
    BY EarlierIsOrder
  <1>4. Unharmed'
    <2> SUFFICES ASSUME NEW o \in Ranks, NEW y \in Exchanges, Spared(y[1])'
                 PROVE  /\ status[o][y] \notin {"failing", "failed"}
                        /\ \A p \in Ranks : send'[o][y][p] # "broken"
      BY <1>1 DEF Unharmed
    <2>1. /\ status[o][y] \notin {"failing", "failed"}
          /\ \A p \in Ranks : send[o][y][p] # "broken"
      BY <1>2, <1>3 DEF SInv, Unharmed
    <2> QED BY <2>1 DEF Marked
  <1>5. Alone'
    BY <1>1 DEF SInv, Alone, Pool
  <1>6. Drained'
    BY <1>1, <1>2, <1>3 DEF SInv, Drained
  <1>7. Undoomed'
    <2> SUFFICES ASSUME NEW p \in Ranks, NEW o \in Ranks, Clean(o), Spared(main[o].step)'
                 PROVE  ~ Doomed(p, o)'
      BY <1>1 DEF Undoomed
    <2>1. Spared(main[o].step)
      <3>1. PICK t \in Int : t = main[o].step /\ t = main'[o].step
        BY <1>1, Typed
      <3>2. Spared(t)'
        BY <3>1 DEF Spared
      <3> QED BY <1>2, <3>1, <3>2
    <2>2. HeadOf(o, p)' <=> HeadOf(o, p)
      BY QuietKeeps DEF SInv
    <2>3. wire'[p][o] # <<>> /\ wire'[p][o][1].part \in Remains
            => wire[p][o] # <<>> /\ wire[p][o][1].part \in Remains
      <3>1. CASE p = r /\ o = q
        BY <3>1
      <3>2. CASE ~ (p = r /\ o = q)
        BY <3>2
      <3> QED BY <3>1, <3>2
    <2> QED BY <2>1, <2>2, <2>3, UndoomedStays
  <1>8. Whole'
    <2> SUFFICES ASSUME NEW p \in Ranks, NEW o \in Ranks, ~ (p = r /\ o = q)
                 PROVE  (Intact(p, o) /\ TakenOut(p, o))'
      BY DEF Whole
    <2>1. Intact(p, o) /\ TakenOut(p, o)
      BY DEF SInv, Whole
    <2>2. wire'[p][o] = wire[p][o] /\ \A y \in Exchanges : send'[p][y][o] = send[p][y][o]
      BY DEF Marked
    <2>3. \A i \in 1 .. Len(wire[p][o]) : wire[p][o][i].of \in Exchanges
      BY <1>1, Typed DEF Frame
    <2> QED BY <1>1, <1>2, <1>3, <2>1, <2>2, <2>3 DEF Intact, TakenOut
  <1> QED BY <1>4, <1>5, <1>6, <1>7, <1>8 DEF SInv

\* A send that ends leaves the stream alone.
LEMMA MarkEnds ==
  ASSUME SInv, IInv', Quiet, wire' = wire, faults' = faults,
         NEW r \in Ranks, NEW x \in Exchanges, NEW q \in Ranks,
         NEW s \in {"begun", "sent", "broken"}, Marks(r, x, q, s), s = "broken" => ~ Spared(x[1])
  PROVE  SInv'
  <1>1. Marked(r, x, q, s)
    <2>1. send \in [Ranks -> [Exchanges -> [Ranks -> {"idle", "begun", "sent", "broken"}]]]
      BY Typed DEF SInv, IInv
    <2> QED BY <2>1 DEF Marks, Marked
  <1>2. \A y \in Exchanges : send'[r][y][q] # send[r][y][q] => send'[r][y][q] # "idle"
    BY <1>1 DEF Marked
  <1>3. \A y : Spared(y)' <=> Spared(y)
    BY DEF Spared
  <1>4. Intact(r, q)' /\ TakenOut(r, q)'
    <2>1. Intact(r, q) /\ TakenOut(r, q)
      BY DEF SInv, Whole
    <2>2. Intact(r, q)'
      BY <2>1 DEF Intact, Spared
    <2>3. TakenOut(r, q)'
      BY <1>2, <2>1 DEF TakenOut, Spared, Quiet
    <2> QED BY <2>2, <2>3
  <1>5. s = "broken" => ~ Spared(x[1])'
    BY DEF Spared
  <1> QED BY <1>1, <1>4, <1>5, MarkSpares

LEMMA SendReturnsSpares ==
  ASSUME SInv, NEW r \in Ranks, NEW x \in Exchanges, NEW q \in Ranks, SendReturns(r, x, q) PROVE SInv'
  <1>1. IInv'
    BY SendReturnsKeeps DEF SInv
  <1> DEFINE s == "sent"
  <1>2. Quiet /\ wire' = wire /\ faults' = faults /\ Marks(r, x, q, s)
    BY DEF SendReturns, Quiet, Marks
  <1>3. s \in {"begun", "sent", "broken"} /\ s # "broken"
    OBVIOUS
  <1> HIDE DEF s
  <1> QED BY <1>1, <1>2, <1>3, MarkEnds

\* A peer that left has had all that is spared.
LEMMA SendBreaksSpares ==
  ASSUME SInv, NEW r \in Ranks, NEW x \in Exchanges, NEW q \in Ranks, SendBreaks(r, x, q) PROVE SInv'
  <1>1. IInv' /\ IInv
    BY SendBreaksKeeps DEF SInv
  <1> DEFINE s == "broken"
  <1>2. Quiet /\ wire' = wire /\ faults' = faults /\ Marks(r, x, q, s)
    BY DEF SendBreaks, CanBreak, Quiet, Marks
  <1>3. s \in {"begun", "sent", "broken"}
    OBVIOUS
  <1>4. ~ Spared(x[1])
    <2> SUFFICES ASSUME Spared(x[1]) PROVE FALSE
      OBVIOUS
    <2>1. CanBreak(r, x, q)
      BY DEF SendBreaks
    <2>2. status[q][x] = "ok" /\ q \in Targets(r, x)
      BY <2>1 DEF CanBreak, SInv, Drained
    <2>3. r \in DOMAIN got[q][x]
      BY <1>1, <2>2, Neighbours DEF IInv, Ends, Awaited
    <2>4. send[r][x][q] = "begun" /\ ~ Accepted(r, q)
      BY <2>1, <2>3 DEF CanBreak, SInv, Whole, TakenOut
    <2>5. Len(wire[r][q]) \in 1 .. Len(wire[r][q]) /\ wire[r][q] # <<>>
      <3>1. wire[r][q] \in Seq(Frame) /\ Len(wire[r][q]) \in Nat /\ buffer \in Nat
        BY <1>1, Typed DEF IInv
      <3>2. Len(wire[r][q]) > 0
        BY <2>4, <3>1 DEF Accepted
      <3> QED BY <3>1, <3>2, EmptySeq
    <2>6. wire[r][q][Len(wire[r][q])].of = x
      BY <1>1, <2>4, <2>5 DEF IInv, Queued, InLine
    <2> QED BY <2>3, <2>5, <2>6 DEF SInv, Whole, TakenOut
  <1> HIDE DEF s
  <1> QED BY <1>1, <1>2, <1>3, <1>4, MarkEnds

LEMMA SendBeginsSpares ==
  ASSUME SInv, NEW r \in Ranks, NEW x \in Exchanges, NEW q \in Ranks, SendBegins(r, x, q) PROVE SInv'
  <1>1. IInv' /\ IInv
    BY SendBeginsKeeps DEF SInv
  <1> DEFINE s == "begun"
             f == [of |-> x, part |-> "whole"]
             w == wire[r][q]
  <1>2. /\ Quiet /\ faults' = faults /\ Marks(r, x, q, s) /\ send[r][x][q] = "idle"
        /\ wire' = [wire EXCEPT ![r][q] = Append(@, f)]
    BY DEF SendBegins, CanBegin, Quiet, Marks
  <1>3. Marked(r, x, q, s)
    <2>1. send \in [Ranks -> [Exchanges -> [Ranks -> {"idle", "begun", "sent", "broken"}]]]
      BY <1>1, Typed DEF IInv
    <2> QED BY <1>2, <2>1 DEF Marks, Marked
  <1>4. s \in {"begun", "sent", "broken"} /\ s # "broken" /\ s # "idle"
    OBVIOUS
  <1>5. f.of = x /\ f.part = "whole" /\ f \in Frame
    BY DEF Frame, Parts
  <1> HIDE DEF s, f
  <1>6. /\ wire \in [Ranks -> [Ranks -> Seq(Frame)]] /\ w \in Seq(Frame) /\ Len(w) \in Nat
        /\ wire'[r][q] = Append(w, f)
        /\ \A p, o \in Ranks : ~ (p = r /\ o = q) => wire'[p][o] = wire[p][o]
    <2>1. wire \in [Ranks -> [Ranks -> Seq(Frame)]] /\ w \in Seq(Frame) /\ Len(w) \in Nat
      BY <1>1, Typed DEF IInv
    <2> QED BY <1>2, <2>1
  <1>7. /\ Len(wire'[r][q]) = Len(w) + 1
        /\ \A i \in 1 .. Len(wire'[r][q]) : wire'[r][q][i] = IF i <= Len(w) THEN w[i] ELSE f
    BY <1>5, <1>6, AppendProperties
  <1>8. Intact(r, q) /\ TakenOut(r, q)
    BY DEF SInv, Whole
  <1>9. Intact(r, q)'
    <2> SUFFICES ASSUME NEW i \in 1 .. Len(wire'[r][q]), Spared(wire'[r][q][i].of[1])
                 PROVE  wire'[r][q][i].part \notin Severed
      BY <1>2 DEF Intact, Spared
    <2>1. CASE i <= Len(w)
      <3>1. i \in 1 .. Len(w) /\ wire'[r][q][i] = w[i]
        BY <1>6, <1>7, <2>1
      <3> QED BY <1>8, <3>1 DEF Intact
    <2>2. CASE ~ (i <= Len(w))
      BY <1>5, <1>7, <2>2 DEF Severed
    <2> QED BY <2>1, <2>2
  <1>10. TakenOut(r, q)'
    <2> SUFFICES ASSUME NEW y \in Exchanges, Spared(y[1]), r \in DOMAIN got[q][y]
                 PROVE  /\ send'[r][y][q] # "idle"
                        /\ \A i \in 1 .. Len(wire'[r][q]) : wire'[r][q][i].of # y
      BY <1>2 DEF TakenOut, Spared, Quiet
    <2>1. send[r][y][q] # "idle" /\ \A i \in 1 .. Len(w) : w[i].of # y
      BY <1>8 DEF TakenOut
    <2>2. y # x /\ send'[r][y][q] # "idle"
      BY <1>2, <1>3, <1>4, <2>1 DEF Marked
    <2>3. ASSUME NEW i \in 1 .. Len(wire'[r][q]) PROVE wire'[r][q][i].of # y
      <3>1. CASE i <= Len(w)
        <4>1. i \in 1 .. Len(w) /\ wire'[r][q][i] = w[i]
          BY <1>6, <1>7, <3>1
        <4> QED BY <2>1, <4>1
      <3>2. CASE ~ (i <= Len(w))
        BY <1>5, <1>7, <2>2, <3>2
      <3> QED BY <3>1, <3>2
    <2> QED BY <2>2, <2>3
  <1>11. wire'[r][q] # <<>> /\ wire'[r][q][1].part \in Remains => w # <<>> /\ w[1].part \in Remains
    <2> SUFFICES ASSUME wire'[r][q][1].part \in Remains PROVE w # <<>> /\ w[1].part \in Remains
      OBVIOUS
    <2>1. 1 \in 1 .. Len(wire'[r][q])
      BY <1>6, <1>7
    <2>2. 1 <= Len(w)
      BY <1>5, <1>7, <2>1 DEF Remains
    <2>3. w # <<>> /\ wire'[r][q][1] = w[1]
      BY <1>6, <1>7, <2>1, <2>2, EmptySeq
    <2> QED BY <2>3
  <1> QED BY <1>1, <1>2, <1>3, <1>4, <1>6, <1>9, <1>10, <1>11, MarkSpares

\* A send that is cut off was not spared.
LEMMA SendTimesOutSpares ==
  ASSUME SInv, IInv', NEW r \in Ranks, NEW x \in Exchanges, NEW q \in Ranks, SendTimesOut(r, x, q),
         UNCHANGED <<fixed, main, head>>, faults' = faults, ~ Spared(x[1])
  PROVE  SInv'
  <1> DEFINE s == "broken"
             w == wire[r][q]
  <1>1. /\ Quiet /\ Marks(r, x, q, s) /\ send[r][x][q] = "begun" /\ wire' = [wire EXCEPT ![r][q] = Cut(@)]
    BY DEF SendTimesOut, Quiet, Marks
  <1>2. Marked(r, x, q, s)
    <2>1. send \in [Ranks -> [Exchanges -> [Ranks -> {"idle", "begun", "sent", "broken"}]]]
      BY Typed DEF SInv, IInv
    <2> QED BY <1>1, <2>1 DEF Marks, Marked
  <1>3. s \in {"begun", "sent", "broken"} /\ s # "idle" /\ ~ Spared(x[1])'
    BY DEF Spared
  <1> HIDE DEF s
  <1>4. /\ w \in Seq(Frame) /\ Len(w) \in Nat /\ wire'[r][q] = Cut(w)
        /\ \A p, o \in Ranks : ~ (p = r /\ o = q) => wire'[p][o] = wire[p][o]
    <2>1. wire \in [Ranks -> [Ranks -> Seq(Frame)]] /\ w \in Seq(Frame) /\ Len(w) \in Nat
      BY Typed DEF SInv, IInv
    <2> QED BY <1>1, <2>1
  <1>5. /\ Len(wire'[r][q]) = Len(w)
        /\ \A i \in 1 .. Len(w) :
             /\ wire'[r][q][i].of = w[i].of
             /\ wire'[r][q][i].part = IF i = Len(w) THEN Short(w[i].part) ELSE w[i].part
    BY <1>4, CutFacts
  <1>6. Intact(r, q) /\ TakenOut(r, q)
    BY DEF SInv, Whole
  <1>7. Intact(r, q)'
    <2> SUFFICES ASSUME NEW i \in 1 .. Len(w), Spared(w[i].of[1])
                 PROVE  wire'[r][q][i].part \notin Severed
      BY <1>5 DEF Intact, Spared
    <2>1. w # <<>> => w[Len(w)].of = x
      BY <1>1 DEF SInv, IInv, Queued, InLine
    <2>2. i # Len(w)
      BY <1>4, <2>1, EmptySeq
    <2> QED BY <1>5, <1>6, <2>2 DEF Intact
  <1>8. TakenOut(r, q)'
    <2> SUFFICES ASSUME NEW y \in Exchanges, Spared(y[1]), r \in DOMAIN got[q][y]
                 PROVE  /\ send'[r][y][q] # "idle"
                        /\ \A i \in 1 .. Len(w) : wire'[r][q][i].of # y
      BY <1>1, <1>5 DEF TakenOut, Spared, Quiet
    <2>1. send'[r][y][q] # "idle"
      BY <1>2, <1>3, <1>6 DEF TakenOut, Marked
    <2> QED BY <1>5, <1>6, <2>1 DEF TakenOut
  <1>9. wire'[r][q] # <<>> /\ wire'[r][q][1].part \in Remains => w # <<>> /\ w[1].part \in Remains
    <2> SUFFICES ASSUME w # <<>>, wire'[r][q][1].part \in Remains PROVE w[1].part \in Remains
      BY <1>4 DEF Cut
    <2>1. 1 \in 1 .. Len(w) /\ w[1].part \in Parts
      <3>1. 1 \in 1 .. Len(w)
        BY <1>4, EmptySeq
      <3> QED BY <3>1, Typed DEF SInv, IInv, Frame
    <2> QED BY <1>5, <2>1 DEF Remains, Short, Parts
  <1> QED BY <1>1, <1>2, <1>3, <1>4, <1>7, <1>8, <1>9, MarkSpares

-----------------------------------------------------------------------------
(* The receives spare what they can.                                       *)

\* What is left in a stream after a read.
Leaves(p, r) ==
  \A i \in 1 .. Len(wire'[p][r]) : \E j \in 1 .. Len(wire[p][r]) :
    /\ wire'[p][r][i].of = wire[p][r][j].of
    /\ wire'[p][r][i].part \in Severed => wire[p][r][j].part \in Severed

LEMMA TakesSpare ==
  ASSUME SInv, IInv', NEW r \in Ranks, NEW x \in Exchanges, NEW p \in Ranks, Takes(r, x, p), Leaves(p, r),
         Spared(x[1]) =>
           /\ status' = status /\ ~ Doomed(p, r)'
           /\ p \in DOMAIN got'[r][x] =>
                /\ send[p][x][r] # "idle"
                /\ \A i \in 1 .. Len(wire'[p][r]) : wire'[p][r][i].of # x
  PROVE  SInv'
  <1>1. /\ IInv /\ TypeOK /\ main' = main /\ send' = send /\ faults' = faults
        /\ status[r][x] = "running" /\ ~ Left(r)
        /\ \A o \in Ranks : (Left(o)' <=> Left(o)) /\ Here(o)' = Here(o)
    BY DEF SInv, IInv, Takes, Reading, Left, Here
  <1>2. \A s : Spared(s)' <=> Spared(s)
    BY <1>1 DEF Spared
  <1>3. \A o \in Ranks, y \in Exchanges :
          status'[o][y] = status[o][y] \/ (o = r /\ y = x /\ status'[o][y] = "failing" /\ ~ Spared(x[1]))
    <2>1. status \in [Ranks -> [Exchanges -> Statuses]]
      BY <1>1, Typed
    <2>2. CASE status' = status
      BY <2>2
    <2>3. CASE Fail(r, x) /\ ~ Spared(x[1])
      BY <2>1, <2>3 DEF Fail
    <2> QED BY <2>2, <2>3 DEF Takes
  <1>4. Unharmed'
    <2> SUFFICES ASSUME NEW o \in Ranks, NEW y \in Exchanges, Spared(y[1])
                 PROVE  /\ status'[o][y] \notin {"failing", "failed"}
                        /\ \A q \in Ranks : send[o][y][q] # "broken"
      BY <1>1 DEF Unharmed, Spared
    <2> QED BY <1>3 DEF SInv, Unharmed
  <1>5. Alone'
    <2> SUFFICES ASSUME NEW o \in Ranks, NEW y \in Exchanges, status'[o][y] = "running",
                        y \notin Pool(o), ~ Left(o)
                 PROVE  main[o].phase = "inline" /\ y = Here(o)
      BY <1>1 DEF Alone, Pool
    <2> QED BY <1>3 DEF SInv, Alone
  <1>6. Drained'
    <2> SUFFICES ASSUME NEW o \in Ranks, NEW y \in Exchanges, Spared(y[1])
                 PROVE  /\ main[o].phase \in {"drain", "raised"} => status'[o][y] # "none"
                        /\ Left(o) => status'[o][y] = "ok"
      BY <1>1 DEF Drained, Spared
    <2> QED BY <1>1, <1>3 DEF SInv, Drained
  <1>7. Undoomed'
    <2> SUFFICES ASSUME NEW o \in Ranks, NEW q \in Ranks, Clean(q)', Spared(main[q].step)
                 PROVE  ~ Doomed(o, q)'
      BY <1>1 DEF Undoomed, Spared
    <2>1. Clean(q)
      BY <1>1, CleanSoFar DEF Clean
    <2>2. CASE q # r
      <3>1. wire'[o][q] = wire[o][q] /\ got'[q] = got[q] /\ head'[q] = head[q]
        BY <2>2 DEF Takes
      <3>2. HeadOf(q, o)' <=> HeadOf(q, o)
        BY <1>1, <1>3, <2>2, <3>1, HeadStays
      <3> QED BY <2>1, <3>1, <3>2, UndoomedStays
    <2>3. CASE q = r
      <3>1. Spared(x[1])
        BY <1>1, <2>3, OfThisStep
      <3>2. CASE o = p
        BY <2>3, <3>1, <3>2
      <3>3. CASE o # p
        <4>1. wire'[o][r] = wire[o][r]
          BY <3>3 DEF Takes
        <4>2. ~ HeadOf(r, o)
          <5> SUFFICES ASSUME NEW y \in Exchanges, Reading(r, y, o) PROVE FALSE
            BY DEF HeadOf
          <5>1. y = x
            BY <1>1, OneRuns DEF Reading, Started, Ended
          <5>2. o <= p /\ p <= o
            BY <5>1 DEF Reading, Takes
          <5>3. o \in Int /\ p \in Int
            BY HaloAssumption DEF Ranks
          <5> QED BY <3>3, <5>2, <5>3
        <4> QED BY <2>1, <2>3, <4>1, <4>2, UndoomedStays
      <3> QED BY <3>2, <3>3
    <2> QED BY <2>2, <2>3
  <1>8. Whole'
    <2> SUFFICES ASSUME NEW o \in Ranks, NEW q \in Ranks PROVE (Intact(o, q) /\ TakenOut(o, q))'
      BY DEF Whole
    <2>1. Intact(o, q) /\ TakenOut(o, q)
      BY DEF SInv, Whole
    <2>2. \A i \in 1 .. Len(wire[o][q]) : wire[o][q][i].of \in Exchanges
      BY <1>1, Typed DEF Frame
    <2>3. CASE o = p /\ q = r
      <3>1. Intact(p, r)'
        <4> SUFFICES ASSUME NEW i \in 1 .. Len(wire'[p][r]), Spared(wire'[p][r][i].of[1])
                     PROVE  wire'[p][r][i].part \notin Severed
          BY <1>1 DEF Intact, Spared
        <4>1. PICK j \in 1 .. Len(wire[p][r]) :
                /\ wire'[p][r][i].of = wire[p][r][j].of
                /\ wire'[p][r][i].part \in Severed => wire[p][r][j].part \in Severed
          BY DEF Leaves
        <4> QED BY <2>1, <2>3, <4>1 DEF Intact
      <3>2. TakenOut(p, r)'
        <4> SUFFICES ASSUME NEW y \in Exchanges, Spared(y[1]), p \in DOMAIN got'[r][y]
                     PROVE  /\ send[p][y][r] # "idle"
                            /\ \A i \in 1 .. Len(wire'[p][r]) : wire'[p][r][i].of # y
          BY <1>1 DEF TakenOut, Spared
        <4>1. CASE y = x
          BY <4>1
        <4>2. CASE y # x
          <5>1. p \in DOMAIN got[r][y]
            BY <4>2 DEF Takes
          <5>2. TakenOut(p, r)
            BY <2>1, <2>3
          <5>3. /\ send[p][y][r] # "idle"
                /\ \A j \in 1 .. Len(wire[p][r]) : wire[p][r][j].of # y
            BY <5>1, <5>2 DEF TakenOut
          <5>4. \A i \in 1 .. Len(wire'[p][r]) : \E j \in 1 .. Len(wire[p][r]) :
                  wire'[p][r][i].of = wire[p][r][j].of
            BY DEF Leaves
          <5> QED BY <5>3, <5>4
        <4> QED BY <4>1, <4>2
      <3> QED BY <2>3, <3>1, <3>2
    <2>4. CASE ~ (o = p /\ q = r)
      <3>1. wire'[o][q] = wire[o][q]
        BY <2>4 DEF Takes
      <3>2. ASSUME NEW y \in Exchanges, o \in DOMAIN got'[q][y] PROVE o \in DOMAIN got[q][y]
        <4>1. CASE q = r /\ y = x
          <5>1. o # p
            BY <2>4, <4>1
          <5>2. got'[r][x] = got[r][x] \/ DOMAIN got'[r][x] = DOMAIN got[r][x] \cup {p}
            BY DEF Takes
          <5> QED BY <3>2, <4>1, <5>1, <5>2
        <4>2. CASE q = r /\ y # x
          <5>1. got'[r][y] = got[r][y]
            BY <4>2 DEF Takes
          <5> QED BY <3>2, <4>2, <5>1
        <4>3. CASE q # r
          <5>1. got'[q] = got[q]
            BY <4>3 DEF Takes
          <5> QED BY <3>2, <5>1
        <4> QED BY <4>1, <4>2, <4>3
      <3>3. Intact(o, q)'
        BY <1>1, <2>1, <3>1 DEF Intact, Spared
      <3>4. TakenOut(o, q)'
        BY <1>1, <2>1, <3>1, <3>2 DEF TakenOut, Spared
      <3> QED BY <3>3, <3>4
    <2> QED BY <2>3, <2>4
  <1> QED BY <1>4, <1>5, <1>6, <1>7, <1>8 DEF SInv

LEMMA ReadHeaderSpares ==
  ASSUME SInv, NEW r \in Ranks, NEW x \in Exchanges, NEW p \in Ranks, ReadHeader(r, x, p) PROVE SInv'
  <1> DEFINE s == wire[p][r]
             t == wire'[p][r]
  <1>1. IInv' /\ IInv
    BY ReadHeaderKeeps DEF SInv
  <1>2. /\ Takes(r, x, p) /\ ~ head[r][x] /\ s # <<>> /\ got' = got
        /\ status' = status => head'[r][x]
        /\ Reading(r, x, p) /\ UNCHANGED <<main, send>>
    BY <1>1, HeaderTakes DEF Takes
  <1>3. /\ t \in Seq(Frame) /\ Len(t) = Len(s)
        /\ \A i \in 1 .. Len(s) :
             /\ t[i].of = s[i].of
             /\ t[i].part = IF i > 1 THEN s[i].part
                            ELSE IF s[1].part \in {"whole", "body"} THEN "body" ELSE "scrap"
    BY <1>1, HeaderTakes
  <1>4. /\ \A i \in 1 .. Len(s) : s[i].part \in Parts
        /\ 1 \in 1 .. Len(s)
    BY <1>1, <1>2, Typed, EmptySeq DEF IInv, Frame
  <1>5. Leaves(p, r)
    <2>1. \A i \in 1 .. Len(s) : t[i].of = s[i].of /\ (t[i].part \in Severed => s[i].part \in Severed)
      BY <1>3, <1>4 DEF Severed, Parts
    <2> QED BY <1>3, <2>1 DEF Leaves
  <1>6. ASSUME Spared(x[1])
        PROVE  /\ status' = status /\ ~ Doomed(p, r)'
               /\ p \in DOMAIN got'[r][x] =>
                    /\ send[p][x][r] # "idle" /\ \A i \in 1 .. Len(t) : t[i].of # x
    <2>1. /\ Clean(r) /\ Aligned(p, r) /\ ~ HeadOf(r, p)
          /\ s[1].of = x /\ s[1].part \notin Severed
      BY <1>2, <1>6, ReadsMine
    <2>2. s[1].part = "whole"
      BY <1>4, <2>1 DEF Aligned, Remains, Severed, Parts
    <2>3. status' = status
      <3>1. Fits(x, s[1].of)
        BY <2>1 DEF Fits
      <3> QED BY <2>2, <3>1 DEF ReadHeader
    <2>4. HeadOf(r, p)'
      <3>1. Reading(r, x, p)'
        BY <1>2, <2>3 DEF Reading, Left, Awaited, Sources
      <3> QED BY <1>2, <2>3, <3>1 DEF HeadOf
    <2>5. p \notin DOMAIN got'[r][x]
      BY <1>2 DEF Reading, Awaited
    <2> QED BY <2>3, <2>4, <2>5 DEF Doomed
  <1> QED BY <1>1, <1>2, <1>5, <1>6, TakesSpare

LEMMA ReadPayloadSpares ==
  ASSUME SInv, NEW r \in Ranks, NEW x \in Exchanges, NEW p \in Ranks, ReadPayload(r, x, p) PROVE SInv'
  <1> DEFINE s == wire[p][r]
             t == wire'[p][r]
  <1>1. IInv' /\ IInv
    BY ReadPayloadKeeps DEF SInv
  <1>2. /\ Takes(r, x, p) /\ head[r][x] /\ s # <<>> /\ t \in Seq(Frame) /\ Reading(r, x, p)
    <2>1. Takes(r, x, p) /\ head[r][x] /\ s # <<>> /\ t \in Seq(Frame)
      BY <1>1, PayloadTakes
    <2> QED BY <2>1 DEF Takes
  <1>3. /\ s \in Seq(Frame) /\ Len(s) \in Nat /\ 1 \in 1 .. Len(s) /\ Len(t) \in Nat
        /\ \A i \in 1 .. Len(s) : s[i].of \in Exchanges /\ s[i].part \in Parts
    <2>1. /\ s \in Seq(Frame) /\ Len(s) \in Nat
          /\ \A i \in 1 .. Len(s) : s[i].of \in Exchanges /\ s[i].part \in Parts
      BY <1>1, Typed DEF IInv, Frame
    <2>2. 1 \in 1 .. Len(s)
      BY <1>2, <2>1, EmptySeq
    <2>3. Len(t) \in Nat
      BY <1>2, LenProperties
    <2> QED BY <2>1, <2>2, <2>3
  <1>4. Leaves(p, r)
    <2>1. PICK k \in {0, 1} :
            /\ Len(t) = Len(s) - k
            /\ \A i \in 1 .. Len(t) :
                 t[i].of = s[i + k].of /\ (t[i].part \in Severed => s[i + k].part \in Severed)
      BY <1>1, PayloadTakes
    <2>2. \A i \in 1 .. Len(t) : i + k \in 1 .. Len(s)
      BY <1>3, <2>1
    <2> QED BY <2>1, <2>2 DEF Leaves
  <1>5. ASSUME Spared(x[1])
        PROVE  /\ status' = status /\ ~ Doomed(p, r)'
               /\ p \in DOMAIN got'[r][x] =>
                    /\ send[p][x][r] # "idle" /\ \A i \in 1 .. Len(t) : t[i].of # x
    <2>1. /\ Clean(r) /\ Aligned(p, r) /\ s[1].of = x /\ s[1].part \notin Severed
      BY <1>2, <1>5, ReadsMine
    <2>2. s[1].part = "body"
      <3>1. HeadOf(r, p)
        BY <1>2 DEF HeadOf
      <3> QED BY <1>3, <2>1, <3>1 DEF Aligned, Remains, Severed
    <2>3. status' = status /\ t = Tail(s)
      <3>1. Fits(x, s[1].of)
        BY <2>1 DEF Fits
      <3> QED BY <1>1, <2>2, <3>1, PayloadTakes
    <2>4. Len(t) = Len(s) - 1 /\ \A i \in 1 .. Len(t) : t[i] = s[i + 1] /\ i + 1 \in 1 .. Len(s) /\ i + 1 # 1
      <3>1. Len(t) = Len(s) - 1 /\ \A i \in 1 .. Len(t) : t[i] = s[i + 1]
        BY <1>2, <1>3, <2>3, HeadTailProperties
      <3> QED BY <1>3, <3>1
    <2> HIDE DEF t
    <2>5. \A i \in 1 .. Len(t) : t[i].part \notin Remains
      BY <2>1, <2>4 DEF Aligned
    <2>6. ~ Doomed(p, r)'
      <3> SUFFICES ASSUME t # <<>> PROVE t[1].part \notin Remains
        BY DEF Doomed, t
      <3>1. 1 \in 1 .. Len(t)
        BY <1>2, <1>3, EmptySeq
      <3> QED BY <2>5, <3>1
    <2>7. \A i \in 1 .. Len(t) : t[i].of # x
      <3> SUFFICES ASSUME NEW i \in 1 .. Len(t) PROVE t[i].of # x
        OBVIOUS
      <3>1. i + 1 \in 1 .. Len(s) /\ 1 < i + 1 /\ t[i] = s[i + 1]
        BY <1>3, <2>4
      <3>2. Earlier(s[1].of, s[i + 1].of)
        BY <1>1, <1>3, <3>1 DEF IInv, Queued, InLine
      <3> QED BY <1>3, <2>1, <3>1, <3>2, EarlierIsOrder
    <2>8. send[p][x][r] # "idle"
      BY <1>3, <2>1 DEF Aligned
    <2> QED BY <2>3, <2>6, <2>7, <2>8
  <1> QED BY <1>1, <1>2, <1>4, <1>5, TakesSpare

\* Who left has sent all that is spared.
LEMMA ReadEndsSpares ==
  ASSUME SInv, NEW r \in Ranks, NEW x \in Exchanges, NEW p \in Ranks, ReadEnds(r, x, p) PROVE SInv'
  <1>1. IInv' /\ IInv
    BY ReadEndsKeeps DEF SInv
  <1>2. /\ Reading(r, x, p) /\ Starved(r, x, p) /\ Left(p) /\ Fail(r, x)
        /\ UNCHANGED <<fixed, main, send, head, got, wire>> /\ faults' = faults
    BY DEF ReadEnds
  <1>3. ~ Spared(x[1])
    <2> SUFFICES ASSUME Spared(x[1]) PROVE FALSE
      OBVIOUS
    <2>1. status[p][x] = "ok"
      BY <1>2 DEF SInv, Drained
    <2>2. Aligned(p, r) /\ (wire[p][r] # <<>> => wire[p][r][1].part \notin Severed)
      BY <1>2, ReadsMine
    <2>3. p \in Sources(r, x) /\ p \notin DOMAIN got[r][x]
      BY <1>2 DEF Reading, Awaited
    <2>4. send[p][x][r] # "idle"
      BY <1>1, <2>1, <2>3, Neighbours DEF IInv, Ends, Ended
    <2>5. PICK i \in 1 .. Len(wire[p][r]) : wire[p][r][i].of = x
      BY <2>2, <2>3, <2>4 DEF Aligned
    <2>6. wire[p][r] # <<>>
      BY <2>5
    <2> QED BY <1>2, <2>2, <2>6 DEF Starved, Severed
  <1>4. ~ Spared(x[1])'
    BY <1>2, <1>3 DEF Spared
  <1> QED BY <1>1, <1>2, <1>4, FailSpares

-----------------------------------------------------------------------------
(* Every step spares what it can.                                          *)

LEMMA TimesOutSpares ==
  ASSUME SInv, Workers = 1, NEW r \in Ranks, Expire(r) \/ TooSlow(r) PROVE SInv'
  <1>1. TimesOut(r) /\ (faults' = faults \/ Fault(r, "timeout")) /\ IInv
    BY DEF Expire, TooSlow, SInv
  <1>2. IInv'
    BY <1>1, TimesOutKeeps
  <1>3. PICK x \in Exchanges, p \in Ranks : SendTimesOut(r, x, p) \/ ReadTimesOut(r, x, p)
    BY <1>1 DEF TimesOut
  <1>4. UNCHANGED <<fixed, main, head>>
    BY <1>1 DEF TimesOut
  <1>5. CASE TooSlow(r)
    <2> DEFINE kind == "timeout"
    <2>1. Fault(r, kind) /\ kind # "interior"
      BY <1>5 DEF TooSlow
    <2> HIDE DEF kind
    <2>2. \A s \in Int : ~ Spared(s)'
      BY <2>1, FaultSpares
    <2>3. Alone'
      <3> SUFFICES ASSUME NEW o \in Ranks, NEW y \in Exchanges, status'[o][y] = "running",
                          y \notin Pool(o), ~ Left(o)'
                   PROVE  main'[o].phase = "inline" /\ y = Here(o)'
        BY DEF Alone, Pool
      <3>1. status'[o][y] = "running" => status[o][y] = "running"
        <4>1. status' = status \/ status' = [status EXCEPT ![r][x] = "failing"]
          BY <1>3 DEF SendTimesOut, ReadTimesOut, Fail
        <4>2. status \in [Ranks -> [Exchanges -> Statuses]]
          BY <1>1, Typed DEF IInv
        <4>3. CASE status' = status
          BY <4>3
        <4>4. CASE status' = [status EXCEPT ![r][x] = "failing"]
          <5>1. status'[o][y] = IF o = r /\ y = x THEN "failing" ELSE status[o][y]
            BY <4>2, <4>4
          <5> QED BY <5>1
        <4> QED BY <4>1, <4>3, <4>4
      <3> QED BY <1>4, <3>1 DEF SInv, Alone, Left, Here
    <2> QED BY <1>2, <2>2, <2>3, NothingSpared
  <1>6. CASE Expire(r)
    <2>1. Stalled /\ faults' = faults
      BY <1>6 DEF Expire
    <2>2. status[r][x] # "ok"
      BY <1>1, <1>3 DEF SendTimesOut, ReadTimesOut, Reading, IInv, Ends, Ended
    <2>3. ~ Spared(x[1]) /\ ~ Spared(x[1])'
      <3>1. ~ Spared(x[1])
        BY <2>1, <2>2, StallSpares
      <3> QED BY <2>1, <3>1 DEF Spared
    <2>4. CASE SendTimesOut(r, x, p)
      BY <1>2, <1>4, <2>1, <2>3, <2>4, SendTimesOutSpares
    <2>5. CASE ReadTimesOut(r, x, p)
      <3>1. Reading(r, x, p) /\ Fail(r, x) /\ UNCHANGED <<fixed, main, send, head, got, wire>>
        BY <1>4, <2>5 DEF ReadTimesOut
      <3> QED BY <1>2, <2>1, <2>3, <3>1, FailSpares
    <2> QED BY <1>3, <2>4, <2>5
  <1> QED BY <1>5, <1>6

LEMMA StartsSpared == Init => SInv
  <1> SUFFICES ASSUME Init PROVE SInv
    OBVIOUS
  <1>1. IInv
    BY Starts
  <1>2. /\ \A r \in Ranks : main[r].phase = "next"
        /\ \A r \in Ranks, x \in Exchanges :
             /\ status[r][x] = "none" /\ DOMAIN got[r][x] = {}
             /\ \A q \in Ranks : send[r][x][q] = "idle"
        /\ \A p, q \in Ranks : wire[p][q] = <<>>
    BY DEF Init
  <1>3. Unharmed /\ Alone /\ Drained /\ Undoomed
    BY <1>2 DEF Unharmed, Alone, Drained, Undoomed, Doomed, Left
  <1>4. Whole
    <2>1. \A p, q \in Ranks : Len(wire[p][q]) = 0
      BY <1>2
    <2> QED BY <1>2, <2>1 DEF Whole, Intact, TakenOut
  <1> QED BY <1>1, <1>3, <1>4 DEF SInv

LEMMA StuttersSpared ==
  ASSUME SInv, UNCHANGED vars PROVE SInv'
  <1>1. IInv' /\ UNCHANGED <<main, status, send, head, got, wire, faults>>
    BY Stutters DEF SInv, vars
  <1>2. Unharmed' /\ Alone' /\ Drained'
    BY <1>1 DEF SInv, Unharmed, Alone, Drained, Spared, Left, Here, Pool
  <1>3. Undoomed'
    BY <1>1 DEF SInv, Undoomed, Doomed, Clean, Left, Spared, HeadOf, Reading, Awaited, Sources
  <1>4. Whole'
    BY <1>1 DEF SInv, Whole, Intact, TakenOut, Spared
  <1> QED BY <1>1, <1>2, <1>3, <1>4 DEF SInv

LEMMA Spares == ASSUME Workers = 1, SInv, [Next]_vars PROVE SInv'
  <1>1. CASE UNCHANGED vars
    BY <1>1, StuttersSpared
  <1>2. CASE Next
    <2>1. PICK r \in Ranks : Runs(r) \/ Expire(r) \/ Faulty(r)
      BY <1>2 DEF Next
    <2>2. CASE Progress(r)
      <3>1. CASE \E x \in Exchanges : PickUp(r, x)
        BY <3>1, PickUpSpares
      <3>2. CASE \E x \in Exchanges : Finish(r, x)
        BY <3>2, FinishSpares
      <3>3. CASE \/ BeginStep(r) \/ Inline(r) \/ Submit(r) \/ Interior(r) \/ Drain(r)
                 \/ Collect(r) \/ Close(r)
        <4>1. Moves(r) /\ UNCHANGED wire
          BY <3>3 DEF Moves, BeginStep, Inline, Submit, Interior, Drain, Collect, Close
        <4> QED BY <4>1, MovesSpare
      <3> QED BY <2>2, <3>1, <3>2, <3>3 DEF Progress
    <2>3. CASE Receive(r)
      <3>1. PICK x \in Exchanges, p \in Ranks :
              ReadHeader(r, x, p) \/ ReadPayload(r, x, p) \/ ReadEnds(r, x, p)
        BY <2>3 DEF Receive
      <3> QED BY <3>1, ReadHeaderSpares, ReadPayloadSpares, ReadEndsSpares
    <2>4. CASE \E q \in Ranks : Send(r, q)
      <3>1. PICK q \in Ranks, x \in Exchanges :
              SendBegins(r, x, q) \/ SendReturns(r, x, q) \/ SendBreaks(r, x, q)
        BY <2>4 DEF Send
      <3> QED BY <3>1, SendBeginsSpares, SendReturnsSpares, SendBreaksSpares
    <2>5. CASE Expire(r) \/ TooSlow(r)
      BY <2>5, TimesOutSpares
    <2>6. CASE ReadFails(r) \/ InteriorFails(r)
      <3>1. Moves(r) /\ UNCHANGED wire
        BY <2>6 DEF Moves, ReadFails, InteriorFails
      <3> QED BY <3>1, MovesSpare
    <2>7. CASE Crash(r)
      BY <2>7, CrashSpares
    <2> QED BY <2>1, <2>2, <2>3, <2>4, <2>5, <2>6, <2>7 DEF Runs, Faulty
  <1> QED BY <1>1, <1>2

\* With one progress thread, and as long as the computation of a rank is all
\* that went wrong: an exchange fails only after it, in a later step.
THEOREM ComputeFailureAlwaysLocal ==
  ASSUME Workers = 1
  PROVE  Spec => []ComputeFailureStaysLocal
  <1>1. SInv => ComputeFailureStaysLocal
    <2> SUFFICES ASSUME SInv, NEW r \in Ranks, NEW x \in Exchanges,
                        status[r][x] \in {"failing", "failed"},
                        \A f \in faults : f.kind = "interior"
                 PROVE  \E f \in faults : f.step < x[1]
      BY DEF ComputeFailureStaysLocal
    <2>1. ~ Spared(x[1])
      BY DEF SInv, Unharmed
    <2>2. PICK f \in faults : ~ (x[1] <= f.step)
      BY <2>1 DEF Spared
    <2>3. f.step \in Int /\ x[1] \in Int
      BY EarlierIsOrder, ExchangeShape DEF SInv, IInv, TypeOK
    <2> QED BY <2>2, <2>3
  <1> QED BY <1>1, StartsSpared, Spares, PTL DEF Spec

\* With one progress thread, as long as nothing goes wrong: no wait of an
\* exchange ever expires, whatever the program and however little the streams
\* hold, and no frame is taken for another.
THEOREM FailuresAlwaysFollowFaults ==
  ASSUME Workers = 1
  PROVE  Spec => []FailsOnlyAfterFault
  <1>1. SInv => FailsOnlyAfterFault
    BY DEF SInv, Unharmed, FailsOnlyAfterFault, Spared
  <1> QED BY <1>1, StartsSpared, Spares, PTL DEF Spec
=============================================================================
