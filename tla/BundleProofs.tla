---------------------------- MODULE BundleProofs ----------------------------
(***************************************************************************)
(* A bundle implements LaunchOrder, for every plan, number of launches and *)
(* set of streams.  The inductive invariant says what each stage of the    *)
(* work has established: the sort (every dependency of a launch stands     *)
(* before it in order), the closure (reachable holds nothing a path does   *)
(* not justify), the check (conflicting launches are reachable one way),   *)
(* and the device (a launch has each of its dependencies ahead of it).     *)
(***************************************************************************)
EXTENDS Bundle, TLAPS, FiniteSetTheorems, WellFoundedInduction, SequenceTheorems

\* The compiler prepares first: no materialize launch names an execute one.
Forward ==
  \A p \in Plans : p.phased =>
    \A i \in Launches : p.phase[i] = "materialize" =>
      \A d \in p.deps[i] : p.phase[d] = "materialize"

\* Under the CUDA provider a launch that runs on the host names nothing.
HostFirst ==
  "cuda" \in Providers =>
    \A p \in Plans : \A i \in Launches : p.kind[i] = "host" => p.deps[i] = {}

Prefix(k) == {order[j] : j \in 1 .. (k - 1)}
Queued == {queue[k] : k \in 1 .. Len(queue)}

\* What the sort has established of order and of the queue.
SortSound ==
  /\ Ordered \subseteq Selected
  /\ Queued \subseteq Selected
  /\ \A k \in 1 .. Len(order) : Deps(order[k]) \subseteq Prefix(k)
  /\ \A k \in 1 .. Len(queue) : Deps(queue[k]) \subseteq Ordered
  /\ \A k \in 1 .. Len(queue) : queue[k] \notin Ordered
  /\ \A j, k \in 1 .. Len(order) : order[j] = order[k] => j = k
  /\ \A j, k \in 1 .. Len(queue) : queue[j] = queue[k] => j = k

\* reachable holds nothing that the last edge of a path does not justify.
ReachSound ==
  \A l, r \in Launches :
    r \in reach[l] => l \in Deps(r) \/ \E p \in Deps(r) : p \in reach[l]

\* What the check has established.
CheckSound ==
  \A l, r \in Selected :
    l < r /\ Conflict(l, r) => r \in reach[l] \/ l \in reach[r]

Unsorted == {"bind", "refused"}
Checked == {"submit", "submitted", "returned", "direct", "raised"}

GraphInv ==
  /\ step \notin Unsorted => SortSound /\ ReachSound
  /\ step \notin Unsorted \cup {"sort"} => Len(order) = Cardinality(Selected)
  /\ step \in Checked => CheckSound

\* How far the submission is, phase by phase.
SubmitInv ==
  /\ stage = "whole" <=> ~plan.phased
  /\ stage = "materialize" => submitted \subseteq Selected
  /\ stage = "execute" =>
       \A i \in Launches : plan.phase[i] = "materialize" => i \in done
  /\ step \in {"bind", "sort", "close", "refused"} =>
       submitted \cap Selected \subseteq {}
  /\ step = "close" => next <= Len(order)
  /\ step \in {"submit", "raised"} =>
       /\ next \in 1 .. (Len(order) + 1)
       /\ submitted \cap Selected = Prefix(next)
  /\ step \in {"submitted", "returned"} => Selected \subseteq submitted
  /\ step = "direct" =>
       /\ next >= 1
       /\ \A i \in Selected : i >= next => i \notin submitted
       /\ MayGoDirect
  /\ provider = "sync" => submitted = begun
  /\ step \in {"submitted", "returned"} /\ provider = "sync" => submitted \subseteq done

\* What a submitted launch has ahead of it, and what has run before it.
DeviceInv ==
  /\ \A i \in Launches : handle[i] # NoStream => i \in submitted /\ handle[i] = stream[i]
  /\ \A i \in submitted : plan.deps[i] \subseteq after[i] \cup done
  /\ \A i \in begun : plan.deps[i] \subseteq done
  /\ \A l \in Launches, r \in begun : r \in Selected /\ r \in reach[l] => l \in done

IInv == TypeOK /\ GraphInv /\ SubmitInv /\ DeviceInv

-----------------------------------------------------------------------------
\* A non-empty set of positions has a last one.
LEMMA LastOf ==
  ASSUME NEW n \in Nat, NEW T, T \subseteq 1 .. n, T # {}
  PROVE  \E x \in T : \A y \in T : y <= x
  <1> DEFINE Above(x) == {y \in T : y > x}
             F == {Above(x) : x \in T}
  <1>1. IsFiniteSet(1 .. n)
    BY FS_Interval
  <1>0. \A x \in T : x \in Int
    OBVIOUS
  <1>2. F \subseteq FiniteSubsetsOf(1 .. n) /\ F # {}
    <2>1. \A x \in T : Above(x) \in SUBSET (1 .. n)
      OBVIOUS
    <2>2. \A x \in T : Above(x) \in FiniteSubsetsOf(1 .. n)
      <3> HIDE DEF Above
      <3> QED
        BY <1>1, <2>1, FS_Subset DEF FiniteSubsetsOf
    <2>3. F # {}
      <3> HIDE DEF Above
      <3> QED
        OBVIOUS
    <2> QED
      BY <2>2, <2>3
  <1>3. IsWellFoundedOn(StrictSubsetOrdering(1 .. n), FiniteSubsetsOf(1 .. n))
    BY FS_StrictSubsetOrderingWellFounded
  <1>4. \E A \in F : \A B \in F : ~ (<<B, A>> \in StrictSubsetOrdering(1 .. n))
    <2> HIDE DEF F
    <2> QED
      BY <1>2, <1>3, WFMin
  <1>5. PICK x \in T :
          \A y \in T : ~ (<<Above(y), Above(x)>> \in StrictSubsetOrdering(1 .. n))
    BY <1>4
  <1>6. ASSUME NEW y \in T, ~ (y <= x)
        PROVE  FALSE
    <2>1. y \in Above(x) /\ y \notin Above(y) /\ x \in Int /\ y \in Int
      BY <1>6
    <2>2. Above(y) \subseteq Above(x)
      <3> SUFFICES ASSUME NEW z \in T, z > y
                   PROVE  z > x
        OBVIOUS
      <3>1. z \in Int /\ y > x
        BY <1>0, <2>1
      <3> QED
        BY <3>1, <2>1
    <2>3. <<Above(y), Above(x)>> \in StrictSubsetOrdering(1 .. n)
      BY <2>1, <2>2 DEF StrictSubsetOrdering
    <2> QED
      BY <1>5, <2>3
  <1> QED
    BY <1>6

\* Listings are sequences without repetition of the set they list.
LEMMA ListingOf ==
  ASSUME NEW S \in SUBSET Launches, NEW q \in Listings(S)
  PROVE  /\ q \in Seq(S)
         /\ q \in Seq(Launches)
         /\ Len(q) = Cardinality(S)
         /\ Len(q) \in Nat
         /\ \A j, k \in 1 .. Len(q) : q[j] = q[k] => j = k
  <1>1. IsFiniteSet(Launches)
    BY BundleAssumption, FS_Interval DEF Launches
  <1>2. Cardinality(S) \in Nat
    BY <1>1, FS_Subset, FS_CardinalityType
  <1>3. q \in [1 .. Cardinality(S) -> S]
    BY DEF Listings
  <1>4. Len(q) = Cardinality(S) /\ q \in Seq(S) /\ q \in Seq(Launches)
    BY <1>2, <1>3
  <1>5. \A k \in 1 .. Len(q) : q[k] \in Nat
    BY <1>3, <1>4, BundleAssumption DEF Launches
  <1>6. \A j, k \in 1 .. Len(q) : j < k => q[j] < q[k]
    BY <1>3, <1>4 DEF Listings
  <1>7. ASSUME NEW j \in 1 .. Len(q), NEW k \in 1 .. Len(q), q[j] = q[k]
        PROVE  j = k
    BY <1>2, <1>4, <1>5, <1>6, <1>7
  <1> QED
    BY <1>2, <1>4, <1>7

\* What depends on the plan and on the phase alone.
LEMMA PhaseFrame ==
  ASSUME plan' = plan, stage' = stage
  PROVE  /\ Selected' = Selected
         /\ Terminals' = Terminals
         /\ \A i : Deps(i)' = Deps(i) /\ Successors(i)' = Successors(i)
  BY DEF Selected, Terminals, Deps, Successors

LEMMA SelectedType ==
  ASSUME TypeOK
  PROVE  /\ Selected \subseteq Launches
         /\ IsFiniteSet(Selected)
         /\ \A i \in Launches : Deps(i) \subseteq Selected /\ Deps(i) \subseteq plan.deps[i]
         /\ plan \in PlanType
         /\ \A i \in Launches : plan.deps[i] \subseteq Launches
         /\ \A i : Successors(i) \subseteq Selected
  <1>1. IsFiniteSet(Launches)
    BY BundleAssumption, FS_Interval DEF Launches
  <1>2. Selected \subseteq Launches
    BY DEF Selected
  <1>3. plan \in PlanType
    BY BundleAssumption DEF TypeOK
  <1> QED
    BY <1>1, <1>2, <1>3, FS_Subset DEF Deps, Successors, PlanType

-----------------------------------------------------------------------------
\* The types: each step of the calling thread and of the device.
LEMMA TypeStep ==
  ASSUME IInv, Next
  PROVE  TypeOK'
  <1>0. TypeOK /\ Selected \subseteq Launches
    BY SelectedType DEF IInv
  <1>1. CASE Bind
    <2>0. {i \in Selected : Deps(i) = {}} \in SUBSET Launches
      BY <1>0
    <2>1. queue' \in Seq(Launches)
      <3>1. CASE queue' = <<>>
        BY <3>1, EmptySeq
      <3>2. CASE queue' \in Listings({i \in Selected : Deps(i) = {}})
        BY <2>0, <3>2, ListingOf
      <3> QED
        BY <1>1, <3>1, <3>2 DEF Bind
    <2>2. order' \in Seq(Launches)
      BY <1>1, EmptySeq DEF Bind
    <2> QED
      BY <1>0, <1>1, <2>1, <2>2 DEF Bind, TypeOK, static, device
  <1>2. CASE Pop
    <2>1. PICK ready : /\ ready \in Seq(Launches)
                       /\ queue' = Tail(queue) \o ready
      BY <1>0, <1>2, ListingOf DEF Pop, Successors
    <2>2. queue' \in Seq(Launches) /\ order' \in Seq(Launches)
      BY <1>0, <1>2, <2>1, HeadTailProperties, ConcatProperties,
         AppendProperties DEF Pop, TypeOK
    <2> QED
      BY <1>0, <1>2, <2>2 DEF Pop, TypeOK, static, device
  <1>3. CASE Sorted
    BY <1>0, <1>3 DEF Sorted, TypeOK, static, graph, device
  <1>4. CASE Close
    <2>1. next \in 1 .. Len(order)
      BY <1>0, <1>4 DEF Close, IInv, SubmitInv, TypeOK
    <2>2. \A t \in Launches : reach[t] \subseteq Launches
      BY <1>0 DEF TypeOK
    <2>3. Successors(order[next])
            \cup UNION {reach[t] : t \in Successors(order[next])} \subseteq Launches
      BY <1>0, <2>1, <2>2, SelectedType
    <2> QED
      BY <1>0, <1>4, <2>1, <2>3 DEF Close, TypeOK, static, device
  <1>5. CASE Check
    BY <1>0, <1>5 DEF Check, TypeOK, static, graph, device
  <1>6. CASE SubmitSync
    <2>1. order[next] \in Launches
      BY <1>0, <1>6 DEF SubmitSync, IInv, SubmitInv, TypeOK
    <2> QED
      BY <1>0, <1>6, <2>1 DEF SubmitSync, TypeOK, static, graph
  <1>7. ASSUME NEW s \in Streams, SubmitCuda(s)
        PROVE  TypeOK'
    <2>1. order[next] \in Launches
      BY <1>0, <1>7 DEF SubmitCuda, IInv, SubmitInv, TypeOK
    <2>2. Ahead(order[next], s) \subseteq Launches
      BY <1>0 DEF Ahead, OnStream, TypeOK
    <2> QED
      BY <1>0, <1>7, <2>1, <2>2 DEF SubmitCuda, TypeOK, static, graph
  <1>8. CASE SubmitRaises
    BY <1>0, <1>8 DEF SubmitRaises, TypeOK, static, graph, device
  <1>9. CASE Submit
    BY <1>0, <1>9 DEF Submit, TypeOK, static, graph, device
  <1>10. CASE Wait
    BY <1>0, <1>10 DEF Wait, TypeOK, static, graph, device, Phases
  <1>11. CASE GoDirect
    BY <1>0, <1>11 DEF GoDirect, TypeOK, static, graph, device
  <1>12. CASE PassOver
    BY <1>0, <1>12 DEF PassOver, TypeOK, static, graph, device
  <1>13. ASSUME NEW s \in Streams, LaunchDirect(s)
         PROVE  TypeOK'
    <2>1. next \in Launches
      BY <1>0, <1>13 DEF LaunchDirect
    <2>2. OnStream(s) \subseteq Launches
      BY <1>0 DEF OnStream, TypeOK
    <2> QED
      BY <1>0, <1>13, <2>1, <2>2 DEF LaunchDirect, TypeOK, static, graph
  <1>14. ASSUME NEW i \in Launches, Start(i)
         PROVE  TypeOK'
    BY <1>0, <1>14 DEF Start, TypeOK, static, graph, device
  <1>15. ASSUME NEW i \in Launches, Finish(i)
         PROVE  TypeOK'
    BY <1>0, <1>15 DEF Finish, TypeOK, static, graph, device
  <1> QED
    BY <1>1, <1>2, <1>3, <1>4, <1>5, <1>6, <1>7, <1>8, <1>9, <1>10, <1>11,
       <1>12, <1>13, <1>14, <1>15 DEF Next, Host

-----------------------------------------------------------------------------
\* Nothing of the verification changes while order, queue and reachable do not.
LEMMA GraphFrame ==
  ASSUME plan' = plan, stage' = stage, graph' = graph
  PROVE  /\ SortSound' = SortSound
         /\ ReachSound' = ReachSound
         /\ CheckSound' = CheckSound
         /\ Ordered' = Ordered
         /\ \A k : Prefix(k)' = Prefix(k)
         /\ Selected' = Selected
  <1>1. Selected' = Selected /\ \A i : Deps(i)' = Deps(i)
    BY PhaseFrame
  <1>2. order' = order /\ queue' = queue /\ reach' = reach
    BY DEF graph
  <1>3. Ordered' = Ordered /\ Queued' = Queued /\ \A k : Prefix(k)' = Prefix(k)
    BY <1>2 DEF Ordered, Queued, Prefix
  <1>4. \A l, r : Conflict(l, r)' = Conflict(l, r)
    BY DEF Conflict
  <1>5. SortSound' = SortSound
    BY <1>1, <1>2, <1>3 DEF SortSound
  <1>6. ReachSound' = ReachSound
    BY <1>1, <1>2 DEF ReachSound
  <1>7. CheckSound' = CheckSound
    BY <1>1, <1>2, <1>4 DEF CheckSound
  <1> QED
    BY <1>1, <1>3, <1>5, <1>6, <1>7

\* The loop of the sort: the head of the queue goes to the end of order, the
\* successors it was the last dependency of to the end of the queue.
LEMMA PopStep ==
  ASSUME IInv, Pop
  PROVE  SortSound' /\ ReachSound'
  <1> DEFINE h == Head(queue)
             fresh == {j \in Successors(h) : Deps(j) \subseteq Ordered \cup {h}}
  <1>0. TypeOK /\ SortSound /\ ReachSound /\ Selected \subseteq Launches
    BY SelectedType DEF IInv, GraphInv, Pop, Unsorted
  <1>1. PICK ready \in Listings(fresh) : queue' = Tail(queue) \o ready
    BY DEF Pop
  <1>2. /\ Selected' = Selected
        /\ \A i : Deps(i)' = Deps(i)
    BY PhaseFrame DEF Pop, static
  <1>3. /\ fresh \in SUBSET Launches
        /\ fresh \subseteq Selected
    BY <1>0 DEF Successors
  <1>4. /\ ready \in Seq(fresh) /\ ready \in Seq(Launches) /\ Len(ready) \in Nat
        /\ \A k \in 1 .. Len(ready) : ready[k] \in fresh
        /\ \A j, k \in 1 .. Len(ready) : ready[j] = ready[k] => j = k
    <2> HIDE DEF fresh
    <2> QED
      BY <1>1, <1>3, ListingOf, ElementOfSeq
  <1>5. /\ h \in Launches /\ Len(queue) \in Nat \ {0} /\ h = queue[1]
        /\ Tail(queue) \in Seq(Launches) /\ Len(Tail(queue)) = Len(queue) - 1
        /\ \A k \in 1 .. (Len(queue) - 1) : Tail(queue)[k] = queue[k + 1]
    BY <1>0, HeadTailProperties, EmptySeq, LenProperties DEF Pop, TypeOK
  <1>6. /\ Len(order) \in Nat
        /\ Len(order') = Len(order) + 1
        /\ \A k \in 1 .. Len(order) : order'[k] = order[k]
        /\ order'[Len(order) + 1] = h
    <2> HIDE DEF h
    <2> QED
      BY <1>0, <1>5, AppendProperties, LenProperties DEF Pop, TypeOK, h
  <1>7. /\ Len(queue') = Len(queue) - 1 + Len(ready)
        /\ \A k \in 1 .. (Len(queue) - 1) : queue'[k] = queue[k + 1]
        /\ \A k \in 1 .. Len(ready) : queue'[k + Len(queue) - 1] = ready[k]
    <2> HIDE DEF h, fresh
    <2> QED
      BY <1>1, <1>4, <1>5, ConcatProperties
  <1>8. Ordered' = Ordered \cup {h} /\ h \notin Ordered /\ h \in Selected
        /\ Deps(h) \subseteq Ordered
    <2>1. Ordered' = Ordered \cup {h}
      <3> HIDE DEF h
      <3>1. Ordered' \subseteq Ordered \cup {h}
        BY <1>6 DEF Ordered
      <3>2. Ordered \cup {h} \subseteq Ordered'
        BY <1>6 DEF Ordered
      <3> QED
        BY <3>1, <3>2
    <2>2. h \notin Ordered /\ h \in Selected /\ Deps(h) \subseteq Ordered
      BY <1>0, <1>5 DEF SortSound, Queued
    <2> QED
      BY <2>1, <2>2
  \* A fresh launch depends on h, which no launch in order or in the queue does.
  <1>9. ASSUME NEW x \in fresh
        PROVE  /\ x \notin Ordered'
               /\ \A k \in 1 .. Len(queue) : x # queue[k]
               /\ Deps(x) \subseteq Ordered'
    <2>1. h \in Deps(x) /\ Deps(x) \subseteq Ordered \cup {h}
      BY DEF Successors
    <2>2. \A k \in 1 .. Len(queue) : x # queue[k]
      BY <1>0, <1>8, <2>1 DEF SortSound
    <2>3. \A k \in 1 .. Len(order) : x # order[k]
      <3> SUFFICES ASSUME NEW k \in 1 .. Len(order)
                   PROVE  h \notin Deps(order[k])
        BY <2>1
      <3>1. Deps(order[k]) \subseteq Prefix(k)
        BY <1>0 DEF SortSound
      <3>2. Prefix(k) \subseteq Ordered
        BY <1>6 DEF Prefix, Ordered
      <3> QED
        BY <3>1, <3>2, <1>8
    <2>4. x # h
      BY <2>2, <1>5
    <2> QED
      BY <1>8, <2>1, <2>2, <2>3, <2>4 DEF Ordered
  <1> HIDE DEF h, fresh
  <1> DEFINE NewPrefix(k) == {order'[j] : j \in 1 .. (k - 1)}
  <1>10. \A k \in 1 .. Len(order) : NewPrefix(k) = Prefix(k)
    BY <1>6 DEF Prefix
  <1>11. NewPrefix(Len(order) + 1) = Ordered
    <2>1. (Len(order) + 1) - 1 = Len(order)
      BY <1>6
    <2> QED
      BY <1>6, <2>1 DEF Ordered
  <1> HIDE DEF NewPrefix
  <1>12. \A k \in 1 .. Len(order') : Deps(order'[k]) \subseteq NewPrefix(k)
    <2> SUFFICES ASSUME NEW k \in 1 .. Len(order')
                 PROVE  Deps(order'[k]) \subseteq NewPrefix(k)
      OBVIOUS
    <2>1. CASE k \in 1 .. Len(order)
      BY <2>1, <1>0, <1>6, <1>10 DEF SortSound
    <2>2. CASE k = Len(order) + 1
      BY <2>2, <1>6, <1>8, <1>11
    <2> QED
      BY <2>1, <2>2, <1>6
  <1>13. \A k \in 1 .. Len(queue') :
           \/ k \in 1 .. (Len(queue) - 1) /\ queue'[k] = queue[k + 1]
                /\ k + 1 \in 1 .. Len(queue)
           \/ k - (Len(queue) - 1) \in 1 .. Len(ready)
                /\ queue'[k] = ready[k - (Len(queue) - 1)]
    <2> SUFFICES ASSUME NEW k \in 1 .. Len(queue'), ~ (k <= Len(queue) - 1)
                 PROVE  /\ k - (Len(queue) - 1) \in 1 .. Len(ready)
                        /\ queue'[k] = ready[k - (Len(queue) - 1)]
      BY <1>5, <1>7, <1>4
    <2>1. k - (Len(queue) - 1) \in 1 .. Len(ready)
      BY <1>4, <1>5, <1>7
    <2>2. (k - (Len(queue) - 1)) + Len(queue) - 1 = k
      BY <1>5
    <2> QED
      BY <1>7, <2>1, <2>2
  <1>14. \A k \in 1 .. Len(queue') :
           queue'[k] \in Selected /\ Deps(queue'[k]) \subseteq Ordered'
             /\ queue'[k] \notin Ordered'
    <2> SUFFICES ASSUME NEW k \in 1 .. Len(queue')
                 PROVE  queue'[k] \in Selected /\ Deps(queue'[k]) \subseteq Ordered'
                          /\ queue'[k] \notin Ordered'
      OBVIOUS
    <2>1. CASE k \in 1 .. (Len(queue) - 1) /\ queue'[k] = queue[k + 1]
                 /\ k + 1 \in 1 .. Len(queue)
      <3>1. queue[k + 1] # h
        BY <2>1, <1>0, <1>5 DEF SortSound
      <3>2. queue[k + 1] \in Selected /\ Deps(queue[k + 1]) \subseteq Ordered
              /\ queue[k + 1] \notin Ordered
        BY <2>1, <1>0 DEF SortSound, Queued
      <3> QED
        BY <2>1, <3>1, <3>2, <1>8
    <2>2. CASE k - (Len(queue) - 1) \in 1 .. Len(ready)
                 /\ queue'[k] = ready[k - (Len(queue) - 1)]
      BY <2>2, <1>3, <1>4, <1>9
    <2> QED
      BY <1>13, <2>1, <2>2
  <1>15. \A j, k \in 1 .. Len(queue') : queue'[j] = queue'[k] => j = k
    <2> SUFFICES ASSUME NEW j \in 1 .. Len(queue'), NEW k \in 1 .. Len(queue'),
                        queue'[j] = queue'[k]
                 PROVE  j = k
      OBVIOUS
    <2>1. \A m \in 1 .. Len(ready), n \in 1 .. Len(queue) : ready[m] # queue[n]
      BY <1>4, <1>9
    <2>2. CASE j <= Len(queue) - 1 /\ k <= Len(queue) - 1
      <3>1. queue[j + 1] = queue[k + 1] /\ j + 1 \in 1 .. Len(queue)
              /\ k + 1 \in 1 .. Len(queue)
        BY <2>2, <1>5, <1>7
      <3>2. j + 1 = k + 1
        BY <3>1, <1>0 DEF SortSound
      <3> QED
        BY <3>2
    <2>3. CASE ~ (j <= Len(queue) - 1) /\ ~ (k <= Len(queue) - 1)
      <3>1. j - (Len(queue) - 1) = k - (Len(queue) - 1)
        BY <2>3, <1>13, <1>4, <1>5
      <3> QED
        BY <3>1, <1>5
    <2>4. CASE j <= Len(queue) - 1 /\ ~ (k <= Len(queue) - 1)
      BY <2>4, <2>1, <1>13, <1>5
    <2>5. CASE ~ (j <= Len(queue) - 1) /\ k <= Len(queue) - 1
      BY <2>5, <2>1, <1>13, <1>5
    <2> QED
      BY <2>2, <2>3, <2>4, <2>5
  <1>16. \A j, k \in 1 .. Len(order') : order'[j] = order'[k] => j = k
    <2>1. \A k \in 1 .. Len(order) : order'[k] # h
      BY <1>6, <1>8 DEF Ordered
    <2> QED
      BY <2>1, <1>0, <1>6 DEF SortSound
  <1>17. Ordered' \subseteq Selected' /\ Queued' \subseteq Selected'
    BY <1>0, <1>2, <1>8, <1>14 DEF SortSound, Queued
  <1>18. SortSound'
    <2>1. \A k \in 1 .. Len(order') : Deps(order[k])' \subseteq Prefix(k)'
      BY <1>2, <1>12 DEF Deps, Prefix, NewPrefix, Pop, static
    <2>2. \A k \in 1 .. Len(queue') : Deps(queue[k])' \subseteq Ordered'
      BY <1>2, <1>14 DEF Deps, Pop, static
    <2> QED
      BY <2>1, <2>2, <1>14, <1>15, <1>16, <1>17 DEF SortSound
  <1>19. ReachSound'
    BY <1>0, <1>2 DEF ReachSound, Pop
  <1> QED
    BY <1>18, <1>19

\* The steps that follow the check, and those of the device.
Later ==
  \/ SubmitSync \/ SubmitRaises \/ Submit \/ Wait \/ GoDirect \/ PassOver
  \/ \E s \in Streams : SubmitCuda(s) \/ LaunchDirect(s)
  \/ \E i \in Launches : Start(i) \/ Finish(i)

\* The graph part of the invariant.
LEMMA GraphStep ==
  ASSUME IInv, Next
  PROVE  GraphInv'
  <1>0. TypeOK /\ GraphInv /\ Selected \subseteq Launches
    BY SelectedType DEF IInv
  <1>1. CASE Bind
    <2> DEFINE free == {i \in Selected : Deps(i) = {}}
    <2>1. CASE step' = "refused"
      BY <2>1 DEF GraphInv, Unsorted, Checked
    <2>2. CASE step' = "sort" /\ queue' \in Listings(free)
      <3>0. /\ order' = <<>> /\ Len(order') = 0
            /\ reach' = [i \in Launches |-> {}]
            /\ plan' = plan
        BY <1>1 DEF Bind, static
      <3>1. Selected' = Selected
        BY <1>1, PhaseFrame DEF Bind, static
      <3>2. free \in SUBSET Launches
        BY <1>0
      <3>3. /\ Len(queue') \in Nat
            /\ \A k \in 1 .. Len(queue') : queue'[k] \in free
            /\ \A j, k \in 1 .. Len(queue') : queue'[j] = queue'[k] => j = k
        <4> HIDE DEF free
        <4> QED
          BY <2>2, <3>2, ListingOf, ElementOfSeq
      <3>4. Ordered' = {}
        BY <3>0 DEF Ordered
      <3>5. \A k \in 1 .. Len(order') : FALSE
        BY <3>0
      <3>6. \A k \in 1 .. Len(queue') :
              queue'[k] \in Selected /\ Deps(queue[k])' \subseteq Ordered'
        BY <3>0, <3>1, <3>3 DEF Deps
      <3>7. SortSound'
        BY <3>1, <3>3, <3>4, <3>5, <3>6 DEF SortSound, Queued
      <3>8. ReachSound'
        BY <3>0 DEF ReachSound
      <3> QED
        BY <2>2, <3>7, <3>8 DEF GraphInv, Unsorted, Checked
    <2> QED
      BY <1>1, <2>1, <2>2 DEF Bind
  <1>2. CASE Pop
    BY <1>2, PopStep DEF Pop, GraphInv, Unsorted, Checked
  <1>3. CASE Sorted
    <2>1. /\ SortSound' = SortSound /\ ReachSound' = ReachSound
          /\ Selected' = Selected /\ order' = order
      BY <1>3, GraphFrame DEF Sorted, static, graph
    <2> QED
      BY <1>0, <1>3, <2>1 DEF Sorted, GraphInv, Unsorted, Checked
  <1>4. CASE Close
    <2> DEFINE source == order[next]
    <2>1. /\ Selected' = Selected /\ \A i : Deps(i)' = Deps(i)
          /\ order' = order /\ queue' = queue /\ step' = "close" /\ step = "close"
          /\ plan' = plan
      BY <1>4, PhaseFrame DEF Close, static
    <2>2. SortSound'
      <3>1. SortSound /\ Ordered' = Ordered /\ Queued' = Queued
        BY <1>0, <2>1 DEF GraphInv, Unsorted, Ordered, Queued
      <3>2. /\ \A k \in 1 .. Len(order') : Deps(order[k])' \subseteq Prefix(k)'
            /\ \A k \in 1 .. Len(queue') : Deps(queue[k])' \subseteq Ordered'
        BY <3>1, <2>1 DEF SortSound, Deps, Prefix
      <3> QED
        BY <2>1, <3>1, <3>2 DEF SortSound
    <2>3. ReachSound'
      <3>0. ReachSound /\ reach \in [Launches -> SUBSET Launches]
        BY <1>0, <2>1 DEF GraphInv, Unsorted, TypeOK
      <3>1. source \in Launches
        BY <1>0, <1>4 DEF Close, IInv, SubmitInv, TypeOK
      <3>2. reach' = [reach EXCEPT ![source] =
               Successors(source) \cup UNION {reach[t] : t \in Successors(source)}]
        BY <1>4 DEF Close
      <3> HIDE DEF source
      <3> SUFFICES ASSUME NEW l \in Launches, NEW r \in Launches, r \in reach'[l]
                   PROVE  l \in Deps(r) \/ \E p \in Deps(r) : p \in reach'[l]
        BY <2>1 DEF ReachSound
      <3>3. CASE l # source
        BY <3>0, <3>1, <3>2, <3>3 DEF ReachSound
      <3>4. CASE l = source
        <4>1. reach'[l] =
                Successors(l) \cup UNION {reach[t] : t \in Successors(l)}
          BY <3>0, <3>1, <3>2, <3>4
        <4>2. CASE r \in Successors(l)
          BY <4>2 DEF Successors
        <4>3. ASSUME NEW t \in Successors(l), r \in reach[t]
              PROVE  \E p \in Deps(r) : p \in reach'[l]
          <5>1. t \in Launches
            BY <1>0 DEF Successors
          <5>2. t \in Deps(r) \/ \E p \in Deps(r) : p \in reach[t]
            BY <3>0, <4>3, <5>1 DEF ReachSound
          <5> QED
            BY <4>1, <5>2
        <4> QED
          BY <4>1, <4>2, <4>3
      <3> QED
        BY <3>3, <3>4
    <2> QED
      BY <1>0, <2>1, <2>2, <2>3 DEF GraphInv, Unsorted, Checked
  <1>5. CASE Check
    <2>1. /\ SortSound' = SortSound /\ ReachSound' = ReachSound
          /\ CheckSound' = CheckSound
          /\ Selected' = Selected /\ order' = order
      BY <1>5, GraphFrame DEF Check, static, graph
    <2>2. step' = "submit" => CheckSound
      BY <1>5 DEF Check, CheckSound
    <2> QED
      BY <1>0, <1>5, <2>1, <2>2 DEF Check, GraphInv, Unsorted, Checked
  <1>6. CASE Later
    <2>1. /\ plan' = plan /\ graph' = graph
          /\ \/ step' = "bind"
             \/ stage' = stage /\ step' = step
             \/ stage' = stage /\ step \in Checked /\ step' \in Checked
      <3>1. CASE SubmitSync \/ PassOver \/ \E i \in Launches : Start(i) \/ Finish(i)
        BY <3>1 DEF SubmitSync, PassOver, Start, Finish, static
      <3>2. CASE \E s \in Streams : SubmitCuda(s) \/ LaunchDirect(s)
        BY <3>2 DEF SubmitCuda, LaunchDirect, static
      <3>3. CASE SubmitRaises \/ Submit \/ GoDirect
        BY <3>3 DEF SubmitRaises, Submit, GoDirect, static, Checked
      <3>4. CASE Wait
        BY <3>4 DEF Wait, static, Checked
      <3> QED
        BY <1>6, <3>1, <3>2, <3>3, <3>4 DEF Later
    <2>2. CASE step' = "bind"
      BY <2>2 DEF GraphInv, Unsorted, Checked
    <2>3. CASE stage' = stage
      <3>1. /\ SortSound' = SortSound /\ ReachSound' = ReachSound
            /\ CheckSound' = CheckSound
            /\ Selected' = Selected /\ order' = order
        BY <2>1, <2>3, GraphFrame DEF graph
      <3>2. CASE step' = step
        BY <1>0, <3>1, <3>2 DEF GraphInv
      <3>3. CASE step \in Checked /\ step' \in Checked
        BY <1>0, <3>1, <3>3 DEF GraphInv, Unsorted, Checked
      <3> QED
        BY <2>1, <3>2, <3>3 DEF GraphInv, Unsorted, Checked
    <2> QED
      BY <2>1, <2>2, <2>3
  <1> QED
    BY <1>1, <1>2, <1>3, <1>4, <1>5, <1>6 DEF Next, Host, Later

-----------------------------------------------------------------------------
\* Once the sort is over, order is the selection, each launch once.
LEMMA OrderFacts ==
  ASSUME IInv, step \notin Unsorted \cup {"sort"}
  PROVE  /\ Ordered = Selected
         /\ Len(order) \in Nat
         /\ \A k \in 1 .. Len(order) :
              /\ order[k] \in Selected
              /\ order[k] \notin Prefix(k)
              /\ Deps(order[k]) \subseteq Prefix(k)
         /\ Prefix(Len(order) + 1) = Ordered
         /\ \A k \in 1 .. Len(order) : Prefix(k + 1) = Prefix(k) \cup {order[k]}
  <1>1. /\ TypeOK /\ SortSound /\ Len(order) = Cardinality(Selected)
        /\ IsFiniteSet(Selected) /\ Selected \subseteq Launches
    BY SelectedType DEF IInv, GraphInv
  <1>2. Len(order) \in Nat
    BY <1>1, LenProperties DEF TypeOK
  <1>3. \A k \in 1 .. Len(order) : order[k] \in Selected
    BY <1>1 DEF SortSound, Ordered
  <1>4. \A j, k \in 1 .. Len(order) : order[j] = order[k] => j = k
    BY <1>1 DEF SortSound
  <1>5. Ordered = Selected
    <2> DEFINE f == [k \in 1 .. Len(order) |-> order[k]]
    <2>1. f \in Injection(1 .. Len(order), Selected)
      BY <1>3, <1>4 DEF Injection, IsInjective
    <2>2. Cardinality(1 .. Len(order)) = Len(order)
      <3>1. \A n \in Nat : Cardinality(1 .. n) = IF 1 > n THEN 0 ELSE n - 1 + 1
        BY FS_Interval
      <3>2. \A n \in Nat : Cardinality(1 .. n) = n
        BY <3>1
      <3> QED
        BY <1>2, <3>2
    <2>3. f \in Surjection(1 .. Len(order), Selected)
      <3> HIDE DEF f
      <3> QED
        BY <1>1, <2>1, <2>2, FS_Injection
    <2>4. \A x \in Selected : \E k \in 1 .. Len(order) : f[k] = x
      BY <2>3 DEF Surjection
    <2> QED
      BY <1>3, <2>4 DEF Ordered
  <1>6. ASSUME NEW k \in 1 .. Len(order)
        PROVE  Prefix(k + 1) = Prefix(k) \cup {order[k]} /\ order[k] \notin Prefix(k)
    <2>1. order[k] \notin Prefix(k)
      BY <1>2, <1>4 DEF Prefix
    <2>2. 1 .. ((k + 1) - 1) = (1 .. (k - 1)) \cup {k}
      BY <1>2
    <2> QED
      BY <2>1, <2>2 DEF Prefix
  <1>7. Prefix(Len(order) + 1) = Ordered
    <2>1. (Len(order) + 1) - 1 = Len(order)
      BY <1>2
    <2> QED
      BY <2>1 DEF Prefix, Ordered
  <1>8. \A k \in 1 .. Len(order) : Deps(order[k]) \subseteq Prefix(k)
    BY <1>1 DEF SortSound
  <1> QED
    BY <1>2, <1>3, <1>5, <1>6, <1>7, <1>8

\* The dependencies a phase drops are those of the phase before, all done.
LEMMA CrossPhase ==
  ASSUME IInv, Forward, NEW i \in Selected
  PROVE  plan.deps[i] \subseteq Deps(i) \cup done
  <1>1. /\ TypeOK /\ SubmitInv /\ plan \in PlanType /\ plan \in Plans
        /\ i \in Launches
    BY SelectedType DEF IInv, TypeOK
  <1>2. plan.deps[i] \subseteq Launches /\ \A d \in Launches : plan.phase[d] \in Phases
    BY <1>1 DEF PlanType
  <1>3. CASE stage = "whole"
    BY <1>2, <1>3 DEF Deps, Selected
  <1>4. CASE stage = "materialize"
    <2>1. plan.phased /\ plan.phase[i] = "materialize"
      BY <1>1, <1>4 DEF SubmitInv, PlanType, Selected
    <2>2. \A d \in plan.deps[i] : plan.phase[d] = "materialize"
      BY <1>1, <2>1 DEF Forward
    <2> QED
      BY <1>2, <1>4, <2>2 DEF Deps, Selected
  <1>5. CASE stage = "execute"
    <2>1. \A d \in Launches : plan.phase[d] = "materialize" => d \in done
      BY <1>1, <1>5 DEF SubmitInv
    <2> QED
      BY <1>2, <1>5, <2>1 DEF Deps, Selected, Phases
  <1> QED
    BY <1>1, <1>3, <1>4, <1>5 DEF TypeOK, Phases

\* The launch that is submitted next: new, its dependencies submitted.
LEMMA NextLaunch ==
  ASSUME IInv, step = "submit", next <= Len(order)
  PROVE  /\ next \in 1 .. Len(order)
         /\ order[next] \in Selected /\ order[next] \in Launches
         /\ order[next] \notin submitted
         /\ Deps(order[next]) \subseteq submitted
         /\ (submitted \cup {order[next]}) \cap Selected = Prefix(next + 1)
  <1>1. TypeOK /\ SubmitInv /\ Selected \subseteq Launches
    BY SelectedType DEF IInv
  <1>2. next \in 1 .. Len(order) /\ submitted \cap Selected = Prefix(next)
    BY <1>1 DEF SubmitInv, TypeOK
  <1>3. /\ order[next] \in Selected
        /\ order[next] \notin Prefix(next)
        /\ Deps(order[next]) \subseteq Prefix(next)
        /\ Prefix(next + 1) = Prefix(next) \cup {order[next]}
    BY <1>2, OrderFacts DEF Unsorted
  <1> QED
    BY <1>1, <1>2, <1>3

\* wait() returned: the terminals are done, so is all they depend on.
LEMMA TerminalsAnswer ==
  ASSUME IInv, step \in {"submitted", "returned"},
         \A t \in Terminals : provider = "cuda" => Drained(handle[t])
  PROVE  Selected \subseteq done
  <1>1. /\ TypeOK /\ SubmitInv /\ DeviceInv /\ Selected \subseteq Launches
        /\ Selected \subseteq submitted
    BY SelectedType DEF IInv, SubmitInv
  <1>2. provider = "sync" \/ provider = "cuda"
    BY <1>1, BundleAssumption DEF TypeOK
  <1>3. CASE provider = "sync"
    BY <1>1, <1>3 DEF SubmitInv
  <1>4. CASE provider = "cuda"
    <2>1. Terminals \subseteq done
      <3> SUFFICES ASSUME NEW t \in Terminals
                   PROVE  t \in done
        OBVIOUS
      <3>1. t \in submitted /\ (handle[t] = NoStream \/ handle[t] = stream[t])
        BY <1>1 DEF Terminals, DeviceInv
      <3>2. Drained(handle[t])
        BY <1>4
      <3>3. CASE handle[t] = NoStream
        BY <3>1, <3>2, <3>3 DEF Drained
      <3>4. CASE handle[t] # NoStream
        <4>1. t \in OnStream(handle[t])
          BY <3>1, <3>4 DEF OnStream
        <4> QED
          BY <3>2, <3>4, <4>1 DEF Drained
      <3> QED
        BY <3>3, <3>4
    <2> DEFINE Left == {k \in 1 .. Len(order) : order[k] \notin done}
    <2>2. SUFFICES ASSUME ~ (Selected \subseteq done)
                   PROVE  FALSE
      OBVIOUS
    <2>3. /\ Ordered = Selected /\ Len(order) \in Nat
          /\ \A k \in 1 .. Len(order) :
               order[k] \in Selected /\ Deps(order[k]) \subseteq Prefix(k)
      BY OrderFacts DEF Unsorted
    <2>4. Left \subseteq 1 .. Len(order) /\ Left # {}
      BY <2>2, <2>3 DEF Ordered
    <2>5. PICK k \in Left : \A m \in Left : m <= k
      <3> HIDE DEF Left
      <3> QED
        BY <2>3, <2>4, LastOf
    <2>6. k \in 1 .. Len(order) /\ order[k] \in Selected /\ order[k] \notin done
      BY <2>3
    <2>7. PICK j \in Selected : order[k] \in Deps(j)
      BY <2>1, <2>6 DEF Terminals, Successors
    <2>8. PICK m \in 1 .. Len(order) : order[m] = j
      BY <2>3 DEF Ordered
    <2>9. order[k] \in Prefix(m)
      BY <2>3, <2>7, <2>8
    <2>10. PICK n \in 1 .. (m - 1) : order[n] = order[k]
      BY <2>9 DEF Prefix
    <2>11. k < m
      <3>1. \A a, b \in 1 .. Len(order) : order[a] = order[b] => a = b
        BY DEF IInv, GraphInv, Unsorted, SortSound
      <3>2. n \in 1 .. Len(order) /\ n < m
        BY <2>3, <2>8
      <3>3. n = k
        BY <2>6, <2>10, <3>1, <3>2
      <3> QED
        BY <3>2, <3>3
    <2>12. j \in done
      BY <2>5, <2>8, <2>11, <2>3
    <2>13. order[k] \in done
      BY <2>7, <2>12, <1>1 DEF DeviceInv, TypeOK, Deps
    <2> QED
      BY <2>6, <2>13
  <1> QED
    BY <1>2, <1>3, <1>4

-----------------------------------------------------------------------------
\* The submission part of the invariant.
LEMMA SubmitStep ==
  ASSUME IInv, Next
  PROVE  SubmitInv'
  <1>0. /\ TypeOK /\ SubmitInv /\ Selected \subseteq Launches /\ plan \in PlanType
        /\ Len(order) \in Nat
    BY SelectedType, LenProperties DEF IInv, TypeOK
  <1>1. CASE Bind
    <2>1. Selected' = Selected
      BY <1>1, PhaseFrame DEF Bind, static
    <2> QED
      BY <1>0, <1>1, <2>1 DEF Bind, SubmitInv, static, device
  <1>2. CASE Pop
    <2>1. Selected' = Selected
      BY <1>2, PhaseFrame DEF Pop, static
    <2> QED
      BY <1>0, <1>2, <2>1 DEF Pop, SubmitInv, static, device
  <1>3. CASE Sorted
    <2>1. Selected' = Selected
      BY <1>3, PhaseFrame DEF Sorted, static
    <2> QED
      BY <1>0, <1>3, <2>1 DEF Sorted, SubmitInv, static, device, graph
  <1>4. CASE Close
    <2>1. Selected' = Selected
      BY <1>4, PhaseFrame DEF Close, static
    <2> QED
      BY <1>0, <1>4, <2>1 DEF Close, SubmitInv, static, device, TypeOK
  <1>5. CASE Check
    <2>1. Selected' = Selected
      BY <1>5, PhaseFrame DEF Check, static
    <2>2. CASE step' = "refused"
      BY <1>0, <1>5, <2>1, <2>2 DEF Check, SubmitInv, static, device, graph
    <2>3. CASE step' = "submit" /\ next' = 1
      <3>1. Prefix(next)' = {}
        BY <2>3 DEF Prefix
      <3>2. submitted' \cap Selected' = {}
        BY <1>0, <1>5, <2>1 DEF Check, SubmitInv, device
      <3> QED
        BY <1>0, <1>5, <2>1, <2>3, <3>1, <3>2
           DEF Check, SubmitInv, static, device, graph
    <2> QED
      BY <1>5, <2>2, <2>3 DEF Check
  <1>6. ASSUME step = "submit", next <= Len(order), step' = step, next' = next + 1,
               submitted' = submitted \cup {order[next]},
               plan' = plan, stage' = stage, provider' = provider, order' = order,
               done' = done,
               provider = "sync" => begun' = begun \cup {order[next]}
        PROVE  SubmitInv'
    <2>1. Selected' = Selected
      BY <1>6, PhaseFrame
    <2>2. /\ next \in 1 .. Len(order)
          /\ order[next] \in Selected
          /\ submitted' \cap Selected = Prefix(next + 1)
      BY <1>6, NextLaunch
    <2>3. Prefix(next)' = Prefix(next + 1)
      BY <1>6 DEF Prefix
    <2>4. next' \in 1 .. (Len(order') + 1)
      BY <1>0, <1>6, <2>2
    <2> QED
      BY <1>0, <1>6, <2>1, <2>2, <2>3, <2>4 DEF SubmitInv
  <1>7. CASE SubmitSync
    BY <1>6, <1>7 DEF SubmitSync, static, graph
  <1>8. ASSUME NEW s \in Streams, SubmitCuda(s)
        PROVE  SubmitInv'
    BY <1>6, <1>8 DEF SubmitCuda, static, graph
  <1>9. CASE SubmitRaises
    <2>1. Selected' = Selected
      BY <1>9, PhaseFrame DEF SubmitRaises, static
    <2>2. Prefix(next)' = Prefix(next)
      BY <1>9 DEF SubmitRaises, Prefix, graph
    <2> QED
      BY <1>0, <1>9, <2>1, <2>2 DEF SubmitRaises, SubmitInv, static, device, graph
  <1>10. CASE Submit
    <2>1. Selected' = Selected
      BY <1>10, PhaseFrame DEF Submit, static
    <2>2. Selected \subseteq submitted
      <3>1. next = Len(order) + 1 /\ submitted \cap Selected = Prefix(next)
        BY <1>0, <1>10 DEF Submit, SubmitInv
      <3>2. Prefix(Len(order) + 1) = Selected
        BY <1>10, OrderFacts DEF Submit, Unsorted
      <3> QED
        BY <3>1, <3>2
    <2>3. provider = "sync" => submitted \subseteq done
      BY <1>0, <1>10 DEF Submit, SubmitInv, CallerFree, TypeOK
    <2> QED
      BY <1>0, <1>10, <2>1, <2>2, <2>3 DEF Submit, SubmitInv, static, device, graph
  <1>11. CASE Wait
    <2>1. Selected \subseteq done
      BY <1>11, TerminalsAnswer DEF Wait
    <2>2. CASE stage = "materialize" /\ stage' = "execute" /\ step' = "bind"
      <3>1. \A i \in Launches : plan.phase[i] = "materialize" => i \in done
        BY <2>1, <2>2 DEF Selected
      <3>2. submitted \subseteq Selected
        BY <1>0, <2>2 DEF SubmitInv
      <3>3. plan' = plan /\ submitted' = submitted /\ done' = done
              /\ provider' = provider /\ begun' = begun
        BY <1>11 DEF Wait, static, device
      <3>4. submitted' \cap Selected' \subseteq {}
        BY <2>2, <3>2, <3>3 DEF Selected
      <3> QED
        BY <1>0, <1>11, <2>2, <3>1, <3>3, <3>4 DEF SubmitInv
    <2>3. CASE stage # "materialize" /\ stage' = stage /\ step' = "returned"
      <3>1. Selected' = Selected
        BY <1>11, <2>3, PhaseFrame DEF Wait, static
      <3> QED
        BY <1>0, <1>11, <2>3, <3>1 DEF Wait, SubmitInv, static, device, graph
    <2> QED
      BY <1>11, <2>2, <2>3 DEF Wait
  <1>12. CASE GoDirect
    <2>1. Selected' = Selected /\ MayGoDirect /\ MayGoDirect'
      BY <1>12, PhaseFrame DEF GoDirect, MayGoDirect, static
    <2>2. submitted \cap Selected = {}
      BY <1>0, <1>12 DEF GoDirect, SubmitInv, Prefix
    <2>3. /\ plan' = plan /\ provider' = provider /\ stage' = stage
          /\ submitted' = submitted /\ begun' = begun /\ done' = done
          /\ step' = "direct" /\ next' = 1
      BY <1>12 DEF GoDirect, static, device
    <2> HIDE DEF MayGoDirect
    <2>4. \A i \in Selected' : i >= next' => i \notin submitted'
      BY <2>1, <2>2, <2>3
    <2> QED
      BY <1>0, <2>1, <2>3, <2>4 DEF SubmitInv
  <1>13. CASE PassOver
    <2>1. Selected' = Selected /\ (MayGoDirect' <=> MayGoDirect)
      BY <1>13, PhaseFrame DEF PassOver, MayGoDirect, static
    <2>2. \A i \in Selected : i \in Nat
      BY <1>0, BundleAssumption DEF Launches
    <2> QED
      BY <1>0, <1>13, <2>1, <2>2
         DEF PassOver, SubmitInv, static, device, graph, TypeOK
  <1>14. ASSUME NEW s \in Streams, LaunchDirect(s)
         PROVE  SubmitInv'
    <2>1. Selected' = Selected /\ (MayGoDirect' <=> MayGoDirect)
      BY <1>14, PhaseFrame DEF LaunchDirect, MayGoDirect, static
    <2>2. \A i \in Selected : i \in Nat
      BY <1>0, BundleAssumption DEF Launches
    <2>3. provider # "sync" /\ stage = "execute" /\ MayGoDirect /\ next >= 1
          /\ \A i \in Selected : i >= next => i \notin submitted
      BY <1>0, <1>14 DEF LaunchDirect, SubmitInv, MayGoDirect
    <2>4. /\ plan' = plan /\ provider' = provider /\ stage' = stage
          /\ submitted' = submitted \cup {next} /\ done' = done
          /\ step' = "direct" /\ step = "direct" /\ next' = next + 1
          /\ next \in Nat
      BY <1>0, <1>14 DEF LaunchDirect, static, TypeOK
    <2>5. \A i \in Selected' : i >= next' => i \notin submitted'
      BY <2>1, <2>2, <2>3, <2>4
    <2>6. next' >= 1
      BY <2>3, <2>4
    <2> HIDE DEF MayGoDirect
    <2> QED
      BY <1>0, <2>1, <2>3, <2>4, <2>5, <2>6 DEF SubmitInv
  <1>15. ASSUME NEW i \in Launches, Start(i)
         PROVE  SubmitInv'
    <2>1. Selected' = Selected /\ (MayGoDirect' <=> MayGoDirect)
      BY <1>15, PhaseFrame DEF Start, MayGoDirect, static
    <2>2. provider # "sync"
      BY <1>0, <1>15 DEF Start, SubmitInv
    <2>3. Prefix(next)' = Prefix(next)
      BY <1>15 DEF Start, Prefix, graph
    <2> QED
      BY <1>0, <1>15, <2>1, <2>2, <2>3 DEF Start, SubmitInv, static, device, graph
  <1>16. ASSUME NEW i \in Launches, Finish(i)
         PROVE  SubmitInv'
    <2>1. Selected' = Selected /\ (MayGoDirect' <=> MayGoDirect)
      BY <1>16, PhaseFrame DEF Finish, MayGoDirect, static
    <2>2. Prefix(next)' = Prefix(next)
      BY <1>16 DEF Finish, Prefix, graph
    <2> QED
      BY <1>0, <1>16, <2>1, <2>2 DEF Finish, SubmitInv, static, device, graph
  <1> QED
    BY <1>1, <1>2, <1>3, <1>4, <1>5, <1>7, <1>8, <1>9, <1>10, <1>11, <1>12,
       <1>13, <1>14, <1>15, <1>16 DEF Next, Host

-----------------------------------------------------------------------------
\* The device part of the invariant, for a step that starts the launches in
\* new, whose dependencies are done, and leaves order and plan alone.
LEMMA StartsKeepReach ==
  ASSUME IInv, plan' = plan, stage' = stage, reach' = reach,
         step \notin Unsorted, done \subseteq done',
         NEW S \in SUBSET Launches, begun' = begun \cup S,
         \A i \in S : plan.deps[i] \subseteq done
  PROVE  /\ \A i \in begun' : plan'.deps[i] \subseteq done'
         /\ \A l \in Launches, r \in begun' :
              r \in Selected' /\ r \in reach'[l] => l \in done'
  <1>0. TypeOK /\ DeviceInv /\ ReachSound
    BY DEF IInv, GraphInv
  <1>1. Selected' = Selected /\ \A i : Deps(i)' = Deps(i)
    BY PhaseFrame
  <1>2. \A i \in begun' : plan'.deps[i] \subseteq done'
    BY <1>0 DEF DeviceInv
  <1>3. ASSUME NEW l \in Launches, NEW r \in begun', r \in Selected, r \in reach[l]
        PROVE  l \in done
    <2>1. CASE r \in begun
      BY <1>0, <1>3, <2>1 DEF DeviceInv
    <2>2. CASE r \in S
      <3>1. Deps(r) \subseteq done
        BY <2>2 DEF Deps
      <3>2. l \in Deps(r) \/ \E p \in Deps(r) : p \in reach[l]
        BY <1>0, <1>3, <2>2 DEF ReachSound
      <3>3. CASE l \in Deps(r)
        BY <3>1, <3>3
      <3>4. ASSUME NEW p \in Deps(r), p \in reach[l]
            PROVE  l \in done
        <4>1. p \in begun /\ p \in Selected
          BY <1>0, <3>1 DEF TypeOK, Deps
        <4> QED
          BY <1>0, <3>4, <4>1 DEF DeviceInv
      <3> QED
        BY <3>2, <3>3, <3>4
    <2> QED
      BY <2>1, <2>2
  <1>4. ASSUME NEW l \in Launches, NEW r \in begun', r \in Selected', r \in reach'[l]
        PROVE  l \in done'
    <2>1. r \in Selected /\ r \in reach[l]
      BY <1>1, <1>4
    <2> QED
      BY <1>3, <2>1
  <1> QED
    BY <1>2, <1>4

\* Before the submission of a phase none of its launches has begun.
LEMMA NoneBegun ==
  ASSUME IInv, step \in {"bind", "sort", "close"}
  PROVE  begun \cap Selected = {}
  BY DEF IInv, TypeOK, SubmitInv

\* A launch put on stream s has every dependency ahead of it, or done.
LEMMA AheadOfLaunch ==
  ASSUME IInv, Forward, NEW i \in Selected, NEW s,
         Deps(i) \subseteq submitted,
         WaitsForDevice(i) => submitted \subseteq done
  PROVE  plan.deps[i] \subseteq Ahead(i, s) \cup done
  <1>1. plan.deps[i] \subseteq Deps(i) \cup done
    BY CrossPhase
  <1>2. SUFFICES ASSUME NEW d \in Deps(i), d \notin done
                 PROVE  d \in Ahead(i, s)
    BY <1>1
  <1>3. d \in submitted /\ handle[d] # NoStream
    BY <1>2 DEF WaitsForDevice
  <1>4. handle[d] = stream[d]
    BY <1>3 DEF IInv, DeviceInv, TypeOK
  <1>5. d \in OnStream(handle[d]) /\ d \in WaitFor(i)
    BY <1>3, <1>4 DEF OnStream, WaitFor
  <1> QED
    BY <1>5 DEF Ahead

LEMMA DeviceStep ==
  ASSUME IInv, Next, Forward, HostFirst
  PROVE  DeviceInv'
  <1>0. /\ TypeOK /\ DeviceInv /\ SubmitInv /\ Selected \subseteq Launches
        /\ plan \in PlanType /\ plan \in Plans
    BY SelectedType DEF IInv, TypeOK
  <1>1. ASSUME step \in {"bind", "sort", "close"},
               plan' = plan, stage' = stage, device' = device,
               begun' = begun, done' = done
        PROVE  DeviceInv'
    <2>1. Selected' = Selected /\ begun \cap Selected = {}
      BY <1>1, PhaseFrame, NoneBegun
    <2> QED
      BY <1>0, <1>1, <2>1 DEF DeviceInv, device
  <1>2. CASE Bind \/ Pop \/ Sorted \/ Close \/ Check
    BY <1>1, <1>2 DEF Bind, Pop, Sorted, Close, Check, static
  <1>3. ASSUME plan' = plan, graph' = graph, device' = device, begun' = begun,
               done \subseteq done', stage' = stage
        PROVE  DeviceInv'
    <2>1. Selected' = Selected
      BY <1>3, PhaseFrame
    <2> QED
      BY <1>0, <1>3, <2>1 DEF DeviceInv, device, graph
  <1>4. CASE SubmitRaises \/ Submit \/ GoDirect \/ PassOver
    BY <1>3, <1>4 DEF SubmitRaises, Submit, GoDirect, PassOver, static
  <1>5. ASSUME NEW i \in Launches, Finish(i)
        PROVE  DeviceInv'
    BY <1>3, <1>5 DEF Finish, static
  <1>6. CASE Wait
    <2>1. CASE stage' = stage
      BY <1>3, <1>6, <2>1 DEF Wait, static
    <2>2. CASE stage = "materialize" /\ stage' = "execute"
      <3>1. /\ plan' = plan /\ begun' = begun /\ done' = done /\ reach' = reach
            /\ submitted' = submitted /\ handle' = handle /\ stream' = stream
            /\ after' = after
        BY <1>6 DEF Wait, static, device, graph
      <3>2. \A r \in begun : r \notin Selected'
        BY <1>0, <2>2, <3>1 DEF SubmitInv, TypeOK, Selected
      <3> QED
        BY <1>0, <3>1, <3>2 DEF DeviceInv
    <2> QED
      BY <1>6, <2>1, <2>2 DEF Wait
  <1>7. CASE SubmitSync
    <2> DEFINE i == order[next]
    <2>1. /\ i \in Selected /\ i \in Launches /\ Deps(i) \subseteq submitted
          /\ step \notin Unsorted /\ i \notin submitted
      BY <1>7, NextLaunch DEF SubmitSync, Unsorted
    <2>2. /\ plan' = plan /\ stage' = stage /\ reach' = reach /\ done' = done
          /\ begun' = begun \cup {i} /\ submitted' = submitted \cup {i}
          /\ handle' = handle /\ stream' = stream /\ after' = after
      BY <1>7 DEF SubmitSync, static, graph
    <2> HIDE DEF i
    <2>3. submitted \subseteq done
      BY <1>0, <1>7 DEF SubmitSync, SubmitInv, CallerFree
    <2>4. plan.deps[i] \subseteq done
      BY <1>0, <2>1, <2>3, CrossPhase
    <2>5. /\ \A k \in begun' : plan'.deps[k] \subseteq done'
          /\ \A l \in Launches, r \in begun' :
               r \in Selected' /\ r \in reach'[l] => l \in done'
      <3>1. {i} \in SUBSET Launches /\ \A k \in {i} : plan.deps[k] \subseteq done
        BY <2>1, <2>4
      <3>2. done \subseteq done'
        BY <2>2
      <3> QED
        BY <2>1, <2>2, <3>1, <3>2, StartsKeepReach
    <2>6. \A k \in Launches :
            handle'[k] # NoStream => k \in submitted' /\ handle'[k] = stream'[k]
      BY <1>0, <2>2 DEF DeviceInv
    <2>7. \A k \in submitted' : plan'.deps[k] \subseteq after'[k] \cup done'
      BY <1>0, <2>2, <2>4 DEF DeviceInv
    <2> QED
      BY <2>5, <2>6, <2>7 DEF DeviceInv
  <1>8. ASSUME NEW s \in Streams, SubmitCuda(s)
        PROVE  DeviceInv'
    <2> DEFINE i == order[next]
    <2>1. /\ i \in Selected /\ i \in Launches /\ Deps(i) \subseteq submitted
          /\ step \notin Unsorted /\ i \notin submitted
      BY <1>8, NextLaunch DEF SubmitCuda, Unsorted
    <2>2. /\ plan' = plan /\ stage' = stage /\ reach' = reach /\ done' = done
          /\ submitted' = submitted \cup {i}
          /\ after' = [after EXCEPT ![i] = Ahead(i, s)]
          /\ begun' = begun \cup (IF plan.kind[i] = "host" THEN {i} ELSE {})
      BY <1>8 DEF SubmitCuda, static, graph
    <2>3. \A k \in Launches :
            handle'[k] # NoStream => k \in submitted' /\ handle'[k] = stream'[k]
      <3>1. /\ stream' = [stream EXCEPT ![i] = s]
            /\ handle'[i] \in {NoStream, s}
            /\ \A k \in Launches \ {i} : handle'[k] = handle[k]
        BY <1>0, <1>8, <2>1 DEF SubmitCuda, TypeOK
      <3> HIDE DEF i
      <3> QED
        BY <1>0, <2>1, <2>2, <3>1 DEF DeviceInv, TypeOK
    <2>4. WaitsForDevice(i) => submitted \subseteq done
      BY <1>8 DEF SubmitCuda
    <2>5. provider = "cuda"
      BY <1>8 DEF SubmitCuda
    <2> HIDE DEF i
    <2>6. plan.deps[i] \subseteq Ahead(i, s) \cup done
      BY <2>1, <2>4, AheadOfLaunch
    <2>7. plan.kind[i] = "host" => plan.deps[i] \subseteq done
      BY <1>0, <2>1, <2>5 DEF HostFirst, TypeOK
    <2>8. /\ \A k \in begun' : plan'.deps[k] \subseteq done'
          /\ \A l \in Launches, r \in begun' :
               r \in Selected' /\ r \in reach'[l] => l \in done'
      <3> DEFINE S == IF plan.kind[i] = "host" THEN {i} ELSE {}
      <3>1. S \in SUBSET Launches /\ \A k \in S : plan.deps[k] \subseteq done
        BY <2>1, <2>7
      <3>2. begun' = begun \cup S /\ done \subseteq done'
        BY <2>2
      <3> HIDE DEF S
      <3> QED
        BY <2>1, <2>2, <3>1, <3>2, StartsKeepReach
    <2>9. \A k \in submitted' : plan'.deps[k] \subseteq after'[k] \cup done'
      BY <1>0, <2>1, <2>2, <2>6 DEF DeviceInv, TypeOK
    <2> QED
      BY <2>3, <2>8, <2>9 DEF DeviceInv
  <1>9. ASSUME NEW s \in Streams, LaunchDirect(s)
        PROVE  DeviceInv'
    <2>1. /\ next \in Selected /\ next \in Launches /\ step \notin Unsorted
          /\ provider = "cuda" /\ Deps(next) = {}
      BY <1>0, <1>9 DEF LaunchDirect, Unsorted, SubmitInv, MayGoDirect
    <2>2. /\ plan' = plan /\ stage' = stage /\ reach' = reach /\ done' = done
          /\ submitted' = submitted \cup {next}
          /\ handle' = handle /\ stream' = [stream EXCEPT ![next] = s]
          /\ after' = [after EXCEPT ![next] = OnStream(s)]
          /\ begun' = begun \cup (IF plan.kind[next] = "host" THEN {next} ELSE {})
      BY <1>9 DEF LaunchDirect, static, graph
    <2>3. next \notin submitted
      BY <1>0, <1>9, <2>1, BundleAssumption DEF LaunchDirect, SubmitInv, Launches
    <2>4. \A k \in Launches :
            handle'[k] # NoStream => k \in submitted' /\ handle'[k] = stream'[k]
      <3>1. handle[next] = NoStream
        BY <1>0, <2>1, <2>3 DEF DeviceInv
      <3>2. \A k \in Launches \ {next} : stream'[k] = stream[k]
        BY <1>0, <2>2 DEF TypeOK
      <3> QED
        BY <1>0, <2>2, <3>1, <3>2 DEF DeviceInv
    <2>5. plan.deps[next] \subseteq done
      BY <1>0, <2>1, CrossPhase
    <2>6. /\ \A k \in begun' : plan'.deps[k] \subseteq done'
          /\ \A l \in Launches, r \in begun' :
               r \in Selected' /\ r \in reach'[l] => l \in done'
      <3> DEFINE S == IF plan.kind[next] = "host" THEN {next} ELSE {}
      <3>1. S \in SUBSET Launches /\ \A k \in S : plan.deps[k] \subseteq done
        BY <2>1, <2>5
      <3>2. begun' = begun \cup S /\ done \subseteq done'
        BY <2>2
      <3> HIDE DEF S
      <3> QED
        BY <2>1, <2>2, <3>1, <3>2, StartsKeepReach
    <2>7. \A k \in submitted' : plan'.deps[k] \subseteq after'[k] \cup done'
      BY <1>0, <2>1, <2>2, <2>5 DEF DeviceInv, TypeOK
    <2> QED
      BY <2>4, <2>6, <2>7 DEF DeviceInv
  <1>10. ASSUME NEW i \in Launches, Start(i)
         PROVE  DeviceInv'
    <2>1. /\ plan' = plan /\ stage' = stage /\ reach' = reach /\ done' = done
          /\ device' = device /\ begun' = begun \cup {i}
          /\ i \in submitted /\ after[i] \subseteq done
      BY <1>10 DEF Start, static, graph
    <2>2. plan.deps[i] \subseteq done
      BY <1>0, <2>1 DEF DeviceInv
    <2>3. CASE step \notin Unsorted
      <3>1. /\ \A k \in begun' : plan'.deps[k] \subseteq done'
            /\ \A l \in Launches, r \in begun' :
                 r \in Selected' /\ r \in reach'[l] => l \in done'
        <4>1. {i} \in SUBSET Launches /\ \A k \in {i} : plan.deps[k] \subseteq done
          BY <2>2
        <4> QED
          BY <2>1, <2>3, <4>1, StartsKeepReach
      <3> QED
        BY <1>0, <2>1, <3>1 DEF DeviceInv, device
    <2>4. CASE step \in Unsorted
      <3>1. Selected' = Selected
        BY <2>1, PhaseFrame
      <3>2. i \notin Selected
        BY <1>0, <2>1, <2>4 DEF SubmitInv, Unsorted
      <3> QED
        BY <1>0, <2>1, <2>2, <3>1, <3>2 DEF DeviceInv, device
    <2> QED
      BY <2>3, <2>4
  <1> QED
    BY <1>2, <1>4, <1>5, <1>6, <1>7, <1>8, <1>9, <1>10 DEF Next, Host
-----------------------------------------------------------------------------
LEMMA InitInv ==
  ASSUME Init
  PROVE  IInv
  <1>1. TypeOK
    <2>1. plan.phased \in BOOLEAN /\ <<>> \in Seq(Launches)
      BY BundleAssumption, EmptySeq DEF Init, PlanType
    <2> QED
      BY <2>1 DEF Init, TypeOK, Phases
  <1>2. GraphInv
    BY DEF Init, GraphInv, Unsorted, Checked
  <1>3. SubmitInv
    BY DEF Init, SubmitInv
  <1>4. DeviceInv
    BY DEF Init, DeviceInv
  <1> QED
    BY <1>1, <1>2, <1>3, <1>4 DEF IInv

LEMMA Inductive ==
  ASSUME Forward, HostFirst, IInv, [Next]_vars
  PROVE  IInv'
  <1>1. CASE Next
    BY <1>1, TypeStep, GraphStep, SubmitStep, DeviceStep DEF IInv
  <1>2. CASE UNCHANGED vars
    <2>1. /\ plan' = plan /\ stage' = stage /\ graph' = graph /\ step' = step
          /\ next' = next /\ provider' = provider /\ begun' = begun
          /\ done' = done /\ device' = device /\ order' = order
      BY <1>2 DEF vars, graph, device
    <2>2. TypeOK'
      BY <1>2 DEF vars, IInv, TypeOK
    <2>3. Selected' = Selected /\ GraphInv'
      BY <2>1, GraphFrame DEF IInv, GraphInv
    <2>4. (MayGoDirect' <=> MayGoDirect) /\ Prefix(next)' = Prefix(next)
      <3>1. \A i : Deps(i)' = Deps(i)
        BY <2>1, PhaseFrame
      <3>2. MayGoDirect' <=> MayGoDirect
        BY <2>1, <2>3, <3>1 DEF MayGoDirect
      <3>3. Prefix(next)' = Prefix(next)
        BY <2>1 DEF Prefix
      <3> QED
        BY <3>2, <3>3
    <2>5. SubmitInv'
      BY <2>1, <2>3, <2>4 DEF IInv, SubmitInv, device
    <2>6. DeviceInv'
      BY <1>2, <2>3 DEF vars, IInv, DeviceInv
    <2> QED
      BY <2>2, <2>3, <2>5, <2>6 DEF IInv
  <1> QED
    BY <1>1, <1>2

THEOREM Invariance ==
  ASSUME Forward, HostFirst
  PROVE  Spec => []IInv
  <1>1. Init => IInv
    BY InitInv
  <1>2. IInv /\ [Next]_vars => IInv'
    BY Inductive
  <1> QED
    BY <1>1, <1>2, PTL DEF Spec

\* The types of the bundle's state, for every plan: no queue, order, stream or
\* set of launches ever holds anything but launches of the plan.
THEOREM BundleTypeCorrect ==
  ASSUME Forward, HostFirst
  PROVE  Spec => []TypeOK
  <1>1. IInv => TypeOK
    BY DEF IInv
  <1> QED
    BY <1>1, Invariance, PTL

\* BundleSubmission.ready asks the terminals only; whenever it says yes every
\* launch of the phase is over.
THEOREM ReadySound ==
  ASSUME Forward, HostFirst
  PROVE  Spec => []ReadyMeansDone
  <1>1. IInv => ReadyMeansDone
    <2> SUFFICES ASSUME IInv, Ready
                 PROVE  Selected \subseteq done
      BY DEF ReadyMeansDone
    <2>1. /\ step = "submitted"
          /\ \A t \in Terminals : provider = "cuda" => Drained(handle[t])
      BY DEF Ready
    <2> QED
      BY <2>1, TerminalsAnswer
  <1> QED
    BY <1>1, Invariance, PTL

-----------------------------------------------------------------------------
\* A launch that starts when its dependencies are done is allowed to begin.
LEMMA BeginMaps ==
  ASSUME IInv, step \in Checked, NEW l \in Selected, l \notin begun,
         plan.deps[l] \subseteq done,
         plan' = plan, begun' = begun \cup {l}, done' = done,
         (step = "returned") <=> (step' = "returned")
  PROVE  Order!Begin(l)
  <1>0. /\ TypeOK /\ DeviceInv /\ SubmitInv /\ ReachSound /\ CheckSound
        /\ l \in Launches
    BY SelectedType DEF IInv, GraphInv, Checked, Unsorted
  <1>1. ASSUME NEW k \in Launches, <<k, l>> \in Before
        PROVE  k \in done
    <2>1. k \in Ancestors(l)
      BY <1>1 DEF Before
    <2>2. done \in SUBSET Launches /\ \A x \in done : plan.deps[x] \subseteq done
      BY <1>0 DEF TypeOK, DeviceInv
    <2> QED
      BY <2>1, <2>2 DEF Ancestors
  <1>2. ASSUME NEW k \in begun \ done, k # l,
               Conflict(k, l) \/ Conflict(l, k)
        PROVE  FALSE
    <2>1. k \in Launches /\ k \in submitted
      BY <1>0 DEF TypeOK
    <2>2. Conflict(k, l) /\ Conflict(l, k)
      BY <1>2 DEF Conflict, AccessesClash
    <2>3. k \in Selected
      <3>1. stage = "whole" \/ stage = "materialize" \/ stage = "execute"
        BY <1>0 DEF TypeOK, Phases
      <3>2. plan.phase[k] = "materialize" \/ plan.phase[k] = "execute"
        BY <1>0, <2>1, BundleAssumption DEF TypeOK, PlanType, Phases
      <3> QED
        BY <1>0, <1>2, <2>1, <3>1, <3>2 DEF SubmitInv, Selected
    <2>4. l \in reach[k] \/ k \in reach[l]
      <3>1. k < l \/ l < k
        BY <1>0, <1>2, <2>1, BundleAssumption DEF Launches
      <3> QED
        BY <1>0, <2>2, <2>3, <3>1 DEF CheckSound
    <2>5. CASE k \in reach[l]
      BY <1>0, <2>3, <2>5 DEF DeviceInv, TypeOK
    <2>6. CASE l \in reach[k]
      <3>1. k \in Deps(l) \/ \E p \in Deps(l) : p \in reach[k]
        BY <1>0, <2>1, <2>6 DEF ReachSound
      <3>2. Deps(l) \subseteq done /\ Deps(l) \subseteq Selected
        BY DEF Deps
      <3> QED
        BY <1>0, <1>2, <2>1, <3>1, <3>2 DEF DeviceInv, TypeOK
    <2> QED
      BY <2>4, <2>5, <2>6
  <1>3. \A k \in begun \ done : <<k, l>> \notin Clash /\ <<l, k>> \notin Clash
    BY <1>2 DEF Clash
  <1>4. Before' = Before /\ Clash' = Clash
    BY DEF Before, Ancestors, Clash, Conflict
  <1> QED
    BY <1>0, <1>1, <1>3, <1>4 DEF Order!Begin

\* Every step of a bundle is a step of LaunchOrder or leaves it as it is.
LEMMA StepMaps ==
  ASSUME Forward, HostFirst, IInv, Next
  PROVE  [Order!Next]_(Order!vars)
  <1>0. /\ TypeOK /\ SubmitInv /\ DeviceInv' /\ plan' = plan
        /\ Selected \subseteq Launches /\ plan \in PlanType
    BY DeviceStep, SelectedType
       DEF IInv, Next, Host, Bind, Pop, Sorted, Close, Check, SubmitSync,
           SubmitRaises, Submit, Wait, GoDirect, PassOver, SubmitCuda,
           LaunchDirect, Start, Finish, static
  <1>1. Before' = Before /\ Clash' = Clash
    BY <1>0 DEF Before, Ancestors, Clash, Conflict
  <1>2. ASSUME begun' = begun, done' = done,
               (step = "returned") <=> (step' = "returned")
        PROVE  UNCHANGED Order!vars
    BY <1>1, <1>2 DEF Order!vars
  <1>3. ASSUME NEW l \in Selected, l \notin begun, step \in Checked,
               begun' = begun \cup {l}, done' = done,
               (step = "returned") <=> (step' = "returned")
        PROVE  Order!Next
    <2>1. plan.deps[l] \subseteq done
      BY <1>0, <1>3 DEF DeviceInv
    <2>2. Order!Begin(l) /\ l \in Launches
      BY <1>0, <1>3, <2>1, BeginMaps
    <2> QED
      BY <2>2 DEF Order!Next
  <1>4. CASE Bind \/ Pop \/ Sorted \/ Close \/ Check
    BY <1>2, <1>4 DEF Bind, Pop, Sorted, Close, Check
  <1>5. CASE SubmitRaises \/ Submit \/ GoDirect \/ PassOver
    BY <1>2, <1>5 DEF SubmitRaises, Submit, GoDirect, PassOver
  <1>6. CASE SubmitSync
    <2>1. order[next] \in Selected /\ order[next] \notin begun
      BY <1>0, <1>6, NextLaunch DEF SubmitSync, TypeOK
    <2> QED
      BY <1>3, <1>6, <2>1 DEF SubmitSync, Checked
  <1>7. ASSUME NEW s \in Streams, SubmitCuda(s)
        PROVE  [Order!Next]_(Order!vars)
    <2>1. order[next] \in Selected /\ order[next] \notin begun
      BY <1>0, <1>7, NextLaunch DEF SubmitCuda, TypeOK
    <2>2. CASE plan.kind[order[next]] = "host"
      BY <1>3, <1>7, <2>1, <2>2 DEF SubmitCuda, Checked
    <2>3. CASE plan.kind[order[next]] # "host"
      BY <1>2, <1>7, <2>3 DEF SubmitCuda
    <2> QED
      BY <2>2, <2>3
  <1>8. ASSUME NEW s \in Streams, LaunchDirect(s)
        PROVE  [Order!Next]_(Order!vars)
    <2>1. next \in Selected /\ next \notin begun
      BY <1>0, <1>8, BundleAssumption DEF LaunchDirect, SubmitInv, TypeOK, Launches
    <2>2. CASE plan.kind[next] = "host"
      BY <1>3, <1>8, <2>1, <2>2 DEF LaunchDirect, Checked
    <2>3. CASE plan.kind[next] # "host"
      BY <1>2, <1>8, <2>3 DEF LaunchDirect
    <2> QED
      BY <2>2, <2>3
  <1>9. CASE Wait
    <2>1. Selected \subseteq done
      BY <1>9, TerminalsAnswer DEF Wait
    <2>2. CASE stage = "materialize"
      BY <1>2, <1>9, <2>2 DEF Wait
    <2>3. CASE stage # "materialize"
      <3>1. Launches \subseteq done
        BY <1>0, <2>1, <2>3 DEF SubmitInv, Selected, PlanType, TypeOK, Phases
      <3>2. done = Launches
        BY <1>0, <3>1 DEF TypeOK
      <3> QED
        BY <1>1, <1>9, <2>3, <3>2 DEF Wait, Order!Next, Order!Return
    <2> QED
      BY <2>2, <2>3
  <1>10. ASSUME NEW i \in Launches, Start(i)
         PROVE  [Order!Next]_(Order!vars)
    <2>1. i \in Selected
      <3>1. i \in submitted /\ i \notin done
        BY <1>0, <1>10 DEF Start, TypeOK
      <3> QED
        BY <1>0, <3>1 DEF SubmitInv, Selected, PlanType, TypeOK, Phases
    <2>2. step \in Checked
      BY <1>0, <1>10, <2>1 DEF Start, SubmitInv, TypeOK, Checked
    <2> QED
      BY <1>3, <1>10, <2>1, <2>2 DEF Start
  <1>11. ASSUME NEW i \in Launches, Finish(i)
         PROVE  [Order!Next]_(Order!vars)
    BY <1>1, <1>11 DEF Finish, Order!Next, Order!End
  <1> QED
    BY <1>4, <1>5, <1>6, <1>7, <1>8, <1>9, <1>10, <1>11 DEF Next, Host

\* A bundle keeps the promise of LaunchOrder, for every plan whose phases only
\* look back and, on a device, whose host launches name nothing: launches run
\* in dependency order, never two that conflict, and wait() covers all of them.
THEOREM BundleImplementsLaunchOrder ==
  ASSUME Forward, HostFirst
  PROVE  Spec => ImplementsLaunchOrder
  <1>1. Init => Order!Init
    BY DEF Init, Order!Init, Before, Clash
  <1>2. IInv /\ [Next]_vars => [Order!Next]_(Order!vars)
    <2> SUFFICES ASSUME IInv, [Next]_vars
                 PROVE  [Order!Next]_(Order!vars)
      OBVIOUS
    <2>1. CASE Next
      BY <2>1, StepMaps
    <2>2. CASE UNCHANGED vars
      BY <2>2 DEF vars, Order!vars, Before, Ancestors, Clash, Conflict
    <2> QED
      BY <2>1, <2>2
  <1> QED
    BY <1>1, <1>2, Invariance, PTL DEF Spec, ImplementsLaunchOrder, Order!Spec
=============================================================================
