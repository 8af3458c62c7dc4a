------------------------ MODULE DegreeWorklistProofs ------------------------
(***************************************************************************)
(* For every number of rows and all degrees: the plan is sound, the        *)
(* kernels leave the rows sorted by bucket in the worklist, and the        *)
(* buckets store every row, in whichever order their programs run.         *)
(***************************************************************************)
EXTENDS DegreeWorklist, FiniteSetTheorems, WellFoundedInduction, TLAPS

-----------------------------------------------------------------------------
(* The inductive invariant.                                                *)

\* The rows a kernel counts for a bucket and for the buckets before it.
Of(b)     == {r \in Rows : BucketOf(degree[r]) = b}
Before(b) == {r \in Rows : BucketOf(degree[r]) < b}
First(b)  == Cardinality(Before(b))
Taken(b)  == {r \in Of(b) : taken[r] # -1}

\* Nobody has taken a position yet.
Untouched ==
  stage \notin {"scatter", "execute"} =>
    /\ taken = [r \in Rows |-> -1]
    /\ stage # "prefix" => loop = [next |-> 0, total |-> 0]

Counted ==
  stage = "histogram" =>
    \A b \in Buckets : memory[b] = Cardinality(Of(b) \ todo)

Summed ==
  stage = "prefix" =>
    /\ loop.total = First(loop.next)
    /\ \A b \in Buckets :
         IF b < loop.next THEN memory[b] = First(b) /\ memory[Cursor(b)] = First(b)
         ELSE memory[b] = Cardinality(Of(b))

\* The positions taken in a bucket are the first of its segment, each by one
\* row, and a row that is done is where it belongs.
Placed ==
  stage \in {"scatter", "execute"} =>
    /\ \A b \in 0 .. B : memory[b] = First(b)
    /\ \A b \in Buckets :
         /\ memory[Cursor(b)] = First(b) + Cardinality(Taken(b))
         /\ {taken[r] : r \in Taken(b)} = First(b) .. (First(b) + Cardinality(Taken(b)) - 1)
    /\ \A r, s \in Rows : taken[r] = taken[s] /\ taken[r] # -1 => r = s
    /\ \A r \in Rows :
         stage = "execute" \/ r \notin todo => taken[r] # -1 /\ memory[Slot(taken[r])] = r

IInv == TypeOK /\ Untouched /\ Counted /\ Summed /\ Placed

-----------------------------------------------------------------------------
(* Numbers and small sets.                                                 *)

\* A set of numbers has a least one.
LEMMA Least ==
  ASSUME NEW S \in SUBSET Nat, S # {}
  PROVE  \E m \in S : \A k \in S : m <= k
  <1>0. PICK n \in S : TRUE
    OBVIOUS
  <1> DEFINE T        == {b \in S : b <= n}
             below(b) == {k \in S : k < b}
             downs    == {below(b) : b \in T}
  <1>1. IsFiniteSet(0 .. n)
    BY FS_Interval
  <1>2. IsWellFoundedOn(StrictSubsetOrdering(0 .. n), FiniteSubsetsOf(0 .. n))
    BY FS_StrictSubsetOrderingWellFounded
  <1>3. \A b \in T : below(b) \subseteq 0 .. n
    <2> SUFFICES ASSUME NEW b \in T, NEW k \in below(b) PROVE k \in 0 .. n
      OBVIOUS
    <2>1. k \in Nat /\ b \in Nat /\ n \in Nat /\ k < b /\ b <= n
      OBVIOUS
    <2> QED BY <2>1
  <1>a. downs \subseteq FiniteSubsetsOf(0 .. n)
    <2>1. \A b \in T : IsFiniteSet(below(b))
      <3> HIDE DEF T, below
      <3> QED BY <1>1, <1>3, FS_Subset
    <2> HIDE DEF T, below
    <2> QED BY <1>3, <2>1 DEF FiniteSubsetsOf
  <1>4. downs # {}
    <2>1. n \in T
      BY <1>0
    <2> HIDE DEF T, below
    <2> QED BY <2>1
  <1>5. PICK m \in downs : \A y \in downs : <<y, m>> \notin StrictSubsetOrdering(0 .. n)
    <2> HIDE DEF downs
    <2> QED BY <1>2, <1>a, <1>4, WFMin
  <1>6. PICK b \in T : m = below(b)
    BY <1>5
  <1>7. \A k \in S : b <= k
    <2> SUFFICES ASSUME NEW k \in S, k < b PROVE FALSE
      OBVIOUS
    <2>1. k \in T /\ k \in below(b) /\ k \notin below(k) /\ \A e \in below(k) : e \in below(b)
      OBVIOUS
    <2>2. below(k) \subseteq 0 .. n /\ below(b) \subseteq 0 .. n
      BY <1>3, <2>1
    <2>3. <<below(k), below(b)>> \in StrictSubsetOrdering(0 .. n)
      BY <2>1, <2>2 DEF StrictSubsetOrdering
    <2> QED BY <1>5, <1>6, <2>1, <2>3
  <1> QED BY <1>7

\* A product grows with its factors.
LEMMA MonotoneProduct ==
  ASSUME NEW a \in Nat, NEW b \in Nat, NEW c \in Nat, a <= b
  PROVE  a * c <= b * c
  OBVIOUS

\* A quotient is the last multiple that is not beyond.
LEMMA Quotient ==
  ASSUME NEW a \in Nat, NEW b \in Nat \ {0}
  PROVE  /\ a \div b \in Nat
         /\ b * (a \div b) <= a
         /\ a < b * (a \div b) + b
  OBVIOUS

\* Two elements of a pair are all of it.
LEMMA Pair ==
  ASSUME NEW x, NEW y, NEW S, S \subseteq {x, y}, Cardinality(S) > 1
  PROVE  Cardinality(S) = 2 /\ x \in S /\ y \in S /\ x # y
  <1>1. Cardinality({}) = 0 /\ Cardinality({x}) = 1 /\ Cardinality({y}) = 1
    BY FS_EmptySet, FS_Singleton
  <1>2. x \in S /\ y \in S /\ x # y
    <2>1. S # {}
      <3>1. S = {} => Cardinality(S) = 0
        BY <1>1, Zenon
      <3> QED BY <3>1
    <2>2. S # {x}
      BY <1>1
    <2>3. S # {y}
      BY <1>1
    <2> QED BY <2>1, <2>2, <2>3
  <1>4. Cardinality({x} \cup {y}) = 2
    <2>1. IsFiniteSet({x}) /\ y \notin {x}
      BY <1>2, FS_Singleton
    <2> QED BY <1>1, <2>1, FS_AddElement
  <1>3. S = {x} \cup {y}
    BY <1>2
  <1> QED BY <1>2, <1>3, <1>4

-----------------------------------------------------------------------------
(* The buckets.                                                            *)

\* A row has a bucket: there is a first bound it does not exceed.
LEMMA BucketExists ==
  ASSUME WellPlanned, NEW d \in Int
  PROVE  /\ BucketOf(d) \in Buckets
         /\ d <= Upper(BucketOf(d)) \/ BucketOf(d) = B - 1
         /\ \A c \in Buckets : c < BucketOf(d) => d > Upper(c)
  <1> DEFINE fits == {b \in Buckets : d <= Upper(b) \/ b = B - 1}
  <1>1. B \in Nat /\ B > 0 /\ Buckets \subseteq Nat
    BY DEF WellPlanned, Buckets, B
  <1>2. fits \in SUBSET Nat /\ fits # {}
    <2>1. B - 1 \in fits
      BY <1>1 DEF Buckets
    <2> QED BY <1>1, <2>1
  <1>3. PICK b \in fits : \A c \in fits : b <= c
    <2> HIDE DEF fits
    <2> QED BY <1>2, Least
  <1>4. \A c \in Buckets : c < b => d > Upper(c)
    <2> SUFFICES ASSUME NEW c \in Buckets, c < b PROVE d > Upper(c)
      OBVIOUS
    <2>1. Upper(c) \in Nat
      BY <1>1 DEF WellPlanned, Buckets, B, Upper
    <2>2. c \notin fits
      BY <1>1, <1>3
    <2> QED BY <2>1, <2>2
  <1>5. \E i \in Buckets : /\ d <= Upper(i) \/ i = B - 1
                          /\ \A c \in Buckets : c < i => d > Upper(c)
    BY <1>3, <1>4
  <1> QED
    BY <1>5, Zenon DEF BucketOf

\* And only one: the bucket of a row is the one whose interval its degree is in.
LEMMA BucketIsInterval ==
  ASSUME WellPlanned, NEW d \in Nat, d <= bounds[B], NEW b \in Buckets
  PROVE  BucketOf(d) = b <=> Lower(b) < d /\ d <= Upper(b)
  <1>1. B \in Nat /\ B > 0 /\ \A i \in 1 .. B : bounds[i] \in Nat
    BY DEF WellPlanned, B
  <1>2. \A i, j \in Buckets : i < j => Upper(i) < Upper(j)
    BY <1>1 DEF WellPlanned, Buckets, Upper
  <1>3. \A i \in Buckets : i - 1 \in Buckets => Lower(i) = Upper(i - 1)
    BY <1>1 DEF Buckets, Lower, Upper
  <1>4. \A i \in Buckets : i # 0 => i - 1 \in Buckets
    BY <1>1 DEF Buckets
  <1>5. Lower(0) = -1 /\ \A i \in Buckets : Upper(i) \in Nat
    BY <1>1 DEF Lower, Upper, Buckets
  <1>6. d <= Upper(B - 1)
    BY <1>1 DEF Upper
  <1> DEFINE o == BucketOf(d)
  <1>7. o \in Buckets /\ d <= Upper(o) /\ \A c \in Buckets : c < o => d > Upper(c)
    BY <1>6, BucketExists
  <1>8. Lower(o) < d
    <2>1. CASE o = 0
      BY <2>1, <1>5
    <2>2. CASE o # 0
      <3>1. o - 1 \in Buckets /\ o - 1 < o
        BY <1>1, <1>4, <1>7, <2>2 DEF Buckets
      <3> QED BY <3>1, <1>3, <1>7
    <2> QED BY <2>1, <2>2
  <1> HIDE DEF o
  <1>9. ASSUME Lower(b) < d, d <= Upper(b) PROVE o = b
    <2>1. ~ (b < o)
      BY <1>5, <1>7, <1>9
    <2>2. ~ (o < b)
      <3> SUFFICES ASSUME o < b PROVE FALSE
        OBVIOUS
      <3>1. b # 0 /\ b - 1 \in Buckets /\ Lower(b) = Upper(b - 1) /\ o <= b - 1
        BY <1>1, <1>3, <1>4, <1>7 DEF Buckets
      <3>2. Upper(o) <= Upper(b - 1)
        BY <3>1, <1>2, <1>5, <1>7 DEF Buckets
      <3> QED BY <3>1, <3>2, <1>5, <1>7, <1>9
    <2> QED BY <2>1, <2>2, <1>7 DEF Buckets
  <1> QED BY <1>7, <1>8, <1>9 DEF o

\* The segments follow each other and hold all rows.
LEMMA Segments ==
  ASSUME WellPlanned, degree \in [Rows -> Nat]
  PROVE  /\ B \in Nat /\ B > 0
         /\ \A r \in Rows : BucketOf(degree[r]) \in Buckets
         /\ First(0) = 0 /\ First(B) = N
         /\ \A b \in 0 .. B : First(b) \in Nat /\ First(b) <= N
         /\ \A b \in Buckets :
              /\ IsFiniteSet(Of(b)) /\ Cardinality(Of(b)) \in Nat
              /\ First(b + 1) = First(b) + Cardinality(Of(b))
         /\ \A b, c \in 0 .. B : b <= c => First(b) <= First(c)
  <1>1. B \in Nat /\ B > 0
    BY DEF WellPlanned, B
  <1>2. \A r \in Rows : BucketOf(degree[r]) \in Buckets
    BY BucketExists
  <1>3. IsFiniteSet(Rows) /\ Cardinality(Rows) = N
    BY WorklistAssumption, FS_Interval DEF Rows
  <1>4. \A b : Before(b) \subseteq Rows /\ Of(b) \subseteq Rows
    BY DEF Before, Of
  <1>5. \A b : /\ IsFiniteSet(Before(b)) /\ First(b) \in Nat /\ First(b) <= N
               /\ IsFiniteSet(Of(b)) /\ Cardinality(Of(b)) \in Nat
    <2> TAKE b
    <2>1. Before(b) \in SUBSET Rows /\ Of(b) \in SUBSET Rows
      BY <1>4
    <2>2. IsFiniteSet(Before(b)) /\ IsFiniteSet(Of(b)) /\ Cardinality(Before(b)) <= N
      BY <1>3, <2>1, FS_Subset
    <2> QED BY <2>2, FS_CardinalityType DEF First
  <1>6. Before(0) = {} /\ Before(B) = Rows
    BY <1>1, <1>2 DEF Before, Buckets
  <1>7. First(0) = 0 /\ First(B) = N
    BY <1>3, <1>6, FS_EmptySet DEF First
  <1>8. ASSUME NEW b \in Buckets PROVE First(b + 1) = First(b) + Cardinality(Of(b))
    <2>1. Before(b + 1) = Before(b) \cup Of(b) /\ Before(b) \cap Of(b) = {}
      BY <1>1, <1>2 DEF Before, Of, Buckets
    <2>2. Cardinality(Before(b) \cup Of(b))
            = Cardinality(Before(b)) + Cardinality(Of(b)) - Cardinality({})
      BY <1>5, <2>1, FS_Union
    <2>3. First(b + 1) = First(b) + Cardinality(Of(b)) - Cardinality({})
      BY <2>1, <2>2 DEF First
    <2>4. First(b) \in Nat /\ Cardinality(Of(b)) \in Nat /\ Cardinality({}) = 0
      BY <1>5, FS_EmptySet
    <2> QED BY <2>3, <2>4
  <1>9. ASSUME NEW b \in 0 .. B, NEW c \in 0 .. B, b <= c PROVE First(b) <= First(c)
    <2>1. Before(b) \subseteq Before(c)
      BY <1>1, <1>2, <1>9 DEF Before, Buckets
    <2> QED BY <1>5, <2>1, FS_Subset DEF First
  <1> QED BY <1>1, <1>2, <1>5, <1>7, <1>8, <1>9

-----------------------------------------------------------------------------
(* The steps.                                                              *)

\* The graph and the plan stay, and with them all that is derived from them.
LEMMA PlanStays ==
  ASSUME UNCHANGED graph
  PROVE  /\ B' = B /\ Buckets' = Buckets /\ Addresses' = Addresses
         /\ WellPlanned' <=> WellPlanned
         /\ \A i : Cursor(i)' = Cursor(i) /\ Slot(i)' = Slot(i)
         /\ \A d : BucketOf(d)' = BucketOf(d)
         /\ \A b : Of(b)' = Of(b) /\ First(b)' = First(b)
  <1>1. degree' = degree /\ bounds' = bounds
    BY DEF graph
  <1>2. B' = B
    BY <1>1 DEF B
  <1>3. Buckets' = Buckets /\ Addresses' = Addresses
    BY <1>2 DEF Buckets, Addresses
  <1>4. WellPlanned' <=> WellPlanned
    BY <1>1, <1>2 DEF WellPlanned
  <1>5. \A i : Cursor(i)' = Cursor(i) /\ Slot(i)' = Slot(i)
    BY <1>2 DEF Cursor, Slot
  <1>6. \A d : BucketOf(d)' = BucketOf(d)
    BY <1>1, <1>2, <1>3 DEF BucketOf, Upper
  <1>7. \A b : Of(b)' = Of(b) /\ Before(b)' = Before(b)
    BY <1>1, <1>6 DEF Of, Before
  <1>8. \A b : First(b)' = First(b)
    BY <1>7 DEF First
  <1> QED BY <1>2, <1>3, <1>4, <1>5, <1>6, <1>7, <1>8

\* Every step leaves the graph alone.
LEMMA GraphStays ==
  ASSUME [Next]_vars PROVE UNCHANGED graph
  <1>1. CASE UNCHANGED vars
    BY <1>1 DEF vars
  <1>2. CASE Build
    BY <1>2 DEF Build, Reset, Prefix, PrefixStep, PrefixEnds, Launch, Histogram, Take, Put
  <1>3. ASSUME NEW b \in Buckets, NEW p \in 0 .. Grid(b) - 1, Run(b, p) PROVE UNCHANGED graph
    BY <1>3 DEF Run
  <1> QED BY <1>1, <1>2, <1>3 DEF Next

LEMMA Initially ==
  ASSUME Init, WellPlanned PROVE IInv
  <1>1. degree \in [Rows -> Nat]
    BY WorklistAssumption DEF Init
  <1>2. bounds \in Seq(Int) /\ bounds # <<>> /\ B \in Nat
    BY DEF WellPlanned, B
  <1>3. exact \in BOOLEAN /\ split \in BOOLEAN
    BY WorklistAssumption DEF Init, TailSplit
  <1>4. memory \in [Addresses -> Int]
    BY WorklistAssumption DEF Init
  <1>5. loop \in [next : 0 .. B, total : Int]
    BY <1>2 DEF Init
  <1>6. stage = "reset" /\ taken = [r \in Rows |-> -1] /\ DOMAIN stores = Rows
    BY DEF Init
  <1>7. TypeOK
    BY <1>1, <1>2, <1>3, <1>4, <1>5, <1>6 DEF TypeOK
  <1> QED
    BY <1>6, <1>7 DEF Init, IInv, Untouched, Counted, Summed, Placed

LEMMA ResetKeeps ==
  ASSUME WellPlanned, IInv, Reset PROVE IInv'
  <1>1. UNCHANGED graph
    BY DEF Reset
  <1>2. degree \in [Rows -> Nat] /\ B \in Nat /\ B > 0
    BY DEF IInv, TypeOK, WellPlanned, B
  <1>3. stage' = "histogram" /\ todo' = Rows /\ UNCHANGED <<loop, taken, stores>>
    BY DEF Reset
  <1>4. memory' \in [Addresses -> Int]
    BY DEF Reset, IInv, TypeOK
  <1>5. TypeOK'
    BY <1>1, <1>3, <1>4, PlanStays DEF IInv, TypeOK, graph
  <1>6. Untouched'
    BY <1>3 DEF Reset, IInv, Untouched
  <1>7. Counted'
    <2>1. \A b \in Buckets : memory'[b] = 0
      BY <1>2, WorklistAssumption DEF Reset, Buckets, Addresses
    <2>2. \A b : Of(b) \ todo' = {}
      BY <1>3 DEF Of
    <2>3. \A b \in Buckets : memory'[b] = Cardinality(Of(b) \ todo')
      BY <2>1, <2>2, FS_EmptySet
    <2> QED BY <1>1, <2>3, PlanStays DEF Counted
  <1> QED BY <1>3, <1>5, <1>6, <1>7 DEF IInv, Summed, Placed

LEMMA HistogramKeeps ==
  ASSUME WellPlanned, IInv, NEW r \in Rows, Histogram(r) PROVE IInv'
  <1> DEFINE o == BucketOf(degree[r])
  <1>1. UNCHANGED graph
    BY DEF Histogram
  <1>2. degree \in [Rows -> Nat] /\ memory \in [Addresses -> Int] /\ todo \subseteq Rows
    BY DEF IInv, TypeOK, Histogram
  <1>3. /\ stage = "histogram" /\ stage' = "histogram" /\ r \in todo /\ todo' = todo \ {r}
        /\ UNCHANGED <<loop, taken, stores>>
    BY DEF Histogram
  <1>4. /\ B \in Nat /\ B > 0 /\ o \in Buckets
        /\ \A b \in Buckets : IsFiniteSet(Of(b)) /\ Cardinality(Of(b)) \in Nat
    BY <1>2, Segments
  <1>5. Buckets \subseteq Addresses
    BY <1>4, WorklistAssumption DEF Buckets, Addresses
  <1>6. memory' = [memory EXCEPT ![o] = memory[o] + 1]
    BY DEF Histogram
  <1> HIDE DEF o
  <1>7. memory' \in [Addresses -> Int]
    BY <1>2, <1>4, <1>5, <1>6
  <1>8. TypeOK'
    BY <1>1, <1>2, <1>3, <1>7, PlanStays DEF IInv, TypeOK, graph
  <1>9. Untouched'
    BY <1>3 DEF IInv, Untouched
  <1>10. ASSUME NEW b \in Buckets PROVE memory'[b] = Cardinality(Of(b) \ todo')
    <2>1. memory[b] = Cardinality(Of(b) \ todo)
      BY <1>3 DEF IInv, Counted
    <2>2. CASE b = o
      <3>1. r \in Of(b)
        BY <2>2 DEF Of, o
      <3>2. Of(b) \ todo' = (Of(b) \ todo) \cup {r} /\ r \notin Of(b) \ todo
        BY <1>3, <3>1
      <3>3. IsFiniteSet(Of(b) \ todo)
        BY <1>4, FS_Difference
      <3>4. Cardinality(Of(b) \ todo') = Cardinality(Of(b) \ todo) + 1
        BY <3>2, <3>3, FS_AddElement
      <3> QED BY <1>2, <1>5, <1>6, <2>1, <2>2, <3>4
    <2>3. CASE b # o
      <3>1. r \notin Of(b)
        BY <2>3 DEF Of, o
      <3>2. Of(b) \ todo' = Of(b) \ todo
        BY <1>3, <3>1
      <3> QED BY <1>2, <1>5, <1>6, <2>1, <2>3, <3>2
    <2> QED BY <2>2, <2>3
  <1>11. Counted'
    BY <1>1, <1>10, PlanStays DEF Counted
  <1> QED BY <1>3, <1>8, <1>9, <1>11 DEF IInv, Summed, Placed

LEMMA PrefixKeeps ==
  ASSUME WellPlanned, IInv, Prefix PROVE IInv'
  <1>1. UNCHANGED graph /\ UNCHANGED <<memory, todo, loop, taken, stores>>
    BY DEF Prefix
  <1>2. stage = "histogram" /\ todo = {} /\ stage' = "prefix"
    BY DEF Prefix
  <1>3. TypeOK'
    BY <1>1, <1>2, PlanStays DEF IInv, TypeOK, graph
  <1>4. loop.next = 0 /\ loop.total = 0 /\ Untouched'
    BY <1>1, <1>2 DEF IInv, Untouched
  <1>5. First(0) = 0 /\ B \in Nat
    BY Segments DEF IInv, TypeOK
  <1>6. \A b \in Buckets : memory[b] = Cardinality(Of(b)) /\ ~ (b < 0)
    BY <1>2, <1>5 DEF IInv, Counted, Buckets
  <1>7. Summed'
    BY <1>1, <1>4, <1>5, <1>6, PlanStays DEF Summed
  <1> QED BY <1>2, <1>3, <1>4, <1>7 DEF IInv, Counted, Placed

LEMMA PrefixStepKeeps ==
  ASSUME WellPlanned, IInv, PrefixStep PROVE IInv'
  <1> DEFINE i == loop.next
             t == loop.total
  <1>1. UNCHANGED graph /\ UNCHANGED <<stage, todo, taken, stores>> /\ stage = "prefix" /\ i < B
    BY DEF PrefixStep
  <1>2. degree \in [Rows -> Nat] /\ memory \in [Addresses -> Int] /\ loop \in [next : 0 .. B, total : Int]
    BY DEF IInv, TypeOK
  <1>3. B \in Nat /\ i \in Buckets /\ N \in Nat
    BY <1>1, <1>2, Segments, WorklistAssumption DEF Buckets
  <1>4. memory' = [memory EXCEPT ![i] = t, ![B + 1 + i] = t]
    BY DEF PrefixStep, Cursor
  <1>5. loop' = [next |-> i + 1, total |-> t + memory[i]]
    BY DEF PrefixStep
  <1>6. /\ t = First(i)
        /\ \A b \in Buckets :
             IF b < i THEN memory[b] = First(b) /\ memory[B + 1 + b] = First(b)
             ELSE memory[b] = Cardinality(Of(b))
    BY <1>1 DEF IInv, Summed, Cursor
  <1> HIDE DEF i, t
  <1>7. \A b \in Buckets : b \in Addresses /\ B + 1 + b \in Addresses /\ b \in 0 .. B - 1
    BY <1>3 DEF Buckets, Addresses
  <1>8. memory' \in [Addresses -> Int] /\ loop' \in [next : 0 .. B, total : Int]
    <2>1. t \in Int /\ memory[i] \in Int /\ i + 1 \in 0 .. B
      BY <1>2, <1>3, <1>7 DEF t, Buckets
    <2>2. memory' \in [Addresses -> Int]
      BY <1>2, <1>4, <2>1
    <2>3. t + memory[i] \in Int
      BY <2>1
    <2>4. loop' \in [next : 0 .. B, total : Int]
      BY <1>5, <2>1, <2>3
    <2> QED BY <2>2, <2>4
  <1>9. TypeOK'
    BY <1>1, <1>8, PlanStays DEF IInv, TypeOK, graph
  <1>10. Untouched'
    BY <1>1 DEF IInv, Untouched
  <1>11. loop.next' = i + 1 /\ loop.total' = First(i + 1)
    <2>1. i \in Int /\ First(i + 1) = First(i) + Cardinality(Of(i))
      BY <1>2, <1>3, Segments DEF Buckets
    <2>2. memory[i] = Cardinality(Of(i))
      BY <1>3, <1>6, <2>1
    <2> QED BY <1>5, <1>6, <2>1, <2>2
  <1>12. ASSUME NEW b \in Buckets
         PROVE  IF b < i + 1 THEN memory'[b] = First(b) /\ memory'[B + 1 + b] = First(b)
                ELSE memory'[b] = Cardinality(Of(b))
    <2>1. b # B + 1 + i /\ i # B + 1 + b /\ (b < i + 1 <=> b < i \/ b = i) /\ i \in Int
      BY <1>3, <1>7
    <2>2. CASE b = i
      BY <1>2, <1>3, <1>4, <1>6, <1>7, <2>1, <2>2
    <2>3. CASE b # i
      <3>1. memory'[b] = memory[b] /\ memory'[B + 1 + b] = memory[B + 1 + b]
        BY <1>2, <1>3, <1>4, <1>7, <2>1, <2>3
      <3> QED BY <1>6, <2>1, <2>3, <3>1
    <2> QED BY <2>2, <2>3
  <1>13. Summed'
    BY <1>1, <1>3, <1>11, <1>12, PlanStays DEF Summed, Cursor
  <1> QED BY <1>1, <1>9, <1>10, <1>13 DEF IInv, Counted, Placed

LEMMA PrefixEndsKeeps ==
  ASSUME WellPlanned, IInv, PrefixEnds PROVE IInv'
  <1>1. /\ UNCHANGED graph /\ UNCHANGED <<loop, taken, stores>>
        /\ stage = "prefix" /\ stage' = "scatter" /\ loop.next = B /\ todo' = Rows
    BY DEF PrefixEnds
  <1>2. degree \in [Rows -> Nat] /\ memory \in [Addresses -> Int] /\ loop.total \in Int
    BY DEF IInv, TypeOK
  <1>3. B \in Nat /\ B > 0 /\ N \in Nat /\ \A b \in Buckets : First(b) \in Nat
    BY <1>2, Segments, WorklistAssumption DEF Buckets
  <1>4. memory' = [memory EXCEPT ![B] = First(B)] /\ First(B) \in Int
    BY <1>1, <1>2 DEF PrefixEnds, IInv, Summed
  <1>5. \A b \in Buckets : b < B /\ memory[b] = First(b) /\ memory[B + 1 + b] = First(b)
    BY <1>1, <1>3 DEF IInv, Summed, Buckets, Cursor
  <1>6. \A b \in Buckets : b \in Addresses /\ b # B /\ B + 1 + b # B /\ B + 1 + b \in Addresses
    BY <1>3 DEF Buckets, Addresses
  <1>7. B \in Addresses /\ 0 .. B = Buckets \cup {B}
    BY <1>3 DEF Buckets, Addresses
  <1>8. TypeOK'
    <2>1. memory' \in [Addresses -> Int]
      BY <1>2, <1>4
    <2> QED BY <1>1, <2>1, PlanStays DEF IInv, TypeOK, graph
  <1>9. \A r \in Rows : taken[r] = -1
    BY <1>1 DEF IInv, Untouched
  <1>10. \A b : Taken(b) = {}
    BY <1>9 DEF Taken, Of
  <1>11. \A b : Taken(b)' = {}
    BY <1>1, <1>10, PlanStays DEF Taken
  <1>12. \A b \in 0 .. B : memory'[b] = First(b)
    BY <1>2, <1>4, <1>5, <1>6, <1>7
  <1>13. ASSUME NEW b \in Buckets
         PROVE  /\ memory'[B + 1 + b] = First(b) + Cardinality(Taken(b)')
                /\ {taken[r] : r \in Taken(b)'} = First(b) .. (First(b) + Cardinality(Taken(b)') - 1)
    <2>1. Taken(b)' = {} /\ Cardinality(Taken(b)') = 0
      BY <1>11, FS_EmptySet
    <2>2. memory'[B + 1 + b] = First(b) /\ First(b) \in Nat
      BY <1>2, <1>3, <1>4, <1>5, <1>6
    <2>3. First(b) .. (First(b) + 0 - 1) = {}
      BY <2>2
    <2> HIDE DEF Taken
    <2> QED BY <2>1, <2>2, <2>3
  <1>14. Placed'
    <2>1. \A b : First(b)' = First(b) /\ Cursor(b)' = B + 1 + b
      BY <1>1, PlanStays DEF Cursor
    <2>2. (\A b \in 0 .. B : memory[b] = First(b))'
      BY <1>1, <1>12, <2>1, PlanStays
    <2>3. (\A b \in Buckets :
             /\ memory[Cursor(b)] = First(b) + Cardinality(Taken(b))
             /\ {taken[r] : r \in Taken(b)} = First(b) .. (First(b) + Cardinality(Taken(b)) - 1))'
      BY <1>1, <1>13, <2>1, PlanStays
    <2> QED BY <1>1, <1>9, <2>2, <2>3 DEF Placed
  <1> QED BY <1>1, <1>8, <1>14 DEF IInv, Untouched, Counted, Summed

\* The positions taken in a bucket are at most its rows.
LEMMA TakenFits ==
  ASSUME WellPlanned, degree \in [Rows -> Nat], NEW b \in Buckets
  PROVE  /\ IsFiniteSet(Taken(b)) /\ Cardinality(Taken(b)) \in Nat
         /\ First(b) + Cardinality(Taken(b)) <= First(b + 1)
         /\ Taken(b) # Of(b) => First(b) + Cardinality(Taken(b)) < First(b + 1)
  <1>1. /\ IsFiniteSet(Of(b)) /\ Cardinality(Of(b)) \in Nat /\ B \in Nat
        /\ First(b) \in Nat /\ First(b + 1) = First(b) + Cardinality(Of(b))
    BY Segments DEF Buckets
  <1>2. Taken(b) \in SUBSET Of(b)
    BY DEF Taken
  <1>3. /\ IsFiniteSet(Taken(b)) /\ Cardinality(Taken(b)) <= Cardinality(Of(b))
        /\ Cardinality(Of(b)) = Cardinality(Taken(b)) => Of(b) = Taken(b)
    BY <1>1, <1>2, FS_Subset
  <1>4. Cardinality(Taken(b)) \in Nat
    BY <1>3, FS_CardinalityType
  <1> HIDE DEF Taken, Of, First
  <1> QED BY <1>1, <1>3, <1>4

\* A position is in the segment of its row's bucket.
LEMMA InSegment ==
  ASSUME WellPlanned, TypeOK, Placed, stage \in {"scatter", "execute"},
         NEW s \in Rows, taken[s] # -1, NEW c, c = BucketOf(degree[s])
  PROVE  /\ c \in Buckets
         /\ First(c) <= taken[s] /\ taken[s] < First(c) + Cardinality(Taken(c))
         /\ taken[s] < First(c + 1) /\ taken[s] \in 0 .. N - 1
  <1>1. degree \in [Rows -> Nat] /\ taken[s] \in Int /\ N \in Nat
    BY WorklistAssumption DEF TypeOK
  <1>2. c \in Buckets /\ B \in Nat
    BY <1>1, Segments
  <1>3. /\ First(c) \in Nat /\ First(c + 1) \in Nat /\ First(c + 1) <= N
    BY <1>1, <1>2, Segments DEF Buckets
  <1>4. Cardinality(Taken(c)) \in Nat /\ First(c) + Cardinality(Taken(c)) <= First(c + 1)
    BY <1>1, <1>2, TakenFits
  <1>5. s \in Taken(c)
    BY DEF Taken, Of
  <1>6. {taken[r] : r \in Taken(c)} = First(c) .. (First(c) + Cardinality(Taken(c)) - 1)
    BY <1>2 DEF Placed
  <1>7. taken[s] \in First(c) .. (First(c) + Cardinality(Taken(c)) - 1)
    BY <1>5, <1>6
  <1> HIDE DEF First
  <1> QED BY <1>1, <1>2, <1>3, <1>4, <1>7

LEMMA TakeKeeps ==
  ASSUME WellPlanned, IInv, NEW r \in Rows, Take(r) PROVE IInv'
  <1>b. PICK o : o = BucketOf(degree[r])
    OBVIOUS
  <1>p. PICK p : p = memory[B + 1 + o]
    OBVIOUS
  <1>1. /\ UNCHANGED graph /\ UNCHANGED <<stage, todo, loop, stores>>
        /\ stage = "scatter" /\ r \in todo /\ taken[r] = -1
    BY DEF Take
  <1>2. /\ degree \in [Rows -> Nat] /\ memory \in [Addresses -> Int] /\ taken \in [Rows -> Int]
        /\ TypeOK /\ Placed /\ N \in Nat
    BY WorklistAssumption DEF IInv, TypeOK
  <1>3. o \in Buckets /\ B \in Nat
    BY <1>2, <1>b, Segments
  <1>4. taken' = [taken EXCEPT ![r] = p] /\ memory' = [memory EXCEPT ![B + 1 + o] = p + 1]
    BY <1>b, <1>p DEF Take, Cursor
  <1>5. /\ \A b \in 0 .. B : memory[b] = First(b)
        /\ \A b \in Buckets :
             /\ memory[B + 1 + b] = First(b) + Cardinality(Taken(b))
             /\ {taken[s] : s \in Taken(b)} = First(b) .. (First(b) + Cardinality(Taken(b)) - 1)
        /\ \A s, q \in Rows : taken[s] = taken[q] /\ taken[s] # -1 => s = q
        /\ \A s \in Rows : s \notin todo => taken[s] # -1 /\ memory[2 * B + 1 + taken[s]] = s
    BY <1>1, <1>2 DEF Placed, Cursor, Slot
  <1>6. \A b \in 0 .. B : b \in Addresses /\ b # B + 1 + o /\ b \in Int
    BY <1>2, <1>3 DEF Buckets, Addresses
  <1>7. \A b \in Buckets : B + 1 + b \in Addresses /\ b \in 0 .. B - 1
    BY <1>2, <1>3 DEF Buckets, Addresses
  <1>8. r \in Of(o) /\ r \notin Taken(o)
    BY <1>1, <1>b DEF Of, Taken
  <1>9. p \in Nat /\ p = First(o) + Cardinality(Taken(o)) /\ p < First(o + 1) /\ First(o) \in Nat
        /\ Cardinality(Taken(o)) \in Nat
    <2>1. Taken(o) # Of(o)
      BY <1>8
    <2>2. First(o) \in Nat
      BY <1>2, <1>3, Segments DEF Buckets
    <2>3. /\ Cardinality(Taken(o)) \in Nat
          /\ First(o) + Cardinality(Taken(o)) < First(o + 1)
      BY <1>2, <1>3, <2>1, TakenFits
    <2> QED BY <1>3, <1>5, <1>p, <2>2, <2>3
  <1>10. Taken(o)' = Taken(o) \cup {r} /\ Cardinality(Taken(o)') = Cardinality(Taken(o)) + 1
    <2>1. Taken(o)' = {s \in Of(o) : taken'[s] # -1}
      BY <1>1, PlanStays DEF Taken
    <2>2. \A s \in Of(o) : taken'[s] # -1 <=> s \in Taken(o) \/ s = r
      BY <1>2, <1>4, <1>9 DEF Taken, Of
    <2>3. Taken(o)' = Taken(o) \cup {r}
      BY <1>8, <2>1, <2>2 DEF Taken
    <2>4. IsFiniteSet(Taken(o))
      BY <1>2, <1>3, TakenFits
    <2> QED BY <1>8, <2>3, <2>4, FS_AddElement
  <1>11. \A b : b # o => Taken(b)' = Taken(b)
    <2>1. \A b : Taken(b)' = {s \in Of(b) : taken'[s] # -1}
      BY <1>1, PlanStays DEF Taken
    <2>2. \A b : b # o => r \notin Of(b)
      BY <1>b DEF Of
    <2>3. \A b : b # o => \A s \in Of(b) : taken'[s] = taken[s]
      BY <1>2, <1>4, <2>2 DEF Of
    <2> QED BY <2>1, <2>3 DEF Taken
  <1>12. TypeOK'
    <2>1. p \in Int /\ p + 1 \in Int
      BY <1>9
    <2>2. memory' \in [Addresses -> Int]
      BY <1>2, <1>4, <2>1
    <2>3. taken' \in [Rows -> Int]
      BY <1>2, <1>4, <2>1
    <2> QED BY <1>1, <2>2, <2>3, PlanStays DEF IInv, TypeOK, graph
  <1>13. \A b \in 0 .. B : memory'[b] = First(b)
    BY <1>2, <1>4, <1>5, <1>6
  <1>14. ASSUME NEW b \in Buckets
         PROVE  /\ memory'[B + 1 + b] = First(b) + Cardinality(Taken(b)')
                /\ {taken'[s] : s \in Taken(b)'} = First(b) .. (First(b) + Cardinality(Taken(b)') - 1)
    <2>1. Taken(b) \subseteq Rows
      BY DEF Taken, Of
    <2>2. CASE b = o
      <3>1. memory'[B + 1 + b] = p + 1
        BY <1>2, <1>4, <1>7, <2>2
      <3>2. \A s \in Taken(o) : taken'[s] = taken[s]
        BY <1>2, <1>4, <1>8, <2>1, <2>2
      <3>3. taken'[r] = p
        BY <1>2, <1>4
      <3>4. {taken'[s] : s \in Taken(o)'} = {taken[s] : s \in Taken(o)} \cup {p}
        BY <1>10, <3>2, <3>3
      <3>5. {taken[s] : s \in Taken(o)} = First(o) .. p - 1
        BY <1>3, <1>5, <1>9
      <3>6. (First(o) .. p - 1) \cup {p} = First(o) .. p
        BY <1>9
      <3>7. First(o) + Cardinality(Taken(o)') = p + 1
        BY <1>9, <1>10
      <3>8. Cardinality(Taken(o)') \in Nat
        BY <1>9, <1>10
      <3>9. First(o) + Cardinality(Taken(o)') - 1 = p
        BY <1>9, <3>7, <3>8
      <3> HIDE DEF Taken, First
      <3> QED BY <2>2, <3>1, <3>4, <3>5, <3>6, <3>7, <3>9
    <2>3. CASE b # o
      <3>1. memory'[B + 1 + b] = memory[B + 1 + b]
        BY <1>2, <1>3, <1>4, <1>7, <2>3
      <3>2. r \notin Taken(b)
        BY <1>b, <2>3 DEF Taken, Of
      <3>3. \A s \in Taken(b) : taken'[s] = taken[s]
        BY <1>2, <1>4, <2>1, <3>2
      <3>4. {taken'[s] : s \in Taken(b)'} = {taken[s] : s \in Taken(b)}
        BY <1>11, <2>3, <3>3
      <3> QED BY <1>5, <1>11, <2>3, <3>1, <3>4
    <2> QED BY <2>2, <2>3
  <1>15. ASSUME NEW s \in Rows PROVE taken[s] # p
    <2> SUFFICES ASSUME taken[s] = p PROVE FALSE
      OBVIOUS
    <2>1. taken[s] # -1
      BY <1>9
    <2>2. PICK c : c = BucketOf(degree[s])
      OBVIOUS
    <2>3. /\ c \in Buckets /\ First(c) <= p
          /\ p < First(c) + Cardinality(Taken(c)) /\ p < First(c + 1)
      BY <1>1, <1>2, <2>1, <2>2, InSegment
    <2>4. \A b \in 0 .. B : First(b) \in Nat
      BY <1>2, Segments
    <2>5. CASE c < o
      <3>1. First(c + 1) <= First(o)
        BY <1>2, <1>3, <1>7, <2>3, <2>5, Segments
      <3>2. First(c + 1) \in Nat
        BY <1>3, <1>7, <2>3, <2>4
      <3> QED BY <1>9, <2>3, <3>1, <3>2
    <2>6. CASE o < c
      <3>1. First(o + 1) <= First(c)
        BY <1>2, <1>3, <1>7, <2>3, <2>6, Segments
      <3>2. First(o + 1) \in Nat /\ First(c) \in Nat
        BY <1>3, <1>7, <2>3, <2>4
      <3> QED BY <1>9, <2>3, <3>1, <3>2
    <2>7. CASE c = o
      BY <1>9, <2>3, <2>7
    <2> QED BY <1>3, <1>7, <2>3, <2>5, <2>6, <2>7
  <1>16. \A s, q \in Rows : taken'[s] = taken'[q] /\ taken'[s] # -1 => s = q
    BY <1>2, <1>4, <1>5, <1>15
  <1>17. ASSUME NEW s \in Rows, s \notin todo
         PROVE  taken'[s] # -1 /\ memory'[2 * B + 1 + taken'[s]] = s
    <2>1. s # r /\ taken'[s] = taken[s] /\ taken[s] # -1
      BY <1>1, <1>2, <1>4, <1>5, <1>17
    <2>2. taken[s] \in 0 .. N - 1
      BY <1>1, <1>2, <2>1, InSegment
    <2>3. 2 * B + 1 + taken[s] # B + 1 + o /\ 2 * B + 1 + taken[s] \in Addresses
      BY <1>2, <1>3, <2>2 DEF Addresses, Buckets
    <2> QED BY <1>2, <1>4, <1>5, <1>17, <2>1, <2>3
  <1>18. Placed'
    <2>1. \A b : First(b)' = First(b) /\ Cursor(b)' = B + 1 + b /\ Slot(b)' = 2 * B + 1 + b
      BY <1>1, PlanStays DEF Cursor, Slot
    <2>2. (\A b \in 0 .. B : memory[b] = First(b))'
      BY <1>1, <1>13, <2>1, PlanStays
    <2>3. (\A b \in Buckets :
             /\ memory[Cursor(b)] = First(b) + Cardinality(Taken(b))
             /\ {taken[s] : s \in Taken(b)} = First(b) .. (First(b) + Cardinality(Taken(b)) - 1))'
      BY <1>1, <1>14, <2>1, PlanStays
    <2>4. (\A s \in Rows :
             stage = "execute" \/ s \notin todo => taken[s] # -1 /\ memory[Slot(taken[s])] = s)'
      BY <1>1, <1>17, <2>1, PlanStays DEF Slot
    <2> QED BY <1>16, <2>2, <2>3, <2>4 DEF Placed
  <1> QED BY <1>1, <1>12, <1>18 DEF IInv, Untouched, Counted, Summed

LEMMA PutKeeps ==
  ASSUME WellPlanned, IInv, NEW r \in Rows, Put(r) PROVE IInv'
  <1>p. PICK p : p = 2 * B + 1 + taken[r]
    OBVIOUS
  <1>1. /\ UNCHANGED graph /\ UNCHANGED <<stage, loop, taken, stores>>
        /\ stage = "scatter" /\ todo' = todo \ {r} /\ taken[r] # -1
    BY DEF Put
  <1>2. /\ degree \in [Rows -> Nat] /\ memory \in [Addresses -> Int] /\ taken \in [Rows -> Int]
        /\ TypeOK /\ Placed /\ N \in Nat
    BY WorklistAssumption DEF IInv, TypeOK
  <1>3. B \in Nat
    BY <1>2, Segments
  <1>4. memory' = [memory EXCEPT ![p] = r]
    BY <1>p DEF Put, Slot
  <1>5. \A s \in Rows : taken[s] # -1 => taken[s] \in 0 .. N - 1
    BY <1>1, <1>2, InSegment
  <1>6. p \in Addresses /\ p > 2 * B
    BY <1>1, <1>2, <1>3, <1>5, <1>p DEF Addresses
  <1>7. \A b : Taken(b)' = Taken(b)
    BY <1>1, PlanStays DEF Taken
  <1>8. TypeOK'
    <2>1. memory' \in [Addresses -> Int]
      <3>1. r \in Int
        BY WorklistAssumption DEF Rows
      <3> QED BY <1>2, <1>4, <3>1
    <2>2. todo' \subseteq Rows
      BY <1>1, <1>2 DEF TypeOK
    <2> QED BY <1>1, <2>1, <2>2, PlanStays DEF IInv, TypeOK, graph
  <1>9. ASSUME NEW b \in 0 .. B PROVE memory'[b] = First(b)
    <2>1. b \in Addresses /\ b # p
      BY <1>2, <1>3, <1>6 DEF Addresses
    <2> QED BY <1>1, <1>2, <1>4, <2>1 DEF Placed
  <1>10. ASSUME NEW b \in Buckets
         PROVE  /\ memory'[Cursor(b)] = First(b) + Cardinality(Taken(b))
                /\ {taken[s] : s \in Taken(b)} = First(b) .. (First(b) + Cardinality(Taken(b)) - 1)
    <2>1. Cursor(b) \in Addresses /\ Cursor(b) # p
      BY <1>2, <1>3, <1>6 DEF Addresses, Cursor, Buckets
    <2>2. memory'[Cursor(b)] = memory[Cursor(b)]
      BY <1>2, <1>4, <2>1
    <2> QED BY <1>1, <1>2, <2>2 DEF Placed
  <1>11. ASSUME NEW s \in Rows, s \notin todo'
         PROVE  taken[s] # -1 /\ memory'[Slot(taken[s])] = s
    <2>1. CASE s = r
      <3>1. Slot(taken[s]) = p
        BY <1>p, <2>1 DEF Slot
      <3>2. memory'[p] = r
        BY <1>2, <1>4, <1>6
      <3> QED BY <1>1, <2>1, <3>1, <3>2
    <2>2. CASE s # r
      <3>1. taken[s] # -1 /\ memory[Slot(taken[s])] = s
        BY <1>1, <1>2, <1>11, <2>2 DEF Placed
      <3>2. taken[s] # taken[r]
        BY <1>1, <1>2, <2>2, <3>1 DEF Placed
      <3>3. taken[s] \in 0 .. N - 1 /\ taken[r] \in 0 .. N - 1
        BY <1>1, <1>5, <3>1
      <3>4. Slot(taken[s]) \in Addresses /\ Slot(taken[s]) # p
        <4>1. PICK i, j \in 0 .. N - 1 : i = taken[s] /\ j = taken[r] /\ i # j
          BY <3>2, <3>3
        <4>2. 2 * B + 1 + i # 2 * B + 1 + j /\ 2 * B + 1 + i \in 0 .. (2 * B + N)
          BY <1>2, <1>3, <4>1
        <4> QED BY <1>p, <4>1, <4>2 DEF Slot, Addresses
      <3> QED BY <1>2, <1>4, <3>1, <3>4
    <2> QED BY <2>1, <2>2
  <1>12. Placed'
    <2>1. \A b : First(b)' = First(b) /\ Cursor(b)' = Cursor(b) /\ Slot(b)' = Slot(b)
      BY <1>1, PlanStays
    <2>2. (\A b \in 0 .. B : memory[b] = First(b))'
      BY <1>1, <1>9, <2>1, PlanStays
    <2>3. (\A b \in Buckets :
             /\ memory[Cursor(b)] = First(b) + Cardinality(Taken(b))
             /\ {taken[s] : s \in Taken(b)} = First(b) .. (First(b) + Cardinality(Taken(b)) - 1))'
      BY <1>1, <1>7, <1>10, <2>1, PlanStays
    <2>4. (\A s \in Rows :
             stage = "execute" \/ s \notin todo => taken[s] # -1 /\ memory[Slot(taken[s])] = s)'
      BY <1>1, <1>11, <2>1, PlanStays DEF Slot
    <2>5. (\A s, q \in Rows : taken[s] = taken[q] /\ taken[s] # -1 => s = q)'
      BY <1>1, <1>2 DEF Placed
    <2> QED BY <2>2, <2>3, <2>4, <2>5 DEF Placed
  <1> QED BY <1>1, <1>8, <1>12 DEF IInv, Untouched, Counted, Summed

\* A step that touches neither the memory nor the positions.
LEMMA ExecuteKeeps ==
  ASSUME WellPlanned, IInv,
         Launch \/ \E b \in Buckets : \E p \in 0 .. Grid(b) - 1 : Run(b, p)
  PROVE  IInv'
  <1>1. /\ UNCHANGED graph /\ UNCHANGED <<memory, loop, taken>> /\ stage' = "execute"
        /\ DOMAIN stores' = DOMAIN stores
        /\ (stage = "scatter" /\ todo = {}) \/ stage = "execute"
    BY DEF Launch, Run, IInv, TypeOK
  <1>2. TypeOK'
    BY <1>1, PlanStays DEF IInv, TypeOK, graph
  <1>3. \A b : Taken(b)' = Taken(b)
    BY <1>1, PlanStays DEF Taken
  <1>4. \A b : First(b)' = First(b) /\ Cursor(b)' = Cursor(b) /\ Slot(b)' = Slot(b)
    BY <1>1, PlanStays
  <1>5. Placed
    BY DEF IInv
  <1>6. (\A b \in 0 .. B : memory[b] = First(b))'
    BY <1>1, <1>4, <1>5, PlanStays DEF Placed
  <1>7. (\A b \in Buckets :
           /\ memory[Cursor(b)] = First(b) + Cardinality(Taken(b))
           /\ {taken[s] : s \in Taken(b)} = First(b) .. (First(b) + Cardinality(Taken(b)) - 1))'
    BY <1>1, <1>3, <1>4, <1>5, PlanStays DEF Placed
  <1>8. (\A s \in Rows :
           stage = "execute" \/ s \notin todo => taken[s] # -1 /\ memory[Slot(taken[s])] = s)'
    <2>1. \A s \in Rows : taken[s] # -1 /\ memory[Slot(taken[s])] = s
      BY <1>1, <1>5 DEF Placed
    <2> QED BY <1>1, <1>4, <2>1, PlanStays DEF Slot
  <1>9. (\A s, q \in Rows : taken[s] = taken[q] /\ taken[s] # -1 => s = q)'
    BY <1>1, <1>5 DEF Placed
  <1>10. Placed'
    BY <1>6, <1>7, <1>8, <1>9 DEF Placed
  <1> QED BY <1>1, <1>2, <1>10 DEF IInv, Untouched, Counted, Summed

-----------------------------------------------------------------------------
(* The plan.  What is known of 2 ^ i is that it counts the subsets of an   *)
(* interval; an induction is a least counterexample.                       *)

\* A power of two counts the subsets of an interval, so the next one is twice it.
LEMMA PowerStep ==
  ASSUME NEW k \in Nat
  PROVE  2 ^ k \in Nat /\ 2 ^ (k + 1) = 2 ^ k + 2 ^ k
  <1> DEFINE A == SUBSET (1 .. k)
             C == SUBSET (1 .. k + 1)
             D == {U \cup {k + 1} : U \in A}
             f == [U \in A |-> U \cup {k + 1}]
  <1>1. IsFiniteSet(A) /\ Cardinality(A) = 2 ^ k
    <2>1. IsFiniteSet(1 .. k) /\ Cardinality(1 .. k) = k
      BY FS_Interval
    <2> QED BY <2>1, FS_SUBSET
  <1>2. IsFiniteSet(C) /\ Cardinality(C) = 2 ^ (k + 1)
    <2>1. IsFiniteSet(1 .. k + 1) /\ Cardinality(1 .. k + 1) = k + 1
      BY FS_Interval
    <2> QED BY <2>1, FS_SUBSET
  <1>3. C = A \cup D
    <2>1. ASSUME NEW U \in C PROVE U \in A \cup D
      <3>1. CASE k + 1 \in U
        <4>1. U \ {k + 1} \in A /\ U = (U \ {k + 1}) \cup {k + 1}
          BY <3>1
        <4> QED BY <4>1
      <3>2. CASE k + 1 \notin U
        BY <3>2
      <3> QED BY <3>1, <3>2
    <2>2. A \subseteq C /\ \A U \in A : U \cup {k + 1} \in C
      OBVIOUS
    <2>3. A \cup D \subseteq C
      <3> HIDE DEF A, C
      <3> QED BY <2>2
    <2> HIDE DEF A, C, D
    <2> QED BY <2>1, <2>3
  <1>4. A \cap D = {}
    OBVIOUS
  <1>5. IsFiniteSet(D) /\ Cardinality(D) = Cardinality(A)
    <2>1. f \in Injection(A, D)
      <3>1. f \in [A -> D]
        OBVIOUS
      <3>2. ASSUME NEW U \in A, NEW V \in A, f[U] = f[V] PROVE U = V
        <4>1. U \cup {k + 1} = V \cup {k + 1}
          BY <3>2
        <4>2. k + 1 \notin U /\ k + 1 \notin V
          OBVIOUS
        <4> QED BY <4>1, <4>2
      <3> HIDE DEF f, A, D
      <3>3. \A U, V \in A : f[U] = f[V] => U = V
        BY <3>2
      <3> QED BY <3>1, <3>3 DEF Injection, IsInjective
    <2>2. f \in Surjection(A, D)
      BY <2>1 DEF Injection, Surjection
    <2>3. ExistsBijection(A, D)
      BY <2>1, <2>2 DEF ExistsBijection, Bijection
    <2> HIDE DEF A, D, f
    <2> QED BY <1>1, <2>3, FS_Bijection
  <1> HIDE DEF A, C, D, f
  <1>6. Cardinality(A \cup D) = Cardinality(A) + Cardinality(D) - Cardinality(A \cap D)
    BY <1>1, <1>5, FS_Union
  <1>7. Cardinality(A \cap D) = 0
    BY <1>4, FS_EmptySet
  <1>8. Cardinality(A) \in Nat
    BY <1>1, FS_CardinalityType
  <1> QED BY <1>1, <1>2, <1>3, <1>5, <1>6, <1>7, <1>8

\* Powers of two ...
LEMMA Powers ==
  ASSUME NEW n \in Nat
  PROVE  2 ^ n \in Nat /\ n < 2 ^ n /\ 2 ^ (n + 1) = 2 ^ n + 2 ^ n
  <1>1. ASSUME NEW k \in Nat PROVE 2 ^ k \in Nat
    BY PowerStep
  <1>2. ASSUME NEW k \in Nat PROVE 2 ^ (k + 1) = 2 ^ k + 2 ^ k
    BY PowerStep
  <1>3. 2 ^ 0 = 1
    OBVIOUS
  <1> DEFINE small == {k \in Nat : 2 ^ k <= k}
  <1>4. small = {}
    <2> SUFFICES ASSUME small # {} PROVE FALSE
      OBVIOUS
    <2>1. PICK m \in small : \A k \in small : m <= k
      <3> HIDE DEF small
      <3>1. small \in SUBSET Nat
        BY DEF small
      <3> QED BY <3>1, Least
    <2>2. m # 0 /\ m \in Nat /\ 2 ^ m <= m
      <3>1. m \in Nat /\ 2 ^ m <= m
        BY <2>1
      <3>2. m = 0 => 2 ^ m = 1
        BY <1>3
      <3> QED BY <3>1, <3>2
    <2>3. m - 1 \in Nat /\ m - 1 \notin small
      BY <2>1, <2>2
    <2>4. PICK k \in Nat : k = m - 1 /\ k < 2 ^ k /\ 2 ^ k \in Nat
      BY <1>1, <2>3
    <2>5. 2 ^ (k + 1) = 2 ^ k + 2 ^ k /\ k + 1 = m
      BY <1>2, <2>4
    <2> QED BY <2>2, <2>4, <2>5
  <1>5. ~ (2 ^ n <= n)
    <2>1. n \notin small
      BY <1>4
    <2> QED BY <2>1
  <1> HIDE DEF small
  <1> QED BY <1>1, <1>2, <1>5

\* ... grow.
LEMMA PowersGrow ==
  ASSUME NEW m \in Nat, NEW n \in Nat, m < n
  PROVE  2 ^ m < 2 ^ n
  <1> DEFINE bad == {k \in Nat : m < k /\ 2 ^ k <= 2 ^ m}
  <1>a. 2 ^ m \in Nat /\ 2 ^ n \in Nat
    BY Powers
  <1>b. bad = {} => ~ (2 ^ n <= 2 ^ m)
    <2> SUFFICES ASSUME 2 ^ n <= 2 ^ m PROVE n \in bad
      OBVIOUS
    <2> QED OBVIOUS
  <1> SUFFICES ASSUME bad # {} PROVE FALSE
    BY <1>a, <1>b
  <1>1. PICK k \in bad : \A j \in bad : k <= j
    <2> HIDE DEF bad
    <2>1. bad \in SUBSET Nat
      BY DEF bad
    <2> QED BY <2>1, Least
  <1>2. PICK j \in Nat : j + 1 = k /\ j \notin bad
    <2>1. k - 1 \in Nat /\ k - 1 \notin bad /\ (k - 1) + 1 = k
      BY <1>1
    <2> QED BY <2>1
  <1>3. 2 ^ k = 2 ^ j + 2 ^ j /\ 2 ^ j \in Nat /\ 0 < 2 ^ j /\ 2 ^ m \in Nat
    BY <1>2, Powers
  <1>4. 2 ^ m <= 2 ^ j
    <2>1. CASE j = m
      BY <1>3, <2>1
    <2>2. CASE j # m
      BY <1>1, <1>2, <1>3, <2>2
    <2> QED BY <2>1, <2>2
  <1>5. 2 ^ k <= 2 ^ m
    BY <1>1
  <1> QED BY <1>3, <1>4, <1>5

\* The tile of a bound is as wide as the bound.
LEMMA WideEnough ==
  ASSUME NEW v \in Nat
  PROVE  /\ NextPowerOfTwo(v) \in Nat /\ 0 < NextPowerOfTwo(v) /\ v <= NextPowerOfTwo(v)
  <1> DEFINE powers == {2 ^ i : i \in 0 .. v}
             enough == {p \in powers : v <= p}
  <1>1. \A p \in powers : p \in Nat /\ 0 < p
    BY Powers
  <1>2. 2 ^ v \in powers /\ v <= 2 ^ v
    BY Powers
  <1> HIDE DEF powers
  <1>3. enough \in SUBSET Nat /\ enough # {}
    BY <1>1, <1>2
  <1>4. \E p \in powers : v <= p /\ \A q \in powers : v <= q => p <= q
    <2>1. \E p \in enough : \A q \in enough : p <= q
      <3> HIDE DEF enough
      <3> QED BY <1>3, Least
    <2> QED BY <2>1
  <1>5. NextPowerOfTwo(v) \in powers /\ v <= NextPowerOfTwo(v)
    <2>1. NextPowerOfTwo(v) = CHOOSE p \in powers : v <= p /\ \A q \in powers : v <= q => p <= q
      BY DEF NextPowerOfTwo, powers
    <2> QED BY <1>4, <2>1, Zenon
  <1> QED BY <1>1, <1>5

\* Among the degrees there is a largest.
LEMMA LargestDegree ==
  ASSUME degree \in [Rows -> Nat]
  PROVE  /\ MaxDegree \in Nat /\ \A r \in Rows : degree[r] <= MaxDegree
         /\ \E r \in Rows : degree[r] = MaxDegree
  <1> DEFINE above(r) == {q \in Rows : degree[q] > degree[r]}
             all == {above(r) : r \in Rows}
  <1>1. IsFiniteSet(Rows) /\ 0 \in Rows
    BY WorklistAssumption, FS_Interval DEF Rows
  <1>2. IsWellFoundedOn(StrictSubsetOrdering(Rows), FiniteSubsetsOf(Rows))
    BY FS_StrictSubsetOrderingWellFounded
  <1>3. all \subseteq FiniteSubsetsOf(Rows)
    <2>1. \A r \in Rows : above(r) \subseteq Rows
      OBVIOUS
    <2>2. \A r \in Rows : IsFiniteSet(above(r))
      <3> HIDE DEF above
      <3> QED BY <1>1, <2>1, FS_Subset
    <2>3. \A r \in Rows : above(r) \in FiniteSubsetsOf(Rows)
      <3> HIDE DEF above
      <3> QED BY <2>1, <2>2 DEF FiniteSubsetsOf
    <2> HIDE DEF above
    <2> QED BY <2>3
  <1>4. all # {}
    <2> HIDE DEF above
    <2>1. above(0) \in all
      BY <1>1
    <2> QED BY <2>1
  <1>5. PICK m \in all : \A y \in all : <<y, m>> \notin StrictSubsetOrdering(Rows)
    <2> HIDE DEF all
    <2> QED BY <1>2, <1>3, <1>4, WFMin
  <1>6. PICK r \in Rows : m = above(r)
    BY <1>5
  <1>7. \A q \in Rows : degree[q] <= degree[r]
    <2> SUFFICES ASSUME NEW q \in Rows, degree[q] > degree[r] PROVE FALSE
      OBVIOUS
    <2>1. \A e \in above(q) : e \in above(r)
      OBVIOUS
    <2>2. q \in above(r) /\ q \notin above(q)
      OBVIOUS
    <2>3. <<above(q), above(r)>> \in StrictSubsetOrdering(Rows)
      BY <2>1, <2>2 DEF StrictSubsetOrdering
    <2> QED BY <1>5, <1>6, <2>3
  <1> HIDE DEF above, all
  <1>8. \E d \in {degree[q] : q \in Rows} : \A q \in Rows : degree[q] <= d
    BY <1>7
  <1>9. MaxDegree \in {degree[q] : q \in Rows} /\ \A q \in Rows : degree[q] <= MaxDegree
    BY <1>8, Zenon DEF MaxDegree
  <1> QED BY <1>9

\* The bounds of a plan without a tail double, up to the largest degree.
LEMMA DoublingBounds ==
  ASSUME degree \in [Rows -> Nat]
  PROVE  /\ MakeUpperBounds \in Seq(Nat) /\ Len(MakeUpperBounds) > 0
         /\ \A i, j \in 1 .. Len(MakeUpperBounds) :
              i < j => MakeUpperBounds[i] < MakeUpperBounds[j]
         /\ MakeUpperBounds[Len(MakeUpperBounds)] = MaxDegree
  <1> DEFINE first  == Tile \div 8
             double == {i \in 0 .. MaxDegree : first * 2 ^ i < MaxDegree}
             upper(i) == first * 2 ^ i
  <1>1. MaxDegree \in Nat /\ first \in Nat /\ 0 < first
    BY LargestDegree, WorklistAssumption
  <1>2. \A i \in Nat : upper(i) \in Nat /\ i < upper(i)
    <2> SUFFICES ASSUME NEW i \in Nat PROVE upper(i) \in Nat /\ i < upper(i)
      OBVIOUS
    <2>1. 2 ^ i \in Nat /\ i < 2 ^ i
      BY Powers
    <2> HIDE DEF first
    <2>2. \A f, p \in Nat : 0 < f => f * p \in Nat /\ p <= f * p
      OBVIOUS
    <2>3. upper(i) \in Nat /\ 2 ^ i <= upper(i)
      BY <1>1, <2>1, <2>2
    <2> QED BY <2>1, <2>3
  <1>3. \A i, j \in Nat : i < j => upper(i) < upper(j)
    <2> SUFFICES ASSUME NEW i \in Nat, NEW j \in Nat, i < j PROVE upper(i) < upper(j)
      OBVIOUS
    <2>1. 2 ^ i \in Nat /\ 2 ^ j \in Nat /\ 2 ^ i < 2 ^ j
      BY Powers, PowersGrow
    <2> HIDE DEF first
    <2>2. \A f, p, q \in Nat : 0 < f /\ p < q => f * p < f * q
      OBVIOUS
    <2> QED BY <1>1, <2>1, <2>2
  <1>4. double = {i \in 0 .. MaxDegree : upper(i) < MaxDegree}
    OBVIOUS
  <1> HIDE DEF first, double, upper
  <1>5. PICK n \in 0 .. MaxDegree : MaxDegree <= upper(n) /\ \A i \in 0 .. n - 1 : upper(i) < MaxDegree
    <2> DEFINE S == {i \in 0 .. MaxDegree : MaxDegree <= upper(i)}
    <2>1. S \in SUBSET Nat /\ S # {}
      <3>1. upper(MaxDegree) \in Nat /\ MaxDegree < upper(MaxDegree)
        BY <1>1, <1>2
      <3> QED BY <1>1, <3>1
    <2>2. PICK n \in S : \A k \in S : n <= k
      <3> HIDE DEF S
      <3> QED BY <2>1, Least
    <2>3. \A i \in 0 .. n - 1 : upper(i) < MaxDegree
      BY <1>1, <1>2, <2>2
    <2> QED BY <2>2, <2>3
  <1>6. double = 0 .. n - 1
    <2>1. ASSUME NEW i \in 0 .. MaxDegree, n <= i PROVE ~ (upper(i) < MaxDegree)
      <3>1. upper(n) <= upper(i) /\ upper(n) \in Nat /\ upper(i) \in Nat
        <4>1. i \in Nat /\ n \in Nat /\ (i = n \/ n < i)
          BY <1>1, <2>1
        <4>2. upper(n) \in Nat /\ upper(i) \in Nat
          BY <1>2, <4>1
        <4> QED BY <1>3, <4>1, <4>2
      <3> QED BY <1>1, <1>5, <3>1
    <2>2. \A i \in 0 .. n - 1 : i \in 0 .. MaxDegree /\ upper(i) < MaxDegree
      BY <1>1, <1>5
    <2>3. \A i \in 0 .. MaxDegree : upper(i) < MaxDegree => i \in 0 .. n - 1
      BY <1>1, <1>5, <2>1
    <2>4. \A i \in 0 .. n - 1 : i \in double
      BY <1>4, <2>2
    <2>5. \A i \in double : i \in 0 .. n - 1
      BY <1>4, <2>3
    <2> QED BY <2>4, <2>5
  <1>7. Cardinality(double) = n
    BY <1>1, <1>6, FS_Interval
  <1>8. MakeUpperBounds = [i \in 1 .. n + 1 |-> IF i - 1 \in double THEN upper(i - 1) ELSE MaxDegree]
    <2>1. MakeUpperBounds = [i \in 1 .. Cardinality(double) + 1 |->
                               IF i - 1 \in double THEN first * 2 ^ (i - 1) ELSE MaxDegree]
      BY DEF MakeUpperBounds, double, first
    <2> QED BY <1>7, <2>1 DEF upper
  <1> DEFINE m == [i \in 1 .. n + 1 |-> IF i - 1 \in double THEN upper(i - 1) ELSE MaxDegree]
  <1>9. \A i \in 1 .. n + 1 : /\ m[i] \in Nat
                              /\ i <= n => m[i] = upper(i - 1) /\ m[i] < MaxDegree
                              /\ i = n + 1 => m[i] = MaxDegree
    <2> SUFFICES ASSUME NEW i \in 1 .. n + 1
                 PROVE  /\ m[i] \in Nat
                        /\ i <= n => m[i] = upper(i - 1) /\ m[i] < MaxDegree
                        /\ i = n + 1 => m[i] = MaxDegree
      OBVIOUS
    <2>1. n \in Nat /\ i - 1 \in Nat /\ (i - 1 \in double <=> i <= n)
      BY <1>1, <1>6
    <2>2. m[i] = IF i <= n THEN upper(i - 1) ELSE MaxDegree
      BY <2>1
    <2>3. upper(i - 1) \in Nat /\ (i <= n => upper(i - 1) < MaxDegree)
      BY <1>2, <1>5, <2>1
    <2> HIDE DEF m
    <2> QED BY <1>1, <2>1, <2>2, <2>3
  <1>10. n \in Nat /\ m \in Seq(Nat) /\ Len(m) = n + 1
    <2>1. n \in Nat /\ n + 1 \in Nat
      BY <1>1
    <2>2. m \in [1 .. n + 1 -> Nat]
      BY <1>9
    <2> QED BY <2>1, <2>2
  <1> HIDE DEF m
  <1>11. ASSUME NEW i \in 1 .. n + 1, NEW j \in 1 .. n + 1, i < j PROVE m[i] < m[j]
    <2>1. i <= n /\ i - 1 \in Nat /\ j - 1 \in Nat /\ i - 1 < j - 1 /\ m[i] = upper(i - 1) /\ m[i] < MaxDegree
      BY <1>9, <1>10, <1>11
    <2>2. CASE j <= n
      <3>1. m[j] = upper(j - 1)
        BY <1>9, <2>2
      <3> HIDE DEF upper
      <3>2. upper(i - 1) < upper(j - 1)
        BY <1>3, <2>1
      <3> QED BY <2>1, <3>1, <3>2
    <2>3. CASE j = n + 1
      BY <1>9, <2>1, <2>3
    <2> QED BY <1>10, <2>2, <2>3
  <1>12. MakeUpperBounds = m
    BY <1>8 DEF m
  <1>13. Len(m) > 0 /\ m[Len(m)] = MaxDegree
    BY <1>9, <1>10
  <1> QED BY <1>10, <1>11, <1>12, <1>13

\* A split tail has rows, which the histogram has counted, and two bounds.
PlannedTail ==
  split => exact /\ B = 2 /\ \E r \in Rows : Upper(0) < degree[r]

\* The bounds of a plan with a tail are the largest degree and a smaller one.
LEMMA TailIsPlanned ==
  ASSUME Init, split PROVE WellPlanned /\ PlannedTail
  <1>1. degree \in [Rows -> Nat] /\ TailSplit /\ bounds = <<ShortBound, MaxDegree>>
    BY WorklistAssumption DEF Init, Bounds
  <1>2. MaxDegree \in Nat /\ \A r \in Rows : degree[r] <= MaxDegree
    BY <1>1, LargestDegree
  <1>3. Tile \in Nat /\ Tile > 0 /\ MaxDegree > Tile \div 2
    BY <1>1, WorklistAssumption DEF TailSplit
  <1>4. Threshold \in Nat /\ Threshold < MaxDegree
    BY <1>2, <1>3 DEF Threshold
  <1>5. ShortBound \in Nat /\ ShortBound < MaxDegree
    <2> DEFINE serves == {c \in {Tile \div 8, Tile \div 4, Tile \div 2} :
                            2 * Cardinality(Between(-1, c)) >= N}
               least == CHOOSE c \in serves : \A e \in serves : c <= e
    <2>1. \A c \in serves : c \in Nat /\ c < MaxDegree
      BY <1>2, <1>3
    <2>2. serves # {} => \E c \in serves : \A e \in serves : c <= e
      <3>1. Tile \div 8 <= Tile \div 4 /\ Tile \div 4 <= Tile \div 2 /\ Tile \div 8 <= Tile \div 2
        BY <1>3
      <3>2. /\ Tile \div 8 \in Nat /\ Tile \div 4 \in Nat /\ Tile \div 2 \in Nat
        BY <1>3
      <3>3. ASSUME NEW x \in Nat, NEW y \in Nat, NEW z \in Nat, x <= y, y <= z,
                   NEW S, S \subseteq {x, y, z}, S # {}
            PROVE  \E c \in S : \A e \in S : c <= e
        <4>1. CASE x \in S
          BY <3>3, <4>1
        <4>2. CASE x \notin S /\ y \in S
          BY <3>3, <4>2
        <4>3. CASE x \notin S /\ y \notin S
          <5>1. \A e \in S : e = z
            BY <3>3, <4>3
          <5>2. PICK e : e \in S
            BY <3>3
          <5> QED BY <3>3, <5>1, <5>2
        <4> QED BY <4>1, <4>2, <4>3
      <3>4. serves \subseteq {Tile \div 8, Tile \div 4, Tile \div 2}
        OBVIOUS
      <3> HIDE DEF serves
      <3> QED BY <3>1, <3>2, <3>3, <3>4
    <2>3. ShortBound = IF MaxDegree > Tile /\ serves # {} THEN least ELSE Threshold
      BY DEF ShortBound
    <2>4. serves # {} => least \in serves
      <3> HIDE DEF serves
      <3> QED BY <2>2, Zenon
    <2> HIDE DEF serves, least
    <2> QED BY <1>4, <2>1, <2>3, <2>4
  <1> QED
    <2>1. B = 2 /\ bounds \in Seq(Nat)
      BY <1>1, <1>2, <1>5 DEF B
    <2>2. bounds[1] = ShortBound /\ bounds[2] = MaxDegree
      BY <1>1
    <2>3. \A i, j \in 1 .. B : i < j => i = 1 /\ j = 2
      BY <2>1
    <2>4. WellPlanned
      BY <1>2, <1>5, <2>1, <2>2, <2>3 DEF WellPlanned
    <2>5. exact /\ \E r \in Rows : Upper(0) < degree[r]
      BY <1>1, <1>5, <2>2, LargestDegree DEF TailSplit, Upper
    <2> QED BY <2>1, <2>4, <2>5 DEF PlannedTail

\* The plan of every launch is sound.
LEMMA PlanIsSound ==
  ASSUME Init PROVE WellPlanned /\ PlannedTail
  <1>1. CASE split
    BY <1>1, TailIsPlanned
  <1>2. CASE ~ split
    <2>1. degree \in [Rows -> Nat] /\ bounds = MakeUpperBounds
      BY <1>2, WorklistAssumption DEF Init, Bounds
    <2> QED BY <1>2, <2>1, DoublingBounds, LargestDegree DEF WellPlanned, B, PlannedTail
  <1> QED BY <1>1, <1>2

\* The tiles of the buckets.
LEMMA Tiles ==
  ASSUME WellPlanned, NEW b \in Buckets
  PROVE  /\ Upper(b) \in Nat /\ Upper(b) <= BlockD(b)
         /\ BlockM(b) \in Nat \ {0} /\ (Chunked(b) => BlockM(b) = 1)
  <1>1. Upper(b) \in Nat
    BY DEF WellPlanned, Buckets, Upper, B
  <1>2. BlockD(b) \in Nat \ {0} /\ Upper(b) <= BlockD(b)
    BY <1>1, WideEnough DEF BlockD
  <1>3. PICK rows \in Nat : rows = Lanes \div BlockD(b)
    BY <1>2, WorklistAssumption, Quotient
  <1>4. BlockM(b) = IF Chunked(b) \/ rows < 1 THEN 1 ELSE IF rows > MaxBlock THEN MaxBlock ELSE rows
    BY <1>3 DEF BlockM
  <1> QED BY <1>1, <1>2, <1>4, WorklistAssumption

-----------------------------------------------------------------------------
(* The kernels of the buckets.                                             *)

Scattered == stage = "execute" \/ (stage = "scatter" /\ todo = {})

\* The bucket a row belongs to, and its position there.
Home(r) == BucketOf(degree[r])
Spot(r) == taken[r] - First(Home(r))
At(r)   == IF DirectFilter(Home(r)) THEN r ELSE Spot(r)

\* A row is stored from its position in its bucket or, by the bucket that looks
\* at all rows, from its index.
Sound ==
  \A r \in Rows : \A s \in stores[r] :
    /\ stage = "execute"
    /\ \/ s = <<Home(r), Spot(r)>> /\ ~ DirectFilter(Home(r))
       \/ s = <<0, r>> /\ DirectFilter(0) /\ degree[r] <= BlockD(0)

\* It has been stored or its program is still to run.
Awaited ==
  stage = "execute" =>
    \A r \in Rows : \/ <<Home(r), At(r)>> \in stores[r]
                    \/ <<Home(r), At(r) \div BlockM(Home(r))>> \in todo

SInv == WellPlanned /\ PlannedTail /\ IInv /\ Sound /\ Awaited

\* What the scatter leaves in the segment of a bucket.
LEMMA SegmentHolds ==
  ASSUME WellPlanned, IInv, Scattered, NEW b \in Buckets
  PROVE  /\ Of(b) = Between(Lower(b), Upper(b))
         /\ Start(b) = First(b) /\ First(b) \in Nat
         /\ Size(b) = Cardinality(Of(b)) /\ Size(b) \in Nat /\ Size(b) <= N
         /\ {taken[r] : r \in Of(b)} = First(b) .. (First(b) + Size(b) - 1)
         /\ \A r \in Rows : memory[Slot(taken[r])] = r
  <1>1. degree \in [Rows -> Nat] /\ Placed /\ stage \in {"scatter", "execute"}
    BY DEF IInv, TypeOK, Scattered
  <1>2. B \in Nat /\ b \in 0 .. B /\ b + 1 \in 0 .. B
    BY <1>1, Segments DEF Buckets
  <1>3. Of(b) = Between(Lower(b), Upper(b))
    <2>1. \A r \in Rows : degree[r] \in Nat /\ degree[r] <= bounds[B]
      BY <1>1 DEF WellPlanned
    <2>2. \A r \in Rows : BucketOf(degree[r]) = b <=> Lower(b) < degree[r] /\ degree[r] <= Upper(b)
      BY <2>1, BucketIsInterval
    <2> QED BY <2>2 DEF Of, Between
  <1>4. memory[b] = First(b) /\ memory[b + 1] = First(b + 1)
    BY <1>1, <1>2 DEF Placed
  <1>5. /\ First(b + 1) = First(b) + Cardinality(Of(b)) /\ First(b + 1) <= N
        /\ First(b) \in Nat /\ Cardinality(Of(b)) \in Nat
    BY <1>1, <1>2, Segments
  <1>6. Start(b) = First(b) /\ Size(b) = Cardinality(Of(b))
    BY <1>4, <1>5 DEF Start, Size
  <1>7. \A r \in Rows : taken[r] # -1 /\ memory[Slot(taken[r])] = r
    BY <1>1 DEF Placed, Scattered
  <1>8. Taken(b) = Of(b)
    BY <1>7 DEF Taken, Of
  <1>9. {taken[r] : r \in Of(b)} = First(b) .. (First(b) + Size(b) - 1)
    BY <1>1, <1>6, <1>8 DEF Placed
  <1>10. Size(b) <= N
    BY <1>5, <1>6, WorklistAssumption
  <1> QED BY <1>3, <1>5, <1>6, <1>7, <1>9, <1>10

\* A row is found at one position of one segment.
LEMMA FoundOnce ==
  ASSUME WellPlanned, IInv, Scattered, NEW r \in Rows
  PROVE  /\ Home(r) \in Buckets /\ degree[r] <= Upper(Home(r))
         /\ Spot(r) \in 0 .. Size(Home(r)) - 1 /\ RowAt(Home(r), Spot(r)) = r
         /\ \A b \in Buckets : \A k \in 0 .. Size(b) - 1 :
              RowAt(b, k) = r => b = Home(r) /\ k = Spot(r)
  <1>1. degree \in [Rows -> Nat] /\ taken \in [Rows -> Int]
    BY DEF IInv, TypeOK
  <1>2. Home(r) \in Buckets /\ r \in Of(Home(r))
    BY <1>1, Segments DEF Home, Of
  <1>3. degree[r] <= Upper(Home(r))
    BY <1>2, SegmentHolds DEF Between
  <1>4. /\ Start(Home(r)) = First(Home(r)) /\ First(Home(r)) \in Nat /\ Size(Home(r)) \in Nat
        /\ taken[r] \in First(Home(r)) .. (First(Home(r)) + Size(Home(r)) - 1)
        /\ memory[Slot(taken[r])] = r
    BY <1>2, SegmentHolds
  <1>5. Spot(r) \in 0 .. Size(Home(r)) - 1 /\ First(Home(r)) + Spot(r) = taken[r]
    BY <1>1, <1>4 DEF Spot
  <1>6. RowAt(Home(r), Spot(r)) = r
    BY <1>4, <1>5 DEF RowAt
  <1>7. ASSUME NEW b \in Buckets, NEW k \in 0 .. Size(b) - 1, RowAt(b, k) = r
        PROVE  b = Home(r) /\ k = Spot(r)
    <2>1. /\ Start(b) = First(b) /\ First(b) \in Nat /\ Size(b) \in Nat
          /\ {taken[q] : q \in Of(b)} = First(b) .. (First(b) + Size(b) - 1)
          /\ \A q \in Rows : memory[Slot(taken[q])] = q
      BY SegmentHolds
    <2>2. First(b) + k \in First(b) .. (First(b) + Size(b) - 1)
      BY <2>1
    <2>3. PICK q \in Of(b) : taken[q] = First(b) + k
      BY <2>1, <2>2
    <2>4. q \in Rows /\ Home(q) = b
      BY <2>3 DEF Of, Home
    <2>5. q = r
      BY <1>7, <2>1, <2>3, <2>4 DEF RowAt
    <2> QED BY <2>1, <2>3, <2>4, <2>5 DEF Spot
  <1> QED BY <1>2, <1>3, <1>5, <1>6, <1>7

\* A row's program is in the grid, and looks at its position.
LEMMA GridReaches ==
  ASSUME WellPlanned, PlannedTail, IInv, Scattered, NEW r \in Rows
  PROVE  /\ At(r) \in Nat
         /\ At(r) \div BlockM(Home(r)) \in 0 .. Grid(Home(r)) - 1
         /\ At(r) \in Positions(Home(r), At(r) \div BlockM(Home(r)))
         /\ Masked(Home(r), At(r)) /\ RowOf(Home(r), At(r)) = r
  <1> DEFINE b    == Home(r)
             k    == At(r)
             m    == BlockM(b)
             rows == IF DirectFilter(b) THEN N ELSE RowsInBucket(b)
  <1>1. /\ b \in Buckets /\ degree[r] <= Upper(b) /\ Spot(r) \in 0 .. Size(b) - 1
        /\ RowAt(b, Spot(r)) = r
    BY FoundOnce
  <1>2. /\ Size(b) \in Nat /\ Size(b) <= N /\ Size(b) = Cardinality(Between(Lower(b), Upper(b)))
    BY <1>1, SegmentHolds
  <1>3. /\ Upper(b) \in Nat /\ Upper(b) <= BlockD(b) /\ m \in Nat \ {0} /\ degree[r] \in Nat
        /\ BlockD(b) \in Nat
    <2>1. degree[r] \in Nat
      BY DEF IInv, TypeOK
    <2> QED BY <1>1, <2>1, Tiles, WideEnough DEF BlockD
  <1>4. rows \in Nat /\ k \in Nat /\ k < rows
    <2>1. CASE DirectFilter(b)
      BY <2>1, WorklistAssumption DEF At, Rows
    <2>2. CASE ~ DirectFilter(b)
      <3>1. rows = IF exact THEN Size(b) ELSE N
        BY <1>2, <2>2 DEF RowsInBucket
      <3> QED BY <1>1, <1>2, <2>2, <3>1, WorklistAssumption DEF At
    <2> QED BY <2>1, <2>2
  <1>5. Masked(b, k) /\ RowOf(b, k) = r
    <2>1. CASE DirectFilter(b)
      BY <1>3, <1>1, <2>1, WorklistAssumption DEF At, Masked, RowOf, Rows
    <2>2. CASE ~ DirectFilter(b)
      BY <1>1, <1>2, <2>2 DEF At, Masked, RowOf
    <2> QED BY <2>1, <2>2
  <1>6. Grid(b) = IF (rows + m - 1) \div m < 1 THEN 1 ELSE (rows + m - 1) \div m
    BY DEF Grid
  <1> HIDE DEF b, k, m, rows
  <1>7. /\ k \div m \in Nat /\ m * (k \div m) <= k /\ k < m * (k \div m) + m
    BY <1>3, <1>4, Quotient
  <1> DEFINE q == k \div m
             blocks == (rows + m - 1) \div m
  <1>8. q \in Nat /\ m * q <= k /\ k < m * q + m
    BY <1>7
  <1>9. rows + m - 1 \in Nat /\ blocks \in Nat /\ rows + m - 1 < m * blocks + m
    <2>1. rows + m - 1 \in Nat
      BY <1>3, <1>4
    <2> QED BY <1>3, <2>1, Quotient
  <1> HIDE DEF q, blocks
  <1>10. q < blocks
    <2> SUFFICES ASSUME blocks <= q PROVE FALSE
      BY <1>8, <1>9
    <2>1. blocks * m <= q * m
      BY <1>3, <1>8, <1>9, MonotoneProduct
    <2>2. blocks * m = m * blocks /\ q * m = m * q /\ m * blocks \in Nat /\ m * q \in Nat
      BY <1>3, <1>8, <1>9
    <2> QED BY <1>3, <1>4, <1>8, <1>9, <2>1, <2>2
  <1>11. q \in 0 .. Grid(b) - 1
    BY <1>6, <1>8, <1>9, <1>10 DEF blocks
  <1>12. k \in q * m .. (q + 1) * m - 1
    <2>1. q * m = m * q /\ (q + 1) * m = m * q + m /\ m * q \in Nat
      BY <1>3, <1>8
    <2> QED BY <1>3, <1>4, <1>8, <2>1
  <1> QED BY <1>4, <1>5, <1>11, <1>12 DEF q, b, k, m, Positions

\* A program that finds its rows in the worklist stays within its segment, also
\* where it has no mask.
LEMMA GridStays ==
  ASSUME WellPlanned, PlannedTail, IInv, Scattered, NEW b \in Buckets, ~ DirectFilter(b),
         NEW p \in 0 .. Grid(b) - 1, NEW k \in Positions(b, p), Masked(b, k)
  PROVE  k \in 0 .. Size(b) - 1
  <1>1. BlockM(b) \in Nat \ {0} /\ (Chunked(b) => BlockM(b) = 1)
    BY Tiles
  <1>2. Size(b) \in Nat /\ Size(b) = Cardinality(Of(b)) /\ Of(b) = Between(Lower(b), Upper(b))
    BY SegmentHolds
  <1>3. p \in Nat /\ Grid(b) \in Int /\ p < Grid(b)
    <2>1. p \in Int /\ 0 <= p /\ p <= Grid(b) - 1
      OBVIOUS
    <2>2. Grid(b) \in Int
      <3> DEFINE rows == IF DirectFilter(b) THEN N ELSE RowsInBucket(b)
      <3>1. rows \in Nat
        BY <1>2, WorklistAssumption DEF RowsInBucket
      <3>2. Grid(b) = IF (rows + BlockM(b) - 1) \div BlockM(b) < 1 THEN 1
                      ELSE (rows + BlockM(b) - 1) \div BlockM(b)
        BY DEF Grid
      <3> HIDE DEF rows
      <3>3. rows + BlockM(b) - 1 \in Nat
        BY <1>1, <3>1
      <3>4. (rows + BlockM(b) - 1) \div BlockM(b) \in Nat
        BY <1>1, <3>3, Quotient
      <3> QED BY <3>2, <3>4
    <2> QED BY <2>1, <2>2
  <1>4. k \in Int /\ 0 <= k
    <2>1. k \in p * BlockM(b) .. (p + 1) * BlockM(b) - 1
      BY DEF Positions
    <2>2. p * BlockM(b) \in Nat /\ (p + 1) * BlockM(b) \in Nat
      BY <1>1, <1>3
    <2> QED BY <2>1, <2>2
  <1>5. CASE Chunked(b)
    <2>1. split /\ b = 1 /\ exact /\ B = 2 /\ BlockM(b) = 1
      BY <1>1, <1>5 DEF Chunked, PlannedTail
    <2>2. PICK r \in Rows : Upper(0) < degree[r]
      BY <2>1 DEF PlannedTail
    <2>3. r \in Of(b)
      <3>1. degree[r] \in Nat /\ degree[r] <= bounds[B] /\ bounds[1] \in Nat
        BY <2>1 DEF WellPlanned, IInv, TypeOK
      <3>2. Lower(b) < degree[r] /\ degree[r] <= Upper(b)
        BY <2>1, <2>2, <3>1 DEF Lower, Upper
      <3> QED BY <1>2, <3>2 DEF Between
    <2>4. Size(b) # 0
      <3>1. IsFiniteSet(Of(b))
        BY Segments DEF IInv, TypeOK
      <3> QED BY <1>2, <2>3, <3>1, FS_EmptySet
    <2>5. Grid(b) = Size(b)
      <3>1. RowsInBucket(b) = Size(b)
        BY <1>2, <2>1 DEF RowsInBucket
      <3>2. (Size(b) + 1 - 1) \div 1 = Size(b)
        BY <1>2
      <3> QED BY <1>2, <2>1, <2>4, <3>1, <3>2 DEF Grid
    <2>6. k = p
      BY <1>3, <2>1 DEF Positions
    <2> QED BY <1>3, <2>5, <2>6
  <1>6. CASE ~ Chunked(b)
    BY <1>2, <1>4, <1>6 DEF Masked
  <1> QED BY <1>5, <1>6

\* The launch and what it computes with stay while the buckets run.
LEMMA LaunchStays ==
  ASSUME UNCHANGED graph
  PROVE  /\ PlannedTail' <=> PlannedTail
         /\ \A b : /\ DirectFilter(b)' = DirectFilter(b) /\ BlockD(b)' = BlockD(b)
                   /\ BlockM(b)' = BlockM(b) /\ Grid(b)' = Grid(b)
         /\ \A r : /\ Home(r)' = Home(r)
                   /\ taken' = taken => Spot(r)' = Spot(r) /\ At(r)' = At(r)
  <1>1. UNCHANGED <<degree, exact, bounds, split>>
    BY DEF graph
  <1>2. B' = B /\ \A r : Home(r)' = Home(r) /\ First(Home(r))' = First(Home(r))
    BY <1>1, PlanStays DEF Home
  <1>3. \A b : Upper(b)' = Upper(b) /\ Lower(b)' = Lower(b)
    BY <1>1 DEF Upper, Lower
  <1>4. PlannedTail' <=> PlannedTail
    BY <1>1, <1>2, <1>3 DEF PlannedTail
  <1>5. \A b : /\ DirectFilter(b)' = DirectFilter(b) /\ BlockD(b)' = BlockD(b)
               /\ Chunked(b)' = Chunked(b)
    BY <1>1, <1>3 DEF DirectFilter, BlockD, Chunked
  <1>6. \A b : BlockM(b)' = BlockM(b)
    BY <1>5 DEF BlockM
  <1>7. \A b : RowsInBucket(b)' = RowsInBucket(b)
    BY <1>1, <1>3 DEF RowsInBucket, Between
  <1>8. \A b : Grid(b)' = Grid(b)
    BY <1>5, <1>6, <1>7 DEF Grid
  <1>9. \A r : taken' = taken => Spot(r)' = Spot(r) /\ At(r)' = At(r)
    BY <1>2, <1>5 DEF Spot, At
  <1> QED BY <1>2, <1>4, <1>5, <1>6, <1>8, <1>9

\* Every row's program is launched.
LEMMA LaunchKeeps ==
  ASSUME SInv, Launch PROVE Sound' /\ Awaited'
  <1>1. /\ Scattered /\ stage = "scatter" /\ UNCHANGED graph /\ taken' = taken /\ stores' = stores
        /\ todo' = UNION {{<<b, p>> : p \in 0 .. Grid(b) - 1} : b \in Buckets}
    BY DEF Launch, Scattered
  <1>2. \A r \in Rows : stores[r] = {}
    BY <1>1 DEF SInv, Sound
  <1>3. ASSUME NEW r \in Rows PROVE <<Home(r), At(r) \div BlockM(Home(r))>> \in todo'
    <2>1. At(r) \div BlockM(Home(r)) \in 0 .. Grid(Home(r)) - 1 /\ Home(r) \in Buckets
      BY <1>1, GridReaches, FoundOnce DEF SInv
    <2> QED BY <1>1, <2>1
  <1>4. \A r \in Rows : Home(r)' = Home(r) /\ At(r)' = At(r) /\ BlockM(Home(r))' = BlockM(Home(r))
    BY <1>1, LaunchStays
  <1> QED BY <1>1, <1>2, <1>3, <1>4 DEF Sound, Awaited

\* A program stores the rows that are its own, or short enough.
LEMMA RunKeeps ==
  ASSUME SInv, NEW b \in Buckets, NEW p \in 0 .. Grid(b) - 1, Run(b, p)
  PROVE  Sound' /\ Awaited'
  <1> DEFINE new(r) == {<<b, k>> : k \in {j \in Positions(b, p) : Masked(b, j) /\ RowOf(b, j) = r}}
  <1>1. /\ Scattered /\ stage = "execute" /\ stage' = stage /\ UNCHANGED graph /\ taken' = taken
        /\ todo' = todo \ {<<b, p>>}
        /\ \A r \in Rows : stores'[r] = stores[r] \cup new(r)
    BY DEF Run, Scattered
  <1>2. WellPlanned /\ PlannedTail /\ IInv
    BY DEF SInv
  <1>3. /\ \A r \in Rows : Home(r)' = Home(r) /\ Spot(r)' = Spot(r) /\ At(r)' = At(r)
        /\ \A c : /\ DirectFilter(c)' = DirectFilter(c) /\ BlockD(c)' = BlockD(c)
                  /\ BlockM(c)' = BlockM(c)
    BY <1>1, LaunchStays
  <1>4. ASSUME NEW r \in Rows, NEW s \in new(r)
        PROVE  \/ s = <<Home(r), Spot(r)>> /\ ~ DirectFilter(Home(r))
               \/ s = <<0, r>> /\ DirectFilter(0) /\ degree[r] <= BlockD(0)
    <2>1. PICK k \in Positions(b, p) : s = <<b, k>> /\ Masked(b, k) /\ RowOf(b, k) = r
      BY <1>4
    <2>2. CASE DirectFilter(b)
      BY <2>1, <2>2 DEF Masked, RowOf, DirectFilter
    <2>3. CASE ~ DirectFilter(b)
      <3>1. k \in 0 .. Size(b) - 1 /\ RowAt(b, k) = r
        BY <1>1, <1>2, <2>1, <2>3, GridStays DEF RowOf
      <3>2. b = Home(r) /\ k = Spot(r)
        BY <1>1, <1>2, <3>1, FoundOnce
      <3> QED BY <2>1, <2>3, <3>2
    <2> QED BY <2>2, <2>3
  <1>5. ASSUME NEW r \in Rows
        PROVE  \/ <<Home(r), At(r)>> \in stores'[r]
               \/ <<Home(r), At(r) \div BlockM(Home(r))>> \in todo'
    <2>1. CASE <<Home(r), At(r) \div BlockM(Home(r))>> = <<b, p>>
      <3>1. b = Home(r) /\ p = At(r) \div BlockM(Home(r))
        BY <2>1
      <3>2. At(r) \in Positions(b, p) /\ Masked(b, At(r)) /\ RowOf(b, At(r)) = r
        BY <1>1, <1>2, <3>1, GridReaches
      <3>3. <<b, At(r)>> \in new(r)
        BY <3>2
      <3> QED BY <1>1, <3>1, <3>3
    <2>2. CASE <<Home(r), At(r) \div BlockM(Home(r))>> # <<b, p>>
      BY <1>1, <2>2 DEF SInv, Awaited
    <2> QED BY <2>1, <2>2
  <1> HIDE DEF new
  <1>6. Sound'
    <2> SUFFICES ASSUME NEW r \in Rows, NEW s \in stores'[r]
                 PROVE  /\ stage' = "execute"
                        /\ \/ s = <<Home(r), Spot(r)>>' /\ ~ DirectFilter(Home(r))'
                           \/ s = <<0, r>> /\ DirectFilter(0)' /\ degree'[r] <= BlockD(0)'
      BY DEF Sound
    <2>1. degree' = degree
      BY <1>1 DEF graph
    <2>2. \/ s = <<Home(r), Spot(r)>> /\ ~ DirectFilter(Home(r))
          \/ s = <<0, r>> /\ DirectFilter(0) /\ degree[r] <= BlockD(0)
      <3>1. CASE s \in stores[r]
        BY <3>1 DEF SInv, Sound
      <3>2. CASE s \in new(r)
        BY <3>2, <1>4
      <3> QED BY <1>1, <3>1, <3>2
    <2>3. Home(r)' = Home(r) /\ Spot(r)' = Spot(r)
      BY <1>3
    <2>4. DirectFilter(Home(r))' = DirectFilter(Home(r))
      BY <1>3, <2>3
    <2> QED BY <1>1, <1>3, <2>1, <2>2, <2>3, <2>4
  <1>7. Awaited'
    BY <1>1, <1>3, <1>5 DEF Awaited
  <1> QED BY <1>6, <1>7

\* Before the buckets run, nothing is stored.
LEMMA BuildKeeps ==
  ASSUME SInv, stores' = stores, stage # "execute", stage' # "execute"
  PROVE  Sound' /\ Awaited'
  <1>1. \A r \in Rows : stores[r] = {}
    BY DEF SInv, Sound
  <1> QED BY <1>1 DEF Sound, Awaited

-----------------------------------------------------------------------------
(* The theorems.                                                           *)

\* SInv is inductive.
LEMMA Invariance == Spec => []SInv
  <1>1. Init => SInv
    BY PlanIsSound, Initially DEF Init, SInv, Sound, Awaited
  <1>2. SInv /\ [Next]_vars => SInv'
    <2> SUFFICES ASSUME SInv, [Next]_vars PROVE SInv'
      OBVIOUS
    <2>1. UNCHANGED graph /\ WellPlanned /\ IInv
      BY GraphStays DEF SInv
    <2>2. WellPlanned' /\ PlannedTail'
      BY <2>1, PlanStays, LaunchStays DEF SInv
    <2>3. CASE UNCHANGED vars
      <3>1. UNCHANGED <<stage, memory, todo, loop, taken, stores>>
        BY <2>3 DEF vars
      <3>2. \A b : Taken(b)' = Taken(b)
        BY <2>1, <3>1, PlanStays DEF Taken
      <3>3. TypeOK'
        BY <2>1, <3>1, PlanStays DEF IInv, TypeOK, graph
      <3>4. Untouched' /\ Counted' /\ Summed'
        BY <2>1, <3>1, PlanStays DEF IInv, Untouched, Counted, Summed
      <3>5. Placed'
        BY <2>1, <3>1, <3>2, PlanStays DEF IInv, Placed
      <3>6. \A r \in Rows : Home(r)' = Home(r) /\ Spot(r)' = Spot(r) /\ At(r)' = At(r)
        BY <2>1, <3>1, LaunchStays
      <3>7. \A c : /\ DirectFilter(c)' = DirectFilter(c) /\ BlockD(c)' = BlockD(c)
                   /\ BlockM(c)' = BlockM(c)
        BY <2>1, LaunchStays
      <3>8. degree' = degree
        BY <2>1 DEF graph
      <3>9. Sound'
        BY <3>1, <3>6, <3>7, <3>8 DEF SInv, Sound
      <3>10. Awaited'
        BY <3>1, <3>6, <3>7 DEF SInv, Awaited
      <3> QED BY <2>2, <3>3, <3>4, <3>5, <3>9, <3>10 DEF IInv, SInv
    <2>4. CASE Reset
      BY <2>1, <2>2, <2>4, ResetKeeps, BuildKeeps DEF Reset, SInv
    <2>5. CASE Prefix
      BY <2>1, <2>2, <2>5, PrefixKeeps, BuildKeeps DEF Prefix, SInv
    <2>6. CASE PrefixStep
      BY <2>1, <2>2, <2>6, PrefixStepKeeps, BuildKeeps DEF PrefixStep, SInv
    <2>7. CASE PrefixEnds
      BY <2>1, <2>2, <2>7, PrefixEndsKeeps, BuildKeeps DEF PrefixEnds, SInv
    <2>8. CASE Launch
      BY <2>1, <2>2, <2>8, ExecuteKeeps, LaunchKeeps DEF SInv
    <2>9. ASSUME NEW b \in Buckets, NEW p \in 0 .. Grid(b) - 1, Run(b, p) PROVE SInv'
      BY <2>1, <2>2, <2>9, ExecuteKeeps, RunKeeps DEF SInv
    <2>10. ASSUME NEW r \in Rows, Histogram(r) \/ Take(r) \/ Put(r) PROVE SInv'
      <3>1. IInv'
        BY <2>1, <2>10, HistogramKeeps, TakeKeeps, PutKeeps
      <3>2. stores' = stores /\ stage # "execute" /\ stage' # "execute"
        BY <2>10 DEF Histogram, Take, Put
      <3> QED BY <2>2, <3>1, <3>2, BuildKeeps DEF SInv
    <2> QED BY <2>3, <2>4, <2>5, <2>6, <2>7, <2>8, <2>9, <2>10 DEF Next, Build
  <1> QED BY <1>1, <1>2, PTL DEF Spec

\* The kernels stay inside the worklist: a position the scatter takes is a slot
\* for rows, and a program of a bucket reads rows of this bucket only, although
\* the program of a long row has no mask.
THEOREM KernelsStayInside == Spec => []WithinWorklist
  <1>1. SInv => WithinWorklist
    <2> SUFFICES ASSUME SInv PROVE WithinWorklist
      OBVIOUS
    <2>1. /\ WellPlanned /\ PlannedTail /\ IInv /\ Placed /\ TypeOK
          /\ degree \in [Rows -> Nat] /\ Untouched
      BY DEF SInv, IInv, TypeOK
    <2>2. ASSUME NEW r \in Rows PROVE taken[r] = -1 \/ taken[r] \in 0 .. N - 1
      <3>1. CASE stage \in {"scatter", "execute"}
        BY <2>1, <3>1, InSegment
      <3>2. CASE stage \notin {"scatter", "execute"}
        BY <2>1, <3>2 DEF Untouched
      <3> QED BY <3>1, <3>2
    <2>3. ASSUME stage = "execute", NEW b \in Buckets, ~ DirectFilter(b),
                 NEW p \in 0 .. Grid(b) - 1, NEW k \in Positions(b, p), Masked(b, k)
          PROVE  /\ k \in 0 .. Size(b) - 1
                 /\ Slot(Start(b) + k) \in Addresses
                 /\ RowAt(b, k) \in Between(Lower(b), Upper(b))
      <3>1. Scattered
        BY <2>3 DEF Scattered
      <3>2. k \in 0 .. Size(b) - 1
        BY <2>1, <2>3, <3>1, GridStays
      <3>3. /\ Of(b) = Between(Lower(b), Upper(b)) /\ Start(b) = First(b) /\ First(b) \in Nat
            /\ Size(b) \in Nat /\ {taken[r] : r \in Of(b)} = First(b) .. (First(b) + Size(b) - 1)
            /\ \A r \in Rows : memory[Slot(taken[r])] = r
        BY <2>1, <3>1, SegmentHolds
      <3>4. First(b) + k \in First(b) .. (First(b) + Size(b) - 1) /\ First(b) + k \in Nat
        BY <3>2, <3>3
      <3>5. PICK r \in Of(b) : taken[r] = First(b) + k
        BY <3>3, <3>4
      <3>6. r \in Rows
        BY <3>5 DEF Of
      <3>7. RowAt(b, k) = r
        BY <3>3, <3>5, <3>6 DEF RowAt
      <3>8. taken[r] \in 0 .. N - 1
        <4>1. taken[r] # -1
          BY <3>4, <3>5
        <4> QED BY <2>2, <3>6, <4>1
      <3>9. Slot(Start(b) + k) \in Addresses
        <4>1. B \in Nat /\ N \in Nat
          BY <2>1, Segments, WorklistAssumption
        <4> QED BY <3>3, <3>5, <3>8, <4>1 DEF Slot, Addresses
      <3> QED BY <3>2, <3>3, <3>5, <3>7, <3>9
    <2> QED BY <2>2, <2>3 DEF WithinWorklist
  <1> QED BY <1>1, Invariance, PTL

\* When the scatter has ended, the segment of a bucket in the worklist holds the
\* rows of its interval of degrees, each once.
THEOREM SortedByScatter == Spec => []WorklistSorted
  <1>1. SInv => WorklistSorted
    <2> SUFFICES ASSUME WellPlanned, IInv, stage = "execute"
                 PROVE  /\ Start(0) = 0
                        /\ \A b \in Buckets :
                             /\ Size(b) = Cardinality(Between(Lower(b), Upper(b)))
                             /\ {RowAt(b, k) : k \in 0 .. Size(b) - 1} = Between(Lower(b), Upper(b))
      BY DEF SInv, WorklistSorted
    <2>1. Scattered
      BY DEF Scattered
    <2>2. First(0) = 0 /\ 0 \in Buckets
      BY Segments DEF IInv, TypeOK, Buckets
    <2>3. Start(0) = 0
      BY <2>1, <2>2, SegmentHolds
    <2>4. ASSUME NEW b \in Buckets
          PROVE  /\ Size(b) = Cardinality(Between(Lower(b), Upper(b)))
                 /\ {RowAt(b, k) : k \in 0 .. Size(b) - 1} = Between(Lower(b), Upper(b))
      <3>1. /\ Of(b) = Between(Lower(b), Upper(b)) /\ Size(b) = Cardinality(Of(b))
            /\ Start(b) = First(b) /\ First(b) \in Nat /\ Size(b) \in Nat
            /\ {taken[r] : r \in Of(b)} = First(b) .. (First(b) + Size(b) - 1)
            /\ \A r \in Rows : memory[Slot(taken[r])] = r
        BY <2>1, SegmentHolds
      <3>2. Of(b) \subseteq Rows
        BY DEF Of
      <3>3. ASSUME NEW k \in 0 .. Size(b) - 1 PROVE RowAt(b, k) \in Of(b)
        <4>1. First(b) + k \in First(b) .. (First(b) + Size(b) - 1)
          BY <3>1
        <4>2. PICK r \in Of(b) : taken[r] = First(b) + k
          BY <3>1, <4>1
        <4> QED BY <3>1, <3>2, <4>2 DEF RowAt
      <3>4. ASSUME NEW r \in Of(b) PROVE \E k \in 0 .. Size(b) - 1 : RowAt(b, k) = r
        <4>1. r \in Rows /\ Home(r) = b
          BY DEF Of, Home
        <4> QED BY <2>1, <4>1, FoundOnce
      <3>5. {RowAt(b, k) : k \in 0 .. Size(b) - 1} = Of(b)
        BY <3>3, <3>4
      <3> QED BY <3>1, <3>5
    <2> QED BY <2>3, <2>4
  <1> QED BY <1>1, Invariance, PTL

\* Every row is computed with all its edges, by a tile that is wide enough, and
\* when the launch has ended no row is left out.
THEOREM RowsAlwaysComplete == Spec => []RowsComplete
  <1>1. SInv => RowsComplete
    <2> SUFFICES ASSUME SInv PROVE RowsComplete
      OBVIOUS
    <2>1. WellPlanned /\ IInv /\ Sound /\ Awaited
      BY DEF SInv
    <2>2. ASSUME NEW r \in Rows, NEW s \in stores[r] PROVE degree[r] <= BlockD(s[1])
      <3>1. Scattered
        BY <2>1, <2>2 DEF Sound, Scattered
      <3>2. Home(r) \in Buckets /\ degree[r] <= Upper(Home(r)) /\ degree[r] \in Nat
        BY <2>1, <3>1, FoundOnce DEF IInv, TypeOK
      <3>3. /\ Upper(Home(r)) \in Nat /\ Upper(Home(r)) <= BlockD(Home(r))
            /\ BlockD(Home(r)) \in Nat
        BY <2>1, <3>2, Tiles, WideEnough DEF BlockD
      <3>4. degree[r] <= BlockD(Home(r))
        BY <3>2, <3>3
      <3> QED BY <2>1, <2>2, <3>4 DEF Sound
    <2>3. stage = "execute" /\ todo = {} => \A r \in Rows : stores[r] # {}
      BY <2>1 DEF Awaited
    <2> QED BY <2>2, <2>3 DEF RowsComplete
  <1> QED BY <1>1, Invariance, PTL

\* The plan is sound, and no two buckets store one row, except where a bucket
\* that looks at all rows has a bound that is no power of two.
THEOREM PartitionsAlwaysDisjoint == Spec => []PartitionsDisjoint
  <1>1. SInv => PartitionsDisjoint
    <2> SUFFICES ASSUME SInv, NEW r \in Rows, Cardinality(stores[r]) > 1
                 PROVE  /\ Cardinality(stores[r]) = 2
                        /\ DirectFilter(0) /\ Upper(0) < degree[r] /\ degree[r] <= BlockD(0)
      BY DEF SInv, PartitionsDisjoint
    <2>1. WellPlanned /\ IInv /\ Sound
      BY DEF SInv
    <2> DEFINE x == <<Home(r), Spot(r)>>
               y == <<0, r>>
    <2>2. /\ stores[r] \subseteq {x, y}
          /\ x \in stores[r] /\ x # y => ~ DirectFilter(Home(r))
          /\ y \in stores[r] /\ x # y => DirectFilter(0) /\ degree[r] <= BlockD(0)
      BY <2>1 DEF Sound
    <2> HIDE DEF x, y
    <2>3. Cardinality(stores[r]) = 2 /\ x \in stores[r] /\ y \in stores[r] /\ x # y
      BY <2>2, Pair
    <2>4. DirectFilter(0) /\ degree[r] <= BlockD(0) /\ ~ DirectFilter(Home(r))
      BY <2>2, <2>3
    <2>5. Home(r) # 0
      BY <2>4
    <2>6. 0 \in Buckets /\ degree[r] \in Nat /\ Home(r) \in Buckets /\ Upper(0) \in Nat
      <3>1. degree \in [Rows -> Nat]
        BY <2>1 DEF IInv, TypeOK
      <3>2. 0 \in Buckets /\ Home(r) \in Buckets
        <4>1. B \in Nat \ {0} /\ \A q \in Rows : BucketOf(degree[q]) \in Buckets
          BY <2>1, <3>1, Segments
        <4> QED BY <4>1 DEF Buckets, Home
      <3>3. Upper(0) \in Nat
        BY <2>1, <3>2, Tiles
      <3> QED BY <3>1, <3>2, <3>3
    <2>7. Upper(0) < degree[r]
      <3>1. degree[r] \in Int /\ Buckets \subseteq Nat
        BY <2>6 DEF Buckets
      <3>2. \A c \in Buckets : c < Home(r) => degree[r] > Upper(c)
        BY <2>1, <3>1, BucketExists DEF Home
      <3>3. 0 < Home(r)
        <4>1. Home(r) \in Nat
          BY <2>6, <3>1
        <4>2. \A n \in Nat : n # 0 => 0 < n
          OBVIOUS
        <4> QED BY <2>5, <4>1, <4>2
      <3>4. degree[r] > Upper(0)
        BY <2>6, <3>2, <3>3
      <3> QED BY <2>6, <3>1, <3>4
    <2> QED BY <2>3, <2>4, <2>7
  <1> QED BY <1>1, Invariance, PTL
=============================================================================
