--------------------------- MODULE DegreeWorklist ---------------------------
(***************************************************************************)
(* How a message-passing launch over rows of very different degrees runs:  *)
(* the buckets the compiler plans from the degree histogram, the kernels   *)
(* that sort the rows into them on the device, and the kernels that then   *)
(* compute one bucket each.                                                *)
(*                                                                         *)
(* The worklist is one array of 64-bit integers: at 0 .. B the counts of   *)
(* the B buckets, later their first positions; then B cursors; then the    *)
(* rows.  A program of a kernel is one step, except that the scatter takes *)
(* a position in one step and stores its row there in another.  The        *)
(* kernels have no node epilogue; the reducer is an additive one.          *)
(***************************************************************************)
EXTENDS Integers, FiniteSets, Sequences, Functions

CONSTANTS
  N,         \* number of rows
  Degrees,   \* the degrees of the rows: the graphs to consider
  Exact,     \* is the histogram known to the compiler?  The cases to consider
  Tile,      \* edges of the widest tile (64)
  TailShare, \* a tail is split off when it has at most one row in ... (10)
  Lanes,     \* elements of a tile (256)
  MaxBlock,  \* and its rows at most (16)
  Junk       \* what the memory may hold at first

Rows == 0 .. N - 1

ASSUME WorklistAssumption ==
  /\ N \in Nat \ {0} /\ Degrees \subseteq [Rows -> Nat] /\ Exact \subseteq BOOLEAN
  /\ Tile \in Nat /\ Tile % 8 = 0 /\ Tile > 0
  /\ TailShare \in Nat /\ Lanes \in Nat /\ MaxBlock \in Nat \ {0}
  /\ Junk \subseteq Int

VARIABLES
  degree, \* the degree of each row
  exact,  \* was the histogram known?
  bounds, \* the plan: the largest degree of each bucket
  split,  \* and whether a tail was split off
  stage,  \* the kernel that runs
  memory, \* the worklist
  todo,   \* programs of the kernel that have not begun
  loop,   \* the loop of the prefix kernel: its index and its sum
  taken,  \* the position each row of the scatter took, or -1
  stores  \* the bucket and the position that stored each row of the output

graph == <<degree, exact, bounds, split>>
vars  == <<graph, stage, memory, todo, loop, taken, stores>>

-----------------------------------------------------------------------------
(* The plan.                                                               *)

NextPowerOfTwo(v) ==
  CHOOSE p \in {2 ^ i : i \in 0 .. v} :
    v <= p /\ \A q \in {2 ^ i : i \in 0 .. v} : v <= q => p <= q

MaxDegree == CHOOSE d \in {degree[r] : r \in Rows} : \A r \in Rows : degree[r] <= d

\* Rows whose degree is above l and at most u: a sum over the histogram.
Between(l, u) == {r \in Rows : l < degree[r] /\ degree[r] <= u}

\* annotateLoadBalance: a tile over the rows would be empty for the most part.
Unbalanced ==
  \/ MaxDegree > Tile
  \/ /\ MaxDegree > 0
     /\ (1000 * FoldFunction(+, 0, degree)) \div (N * NextPowerOfTwo(MaxDegree)) < 600

\* Without a histogram long rows are left to another provider; with one, short
\* rows are.
Planned == Unbalanced /\ (MaxDegree <= Tile \/ exact) /\ (MaxDegree > Tile \div 2 \/ ~ exact)

MakeUpperBounds ==
  LET first  == Tile \div 8
      double == {i \in 0 .. MaxDegree : first * 2 ^ i < MaxDegree}
  IN  [i \in 1 .. Cardinality(double) + 1 |->
         IF i - 1 \in double THEN first * 2 ^ (i - 1) ELSE MaxDegree]

Threshold == IF MaxDegree > Tile THEN Tile ELSE MaxDegree \div 2

TailSplit ==
  /\ exact /\ MaxDegree > Tile \div 2
  /\ MaxDegree > Tile \/ TailShare * Cardinality(Between(Threshold, MaxDegree)) <= N

\* The first of the small tiles that serves half of the rows.
ShortBound ==
  LET serves == {c \in {Tile \div 8, Tile \div 4, Tile \div 2} :
                   2 * Cardinality(Between(-1, c)) >= N}
  IN  IF MaxDegree > Tile /\ serves # {}
      THEN CHOOSE c \in serves : \A e \in serves : c <= e
      ELSE Threshold

Bounds == IF TailSplit THEN <<ShortBound, MaxDegree>> ELSE MakeUpperBounds

B       == Len(bounds)
Buckets == 0 .. B - 1

Upper(b) == bounds[b + 1]
Lower(b) == IF b = 0 THEN -1 ELSE bounds[b]

\* The rows of a bucket are found by looking at all rows, or in the worklist,
\* and those longer than a tile are walked through tile by tile.
DirectFilter(b) == split /\ b = 0
Chunked(b)      == split /\ b = 1 /\ Upper(b) > Tile

BlockD(b) == NextPowerOfTwo(Upper(b))
BlockM(b) ==
  LET rows == Lanes \div BlockD(b)
  IN  IF Chunked(b) \/ rows < 1 THEN 1 ELSE IF rows > MaxBlock THEN MaxBlock ELSE rows

RowsInBucket(b) == IF exact THEN Cardinality(Between(Lower(b), Upper(b))) ELSE N

\* Variant: a grid over the rows of the bucket, whichever way they are found.
CompactGrid(b) ==
  LET blocks == (RowsInBucket(b) + BlockM(b) - 1) \div BlockM(b)
  IN  IF blocks < 1 THEN 1 ELSE blocks

\* Variant: a grid over all rows for every bucket.
WideGrid(b) ==
  LET blocks == (N + BlockM(b) - 1) \div BlockM(b)
  IN  IF blocks < 1 THEN 1 ELSE blocks

Grid(b) ==
  LET rows   == IF DirectFilter(b) THEN N ELSE RowsInBucket(b)
      blocks == (rows + BlockM(b) - 1) \div BlockM(b)
  IN  IF blocks < 1 THEN 1 ELSE blocks

-----------------------------------------------------------------------------
(* The memory.                                                             *)

Cursor(b)  == B + 1 + b
Slot(k)    == 2 * B + 1 + k
Addresses  == 0 .. 2 * B + N

Start(b)   == memory[b]
Size(b)    == memory[b + 1] - memory[b]
RowAt(b, k) == memory[Slot(Start(b) + k)]

Init ==
  /\ degree \in Degrees /\ exact \in Exact /\ Planned
  /\ bounds = Bounds /\ split = TailSplit
  /\ stage = "reset" /\ todo = {} /\ loop = [next |-> 0, total |-> 0]
  /\ \E junk \in Junk : memory = [i \in Addresses |-> junk]
  /\ taken = [r \in Rows |-> -1]
  /\ stores = [r \in Rows |-> {}]

-----------------------------------------------------------------------------
(* The kernels that build the worklist.                                    *)

Reset ==
  /\ stage = "reset"
  /\ memory' = [i \in Addresses |-> IF i < 2 * B + 1 THEN 0 ELSE memory[i]]
  /\ stage' = "histogram" /\ todo' = Rows
  /\ UNCHANGED <<graph, loop, taken, stores>>

\* The buckets from the last to the first: a row belongs to the first whose
\* bound it does not exceed.
BucketOf(d) ==
  CHOOSE b \in Buckets : /\ d <= Upper(b) \/ b = B - 1
                         /\ \A c \in Buckets : c < b => d > Upper(c)

Histogram(r) ==
  /\ stage = "histogram" /\ r \in todo
  /\ memory' = [memory EXCEPT ![BucketOf(degree[r])] = @ + 1]
  /\ todo' = todo \ {r}
  /\ UNCHANGED <<graph, stage, loop, taken, stores>>

Prefix ==
  /\ stage = "histogram" /\ todo = {}
  /\ stage' = "prefix"
  /\ UNCHANGED <<graph, memory, todo, loop, taken, stores>>

\* Variant: the sum is formed before it is stored.
PrefixStepVariant ==
  LET i == loop.next
      total == loop.total + memory[i]
  IN  /\ stage = "prefix" /\ i < B
      /\ memory' = [memory EXCEPT ![i] = total, ![Cursor(i)] = total]
      /\ loop' = [next |-> i + 1, total |-> total]
      /\ UNCHANGED <<graph, stage, todo, taken, stores>>

PrefixStep ==
  LET i == loop.next
  IN  /\ stage = "prefix" /\ i < B
      /\ memory' = [memory EXCEPT ![i] = loop.total, ![Cursor(i)] = loop.total]
      /\ loop' = [next |-> i + 1, total |-> loop.total + memory[i]]
      /\ UNCHANGED <<graph, stage, todo, taken, stores>>

PrefixEnds ==
  /\ stage = "prefix" /\ loop.next = B
  /\ memory' = [memory EXCEPT ![B] = loop.total]
  /\ stage' = "scatter" /\ todo' = Rows
  /\ UNCHANGED <<graph, loop, taken, stores>>

\* An atomic addition returns the cursor as it was.
Take(r) ==
  LET cursor == Cursor(BucketOf(degree[r]))
  IN  /\ stage = "scatter" /\ r \in todo /\ taken[r] = -1
      /\ taken' = [taken EXCEPT ![r] = memory[cursor]]
      /\ memory' = [memory EXCEPT ![cursor] = @ + 1]
      /\ UNCHANGED <<graph, stage, todo, loop, stores>>

Put(r) ==
  /\ stage = "scatter" /\ r \in todo /\ taken[r] # -1
  /\ memory' = [memory EXCEPT ![Slot(taken[r])] = r]
  /\ todo' = todo \ {r}
  /\ UNCHANGED <<graph, stage, loop, taken, stores>>

-----------------------------------------------------------------------------
(* The kernels of the buckets, which run at the same time.                 *)

Launch ==
  /\ stage = "scatter" /\ todo = {}
  /\ stage' = "execute"
  /\ todo' = UNION {{<<b, p>> : p \in 0 .. Grid(b) - 1} : b \in Buckets}
  /\ UNCHANGED <<graph, memory, loop, taken, stores>>

\* The positions of a program and the rows it finds there.
Positions(b, p) == p * BlockM(b) .. (p + 1) * BlockM(b) - 1

\* Variant: rows longer than the tile are not sent away.
MaskedVariant(b, k) == IF DirectFilter(b) THEN k < N ELSE Chunked(b) \/ k < Size(b)

Masked(b, k) ==
  IF DirectFilter(b) THEN k < N /\ degree[k] <= BlockD(b)
  ELSE Chunked(b) \/ k < Size(b)

RowOf(b, k) == IF DirectFilter(b) THEN k ELSE RowAt(b, k)

Run(b, p) ==
  /\ stage = "execute" /\ <<b, p>> \in todo
  /\ stores' = [r \in Rows |-> stores[r] \cup
                  {<<b, k>> : k \in {j \in Positions(b, p) : Masked(b, j) /\ RowOf(b, j) = r}}]
  /\ todo' = todo \ {<<b, p>>}
  /\ UNCHANGED <<graph, stage, memory, loop, taken>>

-----------------------------------------------------------------------------
Build ==
  \/ Reset \/ Prefix \/ PrefixStep \/ PrefixEnds \/ Launch
  \/ \E r \in Rows : Histogram(r) \/ Take(r) \/ Put(r)

Next ==
  \/ Build
  \/ \E b \in Buckets : \E p \in 0 .. Grid(b) - 1 : Run(b, p)

Spec == Init /\ [][Next]_vars

-----------------------------------------------------------------------------
TypeOK ==
  /\ degree \in [Rows -> Nat] /\ exact \in BOOLEAN /\ split \in BOOLEAN
  /\ bounds \in Seq(Int) /\ bounds # <<>>
  /\ DOMAIN stores = Rows
  /\ stage \in {"reset", "histogram", "prefix", "scatter", "execute"}
  /\ memory \in [Addresses -> Int]
  /\ loop \in [next : 0 .. B, total : Int]
  /\ taken \in [Rows -> Int]
  /\ stage \in {"histogram", "scatter"} => todo \subseteq Rows

\* What the plan promises the kernels: the bounds grow and cover every row.
WellPlanned ==
  /\ bounds \in Seq(Nat) /\ B > 0
  /\ \A i, j \in 1 .. B : i < j => bounds[i] < bounds[j]
  /\ \A r \in Rows : degree[r] <= bounds[B]

\* The worklist is a permutation of the rows, sorted by bucket: when the
\* scatter has ended, the segment of each bucket holds the rows whose degrees
\* the bucket is for, each once, in whichever order their programs ran.
WorklistSorted ==
  stage = "execute" =>
    /\ Start(0) = 0
    /\ \A b \in Buckets :
         /\ Size(b) = Cardinality(Between(Lower(b), Upper(b)))
         /\ {RowAt(b, k) : k \in 0 .. Size(b) - 1} = Between(Lower(b), Upper(b))

\* No kernel goes beyond its part of the worklist: every position a row of the
\* scatter takes is a slot for rows, and a program that finds its rows in the
\* worklist reads rows of its own bucket only, also the program of a long row,
\* which has no mask and relies on the grid.
WithinWorklist ==
  /\ \A r \in Rows : taken[r] = -1 \/ taken[r] \in 0 .. N - 1
  /\ stage = "execute" =>
       \A b \in Buckets : ~ DirectFilter(b) =>
         \A p \in 0 .. Grid(b) - 1 : \A k \in Positions(b, p) :
           Masked(b, k) => /\ k \in 0 .. Size(b) - 1
                           /\ Slot(Start(b) + k) \in Addresses
                           /\ RowAt(b, k) \in Between(Lower(b), Upper(b))

\* Every row is computed with all its edges: no store is made from a tile that
\* is narrower than the row, and in the end every row has been stored.
RowsComplete ==
  /\ \A r \in Rows : \A s \in stores[r] : Chunked(s[1]) \/ degree[r] <= BlockD(s[1])
  /\ stage = "execute" /\ todo = {} => \A r \in Rows : stores[r] # {}

\* The plan is sound, and the buckets' output partitions are disjoint, as their
\* launches declare,
\* except for rows above the bound of the bucket that looks at all rows and
\* within its tile, when the bound is no power of two: these two buckets store.
PartitionsDisjoint ==
  /\ WellPlanned
  /\ \A r \in Rows :
       Cardinality(stores[r]) > 1 =>
         /\ Cardinality(stores[r]) = 2
         /\ DirectFilter(0) /\ Upper(0) < degree[r] /\ degree[r] <= BlockD(0)
=============================================================================
