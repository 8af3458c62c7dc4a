--------------------------- MODULE WorkersProofs ---------------------------
(***************************************************************************)
(* The three places where a call leaves work to others and waits for it.   *)
(*                                                                         *)
(* A paged run: it keeps its budget, reads ahead a bounded number of       *)
(* pages, leaves no read behind and loses rows only with an evicted        *)
(* output, for every relation, budget and policy.                          *)
(*                                                                         *)
(* The CPU pool: the jobs a worker reads are those of the launch that      *)
(* waits for it, and a launch that is over has computed every element of   *)
(* its output once, for every number of threads, vector width and output.  *)
(*                                                                         *)
(* The compile worker: for any number of callers, requests and faults, an  *)
(* answer that compile returns is its own, and each crash, hang or         *)
(* interrupt makes at most one compile raise.                              *)
(***************************************************************************)
EXTENDS PagedRun, CpuPool, CompileWorker, FiniteSetTheorems, SequenceTheorems, TLAPS

-----------------------------------------------------------------------------
(* PagedRun: the pages read ahead, and the values of the page at hand.     *)

InPage == stage \in {"leaf", "unused", "result", "lookup", "drain", "write"}

Kept == place["result"] = "ram"

\* What is read ahead lies within Depth pages after some page, and after the page
\* at hand while there is one.
Window(b) ==
  \A p \in Pages : loads[p] \in {"queued", "running", "done", "failed"} => b < p /\ p <= b + Depth

ReadAheadInv ==
  \E b \in 0 .. PageCount :
    Window(b) /\ (stage \notin {"joining", "returned", "raised"} => b = page)

\* As long as the output has not been spilled it has the rows of the pages so far.
RowsInv ==
  /\ InPage => /\ page >= 1 /\ rows \subseteq 1 .. (page - 1)
               /\ Kept => rows = 1 .. (page - 1)
  /\ stage = "fetch" => rows \subseteq 1 .. page /\ (Kept => rows = 1 .. page)
  /\ stage \in {"joining", "returned"} /\ page > 0 => page = PageCount /\ (Kept => rows = Pages)
  /\ stage = "result" => page = 1
  /\ stage \in {"drain", "write"} /\ Kept => target = "buffer"
  /\ stage = "returned" => page > 0

PagedInv == PagedTypeOK /\ WithinBudget /\ ReadAheadInv /\ NoWorkerLeft /\ RowsInv

\* A run that has not begun satisfies the invariant.
LEMMA PagedInvInit == PagedInit => PagedInv
<1> SUFFICES ASSUME PagedInit PROVE PagedInv
  OBVIOUS
<1> USE PagedAssumption
<1>1. InitiallySubmitted \subseteq 1 .. Depth /\ InitiallySubmitted \subseteq Pages
  BY DEF InitiallySubmitted, Pages
<1>2. PagedTypeOK
  BY <1>1 DEF PagedInit, PagedTypeOK, Pages, Values
<1>3. WithinBudget
  <2>1. Live = Bytes["idle"]
    BY DEF PagedInit, Live, Held, InRam, Values
  <2> QED
    BY <2>1 DEF PagedInit, WithinBudget
<1>4. ReadAheadInv
  <2>1. Window(0)
    BY <1>1 DEF PagedInit, Window, Pages
  <2>2. 0 \in 0 .. PageCount /\ page = 0
    BY DEF PagedInit
  <2> QED
    BY <2>1, <2>2 DEF ReadAheadInv
<1>5. NoWorkerLeft /\ RowsInv
  BY DEF PagedInit, NoWorkerLeft, RowsInv, InPage, Kept, Values
<1> QED
  BY <1>2, <1>3, <1>4, <1>5 DEF PagedInv

\* Live bytes are a number, and depend on where the values are and on the target.
LEMMA LiveType == PagedTypeOK => Live \in Nat /\ Held \in Nat /\ \A x \in Values : InRam(x) \in Nat
BY PagedAssumption DEF PagedTypeOK, Live, Held, InRam, Values

\* A place more in memory needs the bytes of the value, a place less frees them.
LEMMA LiveAllocated ==
  ASSUME PagedTypeOK, NEW x \in Values, place' = [place EXCEPT ![x] = "ram"], target' = target
  PROVE  Live' <= Live + Bytes[x]
<1>1. \A y \in Values : InRam(y)' = IF y = x THEN Bytes[x] ELSE InRam(y)
  BY DEF InRam, PagedTypeOK
<1>2. Held' = Held
  BY DEF Held
<1>3. Bytes[x] \in Nat
  BY PagedAssumption
<1> HIDE DEF InRam
<1> QED
  BY <1>1, <1>2, <1>3, LiveType DEF Live, Values

LEMMA LiveFreed ==
  ASSUME PagedTypeOK, place' \in [Values -> {"none", "ram", "disk"}],
         \A y \in Values : place'[y] = "ram" => place[y] = "ram", Held' <= Held, Held' \in Nat
  PROVE  Live' <= Live
<1>1. \A y \in Values : InRam(y)' \in Nat /\ InRam(y) \in Nat /\ InRam(y)' <= InRam(y)
  BY PagedAssumption DEF InRam, PagedTypeOK
<1> HIDE DEF InRam
<1> QED
  BY <1>1, LiveType DEF Live, Values

LEMMA LiveEvicted ==
  ASSUME PagedTypeOK, NEW x \in Values, place[x] = "ram", place' = [place EXCEPT ![x] = "disk"],
         target' = IF x = "result" /\ target = "buffer" THEN "lost" ELSE target
  PROVE  Live' <= Live
<1>1. \A y \in Values : InRam(y)' = IF y = x THEN 0 ELSE InRam(y)
  BY DEF InRam, PagedTypeOK
<1>2. InRam(x) = Bytes[x] /\ Bytes[x] \in Nat
  BY PagedAssumption DEF InRam
<1>3. Held' = Held \/ (x = "result" /\ Held = 0 /\ Held' = Bytes[x])
  BY DEF Held
<1> HIDE DEF InRam
<1> QED
  BY <1>1, <1>2, <1>3, LiveType DEF Live, Values

\* Steps that read no page ahead and lose none keep the window.
LEMMA WindowStays ==
  ASSUME PagedInv, loads' = loads,
         stage' \in {"joining", "returned", "raised"}
           \/ (page' = page /\ stage \notin {"joining", "returned", "raised"})
  PROVE  ReadAheadInv'
<1>1. PICK b \in 0 .. PageCount :
        Window(b) /\ (stage \notin {"joining", "returned", "raised"} => b = page)
  BY DEF PagedInv, ReadAheadInv
<1>2. Window(b)'
  BY <1>1 DEF Window
<1> QED
  BY <1>1, <1>2 DEF ReadAheadInv

LEMMA WorkStep ==
  ASSUME PagedInv, NEW p \in Pages, RunLoad(p) \/ FinishLoad(p)
  PROVE  PagedInv'
<1>1. /\ UNCHANGED <<budget, policy, page, stage, place, older, target, rows>>
      /\ loads[p] \in {"queued", "running"}
      /\ \E l \in {"running", "done", "failed"} : loads' = [loads EXCEPT ![p] = l]
  BY DEF RunLoad, FinishLoad
<1>2. PagedTypeOK'
  BY <1>1 DEF PagedInv, PagedTypeOK
<1>3. WithinBudget' /\ RowsInv'
  BY <1>1 DEF PagedInv, WithinBudget, Live, Held, InRam, RowsInv, InPage, Kept
<1>4. ReadAheadInv'
  <2>1. PICK b \in 0 .. PageCount :
          Window(b) /\ (stage \notin {"joining", "returned", "raised"} => b = page)
    BY DEF PagedInv, ReadAheadInv
  <2>2. Window(b)'
    BY <1>1, <2>1 DEF Window, PagedInv, PagedTypeOK
  <2> QED
    BY <1>1, <2>1, <2>2 DEF ReadAheadInv
<1>5. NoWorkerLeft'
  BY <1>1 DEF PagedInv, NoWorkerLeft
<1> QED
  BY <1>2, <1>3, <1>4, <1>5 DEF PagedInv

LEMMA FetchStep ==
  ASSUME PagedInv, Fetch
  PROVE  PagedInv'
<1>1. /\ stage = "fetch" /\ page < PageCount /\ loads[page + 1] = "done"
      /\ page' = page + 1 /\ stage' = "leaf"
      /\ loads' = [p \in Pages |->
                 IF p = page + 1 THEN "taken"
                 ELSE IF p = page + 1 + Depth THEN "queued" ELSE loads[p]]
      /\ UNCHANGED <<budget, policy, place, older, target, rows>>
  BY DEF Fetch
<1>2. page \in Nat /\ page' \in 0 .. PageCount
  BY <1>1, PagedAssumption DEF PagedInv, PagedTypeOK
<1>3. PagedTypeOK'
  BY <1>1, <1>2 DEF PagedInv, PagedTypeOK
<1>4. WithinBudget'
  BY <1>1 DEF PagedInv, WithinBudget, Live, Held, InRam
<1>5. ReadAheadInv'
  <2>1. Window(page)
    BY <1>1 DEF PagedInv, ReadAheadInv
  <2>2. Window(page)'
    BY <1>1, <1>2, <2>1, PagedAssumption DEF Window, Pages
  <2> QED
    BY <1>1, <1>2, <2>2 DEF ReadAheadInv
<1>6. NoWorkerLeft'
  BY <1>1 DEF NoWorkerLeft
<1>7. RowsInv'
  BY <1>1, <1>2 DEF PagedInv, RowsInv, InPage, Kept
<1> QED
  BY <1>3, <1>4, <1>5, <1>6, <1>7 DEF PagedInv

\* The run is given up: nothing is allocated, and no page is at hand any more.
LEMMA AbortStep ==
  ASSUME PagedInv, Abort, UNCHANGED <<budget, policy, loads, place, older, rows>>,
         target' \in {target, "none"}, stage \notin {"joining", "returned", "raised"}
  PROVE  PagedInv'
<1>1. PagedTypeOK'
  BY PagedAssumption DEF Abort, PagedInv, PagedTypeOK
<1>2. WithinBudget'
  <2>1. Held' <= Held /\ Held' \in Nat
    BY PagedAssumption DEF Held, Values
  <2>2. Live' <= Live /\ Live' \in Nat /\ Live \in Nat
    <3>1. (PagedTypeOK => Live \in Nat)'
      BY <1>1, PagedAssumption DEF PagedTypeOK, Live, Held, InRam, Values
    <3> QED
      BY <1>1, <2>1, <3>1, LiveFreed, LiveType DEF PagedInv, PagedTypeOK
  <2> QED
    BY <2>2, PagedAssumption DEF PagedInv, PagedTypeOK, WithinBudget
<1>3. ReadAheadInv'
  BY WindowStays DEF Abort
<1>4. NoWorkerLeft' /\ RowsInv'
  BY DEF Abort, NoWorkerLeft, RowsInv, InPage
<1> QED
  BY <1>1, <1>2, <1>3, <1>4 DEF PagedInv

LEMMA AllocateStep ==
  ASSUME PagedInv, Allocate
  PROVE  PagedInv'
<1>1. /\ PagedTypeOK /\ RowsInv /\ Allocating /\ Fits(Request)
      /\ place' = [place EXCEPT ![Request] = "ram"] /\ older' = Touch(Request)
      /\ stage' = Following /\ UNCHANGED <<budget, policy, loads, page, target, rows>>
  BY DEF Allocate, PagedInv
<1>2. Request \in Values /\ (Request = "result" <=> stage = "result")
  BY <1>1 DEF Allocating, Request, Values
<1>3. /\ stage = "leaf" => stage' = "unused"
      /\ stage = "unused" => stage' \in {"result", "lookup"} /\ (stage' = "result" => page = 1)
      /\ stage = "result" => stage' = "lookup"
      /\ stage = "drain" => stage' \in {"drain", "write"}
  BY <1>1 DEF Following
<1>4. stage' \in {"unused", "result", "lookup", "drain", "write"}
  BY <1>1, <1>3 DEF Allocating
<1>5. PagedTypeOK'
  <2>1. older' \subseteq Values \X Values
    BY <1>1, <1>2 DEF Touch, PagedTypeOK
  <2> QED
    BY <1>1, <1>2, <1>4, <2>1 DEF PagedTypeOK
<1>6. WithinBudget'
  <2>1. Live' <= Live + Bytes[Request] /\ Live + Bytes[Request] <= budget
    BY <1>1, <1>2, LiveAllocated DEF Fits
  <2>2. (PagedTypeOK => Live \in Nat)'
    BY PagedAssumption DEF PagedTypeOK, Live, Held, InRam, Values
  <2>3. Live \in Nat /\ Bytes[Request] \in Nat /\ budget \in Nat
    BY <1>1, <1>2, LiveType, PagedAssumption DEF PagedTypeOK
  <2> QED
    BY <1>1, <1>5, <2>1, <2>2, <2>3 DEF WithinBudget
<1>7. ReadAheadInv'
  BY <1>1, WindowStays DEF Allocating
<1>8. NoWorkerLeft'
  BY <1>4 DEF NoWorkerLeft
<1>9. RowsInv'
  <2>1. InPage /\ InPage'
    BY <1>1, <1>4 DEF InPage, Allocating
  <2>2. page >= 1 /\ rows \subseteq 1 .. (page - 1) /\ (Kept => rows = 1 .. (page - 1))
    BY <1>1, <2>1 DEF RowsInv
  <2>3. Kept' => rows = 1 .. (page - 1)
    <3>1. CASE stage = "result"
      BY <1>1, <2>2, <3>1 DEF RowsInv
    <3>2. CASE stage # "result"
      BY <1>1, <1>2, <2>2, <3>2 DEF Kept, PagedTypeOK, Values
    <3> QED
      BY <3>1, <3>2
  <2>4. stage' \in {"drain", "write"} /\ Kept' => target' = "buffer"
    <3>1. stage' \in {"drain", "write"} => stage = "drain"
      BY <1>1, <1>3 DEF Allocating
    <3>2. stage = "drain" => place'["result"] = place["result"]
      BY <1>1, <1>2 DEF PagedTypeOK, Values
    <3> QED
      BY <1>1, <3>1, <3>2 DEF RowsInv, Kept
  <2> QED
    BY <1>1, <1>3, <1>4, <2>1, <2>2, <2>3, <2>4 DEF RowsInv, Allocating
<1> QED
  BY <1>5, <1>6, <1>7, <1>8, <1>9 DEF PagedInv

LEMMA EvictStep ==
  ASSUME PagedInv, Evict
  PROVE  PagedInv'
<1>1. /\ PagedTypeOK /\ RowsInv /\ Allocating
      /\ UNCHANGED <<budget, policy, loads, page, stage, older, rows>>
  BY DEF Evict, PagedInv
<1>2. PICK x \in Evictable :
        /\ place' = [place EXCEPT ![x] = "disk"]
        /\ target' = IF x = "result" /\ target = "buffer" THEN "lost" ELSE target
  BY DEF Evict
<1>3. x \in Values /\ place[x] = "ram"
  BY DEF Evictable
<1>4. PagedTypeOK'
  BY <1>1, <1>2, <1>3 DEF PagedTypeOK
<1>5. WithinBudget'
  <2>1. Live' <= Live
    BY <1>1, <1>2, <1>3, LiveEvicted
  <2>2. (PagedTypeOK => Live \in Nat)'
    BY PagedAssumption DEF PagedTypeOK, Live, Held, InRam, Values
  <2> QED
    BY <1>1, <1>4, <2>1, <2>2, LiveType, PagedAssumption DEF PagedInv, PagedTypeOK, WithinBudget
<1>6. ReadAheadInv'
  BY <1>1, WindowStays DEF Allocating
<1>7. NoWorkerLeft'
  BY <1>1 DEF NoWorkerLeft, Allocating
<1>8. RowsInv'
  <2>1. Kept' => Kept /\ x # "result"
    BY <1>1, <1>2 DEF Kept, PagedTypeOK, Values
  <2>2. Kept' => target' = target
    BY <1>2, <2>1
  <2> QED
    BY <1>1, <2>1, <2>2 DEF RowsInv, InPage
<1> QED
  BY <1>4, <1>5, <1>6, <1>7, <1>8 DEF PagedInv

LEMMA LookupStep ==
  ASSUME PagedInv, Lookup
  PROVE  PagedInv'
<1>1. /\ PagedTypeOK /\ RowsInv /\ stage = "lookup" /\ target' = "buffer" /\ stage' = "drain"
      /\ UNCHANGED <<budget, policy, loads, page, place, older, rows>>
  BY DEF Lookup, PagedInv
<1>2. PagedTypeOK'
  BY <1>1 DEF PagedTypeOK
<1>3. WithinBudget'
  <2>1. Held' = 0 /\ Held \in Nat
    BY <1>1, LiveType DEF Held
  <2>2. Live' <= Live
    BY <1>1, <2>1, LiveFreed DEF PagedTypeOK
  <2>3. (PagedTypeOK => Live \in Nat)'
    BY PagedAssumption DEF PagedTypeOK, Live, Held, InRam, Values
  <2> QED
    BY <1>1, <1>2, <2>2, <2>3, LiveType, PagedAssumption DEF PagedInv, PagedTypeOK, WithinBudget
<1>4. ReadAheadInv'
  BY <1>1, WindowStays
<1>5. NoWorkerLeft' /\ RowsInv'
  BY <1>1 DEF NoWorkerLeft, RowsInv, InPage, Kept
<1> QED
  BY <1>2, <1>3, <1>4, <1>5 DEF PagedInv

LEMMA WriteStep ==
  ASSUME PagedInv, Write
  PROVE  PagedInv'
<1>1. /\ PagedTypeOK /\ RowsInv /\ stage = "write" /\ target' = "none"
      /\ rows' = IF target = "buffer" THEN rows \cup {page} ELSE rows
      /\ place' = [place EXCEPT !["leaf"] = "none", !["unused"] = "none", !["output"] = "none"]
      /\ older' \subseteq older
      /\ stage' = IF LastPage THEN "joining" ELSE "fetch"
      /\ UNCHANGED <<budget, policy, loads, page>>
  BY DEF Write, PagedInv
<1>2. /\ page \in Pages /\ page >= 1 /\ rows \subseteq 1 .. (page - 1)
      /\ Kept => rows = 1 .. (page - 1) /\ target = "buffer"
  BY <1>1, PagedAssumption DEF RowsInv, InPage, PagedTypeOK, Pages
<1>3. PagedTypeOK'
  <2>1. place' \in [Values -> {"none", "ram", "disk"}] /\ rows' \subseteq Pages
        /\ stage' \in {"fetch", "joining"}
    BY <1>1, <1>2 DEF PagedTypeOK
  <2> QED
    BY <1>1, <2>1 DEF PagedTypeOK
<1>4. WithinBudget'
  <2>1. Held' = 0 /\ Held \in Nat
    BY <1>1, LiveType DEF Held
  <2>2. \A y \in Values : place'[y] = "ram" => place[y] = "ram"
    BY <1>1 DEF PagedTypeOK, Values
  <2>3. Live' <= Live
    BY <1>1, <1>3, <2>1, <2>2, LiveFreed DEF PagedTypeOK
  <2>4. (PagedTypeOK => Live \in Nat)'
    BY PagedAssumption DEF PagedTypeOK, Live, Held, InRam, Values
  <2> QED
    BY <1>1, <1>3, <2>3, <2>4, LiveType, PagedAssumption DEF PagedInv, PagedTypeOK, WithinBudget
<1>5. ReadAheadInv'
  BY <1>1, WindowStays
<1>6. NoWorkerLeft'
  BY <1>1 DEF NoWorkerLeft
<1>7. RowsInv'
  <2>1. Kept' <=> Kept
    BY <1>1 DEF Kept, PagedTypeOK, Values
  <2>2. 1 .. page = (1 .. (page - 1)) \cup {page}
    BY <1>2, PagedAssumption DEF Pages
  <2>3. rows' \subseteq 1 .. page /\ (Kept' => rows' = 1 .. page)
    BY <1>1, <1>2, <2>1, <2>2
  <2> QED
    BY <1>1, <1>2, <2>3 DEF RowsInv, InPage, LastPage, Pages
<1> QED
  BY <1>3, <1>4, <1>5, <1>6, <1>7 DEF PagedInv

LEMMA LeaveStep ==
  ASSUME PagedInv, Leave
  PROVE  PagedInv'
<1>1. /\ PagedTypeOK /\ RowsInv /\ stage = "joining" /\ Joined
      /\ stage' = IF LastPage THEN "returned" ELSE "raised"
      /\ UNCHANGED <<budget, policy, loads, page, place, older, target, rows>>
  BY DEF Leave, PagedInv
<1>2. PagedTypeOK'
  BY <1>1 DEF PagedTypeOK
<1>3. WithinBudget'
  BY <1>1 DEF PagedInv, WithinBudget, Live, Held, InRam
<1>4. ReadAheadInv'
  BY <1>1, WindowStays
<1>5. NoWorkerLeft'
  BY <1>1 DEF NoWorkerLeft, Joined
<1>6. RowsInv'
  BY <1>1, PagedAssumption DEF RowsInv, InPage, Kept, LastPage, PagedTypeOK
<1> QED
  BY <1>2, <1>3, <1>4, <1>5, <1>6 DEF PagedInv

\* Every step of the run, of its readers and of the allocator keeps it.
LEMMA PagedInvNext == PagedInv /\ [PagedNext]_pagedVars => PagedInv'
<1> SUFFICES ASSUME PagedInv, [PagedNext]_pagedVars PROVE PagedInv'
  OBVIOUS
<1>1. CASE Fetch
  BY <1>1, FetchStep
<1>2. CASE FetchFails
  BY <1>2, AbortStep DEF FetchFails
<1>3. CASE Allocate
  BY <1>3, AllocateStep
<1>4. CASE Evict
  BY <1>4, EvictStep
<1>5. CASE OutOfMemory
  BY <1>5, AbortStep DEF OutOfMemory, Allocating
<1>6. CASE Lookup
  BY <1>6, LookupStep
<1>7. CASE NoAttribute
  BY <1>7, AbortStep DEF NoAttribute
<1>8. CASE Write
  BY <1>8, WriteStep
<1>9. CASE Leave
  BY <1>9, LeaveStep
<1>10. CASE Work
  BY <1>10, WorkStep DEF Work
<1>11. CASE UNCHANGED pagedVars
  <2>1. PagedTypeOK' /\ WithinBudget' /\ ReadAheadInv'
    BY <1>11 DEF pagedVars, PagedInv, PagedTypeOK, WithinBudget, Live, Held, InRam, ReadAheadInv,
         Window
  <2>2. NoWorkerLeft' /\ RowsInv'
    BY <1>11 DEF pagedVars, PagedInv, NoWorkerLeft, RowsInv, InPage, Kept
  <2> QED
    BY <2>1, <2>2 DEF PagedInv
<1> QED
  BY <1>1, <1>2, <1>3, <1>4, <1>5, <1>6, <1>7, <1>8, <1>9, <1>10, <1>11 DEF PagedNext, Run

\* The window has Depth pages.
LEMMA WindowBounds == PagedInv => ReadAheadBounded
<1> SUFFICES ASSUME PagedInv PROVE ReadAheadBounded
  OBVIOUS
<1> DEFINE ahead == {p \in Pages : loads[p] \in {"queued", "running", "done", "failed"}}
<1>1. PICK b \in 0 .. PageCount : Window(b)
  BY DEF PagedInv, ReadAheadInv
<1>2. ahead \subseteq (b + 1) .. (b + Depth)
  BY <1>1, PagedAssumption DEF Window, Pages
<1>3. /\ IsFiniteSet((b + 1) .. (b + Depth))
      /\ Cardinality((b + 1) .. (b + Depth)) = Depth
  BY FS_Interval, PagedAssumption
<1>4. Cardinality(ahead) <= Depth
  BY <1>2, <1>3, FS_Subset
<1> QED
  BY <1>4 DEF ReadAheadBounded

\* paged.py, _stream_pages and execute_paged_message_passing: for any number of
\* pages, sizes and budgets the run keeps within its budget, reads at most Depth
\* pages ahead, and leaves no worker behind, however it ends.
THEOREM RunAlwaysOK == PagedSpec => []RunOK
<1>1. PagedInv => RunOK
  BY WindowBounds DEF PagedInv, RunOK
<1> QED
  BY PagedInvInit, PagedInvNext, <1>1, PTL DEF PagedSpec

\* paged.py:527: an output that is returned without having been spilled has the
\* rows of every page.
THEOREM PagesNeverLostOtherwise == PagedSpec => []LostOnlyByEviction
<1>1. PagedInv => LostOnlyByEviction
  BY DEF PagedInv, RowsInv, LostOnlyByEviction, Kept
<1> QED
  BY PagedInvInit, PagedInvNext, <1>1, PTL DEF PagedSpec

-----------------------------------------------------------------------------
(* CpuPool: launches and workers, the invariant.                           *)

Counted == {w \in WorkerIds : w < size /\ runs[w] = 1}

\* The holder of launchMutex is the one launcher inside launch().
OneLaunches == \A l \in Launchers : pc[l] # "idle" <=> launchMutex = l

\* What a launcher is launching has jobs, and after Post they are the pool's.
Published ==
  \A l \in Launchers :
    /\ pc[l] = "locked" => JobCount(elements[l]) > 0
    /\ pc[l] \in {"posted", "own", "waiting", "blocked", "done"} =>
         size = JobCount(elements[l]) /\ size > 0
    /\ pc[l] \in {"posted", "own"} => runs[0] = 0
    /\ pc[l] \in {"waiting", "blocked", "done"} => runs[0] = 1

\* A worker takes a generation once: it has run its job when it saw it.
WorkerRuns ==
  \A w \in WorkerIds :
    /\ seen[w] <= generation
    /\ worker[w] = "running" =>
         state = "live" /\ seen[w] = generation /\ w < size /\ runs[w] = 0
    /\ state = "live" /\ w < size =>
         /\ seen[w] = generation /\ worker[w] # "running" => runs[w] = 1
         /\ seen[w] # generation => runs[w] = 0

\* Between launches nothing is left to run.
Quiet ==
  (\A l \in Launchers : pc[l] \in {"idle", "locked", "done"}) =>
    \A j \in 0 .. (T - 1) : j < size => runs[j] = 1

PoolInv ==
  /\ PoolTypeOK
  /\ OneLaunches
  /\ Published
  /\ WorkerRuns
  /\ Quiet
  /\ completed = Cardinality(Counted)
  /\ \A j \in 0 .. (T - 1) : j >= size => runs[j] = 0
  /\ state # "live" => \A l \in Launchers : pc[l] = "idle"

-----------------------------------------------------------------------------
(* Division.                                                               *)

\* Multiplication keeps the order.
LEMMA MonotoneProduct ==
  ASSUME NEW a \in Nat, NEW b \in Nat, NEW c \in Nat, a <= b
  PROVE  a * c <= b * c
  OBVIOUS

\* A quotient is the last multiple that is not beyond.
LEMMA Quotient ==
  ASSUME NEW a \in Nat, NEW b \in Nat \ {0}
  PROVE  /\ a \div b \in Nat
         /\ b * (a \div b) <= a
         /\ a < b * (a \div b) + b
  OBVIOUS

\* A quotient below a bound: a < b * n gives a \div b < n.
LEMMA QuotientBelow ==
  ASSUME NEW a \in Nat, NEW b \in Nat \ {0}, NEW n \in Nat, a < b * n
  PROVE  a \div b < n
  <1> DEFINE q == a \div b
  <1>1. q \in Nat /\ b * q <= a
    BY Quotient
  <1> HIDE DEF q
  <1>2. CASE n <= q
    <2>1. n * b <= q * b
      BY <1>1, <1>2, MonotoneProduct
    <2> QED
      BY <1>1, <2>1
  <1> QED
    BY <1>1, <1>2 DEF q

\* Only one quotient leaves a remainder smaller than the divisor.
LEMMA QuotientUnique ==
  ASSUME NEW e \in Nat, NEW c \in Nat, NEW i \in Nat, NEW j \in Nat,
         i * c <= e, e < i * c + c, j * c <= e, e < j * c + c
  PROVE  i = j
  <1>1. ASSUME NEW x \in Nat, NEW y \in Nat, x < y, e < x * c + c, y * c <= e
        PROVE  FALSE
    <2>1. x + 1 \in Nat /\ x + 1 <= y
      BY <1>1
    <2>2. (x + 1) * c <= y * c
      BY <2>1, <1>1, MonotoneProduct
    <2>3. (x + 1) * c = x * c + c
      OBVIOUS
    <2> QED
      BY <1>1, <2>2, <2>3
  <1> QED
    BY <1>1

-----------------------------------------------------------------------------
(* The jobs of an output.                                                  *)

\* The share of a thread is large enough for the threads to cover the output.
LEMMA ChunkCovers ==
  ASSUME NEW n \in Nat
  PROVE  /\ Chunk(n) \in Nat /\ RequestedThreads(n) \in Nat \ {0}
         /\ RequestedThreads(n) <= T
         /\ n <= RequestedThreads(n) * Chunk(n)
         /\ n > 0 => Chunk(n) > 0
  <1> DEFINE r == RequestedThreads(n)
             raw == (n + r - 1) \div r
             parts == (raw + V - 1) \div V
  <1>1. r \in Nat \ {0} /\ r <= T /\ V \in Nat \ {0}
    BY PoolAssumption DEF RequestedThreads
  <1>2. Chunk(n) = parts * V
    BY DEF Chunk
  <1> HIDE DEF r
  <1>3. n + r - 1 \in Nat
    BY <1>1
  <1>4. raw \in Nat /\ n + r - 1 < r * raw + r
    BY <1>1, <1>3, Quotient
  <1> HIDE DEF raw
  <1>5. raw + V - 1 \in Nat
    BY <1>1, <1>4
  <1>6. parts \in Nat /\ raw + V - 1 < V * parts + V
    BY <1>1, <1>5, Quotient
  <1> HIDE DEF parts
  <1>7. V * parts = parts * V /\ parts * V \in Nat
    BY <1>1, <1>6
  <1>8. raw <= parts * V
    BY <1>1, <1>4, <1>6, <1>7
  <1>9. raw * r <= (parts * V) * r
    BY <1>1, <1>4, <1>7, <1>8, MonotoneProduct
  <1>10. n <= raw * r /\ raw * r = r * raw /\ r * raw \in Nat
    BY <1>1, <1>4
  <1>11. (parts * V) * r = r * (parts * V) /\ r * (parts * V) \in Nat
    BY <1>1, <1>7
  <1>12. n <= r * (parts * V)
    BY <1>7, <1>9, <1>10, <1>11
  <1>13. n > 0 => parts * V > 0
    <2> SUFFICES ASSUME n > 0, parts * V = 0
                 PROVE  FALSE
      BY <1>7
    <2>1. r * (parts * V) = 0
      BY <1>1
    <2> QED
      BY <1>12, <2>1
  <1> QED
    BY <1>1, <1>2, <1>7, <1>12, <1>13 DEF r

\* The condition the CHOOSE of JobCount is about.
IsJobCount(n, k) ==
  /\ k \in 0 .. RequestedThreads(n)
  /\ k = RequestedThreads(n) \/ JobBegin(n, k) >= JobEnd(n, k)
  /\ \A w \in 0 .. (k - 1) : JobBegin(n, w) < JobEnd(n, w)

\* There is such a number of jobs, so JobCount is one.
LEMMA JobCountIs ==
  ASSUME NEW n \in Nat
  PROVE  IsJobCount(n, JobCount(n))
  <1> DEFINE c == Chunk(n)
             r == RequestedThreads(n)
             q == (n - 1) \div c
  <1>1. /\ c \in Nat /\ r \in Nat \ {0} /\ n <= r * c
        /\ n > 0 => c > 0
    BY ChunkCovers
  <1> HIDE DEF c, r
  <1>2. \E k : IsJobCount(n, k)
    <2>1. CASE n = 0
      <3>1. IsJobCount(n, 0)
        BY <1>1, <2>1 DEF IsJobCount, JobBegin, JobEnd, Smaller, c, r
      <3> QED
        BY <3>1
    <2>2. CASE n # 0
      <3>1. n - 1 \in Nat /\ c \in Nat \ {0}
        BY <1>1, <2>2
      <3>2. q \in Nat /\ c * q <= n - 1 /\ n - 1 < c * q + c
        BY <3>1, Quotient
      <3>3. q < r
        <4>1. n - 1 < c * r
          <5>1. r * c = c * r /\ c * r \in Nat
            BY <1>1
          <5> QED
            BY <1>1, <5>1
        <4> QED
          BY <1>1, <3>1, <4>1, QuotientBelow
      <3> HIDE DEF q
      <3>4. c * q = q * c /\ (q + 1) * c = q * c + c /\ q * c \in Nat
        BY <3>1, <3>2
      <3>5. JobBegin(n, q + 1) = n /\ JobEnd(n, q + 1) = n
        <4>1. (q + 1) * c \in Nat /\ n <= (q + 1) * c
          BY <3>1, <3>2, <3>4
        <4>2. JobBegin(n, q + 1) = IF n < (q + 1) * c THEN n ELSE (q + 1) * c
          BY DEF JobBegin, Smaller, c
        <4>3. JobBegin(n, q + 1) = n
          BY <4>1, <4>2
        <4>4. JobEnd(n, q + 1) = IF n < n + c THEN n ELSE n + c
          BY <4>3 DEF JobEnd, Smaller, c
        <4> QED
          BY <3>1, <4>3, <4>4
      <3>6. ASSUME NEW w \in 0 .. q
            PROVE  JobBegin(n, w) < JobEnd(n, w)
        <4>1. w * c <= q * c
          BY <3>1, <3>2, MonotoneProduct
        <4>2. w * c \in Nat /\ w * c < n
          BY <3>1, <3>2, <3>4, <4>1
        <4> HIDE DEF c
        <4>3. JobBegin(n, w) = w * c
          BY <4>2 DEF JobBegin, Smaller, c
        <4> QED
          BY <3>1, <4>2, <4>3 DEF JobEnd, Smaller, c
      <3>7. IsJobCount(n, q + 1)
        <4>1. q + 1 \in 0 .. r
          BY <1>1, <3>2, <3>3
        <4>2. (q + 1) - 1 = q
          BY <3>2
        <4> QED
          BY <3>5, <3>6, <4>1, <4>2 DEF IsJobCount, r
      <3> QED
        BY <3>7
    <2> QED
      BY <2>1, <2>2
  <1>3. PICK k \in 0 .. RequestedThreads(n) :
          /\ k = RequestedThreads(n) \/ JobBegin(n, k) >= JobEnd(n, k)
          /\ \A w \in 0 .. (k - 1) : JobBegin(n, w) < JobEnd(n, w)
    BY <1>2 DEF IsJobCount
  <1> QED
    BY <1>3, Zenon DEF JobCount, IsJobCount

\* Every element lies in one of the jobs, and in no two.
LEMMA JobsCover ==
  ASSUME NEW n \in Nat, NEW e \in 0 .. (n - 1)
  PROVE  \E j \in 0 .. (JobCount(n) - 1) :
           /\ JobBegin(n, j) <= e /\ e < JobEnd(n, j)
           /\ \A i \in Nat : JobBegin(n, i) <= e /\ e < JobEnd(n, i) => i = j
  <1> DEFINE c == Chunk(n)
             r == RequestedThreads(n)
             k == JobCount(n)
             j == e \div c
  <1>1. /\ c \in Nat \ {0} /\ r \in Nat \ {0} /\ n <= r * c
        /\ e \in Nat /\ e < n
    BY ChunkCovers
  <1>2. k \in Nat /\ (k = r \/ JobBegin(n, k) >= JobEnd(n, k))
    BY JobCountIs, <1>1 DEF IsJobCount
  <1> HIDE DEF c, r, k
  <1>3. n <= k * c
    <2>1. CASE k = r
      BY <1>1, <2>1
    <2>2. CASE JobBegin(n, k) >= JobEnd(n, k)
      <3>1. k * c \in Nat
        BY <1>1, <1>2
      <3> QED
        BY <1>1, <2>2, <3>1 DEF JobBegin, JobEnd, Smaller, c
    <2> QED
      BY <1>2, <2>1, <2>2
  <1>4. j \in Nat /\ c * j <= e /\ e < c * j + c
    BY <1>1, Quotient
  <1>5. j < k
    <2>1. k * c = c * k /\ c * k \in Nat
      BY <1>1, <1>2
    <2>2. e < c * k
      BY <1>1, <1>3, <2>1
    <2> QED
      BY <1>1, <1>2, <2>2, QuotientBelow
  <1> HIDE DEF j
  <1>6. c * j = j * c /\ j * c \in Nat
    BY <1>1, <1>4
  <1>7. JobBegin(n, j) = j * c
    BY <1>1, <1>4, <1>6 DEF JobBegin, Smaller, c
  <1>8. JobBegin(n, j) <= e /\ e < JobEnd(n, j)
    BY <1>1, <1>4, <1>6, <1>7 DEF JobEnd, Smaller, c
  <1>9. ASSUME NEW i \in Nat, JobBegin(n, i) <= e, e < JobEnd(n, i)
        PROVE  i = j
    <2>1. i * c \in Nat
      BY <1>1
    <2>2. i * c <= e
      BY <1>1, <1>9, <2>1 DEF JobBegin, Smaller, c
    <2>3. e < i * c + c
      <3>1. JobBegin(n, i) = i * c
        BY <1>1, <2>1, <2>2 DEF JobBegin, Smaller, c
      <3> QED
        BY <1>1, <1>9, <2>1, <3>1 DEF JobEnd, Smaller, c
    <2> QED
      BY <1>1, <1>4, <1>6, <2>2, <2>3, QuotientUnique
  <1>10. j \in 0 .. (k - 1)
    BY <1>2, <1>4, <1>5
  <1> QED
    BY <1>8, <1>9, <1>10 DEF k

-----------------------------------------------------------------------------
(* The invariant is inductive.                                             *)

LEMMA CountedFinite ==
  ASSUME NEW S \in SUBSET WorkerIds
  PROVE  IsFiniteSet(S) /\ Cardinality(S) \in 0 .. (T - 1)
  <1>1. IsFiniteSet(WorkerIds) /\ Cardinality(WorkerIds) = T - 1
    BY PoolAssumption, FS_Interval DEF WorkerIds
  <1>2. IsFiniteSet(S) /\ Cardinality(S) <= Cardinality(WorkerIds)
    BY <1>1, FS_Subset
  <1>3. Cardinality(S) \in Nat
    BY <1>2, FS_CardinalityType
  <1> QED
    BY <1>1, <1>2, <1>3, PoolAssumption

LEMMA PoolInvInit == PoolInit => PoolInv
  <1> SUFFICES ASSUME PoolInit
               PROVE  PoolInv
    OBVIOUS
  <1> USE PoolAssumption
  <1>1. PoolTypeOK
    BY DEF PoolInit, PoolTypeOK
  <1>2. OneLaunches /\ Published
    BY DEF PoolInit, OneLaunches, Published
  <1>3. WorkerRuns /\ Quiet
    BY DEF PoolInit, WorkerRuns, Quiet, WorkerIds
  <1>4. completed = Cardinality(Counted)
    <2>1. Counted = {}
      BY DEF PoolInit, Counted, WorkerIds
    <2> QED
      BY <2>1, FS_EmptySet DEF PoolInit
  <1> QED
    BY <1>1, <1>2, <1>3, <1>4 DEF PoolInv, PoolInit

\* Only the holder of launchMutex is inside launch().
LEMMA OneInside ==
  ASSUME OneLaunches, NEW l \in Launchers, NEW k \in Launchers, pc[l] # "idle", k # l
  PROVE  pc[k] = "idle"
  BY DEF OneLaunches

LEMMA EnterStep ==
  ASSUME PoolInv, NEW l \in Launchers, Enter(l)
  PROVE  PoolInv'
  <1> USE DEF PoolInv, Enter, batch
  <1>1. PoolTypeOK'
    <2>1. elements' \in [Launchers -> Nat]
      BY PoolAssumption DEF PoolTypeOK
    <2>2. worker' \in [WorkerIds -> {"absent", "checking", "asleep", "running", "exited"}]
      BY DEF PoolTypeOK
    <2> QED
      BY <2>1, <2>2 DEF PoolTypeOK
  <1>2. OneLaunches'
    <2>1. \A k \in Launchers : pc[k] = "idle"
      BY PoolAssumption DEF OneLaunches
    <2>2. pc'[l] = "locked" /\ \A k \in Launchers : k # l => pc'[k] = pc[k]
      BY DEF PoolTypeOK
    <2>3. launchMutex' = l
      OBVIOUS
    <2> QED
      BY <2>1, <2>2, <2>3 DEF OneLaunches
  <1>3. Published'
    BY DEF PoolTypeOK, OneLaunches, Published
  <1>4. WorkerRuns'
    BY DEF PoolTypeOK, WorkerRuns
  <1>5. Quiet'
    <2>1. \A k \in Launchers : pc[k] = "idle"
      BY PoolAssumption DEF OneLaunches
    <2>2. \A j \in 0 .. (T - 1) : j < size => runs[j] = 1
      BY <2>1 DEF Quiet
    <2> QED
      BY <2>2 DEF Quiet
  <1>6. Counted' = Counted
    BY DEF Counted
  <1> QED
    BY <1>1, <1>2, <1>3, <1>4, <1>5, <1>6

LEMMA PostStep ==
  ASSUME PoolInv, NEW l \in Launchers, Post(l)
  PROVE  PoolInv'
  <1> USE DEF PoolInv, Post, pool
  <1>1. elements[l] \in Nat /\ JobCount(elements[l]) \in 0 .. T
        /\ JobCount(elements[l]) > 0
    <2>1. elements[l] \in Nat
      BY DEF PoolTypeOK
    <2>2. JobCount(elements[l]) \in 0 .. RequestedThreads(elements[l])
      BY <2>1, JobCountIs DEF IsJobCount
    <2>3. RequestedThreads(elements[l]) \in Nat /\ RequestedThreads(elements[l]) <= T
      BY <2>1, ChunkCovers
    <2> QED
      BY <2>1, <2>2, <2>3, PoolAssumption DEF Published
  <1>2. PoolTypeOK'
    BY <1>1, PoolAssumption DEF PoolTypeOK
  <1>3. OneLaunches'
    BY DEF PoolTypeOK, OneLaunches
  <1>4. \A k \in Launchers : k # l => pc[k] = "idle"
    BY DEF OneLaunches
  <1>5. Published'
    BY <1>1, <1>4, PoolAssumption DEF PoolTypeOK, Published
  <1>6. WorkerRuns'
    <2>1. state = "live" => \A w \in WorkerIds : worker[w] # "running"
      <3> SUFFICES ASSUME NEW w \in WorkerIds, worker[w] = "running"
                   PROVE  FALSE
        OBVIOUS
      <3>1. runs[w] = 0 /\ w < size /\ w \in 0 .. (T - 1)
        BY DEF WorkerRuns, WorkerIds
      <3>2. \A k \in Launchers : pc[k] \in {"idle", "locked", "done"}
        BY <1>4
      <3> QED
        BY <3>1, <3>2 DEF Quiet
    <2>2. \A w \in WorkerIds : w \in 0 .. (T - 1) /\ seen[w] \in Nat
      BY DEF PoolTypeOK, WorkerIds
    <2>3. state = "live"
      BY DEF PoolTypeOK
    <2>4. generation \in Nat
      BY DEF PoolTypeOK
    <2> QED
      BY <2>1, <2>2, <2>3, <2>4 DEF WorkerRuns
  <1>7. Quiet'
    BY DEF PoolTypeOK, Quiet
  <1>8. completed' = Cardinality(Counted')
    <2>1. Counted' = {}
      BY DEF Counted, WorkerIds
    <2> QED
      BY <2>1, FS_EmptySet
  <1> QED
    BY <1>2, <1>3, <1>4, <1>5, <1>6, <1>7, <1>8 DEF PoolTypeOK

LEMMA NotifyStep ==
  ASSUME PoolInv, NEW l \in Launchers, Notify(l)
  PROVE  PoolInv'
  <1> USE DEF PoolInv, Notify, WakeAll, batch
  <1>1. PoolTypeOK'
    BY DEF PoolTypeOK
  <1>2. OneLaunches'
    BY DEF PoolTypeOK, OneLaunches
  <1>3. Published'
    BY DEF PoolTypeOK, Published
  <1>4. WorkerRuns'
    BY DEF PoolTypeOK, WorkerRuns
  <1>5. Quiet'
    BY DEF PoolTypeOK, Quiet
  <1>6. Counted' = Counted
    BY DEF Counted
  <1> QED
    BY <1>1, <1>2, <1>3, <1>4, <1>5, <1>6 DEF PoolTypeOK

LEMMA RunOwnStep ==
  ASSUME PoolInv, NEW l \in Launchers, RunOwn(l)
  PROVE  PoolInv'
  <1> USE DEF PoolInv, RunOwn, pool
  <1>1. 0 \in 0 .. (T - 1) /\ runs[0] = 0
    BY PoolAssumption DEF Published
  <1>2. PoolTypeOK'
    BY <1>1 DEF PoolTypeOK
  <1>3. runs'[0] = 1 /\ \A j \in 0 .. (T - 1) : j # 0 => runs'[j] = runs[j]
    BY <1>1 DEF PoolTypeOK
  <1>4. OneLaunches'
    BY DEF PoolTypeOK, OneLaunches
  <1>5. \A k \in Launchers : k # l => pc[k] = "idle"
    BY DEF OneLaunches
  <1>6. Published'
    BY <1>3, <1>5 DEF PoolTypeOK, Published
  <1>7. \A w \in WorkerIds : w \in 0 .. (T - 1) /\ w # 0
    BY DEF WorkerIds
  <1>8. WorkerRuns'
    BY <1>3, <1>7 DEF WorkerRuns
  <1>9. Quiet'
    BY <1>3 DEF PoolTypeOK, Quiet
  <1>10. Counted' = Counted
    BY <1>3, <1>7 DEF Counted
  <1>11. size > 0
    BY DEF Published
  <1> QED
    BY <1>2, <1>3, <1>4, <1>6, <1>8, <1>9, <1>10, <1>11 DEF PoolTypeOK

\* When every other job is counted, every job has run.
LEMMA AllCounted ==
  ASSUME PoolInv, completed = size - 1, size > 0, runs[0] = 1
  PROVE  \A j \in 0 .. (T - 1) : j < size => runs[j] = 1
  <1> DEFINE All == 1 .. (size - 1)
  <1>1. size \in 0 .. T
    BY DEF PoolInv, PoolTypeOK
  <1>2. IsFiniteSet(All) /\ Cardinality(All) = size - 1
    BY <1>1, FS_Interval
  <1>3. Counted \in SUBSET All
    BY <1>1 DEF Counted, WorkerIds
  <1>4. Cardinality(Counted) = size - 1
    BY DEF PoolInv
  <1> HIDE DEF All
  <1>5. All = Counted
    BY <1>2, <1>3, <1>4, FS_Subset
  <1> QED
    BY <1>1, <1>5 DEF Counted, All

LEMMA WaitStep ==
  ASSUME PoolInv, NEW l \in Launchers, Wait(l)
  PROVE  PoolInv'
  <1> USE DEF PoolInv, Wait, pool, batch
  <1>1. PoolTypeOK'
    BY DEF PoolTypeOK
  <1>2. OneLaunches'
    BY DEF PoolTypeOK, OneLaunches
  <1>3. Published'
    BY DEF PoolTypeOK, Published
  <1>4. WorkerRuns'
    BY DEF WorkerRuns
  <1>5. Quiet'
    <2>1. CASE completed = size - 1
      BY <2>1, AllCounted DEF Published, Quiet
    <2>2. CASE completed # size - 1
      <3>1. pc'[l] = "blocked"
        BY <2>2 DEF PoolTypeOK
      <3> QED
        BY <3>1 DEF Quiet
    <2> QED
      BY <2>1, <2>2
  <1>6. Counted' = Counted
    BY DEF Counted
  <1> QED
    BY <1>1, <1>2, <1>3, <1>4, <1>5, <1>6 DEF PoolTypeOK

LEMMA ReturnStep ==
  ASSUME PoolInv, NEW l \in Launchers, Return(l)
  PROVE  PoolInv'
  <1> USE DEF PoolInv, Return, pool, batch
  <1>1. PoolTypeOK'
    BY DEF PoolTypeOK
  <1>2. \A k \in Launchers : k # l => pc[k] = "idle"
    BY DEF OneLaunches
  <1>3. OneLaunches'
    BY <1>2, PoolAssumption DEF PoolTypeOK, OneLaunches
  <1>4. Published'
    BY DEF PoolTypeOK, Published
  <1>5. WorkerRuns'
    BY DEF WorkerRuns
  <1>6. Quiet'
    <2>1. \A k \in Launchers : pc[k] \in {"idle", "locked", "done"}
      BY <1>2
    <2> QED
      BY <2>1 DEF Quiet
  <1>7. Counted' = Counted
    BY DEF Counted
  <1> QED
    BY <1>1, <1>2, <1>3, <1>4, <1>5, <1>6, <1>7 DEF PoolTypeOK

LEMMA CheckStep ==
  ASSUME PoolInv, NEW w \in WorkerIds, Check(w)
  PROVE  PoolInv'
  <1> USE DEF PoolInv, Check, launcher, batch
  <1>1. PoolTypeOK'
    BY DEF PoolTypeOK
  <1>2. OneLaunches'
    BY DEF OneLaunches
  <1>3. Published'
    BY DEF Published
  <1>4. ASSUME NEW v \in WorkerIds
        PROVE  /\ seen'[v] <= generation'
               /\ worker'[v] = "running" =>
                    /\ state' = "live" /\ seen'[v] = generation'
                    /\ v < size' /\ runs'[v] = 0
               /\ state' = "live" /\ v < size' =>
                    /\ seen'[v] = generation' /\ worker'[v] # "running" => runs'[v] = 1
                    /\ seen'[v] # generation' => runs'[v] = 0
    <2>1. CASE v # w
      BY <2>1 DEF PoolTypeOK, WorkerRuns
    <2>2. CASE v = w
      <3>0. v \in Int /\ size \in Int /\ generation \in Int /\ seen[v] \in Int
        BY DEF PoolTypeOK, WorkerIds
      <3>1. CASE state # "live"
        BY <2>2, <3>1 DEF PoolTypeOK, WorkerRuns
      <3>2. CASE state = "live" /\ generation = seen[v]
        BY <2>2, <3>2 DEF PoolTypeOK, WorkerRuns
      <3>3. CASE state = "live" /\ generation # seen[v]
        <4>1. seen'[v] = generation
          BY <2>2, <3>3 DEF PoolTypeOK
        <4>2. worker'[v] = IF v >= size THEN "checking" ELSE "running"
          BY <2>2, <3>3 DEF PoolTypeOK
        <4>3. v < size => runs[v] = 0
          BY <3>3 DEF WorkerRuns
        <4> QED
          BY <3>0, <3>3, <4>1, <4>2, <4>3
      <3> QED
        BY <3>1, <3>2, <3>3
    <2> QED
      BY <2>1, <2>2
  <1>5. WorkerRuns'
    BY <1>4 DEF WorkerRuns
  <1>6. Quiet'
    BY DEF Quiet
  <1>7. Counted' = Counted
    BY DEF Counted
  <1> QED
    BY <1>1, <1>2, <1>3, <1>5, <1>6, <1>7

LEMMA FinishJobStep ==
  ASSUME PoolInv, NEW w \in WorkerIds, FinishJob(w)
  PROVE  PoolInv'
  <1> USE DEF PoolInv, FinishJob
  <1>1. /\ w \in 0 .. (T - 1) /\ w # 0
        /\ state = "live" /\ seen[w] = generation /\ w < size /\ runs[w] = 0
    BY DEF WorkerRuns, WorkerIds
  <1>2. runs'[w] = 1 /\ \A j \in 0 .. (T - 1) : j # w => runs'[j] = runs[j]
    BY <1>1 DEF PoolTypeOK
  <1>3. completed' = Cardinality(Counted')
    <2>1. Counted' = Counted \cup {w}
      BY <1>1, <1>2 DEF Counted, WorkerIds
    <2>2. w \notin Counted
      BY <1>1 DEF Counted
    <2>3. IsFiniteSet(Counted)
      BY CountedFinite DEF Counted
    <2>4. Cardinality(Counted \cup {w}) = Cardinality(Counted) + 1
      BY <2>2, <2>3, FS_AddElement
    <2> QED
      BY <2>1, <2>4
  <1>4. PoolTypeOK'
    <2>1. completed' \in 0 .. T
      <3>1. Counted' \in SUBSET WorkerIds
        BY DEF Counted
      <3> QED
        BY <1>3, <3>1, CountedFinite, PoolAssumption
    <2>2. runs' \in [0 .. (T - 1) -> Nat]
      <3>1. runs' = [runs EXCEPT ![w] = runs[w] + 1] /\ runs[w] + 1 = 1
        BY <1>1
      <3> QED
        BY <1>1, <3>1 DEF PoolTypeOK
    <2>3. pc' \in [Launchers ->
                     {"idle", "locked", "posted", "own", "waiting", "blocked", "done"}]
      BY DEF PoolTypeOK
    <2> QED
      BY <2>1, <2>2, <2>3 DEF PoolTypeOK
  <1>5. \A l \in Launchers : pc'[l] = pc[l] \/ (pc[l] = "blocked" /\ pc'[l] = "waiting")
    OBVIOUS
  <1>6. OneLaunches'
    BY <1>5 DEF OneLaunches
  <1>7. Published'
    BY <1>1, <1>2, <1>5, PoolAssumption DEF Published
  <1>8. WorkerRuns'
    <2>1. \A v \in WorkerIds : v \in 0 .. (T - 1)
      BY DEF WorkerIds
    <2>2. \A v \in WorkerIds : v # w => worker'[v] = worker[v]
      BY DEF PoolTypeOK
    <2>3. worker'[w] = "checking"
      BY DEF PoolTypeOK
    <2> QED
      BY <1>1, <1>2, <2>1, <2>2, <2>3 DEF WorkerRuns
  <1>9. Quiet'
    <2>1. ~ \A l \in Launchers : pc[l] \in {"idle", "locked", "done"}
      BY <1>1 DEF Quiet
    <2>2. ~ \A l \in Launchers : pc'[l] \in {"idle", "locked", "done"}
      BY <1>5, <2>1
    <2> QED
      BY <2>2 DEF Quiet
  <1>10. \A j \in 0 .. (T - 1) : j >= size' => runs'[j] = 0
    BY <1>1, <1>2 DEF PoolTypeOK
  <1> QED
    BY <1>1, <1>3, <1>4, <1>6, <1>7, <1>8, <1>9, <1>10

LEMMA SpuriousStep ==
  ASSUME PoolInv, Spurious
  PROVE  PoolInv'
  <1> USE DEF PoolInv, Spurious, batch
  <1>1. \A l \in Launchers : pc'[l] = pc[l] \/ (pc[l] = "blocked" /\ pc'[l] = "waiting")
    BY DEF PoolTypeOK
  <1>2. \A w \in WorkerIds : worker'[w] = "running" <=> worker[w] = "running"
    BY DEF PoolTypeOK
  <1>3. PoolTypeOK'
    BY DEF PoolTypeOK
  <1>4. OneLaunches'
    BY <1>1 DEF OneLaunches
  <1>5. Published'
    BY <1>1 DEF Published
  <1>6. WorkerRuns'
    BY <1>2 DEF WorkerRuns
  <1>7. Quiet'
    BY <1>1 DEF Quiet
  <1>8. Counted' = Counted
    BY DEF Counted
  <1>9. (\A l \in Launchers : pc[l] = "idle") => \A l \in Launchers : pc'[l] = "idle"
    BY <1>1
  <1> QED
    BY <1>3, <1>4, <1>5, <1>6, <1>7, <1>8, <1>9

LEMMA StopStep ==
  ASSUME PoolInv, Stop \/ NotifyStop \/ Join
  PROVE  PoolInv'
  <1> USE DEF PoolInv, Stop, NotifyStop, Join, WakeAll, launcher, pool, batch
  <1>1. PoolTypeOK'
    BY DEF PoolTypeOK
  <1>2. OneLaunches' /\ Published' /\ Quiet'
    BY DEF OneLaunches, Published, Quiet
  <1>3. \A w \in WorkerIds : worker[w] # "running"
    <2> SUFFICES ASSUME NEW w \in WorkerIds, worker[w] = "running"
                 PROVE  FALSE
      OBVIOUS
    <2>1. state = "live" /\ w < size /\ runs[w] = 0 /\ w \in 0 .. (T - 1)
      BY DEF WorkerRuns, WorkerIds
    <2>2. \A l \in Launchers : pc[l] = "idle"
      BY <2>1
    <2> QED
      BY <2>1, <2>2 DEF Quiet
  <1>4. state' # "live" /\ generation <= generation' /\ seen' = seen
    BY DEF PoolTypeOK
  <1>5. \A w \in WorkerIds : worker'[w] # "running"
    BY <1>3 DEF PoolTypeOK
  <1>6. WorkerRuns'
    <2>1. \A w \in WorkerIds : seen[w] \in Nat
      BY DEF PoolTypeOK
    <2>2. generation \in Nat /\ generation' \in Nat
      BY <1>1 DEF PoolTypeOK
    <2> QED
      BY <1>4, <1>5, <2>1, <2>2 DEF WorkerRuns
  <1>7. Counted' = Counted
    BY DEF Counted
  <1>8. \A l \in Launchers : pc'[l] = "idle"
    OBVIOUS
  <1> QED
    BY <1>1, <1>2, <1>6, <1>7, <1>8

LEMMA PoolInvKept == PoolInv /\ [PoolNext]_poolVars => PoolInv'
  <1> SUFFICES ASSUME PoolInv, [PoolNext]_poolVars
               PROVE  PoolInv'
    OBVIOUS
  <1>1. CASE UNCHANGED poolVars
    <2>1. Counted' = Counted
      BY <1>1 DEF poolVars, Counted
    <2> QED
      BY <1>1, <2>1 DEF poolVars, PoolInv, PoolTypeOK, OneLaunches, Published, WorkerRuns, Quiet
  <1>2. ASSUME NEW l \in Launchers, Enter(l) \/ LaunchStep(l)
        PROVE  PoolInv'
    BY <1>2, EnterStep, PostStep, NotifyStep, RunOwnStep, WaitStep, ReturnStep
    DEF LaunchStep
  <1>3. ASSUME NEW w \in WorkerIds, Check(w) \/ FinishJob(w)
        PROVE  PoolInv'
    BY <1>3, CheckStep, FinishJobStep
  <1>4. CASE Spurious
    BY <1>4, SpuriousStep
  <1>5. CASE Stop \/ NotifyStop \/ Join
    BY <1>5, StopStep
  <1> QED
    BY <1>1, <1>2, <1>3, <1>4, <1>5 DEF PoolNext

\* Whatever is launched and however the threads are scheduled.
LEMMA PoolInvAlways == PoolSpec => []PoolInv
  <1> QED
    BY PoolInvInit, PoolInvKept, PTL DEF PoolSpec

-----------------------------------------------------------------------------
\* The variables keep their types: no more jobs are counted than threads exist,
\* for every number of threads and of launches.
THEOREM PoolTypeCorrect == PoolSpec => []PoolTypeOK
  <1>1. PoolInv => PoolTypeOK
    BY DEF PoolInv
  <1> QED
    BY <1>1, PoolInvAlways, PTL

\* A worker only reads jobs of the launch that is still inside launch(), so the
\* pointer into its stack is good (CPUState::workerLoop).
THEOREM JobsAlwaysStable == PoolSpec => []JobsStable
  <1>1. PoolInv => JobsStable
    <2> SUFFICES ASSUME PoolInv, NEW w \in WorkerIds, worker[w] = "running"
                 PROVE  /\ seen[w] = generation /\ w < size
                        /\ \E l \in Launchers :
                             pc[l] \in {"posted", "own", "waiting", "blocked"}
      BY DEF JobsStable
    <2>1. seen[w] = generation /\ w < size /\ runs[w] = 0 /\ w \in 0 .. (T - 1)
      BY DEF PoolInv, WorkerRuns, WorkerIds
    <2>2. PICK l \in Launchers : pc[l] \notin {"idle", "locked", "done"}
      BY <2>1 DEF PoolInv, Quiet
    <2>3. pc[l] \in {"posted", "own", "waiting", "blocked"}
      BY <2>2 DEF PoolInv, PoolTypeOK
    <2> QED
      BY <2>1, <2>3
  <1> QED
    BY <1>1, PoolInvAlways, PTL

\* A launch that is over has computed every element of its output in exactly
\* one job, which ran once, for every size, thread count and vector width.
THEOREM EveryElementOnce == PoolSpec => []ElementsOnce
  <1>1. PoolInv => ElementsOnce
    <2> SUFFICES ASSUME PoolInv, NEW l \in Launchers, pc[l] = "done",
                        NEW e \in 0 .. (elements[l] - 1)
                 PROVE  \E j \in 0 .. (T - 1) :
                          Computed(elements[l], e) = {j} /\ runs[j] = 1
      BY DEF ElementsOnce
    <2> DEFINE n == elements[l]
    <2>1. n \in Nat /\ size = JobCount(n) /\ size \in 0 .. T
      BY DEF PoolInv, PoolTypeOK, Published
    <2>2. \A j \in 0 .. (T - 1) : j < size => runs[j] = 1
      <3>1. \A k \in Launchers : pc[k] \in {"idle", "locked", "done"}
        BY DEF PoolInv, OneLaunches
      <3> QED
        BY <3>1 DEF PoolInv, Quiet
    <2> HIDE DEF n
    <2>3. e \in 0 .. (n - 1)
      BY DEF n
    <2>4. PICK j \in 0 .. (JobCount(n) - 1) :
            /\ JobBegin(n, j) <= e /\ e < JobEnd(n, j)
            /\ \A i \in Nat : JobBegin(n, i) <= e /\ e < JobEnd(n, i) => i = j
      BY <2>1, <2>3, JobsCover
    <2>5. j \in 0 .. (T - 1) /\ j < size
      BY <2>1, <2>4, PoolAssumption
    <2>6. runs[j] = 1
      BY <2>2, <2>5
    <2>7. Computed(n, e) = {j}
      BY <2>4, <2>5, <2>6 DEF Computed
    <2> QED
      BY <2>5, <2>6, <2>7 DEF n
  <1> QED
    BY <1>1, PoolInvAlways, PTL

-----------------------------------------------------------------------------
(* CompileWorker: the pipes of a child, the invariant.                     *)

USE DEF client, workerVars, Garbled

\* The lock: one caller at a time is in compile, with a child and an id.
OneCompiles ==
  /\ \A c, d \in Callers : phase[c] # "idle" /\ phase[d] # "idle" => c = d
  /\ \A c \in Callers : phase[c] # "idle" => process.state # "none" /\ request[c] # Garbled

\* A success repeats the id of the request that was compiled, and only a child
\* that died cuts an answer.
AnswersTrue ==
  \A i \in 1 .. Len(process.stdout) :
    /\ process.stdout[i].ok => process.stdout[i].id = process.stdout[i].of
    /\ process.stdout[i].cut => process.state = "dead"

\* The request r is on its way to the child, in work, or answered; nothing else is.
Pipes(p, r) ==
  \/ p.stdin = <<r>> /\ p.busy = <<>> /\ p.stdout = <<>>
  \/ p.stdin = <<>> /\ p.busy = <<r>> /\ p.stdout = <<>>
  \/ /\ p.stdin = <<>> /\ p.busy = <<>> /\ Len(p.stdout) = 1
     /\ p.stdout[1].id = r /\ ~p.stdout[1].cut

\* Nothing is there that can make a compile raise: no child, a dead one that
\* nobody talks to, or one whose pipes hold the request in progress and no more.
Clean ==
  \/ process.state = "none"
  \/ process.state = "dead" /\ ~Locked
  \/ /\ process.state = "up" /\ ~process.cut
     /\ \/ /\ \A c \in Callers : phase[c] # "select"
           /\ process.stdin = <<>> /\ process.busy = <<>> /\ process.stdout = <<>>
        \/ \E c \in Callers : phase[c] = "select" /\ Pipes(process, request[c])

\* What is not clean has cost no compile yet.
Owed == failures <= faults /\ (~Clean => failures < faults)

WorkerInv == WorkerTypeOK /\ OneCompiles /\ AnswersTrue /\ Owed

-----------------------------------------------------------------------------
(* Types.                                                                  *)

Answers == [id : Lines, of : Lines, ok : BOOLEAN, cut : BOOLEAN]

Processes == [state : {"none", "up", "hung", "dead"}, stdin : Seq(Lines),
              cut : BOOLEAN, busy : Seq(Lines), last : Lines, stdout : Seq(Answers)]

\* A process is what WorkerTypeOK says.
LEMMA ProcessType ==
  /\ WorkerTypeOK => process \in Processes
  /\ 0 \in Lines /\ Child \in Processes /\ None \in Processes
  /\ Child.state = "up" /\ ~Child.cut /\ Child.stdin = <<>> /\ Child.busy = <<>> /\ Child.stdout = <<>>
  /\ None.state = "none" /\ None.stdout = <<>>
  <1>1. 0 \in Lines
    BY WorkerAssumption DEF Lines
  <1>2. WorkerTypeOK => process \in Processes
    BY DEF WorkerTypeOK, Processes, Answers
  <1>3. /\ Child \in Processes
        /\ Child.state = "up" /\ ~Child.cut /\ Child.stdin = <<>> /\ Child.busy = <<>> /\ Child.stdout = <<>>
    BY <1>1 DEF Processes, Child
  <1>4. None \in Processes /\ None.state = "none" /\ None.stdout = <<>>
    BY <1>3 DEF Processes, None
  <1> QED BY <1>1, <1>2, <1>3, <1>4

\* A pipe with nothing in it ...
LEMMA NoLine == <<>> \in Seq(Lines)
  OBVIOUS

\* ... and one with one line.
LEMMA OneLine ==
  ASSUME NEW s \in Seq(Lines), NEW r, s = <<r>>
  PROVE  Head(s) = r /\ Tail(s) = <<>>
  <1>1. Len(s) = 1 /\ s[1] = r /\ s # <<>>
    OBVIOUS
  <1>2. Head(s) = r
    BY <1>1
  <1>3. Tail(s) \in Seq(Lines) /\ Len(Tail(s)) = 0
    BY <1>1, HeadTailProperties
  <1> QED BY <1>2, <1>3, EmptySeq

\* What Written does to a process.
LEMMA WrittenType ==
  ASSUME NEW p \in Processes, NEW line \in Lines
  PROVE  /\ Written(p, line) \in Processes
         /\ Written(p, line).stdin = Append(p.stdin, IF p.cut THEN Garbled ELSE line)
         /\ ~Written(p, line).cut
         /\ Written(p, line).state = p.state /\ Written(p, line).busy = p.busy
         /\ Written(p, line).stdout = p.stdout
  <1> DEFINE q == Append(p.stdin, IF p.cut THEN Garbled ELSE line)
  <1>1. q \in Seq(Lines)
    BY ProcessType, AppendProperties DEF Processes
  <1>2. Written(p, line) = [p EXCEPT !.stdin = q, !.cut = FALSE]
    BY DEF Written
  <1> HIDE DEF q
  <1>3. /\ Written(p, line) \in Processes /\ Written(p, line).stdin = q /\ Written(p, line).cut = FALSE
        /\ Written(p, line).state = p.state /\ Written(p, line).busy = p.busy
        /\ Written(p, line).stdout = p.stdout
    BY <1>1, <1>2 DEF Processes
  <1> QED BY <1>3 DEF q

\* An answer of the child is an answer.
LEMMA ResultType ==
  ASSUME WorkerTypeOK, NEW line \in Lines, NEW ok \in BOOLEAN
  PROVE  /\ Result(line, ok) \in Answers /\ ~Result(line, ok).cut
         /\ Result(line, ok).ok => Result(line, ok).id = Result(line, ok).of
         /\ line # Garbled => Result(line, ok).id = line
         /\ [Result(line, ok) EXCEPT !.cut = TRUE] \in Answers
         /\ [Result(line, ok) EXCEPT !.cut = TRUE].ok = Result(line, ok).ok
  <1>1. process.last \in Lines
    BY ProcessType DEF Processes
  <1> QED BY <1>1 DEF Result, Answers

\* The first answer that is there, and what is left behind it.
LEMMA ReceivedType ==
  ASSUME WorkerTypeOK, process.stdout # <<>>, Consume
  PROVE  /\ Received = process.stdout[1] /\ Received \in Answers /\ 1 \in 1 .. Len(process.stdout)
         /\ process' \in Processes
         /\ process'.state = process.state /\ process'.cut = process.cut
         /\ process'.stdin = process.stdin /\ process'.busy = process.busy
         /\ Len(process'.stdout) = Len(process.stdout) - 1
         /\ \A i \in 1 .. Len(process'.stdout) :
              i + 1 \in 1 .. Len(process.stdout) /\ process'.stdout[i] = process.stdout[i + 1]
  <1>1. process \in Processes /\ process.stdout \in Seq(Answers)
    BY ProcessType DEF Processes
  <1>2. /\ Tail(process.stdout) \in Seq(Answers) /\ Len(Tail(process.stdout)) = Len(process.stdout) - 1
        /\ \A i \in 1 .. Len(Tail(process.stdout)) : Tail(process.stdout)[i] = process.stdout[i + 1]
        /\ Head(process.stdout) \in Answers /\ Head(process.stdout) = process.stdout[1]
        /\ Len(process.stdout) \in Nat \ {0}
    BY <1>1, HeadTailProperties, EmptySeq, LenProperties
  <1> DEFINE tail == Tail(process.stdout)
  <1> HIDE DEF tail
  <1>3. process' = [process EXCEPT !.stdout = tail]
    BY DEF Consume, tail
  <1>4. tail \in Seq(Answers)
    BY <1>2 DEF tail
  <1>5. /\ process' \in Processes /\ process'.stdout = tail
        /\ process'.state = process.state /\ process'.cut = process.cut
        /\ process'.stdin = process.stdin /\ process'.busy = process.busy
    BY <1>1, <1>3, <1>4 DEF Processes
  <1> QED BY <1>2, <1>5 DEF Received, tail

-----------------------------------------------------------------------------
(* The caller.                                                             *)

\* While c is in compile, a clean child holds its request and no more.
LEMMA CleanWhile ==
  ASSUME OneCompiles, NEW c \in Callers, phase[c] \in {"send", "select"}, Clean
  PROVE  /\ process.state = "up" /\ ~process.cut
         /\ phase[c] = "send" =>
              process.stdin = <<>> /\ process.busy = <<>> /\ process.stdout = <<>>
         /\ phase[c] = "select" => Pipes(process, request[c])
  <1>1. process.state # "none" /\ Locked
    BY DEF OneCompiles, Locked
  <1>2. process.state = "up" /\ ~process.cut
    BY <1>1 DEF Clean
  <1>3. ASSUME NEW d \in Callers, phase[d] = "select" PROVE d = c
    BY <1>3 DEF OneCompiles
  <1> QED BY <1>1, <1>2, <1>3 DEF Clean

\* Whoever leaves compile leaves the lock.
LEMMA EndFree ==
  ASSUME WorkerTypeOK, OneCompiles, NEW c \in Callers, phase[c] # "idle", End(c)
  PROVE  /\ phase' \in [Callers -> {"idle", "send", "select"}]
         /\ \A d \in Callers : phase'[d] = "idle"
  BY DEF WorkerTypeOK, OneCompiles, End

\* A compile that raises has met a child with a past, and takes it away.
LEMMA RaiseStep ==
  ASSUME WorkerInv, NEW c \in Callers, phase[c] # "idle", ~Clean, End(c), failures' = failures + 1,
         UNCHANGED <<request, answer, nextId, faults>>,
         process' \in Processes, process'.state \in {"none", "dead"}, AnswersTrue'
  PROVE  WorkerInv'
  <1>1. /\ phase' \in [Callers -> {"idle", "send", "select"}]
        /\ \A d \in Callers : phase'[d] = "idle"
    BY EndFree DEF WorkerInv
  <1>2. failures < faults /\ failures \in Nat /\ faults \in 0 .. MaxFaults
    BY DEF WorkerInv, Owed, WorkerTypeOK
  <1>3. WorkerTypeOK'
    BY <1>1, <1>2 DEF WorkerInv, WorkerTypeOK, Processes, Answers
  <1>4. OneCompiles'
    BY <1>1 DEF OneCompiles
  <1>5. Clean'
    BY <1>1 DEF Clean, Locked
  <1>6. Owed'
    BY <1>2, <1>5 DEF Owed
  <1> QED BY <1>3, <1>4, <1>6 DEF WorkerInv

LEMMA DiscardStep ==
  ASSUME WorkerInv, NEW c \in Callers,
         SendFails(c) \/ TimeOut(c) \/ EndOfFile(c) \/ Desynchronized(c)
  PROVE  WorkerInv'
  <1>1. /\ phase[c] \in {"send", "select"} /\ End(c) /\ failures' = failures + 1 /\ process' = None
        /\ UNCHANGED <<request, answer, nextId, faults>>
    BY DEF SendFails, TimeOut, EndOfFile, Desynchronized, Discard
  <1>2. ~Clean
    <2> SUFFICES ASSUME Clean PROVE FALSE
      OBVIOUS
    <2>1. /\ process.state = "up"
          /\ phase[c] = "select" => Pipes(process, request[c])
      BY <1>1, CleanWhile DEF WorkerInv
    <2>2. Desynchronized(c)
      BY <2>1 DEF SendFails, TimeOut, EndOfFile
    <2>3. phase[c] = "select" /\ process.stdout # <<>> /\ Received.id # request[c]
      BY <2>2 DEF Desynchronized, Matches
    <2>4. Head(process.stdout) = process.stdout[1] /\ Len(process.stdout) # 0
      BY <2>3, ProcessType, EmptySeq DEF WorkerInv, Processes
    <2> QED BY <2>1, <2>3, <2>4 DEF Pipes, Received
  <1>3. process' \in Processes /\ process'.state = "none" /\ AnswersTrue'
    BY <1>1, ProcessType DEF AnswersTrue
  <1> QED BY <1>1, <1>2, <1>3, RaiseStep

\* What was read from the pipe leaves true answers.
LEMMA ConsumeTrue ==
  ASSUME WorkerTypeOK, AnswersTrue, process.stdout # <<>>, Consume
  PROVE  AnswersTrue'
  <1>1. /\ process'.state = process.state
        /\ \A i \in 1 .. Len(process'.stdout) :
             i + 1 \in 1 .. Len(process.stdout) /\ process'.stdout[i] = process.stdout[i + 1]
    BY ReceivedType
  <1> QED BY <1>1 DEF AnswersTrue

LEMMA TruncatedStep ==
  ASSUME WorkerInv, NEW c \in Callers, Truncated(c)
  PROVE  WorkerInv'
  <1>1. /\ phase[c] = "select" /\ process.stdout # <<>> /\ Received.cut /\ Consume
        /\ End(c) /\ failures' = failures + 1 /\ UNCHANGED <<request, answer, nextId, faults>>
    BY DEF Truncated
  <1>2. /\ Received = process.stdout[1] /\ 1 \in 1 .. Len(process.stdout)
        /\ process' \in Processes /\ process'.state = process.state
    BY <1>1, ReceivedType DEF WorkerInv
  <1>3. process.state = "dead"
    BY <1>1, <1>2 DEF WorkerInv, AnswersTrue
  <1>4. ~Clean
    BY <1>1, <1>3, CleanWhile DEF WorkerInv
  <1>5. AnswersTrue'
    BY <1>1, ConsumeTrue DEF WorkerInv
  <1> QED BY <1>1, <1>2, <1>3, <1>4, <1>5, RaiseStep

LEMMA AnsweredStep ==
  ASSUME WorkerInv, NEW c \in Callers, Answered(c)
  PROVE  WorkerInv'
  <1>1. /\ phase[c] = "select" /\ process.stdout # <<>> /\ Consume /\ End(c)
        /\ answer' = (IF Received.ok THEN [answer EXCEPT ![c] = Received.of] ELSE answer)
        /\ UNCHANGED <<request, nextId, faults, failures>>
    BY DEF Answered
  <1>2. /\ Received \in Answers /\ process' \in Processes
        /\ process'.state = process.state /\ process'.cut = process.cut
        /\ process'.stdin = process.stdin /\ process'.busy = process.busy
        /\ Len(process'.stdout) = Len(process.stdout) - 1
    BY <1>1, ReceivedType DEF WorkerInv
  <1>3. /\ phase' \in [Callers -> {"idle", "send", "select"}]
        /\ \A d \in Callers : phase'[d] = "idle"
    BY <1>1, EndFree DEF WorkerInv
  <1>4. WorkerTypeOK'
    <2>1. answer' \in [Callers -> Lines]
      BY <1>1, <1>2 DEF WorkerInv, WorkerTypeOK, Answers
    <2> QED BY <1>1, <1>2, <1>3, <2>1 DEF WorkerInv, WorkerTypeOK, Processes, Answers
  <1>5. OneCompiles'
    BY <1>3 DEF OneCompiles
  <1>6. AnswersTrue'
    BY <1>1, ConsumeTrue DEF WorkerInv
  <1>7. Clean => Clean'
    <2> SUFFICES ASSUME Clean PROVE Clean'
      OBVIOUS
    <2>1. process.state = "up" /\ ~process.cut /\ Pipes(process, request[c])
      BY <1>1, CleanWhile DEF WorkerInv
    <2>2. Len(process.stdout) = 1 /\ process.stdin = <<>> /\ process.busy = <<>>
      BY <1>1, <2>1 DEF Pipes
    <2>3. process'.stdout = <<>>
      BY <1>2, <2>2, EmptySeq DEF Processes
    <2> QED BY <1>2, <1>3, <2>1, <2>2, <2>3 DEF Clean
  <1>8. Owed'
    BY <1>1, <1>7 DEF WorkerInv, Owed
  <1> QED BY <1>4, <1>5, <1>6, <1>8 DEF WorkerInv

LEMMA StartStep ==
  ASSUME WorkerInv, NEW c \in Callers, Start(c)
  PROVE  WorkerInv'
  <1>1. /\ \A d \in Callers : phase[d] = "idle" /\ nextId < MaxRequests /\ nextId' = nextId + 1
        /\ process' = (IF Alive THEN process ELSE Child)
        /\ request' = [request EXCEPT ![c] = nextId + 1]
        /\ phase' = [phase EXCEPT ![c] = "send"]
        /\ UNCHANGED <<answer, faults, failures>>
    BY DEF Start, Locked
  <1>2. nextId + 1 \in Lines /\ nextId + 1 # 0 /\ nextId' = nextId + 1
    BY <1>1, WorkerAssumption DEF WorkerInv, WorkerTypeOK, Lines, Start
  <1>3. process' \in Processes /\ process'.state # "none"
    BY <1>1, ProcessType DEF WorkerInv, Alive
  <1>4. WorkerTypeOK'
    BY <1>1, <1>2, <1>3 DEF WorkerInv, WorkerTypeOK, Processes, Answers
  <1>5. /\ phase'[c] = "send" /\ request'[c] = nextId + 1
        /\ \A d \in Callers : d # c => phase'[d] = "idle"
    BY <1>1 DEF WorkerInv, WorkerTypeOK
  <1>6. OneCompiles'
    BY <1>2, <1>3, <1>5 DEF OneCompiles
  <1>7. AnswersTrue'
    <2>1. CASE Alive
      BY <1>1, <2>1 DEF WorkerInv, AnswersTrue
    <2>2. CASE ~Alive
      BY <1>1, <2>2, ProcessType DEF AnswersTrue
    <2> QED BY <2>1, <2>2
  <1>8. Clean => Clean'
    <2>1. CASE Alive
      BY <1>1, <1>5, <2>1 DEF Clean, Alive
    <2>2. CASE ~Alive
      BY <1>1, <1>5, <2>2, ProcessType DEF Clean
    <2> QED BY <2>1, <2>2
  <1>9. Owed'
    BY <1>1, <1>8 DEF WorkerInv, Owed
  <1> QED BY <1>4, <1>6, <1>7, <1>9 DEF WorkerInv

LEMMA SendStep ==
  ASSUME WorkerInv, NEW c \in Callers, Send(c)
  PROVE  WorkerInv'
  <1>1. /\ phase[c] = "send" /\ Alive /\ process' = Written(process, request[c])
        /\ phase' = [phase EXCEPT ![c] = "select"]
        /\ UNCHANGED <<request, answer, nextId, faults, failures>>
    BY DEF Send
  <1>2. process \in Processes /\ request[c] \in Lines
    BY ProcessType DEF WorkerInv, WorkerTypeOK
  <1>3. /\ process' \in Processes /\ ~process'.cut
        /\ process'.stdin = Append(process.stdin, IF process.cut THEN Garbled ELSE request[c])
        /\ process'.state = process.state /\ process'.busy = process.busy
        /\ process'.stdout = process.stdout
    BY <1>1, <1>2, WrittenType
  <1>4. WorkerTypeOK'
    BY <1>1, <1>3 DEF WorkerInv, WorkerTypeOK, Processes, Answers
  <1>5. \A d \in Callers : phase'[d] = IF d = c THEN "select" ELSE phase[d]
    BY <1>1 DEF WorkerInv, WorkerTypeOK
  <1>6. OneCompiles'
    BY <1>1, <1>3, <1>5 DEF WorkerInv, OneCompiles
  <1>7. AnswersTrue'
    BY <1>3 DEF WorkerInv, AnswersTrue
  <1>8. Clean => Clean'
    <2> SUFFICES ASSUME Clean PROVE Clean'
      OBVIOUS
    <2>1. /\ process.state = "up" /\ ~process.cut
          /\ process.stdin = <<>> /\ process.busy = <<>> /\ process.stdout = <<>>
      BY <1>1, CleanWhile DEF WorkerInv
    <2>2. process'.stdin = <<request[c]>>
      BY <1>3, <2>1
    <2> QED BY <1>1, <1>3, <1>5, <2>1, <2>2 DEF Clean, Pipes
  <1>9. Owed'
    BY <1>1, <1>8 DEF WorkerInv, Owed
  <1> QED BY <1>4, <1>6, <1>7, <1>9 DEF WorkerInv

\* A new fault pays for whatever it leaves behind.
LEMMA FaultStep ==
  ASSUME WorkerInv, faults < MaxFaults, faults' = faults + 1,
         UNCHANGED <<request, answer, nextId, failures>>,
         phase' \in [Callers -> {"idle", "send", "select"}],
         \A d \in Callers : phase'[d] # "idle" => phase'[d] = phase[d],
         process' \in Processes, process.state # "none" => process'.state # "none", AnswersTrue'
  PROVE  WorkerInv'
  <1>1. failures \in Nat /\ faults \in 0 .. MaxFaults /\ failures <= faults /\ MaxFaults \in Nat
    BY WorkerAssumption DEF WorkerInv, WorkerTypeOK, Owed
  <1>2. WorkerTypeOK'
    BY <1>1 DEF WorkerInv, WorkerTypeOK, Processes, Answers
  <1>3. OneCompiles'
    BY DEF WorkerInv, OneCompiles
  <1>4. Owed'
    BY <1>1 DEF Owed
  <1> QED BY <1>2, <1>3, <1>4 DEF WorkerInv

LEMMA InterruptStep ==
  ASSUME WorkerInv, NEW c \in Callers, Interrupt(c)
  PROVE  WorkerInv'
  <1>1. /\ phase[c] \in {"send", "select"} /\ faults < MaxFaults /\ faults' = faults + 1 /\ End(c)
        /\ UNCHANGED <<request, answer, nextId, failures>>
    BY DEF Interrupt
  <1>2. process \in Processes /\ request[c] \in Lines
    BY ProcessType DEF WorkerInv, WorkerTypeOK
  <1>3. /\ process' \in Processes /\ process'.state = process.state
        /\ process'.stdout = process.stdout
    <2>1. CASE UNCHANGED process
      BY <1>2, <2>1
    <2>2. CASE process' = Written(process, request[c])
      BY <1>2, <2>2, WrittenType
    <2>3. CASE process' = [process EXCEPT !.cut = TRUE]
      BY <1>2, <2>3 DEF Processes
    <2> QED BY <2>1, <2>2, <2>3 DEF Interrupt
  <1>4. AnswersTrue'
    BY <1>3 DEF WorkerInv, AnswersTrue
  <1>5. /\ phase' \in [Callers -> {"idle", "send", "select"}]
        /\ \A d \in Callers : phase'[d] = "idle"
    BY <1>1, EndFree DEF WorkerInv
  <1> QED BY <1>1, <1>3, <1>4, <1>5, FaultStep

LEMMA CloseStep ==
  ASSUME WorkerInv, Close
  PROVE  WorkerInv'
  <1>1. /\ \A c \in Callers : phase[c] = "idle"
        /\ process' = None /\ UNCHANGED <<client, nextId, faults, failures>>
    BY DEF Close, Locked
  <1>2. WorkerTypeOK'
    BY <1>1, ProcessType DEF WorkerInv, WorkerTypeOK, Processes, Answers
  <1>3. OneCompiles' /\ AnswersTrue' /\ Clean'
    BY <1>1, ProcessType DEF OneCompiles, AnswersTrue, Clean
  <1>4. Owed'
    BY <1>1, <1>3 DEF WorkerInv, Owed
  <1> QED BY <1>2, <1>3, <1>4 DEF WorkerInv

-----------------------------------------------------------------------------
(* The child.                                                              *)

LEMMA TakeStep ==
  ASSUME WorkerInv, Take
  PROVE  WorkerInv'
  <1> DEFINE line == Head(process.stdin)
             tail == Tail(process.stdin)
  <1>1. /\ process.state = "up" /\ process.busy = <<>> /\ process.stdin # <<>>
        /\ process' = [process EXCEPT !.stdin = tail, !.busy = <<line>>]
        /\ UNCHANGED <<client, nextId, faults, failures>>
    BY DEF Take
  <1>2. process \in Processes /\ line \in Lines /\ tail \in Seq(Lines) /\ <<line>> \in Seq(Lines)
    BY <1>1, ProcessType, HeadTailProperties DEF WorkerInv, Processes
  <1>3. ASSUME NEW r, process.stdin = <<r>> PROVE line = r /\ tail = <<>>
    <2>1. process.stdin \in Seq(Lines)
      BY <1>2 DEF Processes
    <2>2. Head(process.stdin) = r /\ Tail(process.stdin) = <<>>
      BY <1>3, <2>1, OneLine
    <2> QED BY <2>2
  <1> HIDE DEF line, tail
  <1>4. /\ process' \in Processes /\ process'.state = process.state /\ process'.cut = process.cut
        /\ process'.stdin = tail /\ process'.busy = <<line>> /\ process'.stdout = process.stdout
    BY <1>1, <1>2 DEF Processes
  <1>5. WorkerTypeOK'
    BY <1>1, <1>4 DEF WorkerInv, WorkerTypeOK, Processes, Answers
  <1>6. OneCompiles' /\ AnswersTrue'
    BY <1>1, <1>4 DEF WorkerInv, OneCompiles, AnswersTrue
  <1>7. Clean => Clean'
    <2> SUFFICES ASSUME Clean PROVE Clean'
      OBVIOUS
    <2>1. PICK c \in Callers : phase[c] = "select" /\ Pipes(process, request[c]) /\ ~process.cut
      BY <1>1 DEF Clean
    <2>2. process.stdin = <<request[c]>> /\ process.stdout = <<>>
      BY <1>1, <2>1 DEF Pipes
    <2>3. line = request[c] /\ tail = <<>>
      BY <1>3, <2>2
    <2>4. Pipes(process', request[c])
      BY <1>4, <2>2, <2>3 DEF Pipes
    <2> QED BY <1>1, <1>4, <2>1, <2>4 DEF Clean
  <1>8. Owed'
    BY <1>1, <1>7 DEF WorkerInv, Owed
  <1> QED BY <1>5, <1>6, <1>8 DEF WorkerInv

\* An answer more in the pipe.
LEMMA AppendAnswer ==
  ASSUME NEW s \in Seq(Answers), NEW a \in Answers
  PROVE  /\ Append(s, a) \in Seq(Answers) /\ Len(Append(s, a)) = Len(s) + 1
         /\ \A i \in 1 .. Len(Append(s, a)) :
              (i \in 1 .. Len(s) /\ Append(s, a)[i] = s[i]) \/ Append(s, a)[i] = a
         /\ s = <<>> => Append(s, a)[1] = a /\ Len(Append(s, a)) = 1
  BY AppendProperties, LenProperties

LEMMA AnswerStep ==
  ASSUME WorkerInv, NEW ok \in BOOLEAN, Answer(ok)
  PROVE  WorkerInv'
  <1> DEFINE line == Head(process.busy)
             out == Append(process.stdout, Result(line, ok))
             last == IF line = Garbled THEN process.last ELSE line
  <1>1. /\ process.state = "up" /\ process.busy # <<>>
        /\ process' = [process EXCEPT !.busy = <<>>, !.last = last, !.stdout = out]
        /\ UNCHANGED <<client, nextId, faults, failures>>
    BY DEF Answer
  <1>2. process \in Processes /\ line \in Lines /\ process.stdout \in Seq(Answers)
    BY <1>1, ProcessType, HeadTailProperties DEF WorkerInv, Processes
  <1>3. /\ Result(line, ok) \in Answers /\ ~Result(line, ok).cut
        /\ Result(line, ok).ok => Result(line, ok).id = Result(line, ok).of
        /\ line # Garbled => Result(line, ok).id = line
    BY <1>2, ResultType DEF WorkerInv
  <1>4. /\ out \in Seq(Answers)
        /\ \A i \in 1 .. Len(out) :
             (i \in 1 .. Len(process.stdout) /\ out[i] = process.stdout[i]) \/ out[i] = Result(line, ok)
        /\ process.stdout = <<>> => out[1] = Result(line, ok) /\ Len(out) = 1
    BY <1>2, <1>3, AppendAnswer
  <1>5. last \in Lines
    BY <1>2 DEF Processes
  <1>6. ASSUME NEW r, process.busy = <<r>> PROVE line = r
    <2>1. process.busy \in Seq(Lines)
      BY <1>2 DEF Processes
    <2>2. Head(process.busy) = r /\ Tail(process.busy) = <<>>
      BY <1>6, <2>1, OneLine
    <2> QED BY <2>2
  <1> HIDE DEF line, out, last
  <1>7. /\ process' \in Processes /\ process'.state = process.state /\ process'.cut = process.cut
        /\ process'.stdin = process.stdin /\ process'.busy = <<>> /\ process'.stdout = out
    BY <1>1, <1>2, <1>4, <1>5, NoLine DEF Processes
  <1>8. WorkerTypeOK'
    BY <1>1, <1>7 DEF WorkerInv, WorkerTypeOK, Processes, Answers
  <1>9. OneCompiles'
    BY <1>1, <1>7 DEF WorkerInv, OneCompiles
  <1>10. AnswersTrue'
    BY <1>3, <1>4, <1>7 DEF WorkerInv, AnswersTrue
  <1>11. Clean => Clean'
    <2> SUFFICES ASSUME Clean PROVE Clean'
      OBVIOUS
    <2>1. PICK c \in Callers : phase[c] = "select" /\ Pipes(process, request[c]) /\ ~process.cut
      BY <1>1 DEF Clean
    <2>2. process.stdin = <<>> /\ process.busy = <<request[c]>> /\ process.stdout = <<>>
      BY <1>1, <2>1 DEF Pipes
    <2>3. line = request[c] /\ line # Garbled
      BY <1>6, <2>1, <2>2 DEF WorkerInv, OneCompiles
    <2>4. Pipes(process', request[c])
      BY <1>3, <1>4, <1>7, <2>2, <2>3 DEF Pipes
    <2> QED BY <1>1, <1>7, <2>1, <2>4 DEF Clean
  <1>12. Owed'
    BY <1>1, <1>11 DEF WorkerInv, Owed
  <1> QED BY <1>8, <1>9, <1>10, <1>12 DEF WorkerInv

LEMMA CrashStep ==
  ASSUME WorkerInv, Crash
  PROVE  WorkerInv'
  <1> DEFINE half == [Result(Garbled, FALSE) EXCEPT !.cut = TRUE]
  <1>1. PICK cut \in BOOLEAN :
          process' = [process EXCEPT !.state = "dead", !.stdin = <<>>, !.busy = <<>>,
                        !.stdout = IF cut THEN Append(@, half) ELSE @]
    BY DEF Crash
  <1> DEFINE out == IF cut THEN Append(process.stdout, half) ELSE process.stdout
  <1>2. process \in Processes /\ process.stdout \in Seq(Answers)
    BY ProcessType DEF WorkerInv, Processes
  <1>3. half \in Answers /\ ~half.ok
    <2>1. ~Result(Garbled, FALSE).ok
      BY DEF Result
    <2> QED BY <2>1, ProcessType, ResultType DEF WorkerInv
  <1>4. /\ out \in Seq(Answers)
        /\ \A i \in 1 .. Len(out) :
             (i \in 1 .. Len(process.stdout) /\ out[i] = process.stdout[i]) \/ out[i] = half
    BY <1>2, <1>3, AppendAnswer
  <1>5. process' = [process EXCEPT !.state = "dead", !.stdin = <<>>, !.busy = <<>>, !.stdout = out]
    BY <1>1
  <1> HIDE DEF out, half
  <1>6. process' \in Processes /\ process'.state = "dead" /\ process'.stdout = out
    BY <1>2, <1>4, <1>5, NoLine DEF Processes
  <1>7. AnswersTrue'
    BY <1>3, <1>4, <1>6 DEF WorkerInv, AnswersTrue
  <1>8. phase' \in [Callers -> {"idle", "send", "select"}] /\ UNCHANGED phase
    BY DEF Crash, WorkerInv, WorkerTypeOK
  <1> QED BY <1>6, <1>7, <1>8, FaultStep DEF Crash

LEMMA HangStep ==
  ASSUME WorkerInv, Hang
  PROVE  WorkerInv'
  <1>1. /\ process' = [process EXCEPT !.state = "hung"] /\ UNCHANGED <<client, nextId, failures>>
        /\ faults < MaxFaults /\ faults' = faults + 1 /\ process.state = "up"
    BY DEF Hang
  <1>2. process' \in Processes /\ process'.state = "hung" /\ process'.stdout = process.stdout
    BY <1>1, ProcessType DEF WorkerInv, Processes
  <1>3. AnswersTrue'
    BY <1>1, <1>2 DEF WorkerInv, AnswersTrue
  <1>4. phase' \in [Callers -> {"idle", "send", "select"}]
    BY <1>1 DEF WorkerInv, WorkerTypeOK
  <1> QED BY <1>1, <1>2, <1>3, <1>4, FaultStep

-----------------------------------------------------------------------------
(* The theorems.                                                           *)

LEMMA WorkerInvInit == WorkerInit => WorkerInv
  <1> SUFFICES ASSUME WorkerInit PROVE WorkerInv
    OBVIOUS
  <1>1. process = None /\ faults = 0 /\ failures = 0 /\ \A c \in Callers : phase[c] = "idle"
    BY DEF WorkerInit
  <1>2. WorkerTypeOK
    BY <1>1, ProcessType, WorkerAssumption DEF WorkerInit, WorkerTypeOK, Processes, Answers, Lines
  <1>3. OneCompiles /\ AnswersTrue /\ Clean
    BY <1>1, ProcessType DEF OneCompiles, AnswersTrue, Clean
  <1> QED BY <1>1, <1>2, <1>3 DEF WorkerInv, Owed

LEMMA WorkerInvKept == WorkerInv /\ [WorkerNext]_workerVars => WorkerInv'
  <1> SUFFICES ASSUME WorkerInv, [WorkerNext]_workerVars PROVE WorkerInv'
    OBVIOUS
  <1>1. ASSUME NEW c \in Callers, Start(c) \/ Proceed(c) \/ Interrupt(c) PROVE WorkerInv'
    BY <1>1, StartStep, SendStep, DiscardStep, TruncatedStep, AnsweredStep, InterruptStep
       DEF Proceed
  <1>2. ASSUME Serve PROVE WorkerInv'
    BY <1>2, TakeStep, AnswerStep DEF Serve
  <1>3. ASSUME Close \/ Crash \/ Hang PROVE WorkerInv'
    BY <1>3, CloseStep, CrashStep, HangStep
  <1>4. CASE UNCHANGED workerVars
    BY <1>4 DEF WorkerInv, WorkerTypeOK, OneCompiles, AnswersTrue, Owed, Clean, Locked
  <1> QED BY <1>1, <1>2, <1>3, <1>4 DEF WorkerNext

LEMMA WorkerInvAlways == WorkerSpec => []WorkerInv
  BY WorkerInvInit, WorkerInvKept, PTL DEF WorkerSpec

\* [CompileWorker.WorkerOK] At every moment no more compiles have raised than
\* children crashed, hung or were left in the lurch by an interrupt: recovery
\* from one fault never costs a second compile.
THEOREM WorkerAlwaysOK == WorkerSpec => []WorkerOK
  <1>1. WorkerInv => WorkerOK
    BY DEF WorkerInv, Owed, WorkerOK, EachFaultCostsOne
  <1> QED BY <1>1, WorkerInvAlways, PTL

\* [CompileWorker.OwnAnswer] An answer that compile returns was made for the
\* module of this call, whatever interrupted calls have left in the pipes.
THEOREM AnswersAlwaysOwn == WorkerSpec => OwnAnswer
  <1> DEFINE Own == \A c \in Callers : answer'[c] # answer[c] => answer'[c] = request[c]
  <1>1. WorkerInv /\ [WorkerNext]_workerVars => [Own]_workerVars
    <2> SUFFICES ASSUME WorkerInv, WorkerNext, NEW c \in Callers, answer'[c] # answer[c]
                 PROVE  answer'[c] = request[c]
      OBVIOUS
    <2>1. ~ UNCHANGED answer
      OBVIOUS
    <2>2. PICK d \in Callers : Answered(d)
      BY <2>1 DEF WorkerNext, Start, Proceed, Send, SendFails, TimeOut, EndOfFile, Truncated,
                  Desynchronized, Discard, Interrupt, Close, Serve, Take, Answer, Crash, Hang
    <2>3. /\ process.stdout # <<>> /\ Consume /\ Received.id = request[d]
          /\ Received.ok /\ answer' = [answer EXCEPT ![d] = Received.of]
      BY <2>1, <2>2 DEF Answered, Matches
    <2>4. answer \in [Callers -> Lines]
      BY DEF WorkerInv, WorkerTypeOK
    <2>5. c = d /\ answer'[c] = Received.of
      BY <2>3, <2>4
    <2>6. Received = process.stdout[1] /\ 1 \in 1 .. Len(process.stdout)
      BY <2>3, ReceivedType DEF WorkerInv
    <2>7. Received.id = Received.of
      BY <2>3, <2>6 DEF WorkerInv, AnswersTrue
    <2> QED BY <2>3, <2>5, <2>7
  <1>2. OwnAnswer <=> [][Own]_workerVars
    BY DEF OwnAnswer
  <1> QED BY <1>1, <1>2, WorkerInvAlways, PTL DEF WorkerSpec
=============================================================================
