------------------------------ MODULE PagedRun ------------------------------
(***************************************************************************)
(* One execute_paged_message_passing inside a scope with a RAM budget: the *)
(* pool that reads pages ahead, the values of the page at hand, and the    *)
(* full output they are drained into.                                      *)
(*                                                                         *)
(* The managed memory of module Execution appears with what the run meets  *)
(* of it: an allocation that does not fit spills the least recently used   *)
(* value that is not pinned, and only realizing the page's output pins.    *)
(* Of the values of a page, `leaf' stands for those its kernel reads and   *)
(* `unused' for those it does not (the index of a field it ignores).       *)
(***************************************************************************)
EXTENDS Integers, FiniteSets

CONSTANTS
  PageCount,  \* pages of the relation
  Depth,      \* prefetch_depth
  Bytes,      \* size of each value
  Budgets,    \* the RAM budgets to consider
  Policies,   \* the eviction policies to consider
  LoadMayFail \* may reading a page fail?

Values == {"idle", "leaf", "unused", "result", "output"}

ASSUME PagedAssumption ==
  /\ PageCount \in Nat \ {0} /\ Depth \in Nat \ {0}
  /\ Bytes \in [Values -> Nat] /\ Budgets \subseteq Nat
  /\ Policies \subseteq {"error", "lru"} /\ LoadMayFail \in BOOLEAN

VARIABLES
  budget, \* execution.budgets["ram"]
  policy, \* execution.eviction
  loads,  \* the future of each page
  page,   \* the page at hand
  stage,  \* where the run is
  place,  \* where each value is
  older,  \* the order of _resident: <<x, y>> when x is less recently used than y
  target, \* the allocation result._buffer.write was looked up on
  rows    \* the pages whose rows the output has

pagedVars == <<budget, policy, loads, page, stage, place, older, target, rows>>

Pages == 1 .. PageCount

InitiallySubmitted == 1 .. IF Depth < PageCount THEN Depth ELSE PageCount

PagedInit ==
  /\ budget \in {b \in Budgets : b >= Bytes["idle"]} /\ policy \in Policies
  /\ loads = [p \in Pages |-> IF p \in InitiallySubmitted THEN "queued" ELSE "none"]
  /\ page = 0 /\ stage = "fetch"
  /\ place = [x \in Values |-> IF x = "idle" THEN "ram" ELSE "none"]
  /\ older = {} /\ target = "none" /\ rows = {}

-----------------------------------------------------------------------------
(* The workers.                                                            *)

RunLoad(p) ==
  /\ loads[p] = "queued"
  /\ loads' = [loads EXCEPT ![p] = "running"]
  /\ UNCHANGED <<budget, policy, page, stage, place, older, target, rows>>

FinishLoad(p) ==
  /\ loads[p] = "running"
  /\ \/ loads' = [loads EXCEPT ![p] = "done"]
     \/ LoadMayFail /\ loads' = [loads EXCEPT ![p] = "failed"]
  /\ UNCHANGED <<budget, policy, page, stage, place, older, target, rows>>

-----------------------------------------------------------------------------
(* The run.                                                                *)

\* What the exception leaves behind is dropped; the generator joins its pool.
Abort == stage' = "joining" /\ page' = 0

\* pending.pop(0).result(), and the next submission.
Fetch ==
  /\ stage = "fetch" /\ page < PageCount /\ loads[page + 1] = "done"
  /\ page' = page + 1 /\ stage' = "leaf"
  /\ loads' = [p \in Pages |->
                 IF p = page + 1 THEN "taken"
                 ELSE IF p = page + 1 + Depth THEN "queued" ELSE loads[p]]
  /\ UNCHANGED <<budget, policy, place, older, target, rows>>

\* Variant: nobody asks a load that failed.
FetchIgnores == FALSE /\ Abort

FetchFails ==
  /\ stage = "fetch" /\ page < PageCount /\ loads[page + 1] = "failed"
  /\ Abort
  /\ UNCHANGED <<budget, policy, loads, place, older, target, rows>>

\* What the allocation in progress is for, and what follows it.
Request ==
  CASE stage = "leaf"   -> "leaf"
    [] stage = "unused" -> "unused"
    [] stage = "result" -> "result"
    [] stage = "drain" -> IF place["leaf"] = "disk" THEN "leaf" ELSE "output"

Following ==
  CASE stage = "leaf"   -> "unused"
    [] stage = "unused" -> IF page = 1 THEN "result" ELSE "lookup"
    [] stage = "result" -> "lookup"
    [] stage = "drain"  -> IF Request = "leaf" THEN "drain" ELSE "write"

Allocating == stage \in {"leaf", "unused", "result", "drain"}

\* Live bytes: the spilled output is still there while write is bound to it.
Held == IF target = "lost" THEN Bytes["result"] ELSE 0
InRam(x) == IF place[x] = "ram" THEN Bytes[x] ELSE 0
Live == Held + InRam("idle") + InRam("leaf") + InRam("unused") + InRam("result") + InRam("output")

Fits(x) == Live + Bytes[x] <= budget

\* execution.track: x becomes the most recently used.
Touch(x) ==
  {p \in older : x \notin {p[1], p[2]}} \cup ({y \in Values \ {x} : place[y] # "none"} \X {x})

Allocate ==
  /\ Allocating /\ Fits(Request)
  /\ place' = [place EXCEPT ![Request] = "ram"]
  /\ older' = Touch(Request)
  /\ stage' = Following
  /\ UNCHANGED <<budget, policy, loads, page, target, rows>>

Pinned == IF stage = "drain" THEN {"leaf", "output"} ELSE {}

Evictable == {x \in Values \ Pinned : place[x] = "ram"}

CanEvict == policy = "lru" /\ Bytes[Request] <= budget /\ Evictable # {}

Evict ==
  /\ Allocating /\ ~Fits(Request) /\ CanEvict
  /\ \E x \in Evictable :
       /\ \A y \in Evictable : <<y, x>> \notin older
       /\ place' = [place EXCEPT ![x] = "disk"]
       /\ target' = IF x = "result" /\ target = "buffer" THEN "lost" ELSE target
  /\ UNCHANGED <<budget, policy, loads, page, stage, older, rows>>

OutOfMemory ==
  /\ Allocating /\ ~Fits(Request) /\ ~CanEvict
  /\ Abort /\ target' = "none"
  /\ UNCHANGED <<budget, policy, loads, place, older, rows>>

\* Variant: an off-by-one in the loop over the pages.
AllButOne == page + 1 >= PageCount

LastPage == page = PageCount

\* result._buffer.write is looked up before its argument is evaluated; there is
\* no attribute to look up on the None of a spilled output.
Lookup ==
  /\ stage = "lookup" /\ place["result"] = "ram"
  /\ target' = "buffer" /\ stage' = "drain"
  /\ UNCHANGED <<budget, policy, loads, page, place, older, rows>>

NoAttribute ==
  /\ stage = "lookup" /\ place["result"] # "ram"
  /\ Abort
  /\ UNCHANGED <<budget, policy, loads, place, older, target, rows>>

\* The kernel has run, the page is written, its values are deleted.
Write ==
  /\ stage = "write"
  /\ rows' = IF target = "buffer" THEN rows \cup {page} ELSE rows
  /\ target' = "none"
  /\ place' = [place EXCEPT !["leaf"] = "none", !["unused"] = "none", !["output"] = "none"]
  /\ older' = older \cap ({"idle", "result"} \X {"idle", "result"})
  /\ stage' = IF LastPage THEN "joining" ELSE "fetch"
  /\ UNCHANGED <<budget, policy, loads, page>>

\* Variant: leaving without waiting for the workers.
NoWait == page <= PageCount

Joined == \A p \in Pages : loads[p] \notin {"queued", "running"}

Leave ==
  /\ stage = "joining" /\ Joined
  /\ stage' = IF LastPage THEN "returned" ELSE "raised"
  /\ UNCHANGED <<budget, policy, loads, page, place, older, target, rows>>

-----------------------------------------------------------------------------
Run ==
  \/ Fetch \/ FetchFails \/ Allocate \/ Evict \/ OutOfMemory
  \/ Lookup \/ NoAttribute \/ Write \/ Leave

Work == \E p \in Pages : RunLoad(p) \/ FinishLoad(p)

PagedNext == Run \/ Work

PagedSpec == PagedInit /\ [][PagedNext]_pagedVars /\ WF_pagedVars(Run) /\ WF_pagedVars(Work)

-----------------------------------------------------------------------------
PagedTypeOK ==
  /\ budget \in Budgets /\ policy \in Policies
  /\ loads \in [Pages -> {"none", "queued", "running", "done", "failed", "taken"}]
  /\ page \in 0 .. PageCount
  /\ stage \in {"fetch", "leaf", "unused", "result", "lookup", "drain", "write",
             "joining", "returned", "raised"}
  /\ place \in [Values -> {"none", "ram", "disk"}]
  /\ older \subseteq Values \X Values /\ target \in {"none", "buffer", "lost"}
  /\ rows \subseteq Pages

\* Whatever is evicted and whatever fails, the run keeps within the budget.
WithinBudget == Live <= budget

\* Reading ahead is bounded: at most Depth pages are in memory or on their way
\* besides the one at hand.
ReadAheadBounded ==
  Cardinality({p \in Pages : loads[p] \in {"queued", "running", "done", "failed"}}) <= Depth

\* No worker outlives the run, however it ends.
NoWorkerLeft ==
  stage \in {"returned", "raised"} => \A p \in Pages : loads[p] \notin {"queued", "running"}

\* The state is well typed, and the run holds no more memory, pages or threads
\* than it was given, also when it raises in the middle of a page.
RunOK == PagedTypeOK /\ WithinBudget /\ ReadAheadBounded /\ NoWorkerLeft

\* Only eviction can lose a page: an output that is returned and was never
\* spilled has the rows of every page.
LostOnlyByEviction ==
  stage = "returned" /\ place["result"] = "ram" => rows = Pages

\* The run returns or raises.
RunEnds == <>(stage \in {"returned", "raised"})
=============================================================================
