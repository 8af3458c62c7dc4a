---------------------------- MODULE LaunchOrder ----------------------------
(***************************************************************************)
(* What an execution bundle promises to whoever submits it, with nothing   *)
(* of how: every launch of the plan runs at most once, never before a      *)
(* launch it depends on through any number of steps is done, never at the  *)
(* same time as a launch that conflicts with it, and wait() returns only   *)
(* when all of them are done.  Bundle implements it.                       *)
(***************************************************************************)
CONSTANT Launches

VARIABLES
  before,     \* the pairs <<k, l>>: l depends on k, directly or not
  clash,      \* the pairs of launches with conflicting accesses
  begun,      \* launches that have started
  done,       \* launches that have finished
  returned    \* wait() has returned

vars == <<before, clash, begun, done, returned>>

Init ==
  /\ before \subseteq Launches \X Launches
  /\ clash \subseteq Launches \X Launches
  /\ begun = {}
  /\ done = {}
  /\ returned = FALSE

Begin(l) ==
  /\ l \notin begun
  /\ \A k \in Launches : <<k, l>> \in before => k \in done
  /\ \A k \in begun \ done : <<k, l>> \notin clash /\ <<l, k>> \notin clash
  /\ begun' = begun \cup {l}
  /\ UNCHANGED <<before, clash, done, returned>>

End(l) ==
  /\ l \in begun \ done
  /\ done' = done \cup {l}
  /\ UNCHANGED <<before, clash, begun, returned>>

Return ==
  /\ done = Launches
  /\ ~returned
  /\ returned' = TRUE
  /\ UNCHANGED <<before, clash, begun, done>>

Next == Return \/ \E l \in Launches : Begin(l) \/ End(l)

Spec == Init /\ [][Next]_vars
=============================================================================
