------------------------------ MODULE MCBundle ------------------------------
(***************************************************************************)
(* Every graph of three launches, cycles included, over one binding with   *)
(* reads, writes and disjoint parts, bound whole or in phases.             *)
(***************************************************************************)
EXTENDS Bundle

Touch(w, p) == {[binding |-> "output", writes |-> w, part |-> p]}

SomeAccess == {Touch(FALSE, "all"), Touch(TRUE, "all"),
               Touch(TRUE, "p1"), Touch(TRUE, "p2")}

Uniform(x) == [i \in Launches |-> x]

Graphs == {d \in [Launches -> SUBSET Launches] : \A i \in Launches : i \notin d[i]}

MCWhole ==
  [deps : Graphs, acc : [Launches -> SomeAccess],
   phase : {Uniform("execute")}, version : {Uniform(0)},
   kind : {Uniform("kernel")}, terminalsAgree : {TRUE}, phased : {FALSE}]

\* The compiler prepares first: no materialize launch names an execute one.
FwdP(p) ==
  \A i \in Launches : p.phase[i] = "materialize" =>
    \A d \in p.deps[i] : p.phase[d] = "materialize"

\* A host launch that names nothing.
HostP(p) == \A i \in Launches : p.kind[i] = "host" => p.deps[i] = {}

MCPhased ==
  {p \in [deps : Graphs,
          acc : {Uniform(Touch(TRUE, "all")),
                 [Uniform(Touch(TRUE, "p1")) EXCEPT ![2] = Touch(TRUE, "p2")],
                 [Uniform({}) EXCEPT ![1] = Touch(TRUE, "all")]},
          phase : [Launches -> Phases], version : {Uniform(0)},
          kind : {[Uniform("kernel") EXCEPT ![3] = k] : k \in {"join", "host"}},
          terminalsAgree : {TRUE}, phased : {TRUE}] :
     FwdP(p) /\ HostP(p)}

\* What _bind and _verify refuse for other reasons than the graph's shape.
MCRefused ==
  [deps : {[Uniform({}) EXCEPT ![2] = {2}], Uniform({})},
   acc : {Uniform({})}, phase : {Uniform("execute")},
   version : {Uniform(0), [Uniform(0) EXCEPT ![3] = 1]},
   kind : {Uniform("kernel")}, terminalsAgree : BOOLEAN, phased : BOOLEAN]

MCPlans == MCWhole \cup MCPhased \cup MCRefused
=============================================================================
