---------------------------- MODULE MCGraphStore ----------------------------
(***************************************************************************)
(* Two processes that save two graphs, with one or both of two fields, and *)
(* copies of what they saved.  One of them may offload, die and be started *)
(* again, to offload once more.                                            *)
(***************************************************************************)
EXTENDS GraphStore, TLC

CONSTANTS g1, g2, f1, f2

TwoFields == {f1 :> g2, (f1 :> g1 @@ f2 :> g1)}

Symmetry == Permutations(Pids) \cup Permutations(Paths)

\* Nobody looks again into the temporary directory of a process that died.
Seen ==
  <<[d \in Destinations \cup {<<p, "temporary", starts[p]>> : p \in Processes} |-> disk[d]],
    save, process, opened, refused>>
=============================================================================
