--------------------------- MODULE MCTensorCaches ---------------------------
(***************************************************************************)
(* Every kernel of its own, over few ids and addresses: each is reused     *)
(* within a behaviour.                                                     *)
(***************************************************************************)
EXTENDS TensorCaches, TLC

Symmetry ==
  Permutations(Ids) \cup Permutations(Blocks) \cup Permutations(Graphs) \cup
  Permutations(Addresses) \cup Permutations(Slots)
=============================================================================
