---------------------------- MODULE MCExecution ----------------------------
(* A small program: three values, one of two bytes, of which two fit.      *)
EXTENDS Execution, TLC

CONSTANTS t1, t2, t3, b1, b2, b3

MCTensors == {t1, t2, t3}
MCSize    == t1 :> 1 @@ t2 :> 1 @@ t3 :> 2
TwoTensors   == {t1, t3}
TwoSize      == t1 :> 1 @@ t3 :> 2
ThreeBuffers == {b1, b2, b3}
MCPages   == {1}
Symmetry  == Permutations(ThreeBuffers) \cup Permutations({t1, t2})
=============================================================================
