--------------------------- MODULE MCHaloExchange ---------------------------
(***************************************************************************)
(* Three entities in a line on two ranks, which ask each other for one     *)
(* ghost: a call with the halos of two fields posted, of one width or of   *)
(* two, the backward pass of both, and a serialized call.                  *)
(***************************************************************************)
EXTENDS HaloExchange

MCCols == [d \in 0 .. 2 |-> {d - 1, d, d + 1} \cap 0 .. 2]
MCWidths == {[f \in Fields |-> 1], [f \in Fields |-> IF f = "x" THEN 1 ELSE 2]}
MCProgram ==
  << [mode |-> "posted", fields |-> <<"x", "y">>],
     [mode |-> "backward", fields |-> <<"y", "x">>],
     [mode |-> "call", fields |-> <<"x">>] >>
=============================================================================
