-------------------------- MODULE MCDegreeWorklist --------------------------
(* Four rows; the tile has 8 edges instead of 64 and 16 elements instead of *)
(* 256, and a tail is a quarter of the rows instead of a tenth.             *)
EXTENDS DegreeWorklist

MCJunk == {0, -7}
MCDegrees ==
  {d \in [0 .. 3 -> {0, 1, 3, 4, 6, 8, 12}] :
     \/ \A r \in 0 .. 2 : d[r] <= d[r + 1]
     \/ \A r \in 0 .. 2 : d[r] >= d[r + 1]}
=============================================================================
