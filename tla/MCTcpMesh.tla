----------------------------- MODULE MCTcpMesh -----------------------------
(* A world of three ranks hosted by rank 1, one process with a rank that is  *)
(* already claimed, one with another world size.                            *)
EXTENDS TcpMesh, TLC

CONSTANTS zero, one, two, twin, stranger

World     == {zero, one, two}
Everyone  == World \cup {twin, stranger}
MCRankOf  == zero :> 0 @@ one :> 1 @@ two :> 2 @@ twin :> 2 @@ stranger :> 0
MCWorldOf == [p \in Everyone |-> IF p = stranger THEN 2 ELSE 3]
=============================================================================
