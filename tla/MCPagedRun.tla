----------------------------- MODULE MCPagedRun -----------------------------
(* Four pages, two read ahead; budgets from one that the first page does not *)
(* fit into to one that holds everything.                                    *)
EXTENDS PagedRun

MCBytes   == [x \in Values |-> IF x = "result" THEN 2 ELSE 1]
MCBudgets == 1 .. 6
=============================================================================
