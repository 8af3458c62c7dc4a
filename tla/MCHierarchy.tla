---------------------------- MODULE MCHierarchy ----------------------------
(* One logical value and a RAM, a file and a device tier.                    *)
EXTENDS Hierarchy, TLC

CONSTANTS a, b, v, ram, nvme, device

MCSize     == v :> 1
AllTiers   == {ram, nvme, device}
MCBudget   == ram :> 1 @@ nvme :> 1 @@ device :> 1
=============================================================================
