----------------------------- MODULE MCCpuPool -----------------------------
(***************************************************************************)
(* Two threads launch an executable with four threads and vectors of two,  *)
(* on outputs of no, one, few and many elements, cut evenly and unevenly.  *)
(***************************************************************************)
EXTENDS CpuPool
=============================================================================
