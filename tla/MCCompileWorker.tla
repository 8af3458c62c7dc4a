-------------------------- MODULE MCCompileWorker --------------------------
(* Two callers; four requests and three faults let a fault meet the remains    *)
(* of another one.                                                           *)
EXTENDS CompileWorker, TLC

CONSTANTS a, b
=============================================================================
