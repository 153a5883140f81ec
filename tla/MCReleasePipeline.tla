-------------------------- MODULE MCReleasePipeline --------------------------
(* Instances of ReleasePipeline for TLC. *)
EXTENDS ReleasePipelineLedger, TLC

CONSTANTS c1, c2

\* Goroutines are interchangeable; payloads are only where all are governed.
ProcSymmetry == Permutations(Procs)
=============================================================================
