----------------------------- MODULE MCPolling -----------------------------
(* ScanPolling with interchangeable poll handlers.                         *)
EXTENDS ScanPolling, TLC

Symmetry == Permutations(Pollers)
=============================================================================
