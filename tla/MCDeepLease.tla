----------------------------- MODULE MCDeepLease -----------------------------
(* Instances of DeepLease for TLC.                                           *)
EXTENDS DeepLease, TLC

CONSTANTS w1, w2

WorkerSymmetry == Permutations(Workers)
==============================================================================
