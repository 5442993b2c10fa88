----------------------------- MODULE MCArtifacts -----------------------------
(* Instances of Artifacts for TLC.                                           *)
EXTENDS Artifacts

CONSTANTS s1, s2, c1, c2
==============================================================================
