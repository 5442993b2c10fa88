------------------------------- MODULE MCMail -------------------------------
(***************************************************************************)
(* Mail for TLC: one finding of the performance analyzer, which is clean,  *)
(* medium, high, clean by another version of the metrics, or not covered.  *)
(* Two scan workers of one site; readers declare and review nothing.       *)
(***************************************************************************)
EXTENDS Mail

found(severity, complete, version) ==
  [found |-> [x \in Findings |-> severity], complete |-> complete, version |-> version]
AlertOutcomes == {found(0, TRUE, 1), found(3, TRUE, 1), found(4, TRUE, 2),
                  found(0, TRUE, 2), found(0, FALSE, 1)}
=============================================================================
