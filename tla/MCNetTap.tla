------------------------------- MODULE MCNetTap -------------------------------
(***************************************************************************)
(* Model values for NetTap: runners are interchangeable.                   *)
(***************************************************************************)
EXTENDS NetTap, TLC

RunnerSymmetry == Permutations(Runners)

=============================================================================
