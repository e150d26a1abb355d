------------------------------- MODULE MCRuns -------------------------------
(***************************************************************************)
(* Two clients that move the same runs, for TLC.                           *)
(***************************************************************************)
EXTENDS AssessmentRuns, TLC

Symmetry == Permutations(Clients)

=============================================================================
