----------------------------- MODULE MCBootstrap -----------------------------
(***************************************************************************)
(* Two secrets, of a first start and of a restart, for TLC.                *)
(***************************************************************************)
EXTENDS AuthBootstrap, TLC

Symmetry ==
    Permutations(Secrets) \cup Permutations(Users) \cup Permutations(Workspaces)
        \cup Permutations(ApiTokens)

\* A token for runs only, and one for what a contributor may do.
SomeScopes == {{"assessment:run"}, Reads}

=============================================================================
