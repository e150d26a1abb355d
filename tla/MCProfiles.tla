----------------------------- MODULE MCProfiles -----------------------------
(***************************************************************************)
(* Profiles of each endpoint class in two workspaces, for TLC.             *)
(***************************************************************************)
EXTENDS InferenceProfiles, TLC

Symmetry == Permutations(Profiles) \cup Permutations(Names)

\* Bodies the validation accepts, and one for each of its reasons to refuse.
Valid(endpoint) ==
    [provider : {"openai_compatible"}, endpoint : {endpoint},
     given : {{"tls_verify", "credential_ref"}}]
Refused ==
    [provider : {"openai_compatible"}, endpoint : {"local"}, given : {{}}]
    \cup [provider : {"openai"}, endpoint : {"local"}, given : {{"tls_verify"}}]
    \cup [provider : {"bedrock", "azure_openai", "openai"}, endpoint : {"public"},
          given : {{"tls_verify"}}]

Kinds == UNION {Valid(e) : e \in EndpointClass} \cup Refused

\* Every kind, with any data and any fallbacks.
AllBodies ==
    {[workspace |-> w, name |-> n, provider |-> k.provider, endpoint |-> k.endpoint,
      given |-> k.given, classes |-> cs, fallbacks |-> fs] :
        w \in Workspaces, n \in Names, k \in Kinds, cs \in SUBSET DataClasses \ {{}},
        fs \in SUBSET Profiles}

=============================================================================
