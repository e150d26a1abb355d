-------------------------- MODULE InferenceProfiles --------------------------
(***************************************************************************)
(* The inference profiles of src/backend/src/reweft/api/app.py and the     *)
(* validation of domain/models.py: which endpoints a profile may fall back *)
(* to, and where data may go along a chain of fallbacks.  Profiles are     *)
(* created in immediate transactions and never change.                     *)
(***************************************************************************)

CONSTANTS
    Workspaces, Names, DataClasses,
    Profiles,  \* the ids profiles may get
    Bodies     \* the bodies that are sent

Provider ==
    {"openai", "azure_openai", "anthropic", "gemini", "vertex", "bedrock", "openai_compatible"}
EndpointClass == {"public", "private", "local"}

\* The optional fields a body may give, and the one that may be turned off.
Field == {"credential_ref", "base_url", "region", "api_version", "tls_verify"}

\* A body, with the workspace of its path; the order of fallbacks plays no part.
Body ==
    [workspace : Workspaces, name : Names, provider : Provider, endpoint : EndpointClass,
     given : SUBSET Field, classes : SUBSET DataClasses, fallbacks : SUBSET Profiles]

ASSUME BodiesAssumption == Bodies \subseteq Body

VARIABLE profile \* the table inference_profiles: a function on the inserted ids

Init == profile = [p \in {} |-> {}]

-----------------------------------------------------------------------------
(* Creation                                                                *)

\* InferenceProfileCreate.provider_fields.
ProviderFields(body) ==
    /\ "tls_verify" \in body.given
    /\ body.endpoint = "local" => body.provider = "openai_compatible"
    /\ body.provider = "bedrock" => "region" \in body.given
    /\ body.provider = "azure_openai" => {"base_url", "api_version"} \subseteq body.given
    /\ body.endpoint # "local" /\ body.provider # "bedrock" => "credential_ref" \in body.given

\* Mutant: only public endpoints are refused.
KeepsLocalFromPublic(body, target) == body.endpoint = "local" => target.endpoint # "public"

KeepsLocal(body, target) == body.endpoint = "local" => target.endpoint = "local"

\* Mutant: some class in common is enough.
SharesClasses(body, target) ==
    body.classes \cap target.classes # {} \/ body.classes = {}

AllowsClasses(body, target) == body.classes \subseteq target.classes

\* Mutant: a fallback of any workspace is found.
FoundAnywhere(body, f) == f \in DOMAIN profile

Found(body, f) == f \in DOMAIN profile /\ profile[f].workspace = body.workspace

\* UNIQUE(workspace_id, name).
NameExists(body) ==
    \E q \in DOMAIN profile : /\ profile[q].workspace = body.workspace
                              /\ profile[q].name = body.name

CreateInferenceProfile(p, body) ==
    /\ p \notin DOMAIN profile
    /\ ProviderFields(body)
    /\ \A f \in body.fallbacks :
          /\ Found(body, f)
          /\ KeepsLocal(body, profile[f])
          /\ AllowsClasses(body, profile[f])
    /\ ~ NameExists(body)
    /\ profile' = [q \in DOMAIN profile \cup {p} |-> IF q = p THEN body ELSE profile[q]]

Next == \E p \in Profiles, body \in Bodies : CreateInferenceProfile(p, body)

Spec == Init /\ [][Next]_profile

-----------------------------------------------------------------------------
(* Where a fallback may lead                                               *)

\* A set of ids that fallbacks do not leave.
ClosedUnderFallback(S) == \A p \in S \cap DOMAIN profile : profile[p].fallbacks \subseteq S

\* The profiles that chains of fallbacks lead to from p, p among them.
Reach(p) == {q \in Profiles : \A S \in SUBSET Profiles :
                                  p \in S /\ ClosedUnderFallback(S) => q \in S}

\* Stored profiles are what the validation accepts, so a target read back is valid.
TypeOK ==
    /\ DOMAIN profile \subseteq Profiles
    /\ profile \in [DOMAIN profile -> Bodies]
    /\ \A p \in DOMAIN profile : "tls_verify" \in profile[p].given

\* A chain of fallbacks stays in the profile's workspace, and ends: no profile is its own
\* fallback.
ChainsEndInWorkspace ==
    \A p \in DOMAIN profile : \A f \in profile[p].fallbacks :
        /\ p \notin Reach(f)
        /\ \A q \in Reach(f) :
              q \in DOMAIN profile /\ profile[q].workspace = profile[p].workspace

\* What is routed to a local profile is never routed to another endpoint, however long the
\* chain of fallbacks.
LocalStaysLocal ==
    \A p \in DOMAIN profile : profile[p].endpoint = "local" =>
        \A q \in Reach(p) \cap DOMAIN profile : profile[q].endpoint = "local"

\* No chain of fallbacks leads to a profile that does not allow a class of data it is used for.
ClassesStayAllowed ==
    \A p \in DOMAIN profile : \A q \in Reach(p) \cap DOMAIN profile :
        profile[p].classes \subseteq profile[q].classes

-----------------------------------------------------------------------------
(* What the documents say and the code does not do                         *)

\* Private data never silently falls back to a public endpoint (docs/product-spec.md:26).
PrivateStaysPrivate ==
    \A p \in DOMAIN profile : profile[p].endpoint = "private" =>
        \A q \in Reach(p) \cap DOMAIN profile : profile[q].endpoint # "public"

=============================================================================
