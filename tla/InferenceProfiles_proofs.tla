----------------------- MODULE InferenceProfiles_proofs -----------------------
(***************************************************************************)
(* What holds of chains of fallbacks for every set of profiles.            *)
(***************************************************************************)
EXTENDS InferenceProfiles, TLAPS

\* What a handler checked of a profile and its fallbacks, of one step of a chain.
StepsAllowed ==
    \A p \in DOMAIN profile : \A f \in profile[p].fallbacks :
        /\ f \in DOMAIN profile /\ profile[f].workspace = profile[p].workspace
        /\ profile[p].endpoint = "local" => profile[f].endpoint = "local"
        /\ profile[p].classes \subseteq profile[f].classes

IInv == TypeOK /\ StepsAllowed /\ ChainsEndInWorkspace

-----------------------------------------------------------------------------
(* Chains                                                                  *)

\* A chain stays in every set that fallbacks do not leave.
LEMMA ReachStays ==
    ASSUME NEW S \in SUBSET Profiles, NEW p \in S, ClosedUnderFallback(S)
    PROVE  Reach(p) \subseteq S
    BY DEF Reach

\* The first profile of a chain is on it, and what is on it is followed by its fallbacks.
LEMMA ReachClosed ==
    ASSUME TypeOK, NEW p \in Profiles
    PROVE  p \in Reach(p) /\ ClosedUnderFallback(Reach(p))
  <1>1. \A q \in DOMAIN profile : profile[q].fallbacks \subseteq Profiles
    BY BodiesAssumption DEF TypeOK, Body
  <1> QED
    BY <1>1 DEF Reach, ClosedUnderFallback

\* A chain from a stored profile is of stored profiles of one workspace.
LEMMA ReachStored ==
    ASSUME TypeOK, StepsAllowed, NEW p \in DOMAIN profile
    PROVE  \A q \in Reach(p) :
               q \in DOMAIN profile /\ profile[q].workspace = profile[p].workspace
  <1> DEFINE S == {q \in DOMAIN profile : profile[q].workspace = profile[p].workspace}
  <1>1. S \in SUBSET Profiles /\ p \in S
    BY DEF TypeOK
  <1>2. ClosedUnderFallback(S)
    BY DEF ClosedUnderFallback, StepsAllowed
  <1>3. Reach(p) \subseteq S
    BY <1>1, <1>2, ReachStays
  <1> QED
    BY <1>3

-----------------------------------------------------------------------------
(* Preservation                                                            *)

\* A new profile refers to old ones, and no old one refers to it.
LEMMA CreateStep ==
    ASSUME IInv, NEW p \in Profiles, NEW body \in Bodies, CreateInferenceProfile(p, body)
    PROVE  IInv'
  <1>1. /\ p \notin DOMAIN profile
        /\ DOMAIN profile' = DOMAIN profile \cup {p}
        /\ profile'[p] = body
        /\ \A q \in DOMAIN profile : profile'[q] = profile[q]
        /\ profile' \in [DOMAIN profile' -> Bodies]
    BY DEF CreateInferenceProfile, IInv, TypeOK
  <1>2. /\ ProviderFields(body)
        /\ \A f \in body.fallbacks : /\ f \in DOMAIN profile
                                     /\ profile[f].workspace = body.workspace
                                     /\ body.endpoint = "local" => profile[f].endpoint = "local"
                                     /\ body.classes \subseteq profile[f].classes
    BY DEF CreateInferenceProfile, Found, KeepsLocal, AllowsClasses
  <1>3. TypeOK'
    BY <1>1, <1>2 DEF IInv, TypeOK, ProviderFields
  <1>4. StepsAllowed'
    <2>1. ASSUME NEW q \in DOMAIN profile', NEW f \in profile'[q].fallbacks
          PROVE  /\ f \in DOMAIN profile /\ profile[f].workspace = profile'[q].workspace
                 /\ profile'[q].endpoint = "local" => profile[f].endpoint = "local"
                 /\ profile'[q].classes \subseteq profile[f].classes
      BY <1>1, <1>2, <2>1 DEF IInv, StepsAllowed
    <2> QED
      BY <1>1, <2>1 DEF StepsAllowed
  <1>5. ASSUME NEW f \in DOMAIN profile
        PROVE  Reach(f)' \subseteq Reach(f)
    <2>1. Reach(f) \in SUBSET DOMAIN profile /\ Reach(f) \subseteq Profiles
      BY ReachStored DEF IInv, Reach
    <2>2. f \in Profiles
      BY DEF IInv, TypeOK
    <2>3. f \in Reach(f) /\ ClosedUnderFallback(Reach(f))
      BY <2>2, ReachClosed DEF IInv
    <2>4. PICK S : S = Reach(f)
      OBVIOUS
    <2>5. ClosedUnderFallback(S)'
      BY <1>1, <2>1, <2>3, <2>4 DEF ClosedUnderFallback
    <2> QED
      BY <2>1, <2>3, <2>4, <2>5 DEF Reach
  <1>6. ChainsEndInWorkspace'
    <2> SUFFICES ASSUME NEW q \in DOMAIN profile', NEW f \in profile'[q].fallbacks
                 PROVE  /\ q \notin Reach(f)'
                        /\ \A r \in Reach(f)' : /\ r \in DOMAIN profile'
                                                /\ profile'[r].workspace = profile'[q].workspace
      BY DEF ChainsEndInWorkspace
    <2>1. f \in DOMAIN profile /\ profile[f].workspace = profile'[q].workspace
      BY <1>1, <1>2 DEF IInv, StepsAllowed
    <2>2. \A r \in Reach(f)' :
              r \in Reach(f) /\ r \in DOMAIN profile /\ profile[r].workspace = profile[f].workspace
      BY <1>5, <2>1, ReachStored DEF IInv
    <2>3. q \notin Reach(f)'
      <3>1. CASE q = p
        BY <1>1, <2>2, <3>1
      <3>2. CASE q # p
        <4>1. q \in DOMAIN profile /\ f \in profile[q].fallbacks
          BY <1>1, <3>2
        <4> QED
          BY <2>2, <4>1 DEF IInv, ChainsEndInWorkspace
      <3> QED
        BY <3>1, <3>2
    <2> QED
      BY <1>1, <2>1, <2>2, <2>3
  <1> QED
    BY <1>3, <1>4, <1>6 DEF IInv

\* The invariant holds in every reachable state.
THEOREM Invariance == Spec => []IInv
  <1>1. Init => IInv
    BY DEF Init, IInv, TypeOK, StepsAllowed, ChainsEndInWorkspace
  <1>2. IInv /\ UNCHANGED profile => IInv'
    BY DEF IInv, TypeOK, StepsAllowed, ChainsEndInWorkspace, Reach, ClosedUnderFallback
  <1>3. IInv /\ Next => IInv'
    BY CreateStep DEF Next
  <1> QED
    BY <1>1, <1>2, <1>3, PTL DEF Spec

\* Stored profiles are valid (provider_fields).
THEOREM TypeCorrect == Spec => []TypeOK
  <1>1. IInv => TypeOK
    BY DEF IInv
  <1> QED
    BY <1>1, Invariance, PTL

\* Chains of fallbacks stay in their workspace and end (create_inference_profile's lookup of a
\* fallback, which must exist before).
THEOREM ChainsEnd == Spec => []ChainsEndInWorkspace
  <1>1. IInv => ChainsEndInWorkspace
    BY DEF IInv
  <1> QED
    BY <1>1, Invariance, PTL

\* Chains from a local profile stay local: the local profiles are closed under fallback.
THEOREM LocalChains == Spec => []LocalStaysLocal
  <1>1. ASSUME IInv
        PROVE  LocalStaysLocal
    <2> SUFFICES ASSUME NEW p \in DOMAIN profile, profile[p].endpoint = "local",
                        NEW q \in Reach(p)
                 PROVE  profile[q].endpoint = "local"
      BY DEF LocalStaysLocal
    <2> DEFINE S == {r \in DOMAIN profile : profile[r].endpoint = "local"}
    <2>1. S \in SUBSET Profiles /\ p \in S
      BY <1>1 DEF IInv, TypeOK
    <2>2. ClosedUnderFallback(S)
      BY <1>1 DEF IInv, StepsAllowed, ClosedUnderFallback
    <2> QED
      BY <2>1, <2>2, ReachStays
  <1> QED
    BY <1>1, Invariance, PTL

\* Data is only routed to profiles that allow it: the profiles that allow a profile's classes
\* are closed under fallback.
THEOREM ClassChains == Spec => []ClassesStayAllowed
  <1>1. ASSUME IInv
        PROVE  ClassesStayAllowed
    <2> SUFFICES ASSUME NEW p \in DOMAIN profile, NEW q \in Reach(p)
                 PROVE  profile[p].classes \subseteq profile[q].classes
      BY DEF ClassesStayAllowed
    <2> DEFINE S == {r \in DOMAIN profile : profile[p].classes \subseteq profile[r].classes}
    <2>1. S \in SUBSET Profiles /\ p \in S
      BY <1>1 DEF IInv, TypeOK
    <2>2. ClosedUnderFallback(S)
      BY <1>1 DEF IInv, StepsAllowed, ClosedUnderFallback
    <2> QED
      BY <2>1, <2>2, ReachStays
  <1> QED
    BY <1>1, Invariance, PTL

=============================================================================
