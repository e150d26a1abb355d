------------------------ MODULE AuthBootstrap_proofs ------------------------
(***************************************************************************)
(* The first identity is the only one, for every number of secrets.        *)
(***************************************************************************)
EXTENDS AuthBootstrap, TLAPS

\* What the answer of bootstrap describes, and what of it is never given up but by revocation.
AnswersHold ==
    \A a \in answer :
        /\ [workspace |-> a.workspace, user |-> a.user, role |-> "owner"] \in membership
        /\ apiToken[a.token].user = a.user
        /\ apiToken[a.token].scopes = {} /\ apiToken[a.token].expires = Null

\* Before the first user there is nothing to conflict with.
NothingBefore ==
    user = {} =>
        /\ membership = {} /\ answer = {} /\ apiToken = Nothing
        /\ \A s \in DOMAIN bootstrapToken : ~ bootstrapToken[s].consumed

IInv ==
    /\ TypeOK
    /\ OneIdentity
    /\ NothingBefore
    /\ AnswersHold
    /\ ContextsAreAuthorized

-----------------------------------------------------------------------------
(* Lemmas                                                                  *)

\* Every role's permissions are among the owner's.
LEMMA RolesGrantPermissions ==
    \A r \in Role : RolePermissions[r] \subseteq Permission
    BY DEF Role, RolePermissions, Permission, Administers, Operates, Reads

\* A reading of the clock is not in the future.
LEMMA ReadingIsPast ==
    ASSUME TypeOK, NEW at \in Reading
    PROVE  at \in Nat /\ at <= clock /\ clock <= at + MaxLag /\ clock <= MaxTime
    BY TimesAssumption DEF TypeOK, Reading

-----------------------------------------------------------------------------
(* The actions                                                             *)

LEMMA InstallStep ==
    ASSUME IInv, NEW secret \in Secrets, NEW at \in Reading, InstallBootstrapToken(secret, at)
    PROVE  IInv'
  <1>1. /\ DOMAIN bootstrapToken' = DOMAIN bootstrapToken \cup {secret}
        /\ \A s \in DOMAIN bootstrapToken : bootstrapToken'[s] = bootstrapToken[s]
        /\ secret \notin DOMAIN bootstrapToken =>
              bootstrapToken'[secret] = [expires |-> at + Lifetime, consumed |-> FALSE]
        /\ bootstrapToken' = [s \in DOMAIN bootstrapToken' |-> bootstrapToken'[s]]
    BY DEF With, InstallBootstrapToken, InstalledRow
  <1>2. at + Lifetime \in Lifetime..(MaxTime + Lifetime)
    BY ReadingIsPast, TimesAssumption DEF IInv, TypeOK
  <1>3. bootstrapToken' \in [DOMAIN bootstrapToken' ->
            [expires : Lifetime..(MaxTime + Lifetime), consumed : BOOLEAN]]
    <2> DEFINE Row == [expires : Lifetime..(MaxTime + Lifetime), consumed : BOOLEAN]
    <2>1. ASSUME NEW s \in DOMAIN bootstrapToken'
          PROVE  bootstrapToken'[s] \in Row
      <3>1. CASE s \in DOMAIN bootstrapToken
        BY <1>1, <3>1 DEF IInv, TypeOK
      <3>2. CASE s \notin DOMAIN bootstrapToken
        <4>1. bootstrapToken'[s] = [expires |-> at + Lifetime, consumed |-> FALSE]
          BY <1>1, <2>1, <3>2
        <4> QED
          BY <1>2, <4>1
      <3> QED
        BY <3>1, <3>2
    <2> HIDE DEF Row
    <2>2. bootstrapToken' \in [DOMAIN bootstrapToken' -> Row]
      BY <1>1, <2>1
    <2> QED
      BY <2>2 DEF Row
  <1>4. TypeOK'
    BY <1>1, <1>3 DEF IInv, TypeOK, InstallBootstrapToken
  <1>5. user = {} /\ \A s \in DOMAIN bootstrapToken' : bootstrapToken'[s].consumed = FALSE
    BY <1>1, <1>3 DEF IInv, NothingBefore, InstallBootstrapToken, TypeOK
  <1>6. OneIdentity' /\ NothingBefore'
    BY <1>5 DEF IInv, OneIdentity, NothingBefore, InstallBootstrapToken
  <1> QED
    BY <1>4, <1>6 DEF IInv, AnswersHold, ContextsAreAuthorized, InstallBootstrapToken

LEMMA BootstrapStep ==
    ASSUME IInv, NEW secret \in Secrets, NEW at \in Reading, NEW u \in Users,
           NEW w \in Workspaces, NEW t \in ApiTokens, Bootstrap(secret, at, u, w, t)
    PROVE  IInv'
  <1> DEFINE owner == [workspace |-> w, user |-> u, role |-> "owner"]
             said == [user |-> u, workspace |-> w, token |-> t]
  <1>1. /\ user = {} /\ secret \in DOMAIN bootstrapToken
        /\ membership = {} /\ answer = {} /\ DOMAIN apiToken = {}
        /\ \A s \in DOMAIN bootstrapToken : ~ bootstrapToken[s].consumed
    BY DEF Bootstrap, AdmitsIdentity, IInv, NothingBefore, Nothing
  <1>2. /\ user' = {u} /\ workspace' = workspace \cup {w}
        /\ membership' = {owner} /\ answer' = {said}
        /\ UNCHANGED <<clock, context>>
    BY <1>1 DEF Bootstrap
  <1>3. /\ DOMAIN apiToken' = {t}
        /\ apiToken'[t] = [user |-> u, scopes |-> {}, expires |-> Null, revoked |-> Null]
        /\ apiToken' = [x \in DOMAIN apiToken' |-> apiToken'[x]]
    BY <1>1 DEF With, Bootstrap, FirstToken
  <1>4. /\ DOMAIN bootstrapToken' = DOMAIN bootstrapToken
        /\ bootstrapToken'[secret].consumed = TRUE
        /\ \A s \in DOMAIN bootstrapToken : s # secret => bootstrapToken'[s] = bootstrapToken[s]
        /\ bootstrapToken' \in [DOMAIN bootstrapToken' ->
              [expires : Lifetime..(MaxTime + Lifetime), consumed : BOOLEAN]]
    BY <1>1 DEF Bootstrap, IInv, TypeOK
  <1>5. context = {}
    BY <1>1 DEF IInv, TypeOK
  <1>6. TypeOK'
    <2>1. apiToken' \in [DOMAIN apiToken' ->
            [user : user', scopes : SUBSET Permission, expires : Nat \cup {Null},
             revoked : Nat \cup {Null}]]
      BY <1>2, <1>3
    <2>2. membership' \subseteq [workspace : workspace', user : user', role : Role]
      BY <1>2 DEF Role
    <2>3. answer' \subseteq [user : user', workspace : workspace', token : DOMAIN apiToken']
      BY <1>2, <1>3
    <2>4. clock' \in 0..MaxTime /\ context' = {} /\ workspace' \subseteq Workspaces
      BY <1>2, <1>5 DEF IInv, TypeOK
    <2>5. DOMAIN bootstrapToken' \subseteq Secrets
      BY <1>4 DEF IInv, TypeOK
    <2> QED
      BY <1>2, <1>3, <1>4, <2>1, <2>2, <2>3, <2>4, <2>5 DEF TypeOK
  <1>7. OneIdentity'
    BY <1>1, <1>2, <1>4 DEF OneIdentity
  <1>8. NothingBefore'
    BY <1>2 DEF NothingBefore
  <1>9. AnswersHold'
    BY <1>2, <1>3 DEF AnswersHold
  <1>10. ContextsAreAuthorized'
    BY <1>2, <1>5 DEF ContextsAreAuthorized
  <1> QED
    BY <1>6, <1>7, <1>8, <1>9, <1>10 DEF IInv

LEMMA RequireStep ==
    ASSUME IInv, NEW t \in ApiTokens, NEW w \in Workspaces, NEW p \in Permission,
           Require(t, w, p)
    PROVE  IInv'
  <1> DEFINE c == [token |-> t, workspace |-> w, permission |-> p, at |-> clock]
  <1>1. /\ UNCHANGED <<clock, bootstrapToken, user, workspace, membership, apiToken, answer>>
        /\ context' = context \cup {c}
    BY DEF Require, tables
  <1>2. p \in Granted(t, w)
    BY DEF Require
  <1>3. /\ t \in DOMAIN apiToken
        /\ apiToken[t].revoked = Null
        /\ apiToken[t].expires = Null \/ ~ apiToken[t].expires <= clock
        /\ p \in UNION {RolePermissions[r] : r \in Roles(t, w)}
        /\ apiToken[t].scopes = {} \/ p \in apiToken[t].scopes
    BY <1>2 DEF Granted
  <1>4. \E m \in membership : /\ m.user = apiToken[t].user /\ m.workspace = w
                              /\ p \in RolePermissions[m.role]
    BY <1>3 DEF Roles
  <1>5. apiToken[t].expires = Null \/ clock < apiToken[t].expires
    BY <1>3 DEF IInv, TypeOK
  <1>6. TypeOK'
    BY <1>1, <1>3 DEF IInv, TypeOK
  <1>7. ContextsAreAuthorized'
    BY <1>1, <1>3, <1>4, <1>5 DEF IInv, ContextsAreAuthorized
  <1> QED
    BY <1>1, <1>6, <1>7 DEF IInv, OneIdentity, NothingBefore, AnswersHold

LEMMA HandleStep ==
    ASSUME IInv, NEW request \in context, Handle(request)
    PROVE  IInv'
  <1>1. /\ UNCHANGED <<clock, bootstrapToken, user, workspace, membership, apiToken, answer>>
        /\ context' \subseteq context
    BY DEF Handle, tables
  <1> QED
    BY <1>1 DEF IInv, TypeOK, OneIdentity, NothingBefore, AnswersHold, ContextsAreAuthorized

LEMMA WorkspaceStep ==
    ASSUME IInv, NEW w \in Workspaces, AddWorkspace(w)
    PROVE  IInv'
    BY DEF AddWorkspace, IInv, TypeOK, OneIdentity, NothingBefore, AnswersHold,
           ContextsAreAuthorized

LEMMA IssueStep ==
    ASSUME IInv, NEW t \in ApiTokens, NEW u \in user, NEW scopes \in Narrowings,
           NEW expires \in 1..MaxTime, IssueToken(t, u, scopes, expires)
    PROVE  IInv'
  <1>1. /\ t \notin DOMAIN apiToken /\ DOMAIN apiToken' = DOMAIN apiToken \cup {t}
        /\ apiToken'[t] = [user |-> u, scopes |-> scopes, expires |-> expires, revoked |-> Null]
        /\ \A x \in DOMAIN apiToken : apiToken'[x] = apiToken[x]
        /\ apiToken' = [x \in DOMAIN apiToken' |-> apiToken'[x]]
        /\ UNCHANGED <<clock, bootstrapToken, user, workspace, membership, answer, context>>
    BY DEF With, IssueToken
  <1>2. TypeOK'
    <2>1. apiToken' \in [DOMAIN apiToken' ->
            [user : user, scopes : SUBSET Permission, expires : Nat \cup {Null},
             revoked : Nat \cup {Null}]]
      BY <1>1, NarrowingsAssumption DEF IInv, TypeOK
    <2> QED
      BY <1>1, <2>1 DEF IInv, TypeOK
  <1>3. AnswersHold' /\ ContextsAreAuthorized'
    BY <1>1 DEF IInv, TypeOK, AnswersHold, ContextsAreAuthorized
  <1> QED
    BY <1>1, <1>2, <1>3 DEF IInv, OneIdentity, NothingBefore

LEMMA RevokeStep ==
    ASSUME IInv, NEW t \in DOMAIN apiToken, Revoke(t)
    PROVE  IInv'
  <1>1. /\ DOMAIN apiToken' = DOMAIN apiToken
        /\ \A x \in DOMAIN apiToken :
              /\ apiToken'[x].user = apiToken[x].user
              /\ apiToken'[x].scopes = apiToken[x].scopes
              /\ apiToken'[x].expires = apiToken[x].expires
              /\ apiToken'[x].revoked = apiToken[x].revoked \/ apiToken'[x].revoked = clock
        /\ clock \in Nat
        /\ apiToken' \in [DOMAIN apiToken' ->
              [user : user, scopes : SUBSET Permission, expires : Nat \cup {Null},
               revoked : Nat \cup {Null}]]
        /\ UNCHANGED <<clock, bootstrapToken, user, workspace, membership, answer, context>>
    BY TimesAssumption DEF Revoke, IInv, TypeOK
  <1>2. TypeOK'
    BY <1>1 DEF IInv, TypeOK
  <1>3. AnswersHold'
    BY <1>1 DEF IInv, TypeOK, AnswersHold
  <1>4. ContextsAreAuthorized'
    BY <1>1 DEF IInv, TypeOK, ContextsAreAuthorized
  <1>5. user # {}
    BY DEF IInv, NothingBefore, Nothing
  <1> QED
    BY <1>1, <1>2, <1>3, <1>4, <1>5 DEF IInv, OneIdentity, NothingBefore

LEMMA TickStep ==
    ASSUME IInv, Tick
    PROVE  IInv'
    BY TimesAssumption
       DEF Tick, tables, IInv, TypeOK, OneIdentity, NothingBefore, AnswersHold,
           ContextsAreAuthorized

-----------------------------------------------------------------------------
(* Theorems                                                                *)

\* The invariant holds in every reachable state.
THEOREM Invariance == Spec => []IInv
  <1>1. Init => IInv
    BY TimesAssumption DEF Init, Nothing, IInv, TypeOK, OneIdentity, NothingBefore, AnswersHold,
           ContextsAreAuthorized
  <1>2. ASSUME IInv, Next
        PROVE  IInv'
    BY <1>2, InstallStep, BootstrapStep, RequireStep, HandleStep, WorkspaceStep, IssueStep,
       RevokeStep, TickStep DEF Next, Administer
  <1>3. IInv /\ UNCHANGED vars => IInv'
    BY DEF vars, tables, IInv, TypeOK, OneIdentity, NothingBefore, AnswersHold,
           ContextsAreAuthorized
  <1> QED
    BY <1>1, <1>2, <1>3, PTL DEF Spec

\* The tables keep their schema and their references (AuthService).
THEOREM TypeCorrect == Spec => []TypeOK
  <1>1. IInv => TypeOK
    BY DEF IInv
  <1> QED
    BY <1>1, Invariance, PTL

\* One secret makes one owner (bootstrap's transaction).
THEOREM IdentityIsOne == Spec => []OneIdentity
  <1>1. IInv => OneIdentity
    BY DEF IInv
  <1> QED
    BY <1>1, Invariance, PTL

\* A handler runs with what its token was granted (context_for and require).
THEOREM ContextsAuthorized == Spec => []ContextsAreAuthorized
  <1>1. IInv => ContextsAreAuthorized
    BY DEF IInv
  <1> QED
    BY <1>1, Invariance, PTL

\* The answer of bootstrap is enough for every route (authenticate's empty list of scopes).
THEOREM OwnerReaches == Spec => []OwnerReachesAll
  <1>1. ASSUME IInv
        PROVE  OwnerReachesAll
    <2> SUFFICES ASSUME NEW a \in answer, apiToken[a.token].revoked = Null
                 PROVE  Granted(a.token, a.workspace) = Permission
      BY DEF OwnerReachesAll
    <2>1. /\ a.token \in DOMAIN apiToken
          /\ apiToken[a.token].scopes = {} /\ apiToken[a.token].expires = Null
      BY <1>1 DEF IInv, TypeOK, AnswersHold
    <2>2. "owner" \in Roles(a.token, a.workspace)
      <3>1. PICK m \in membership : /\ m.user = apiToken[a.token].user
                                    /\ m.workspace = a.workspace /\ m.role = "owner"
        BY <1>1 DEF IInv, AnswersHold
      <3> QED
        BY <3>1 DEF Roles
    <2>3. Roles(a.token, a.workspace) \subseteq Role
      BY <1>1 DEF IInv, TypeOK, Roles
    <2>4. UNION {RolePermissions[r] : r \in Roles(a.token, a.workspace)} = Permission
      BY <2>2, <2>3, RolesGrantPermissions DEF Permission
    <2> QED
      BY <2>1, <2>4 DEF Granted
  <1> QED
    BY <1>1, Invariance, PTL

\* A used or expired secret is never renewed (INSERT OR IGNORE, and the order of the checks).
THEOREM SpentStays == Spec => SpentStaysSpent
  <1>1. ASSUME IInv, Next, NEW s \in Secrets, Spent(s)
        PROVE  Spent(s)' /\ s \in DOMAIN bootstrapToken' /\ bootstrapToken'[s] = bootstrapToken[s]
    <2>1. clock' \in Nat /\ clock \in Nat /\ clock <= clock'
      <3>1. clock' = clock \/ clock' = clock + 1
        BY <1>1
           DEF Next, InstallBootstrapToken, Bootstrap, Require, Handle, Administer,
               AddWorkspace, IssueToken, Revoke, Tick, tables
      <3>2. clock \in Nat
        BY <1>1, TimesAssumption DEF IInv, TypeOK
      <3> QED
        BY <3>1, <3>2
    <2>2. s \in DOMAIN bootstrapToken /\ bootstrapToken[s].expires \in Nat
      BY <1>1, TimesAssumption DEF IInv, TypeOK, Spent
    <2>3. s \in DOMAIN bootstrapToken' /\ bootstrapToken'[s] = bootstrapToken[s]
      <3>1. CASE \E secret \in Secrets, at \in Reading : InstallBootstrapToken(secret, at)
        BY <2>2, <3>1 DEF With, InstallBootstrapToken, InstalledRow
      <3>2. ASSUME NEW secret \in Secrets, NEW at \in Reading, NEW u \in Users,
                   NEW w \in Workspaces, NEW t \in ApiTokens, Bootstrap(secret, at, u, w, t)
            PROVE  s \in DOMAIN bootstrapToken' /\ bootstrapToken'[s] = bootstrapToken[s]
        <4>1. secret # s
          BY <1>1, <2>2, <3>2, ReadingIsPast, TimesAssumption
             DEF IInv, TypeOK, Spent, Bootstrap, AdmitsIdentity
        <4> QED
          BY <2>2, <3>2, <4>1 DEF Bootstrap
      <3>3. CASE UNCHANGED bootstrapToken
        BY <2>2, <3>3
      <3> QED
        BY <1>1, <3>1, <3>2, <3>3
           DEF Next, Require, Handle, Administer, AddWorkspace, IssueToken, Revoke, Tick, tables
    <2> QED
      BY <1>1, <2>1, <2>2, <2>3, TimesAssumption DEF Spent
  <1>2. IInv /\ [Next]_vars => [KeepsSpent]_vars
    BY <1>1 DEF KeepsSpent
  <1> QED
    BY <1>2, Invariance, PTL DEF Spec, SpentStaysSpent

=============================================================================
