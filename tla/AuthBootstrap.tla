---------------------------- MODULE AuthBootstrap ----------------------------
(***************************************************************************)
(* The first identity of an installation and the requests of its tokens:   *)
(* AuthService of src/backend/src/reweft/auth/service.py, create_app's     *)
(* installation of the bootstrap token and its context_for and require.    *)
(*                                                                         *)
(* install_bootstrap_token and bootstrap read the clock before they have   *)
(* the database's write lock, so a step uses a reading at most MaxLag old. *)
(* A request's context is read before its handler runs.  No code here      *)
(* narrows, revokes or ends a token, or adds a second workspace: the       *)
(* schema lets an administrator do so by hand (and a test does), which     *)
(* Administer models.                                                      *)
(***************************************************************************)
EXTENDS Naturals, FiniteSets

CONSTANTS
    Secrets,     \* bootstrap tokens, configured or generated, of the process's starts
    Users, Workspaces, ApiTokens,  \* the ids that may be made
    Lifetime,    \* how long a bootstrap token lives
    MaxLag, MaxTime,
    Narrowings,  \* the explicit scopes an administrator may give a token
    MaxRequests, \* requests between their context and their handler
    Null         \* an empty column

ASSUME TimesAssumption ==
    /\ Lifetime \in Nat \ {0} /\ MaxLag \in Nat /\ MaxTime \in Nat /\ MaxRequests \in Nat
    /\ Null \notin Nat

Role == {"owner", "administrator", "operator", "contributor", "viewer"}

Reads == {"evidence:read", "lineage:read"}
Operates == Reads \cup {"assessment:run", "evidence:write", "lineage:write", "export"}
Administers == Operates \cup {"source:admin", "inference:admin"}

RolePermissions == [r \in Role |->
    CASE r = "owner" -> Administers \cup {"workspace:admin"}
      [] r = "administrator" -> Administers
      [] r = "operator" -> Operates
      [] r \in {"contributor", "viewer"} -> Reads]

Permission == RolePermissions["owner"]

ASSUME NarrowingsAssumption == Narrowings \subseteq SUBSET Permission

VARIABLES
    clock,
    bootstrapToken, \* table bootstrap_tokens: secret -> [expires, consumed]
    user, workspace, membership, \* the tables of these names
    apiToken,       \* table api_tokens: token -> [user, scopes, expires, revoked]
    answer,         \* what bootstrap returned: the only copies of its api tokens
    context         \* requests with an AuthContext whose handler has not run

tables == <<bootstrapToken, user, workspace, membership, apiToken, answer>>
vars == <<clock, tables, context>>

Nothing == [x \in {} |-> {}]

With(f, x, y) == [z \in DOMAIN f \cup {x} |-> IF z = x THEN y ELSE f[z]]

Init ==
    /\ clock = 0
    /\ bootstrapToken = Nothing /\ apiToken = Nothing
    /\ user = {} /\ workspace = {} /\ membership = {} /\ answer = {} /\ context = {}

\* A reading of the clock before the lock.
Reading == {at \in 0..clock : clock - at <= MaxLag}

-----------------------------------------------------------------------------
(* Bootstrap                                                               *)

\* Mutant: INSERT OR REPLACE.
RenewedRow(secret, at) == [expires |-> at + Lifetime, consumed |-> FALSE]

\* INSERT OR IGNORE: an installed secret keeps its row.
InstalledRow(secret, at) ==
    IF secret \in DOMAIN bootstrapToken THEN bootstrapToken[secret]
    ELSE [expires |-> at + Lifetime, consumed |-> FALSE]

\* create_app, at every start of a process.
InstallBootstrapToken(secret, at) ==
    /\ user = {}
    /\ bootstrapToken' = With(bootstrapToken, secret, InstalledRow(secret, at))
    /\ UNCHANGED <<clock, user, workspace, membership, apiToken, answer, context>>

\* Mutant: a valid secret is enough.
AdmitsBySecret(secret, at) ==
    /\ secret \in DOMAIN bootstrapToken
    /\ ~ bootstrapToken[secret].consumed
    /\ bootstrapToken[secret].expires > at

AdmitsIdentity(secret, at) ==
    /\ secret \in DOMAIN bootstrapToken
    /\ ~ bootstrapToken[secret].consumed
    /\ bootstrapToken[secret].expires > at
    /\ user = {}

FirstToken(u) == [user |-> u, scopes |-> {}, expires |-> Null, revoked |-> Null]

Bootstrap(secret, at, u, w, t) ==
    /\ u \notin user /\ w \notin workspace /\ t \notin DOMAIN apiToken
    /\ AdmitsIdentity(secret, at)
    /\ user' = user \cup {u}
    /\ workspace' = workspace \cup {w}
    /\ membership' = membership \cup {[workspace |-> w, user |-> u, role |-> "owner"]}
    /\ apiToken' = With(apiToken, t, FirstToken(u))
    /\ bootstrapToken' = [bootstrapToken EXCEPT ![secret].consumed = TRUE]
    /\ answer' = answer \cup {[user |-> u, workspace |-> w, token |-> t]}
    /\ UNCHANGED <<clock, context>>

-----------------------------------------------------------------------------
(* Requests                                                                *)

\* Mutant: the token's user in any workspace.
RolesAnywhere(t, w) == {m.role : m \in {n \in membership : n.user = apiToken[t].user}}

\* The join of api_tokens and memberships.
Roles(t, w) ==
    {m.role : m \in {n \in membership : n.user = apiToken[t].user /\ n.workspace = w}}

\* What authenticate grants a token in a workspace.
Granted(t, w) ==
    IF \/ t \notin DOMAIN apiToken
       \/ apiToken[t].revoked # Null
       \/ apiToken[t].expires # Null /\ apiToken[t].expires <= clock
    THEN {}
    ELSE {p \in UNION {RolePermissions[r] : r \in Roles(t, w)} :
              apiToken[t].scopes = {} \/ p \in apiToken[t].scopes}

\* The dependencies of a route: context_for, then require.
Require(t, w, p) ==
    /\ Cardinality(context) < MaxRequests
    /\ p \in Granted(t, w)
    /\ context' = context \cup {[token |-> t, workspace |-> w, permission |-> p, at |-> clock]}
    /\ UNCHANGED <<clock, tables>>

\* The route's handler, whose work the other modules model.
Handle(request) ==
    /\ context' = context \ {request}
    /\ UNCHANGED <<clock, tables>>

-----------------------------------------------------------------------------
(* Outside                                                                 *)

\* A second workspace, a further token of a user, the end of a token: by hand.
AddWorkspace(w) ==
    /\ w \notin workspace
    /\ workspace' = workspace \cup {w}
    /\ UNCHANGED <<clock, bootstrapToken, user, membership, apiToken, answer, context>>

IssueToken(t, u, scopes, expires) ==
    /\ t \notin DOMAIN apiToken
    /\ apiToken' =
          With(apiToken, t, [user |-> u, scopes |-> scopes, expires |-> expires, revoked |-> Null])
    /\ UNCHANGED <<clock, bootstrapToken, user, workspace, membership, answer, context>>

Revoke(t) ==
    /\ apiToken[t].revoked = Null
    /\ apiToken' = [apiToken EXCEPT ![t].revoked = clock]
    /\ UNCHANGED <<clock, bootstrapToken, user, workspace, membership, answer, context>>

Administer ==
    \/ \E w \in Workspaces : AddWorkspace(w)
    \/ \E t \in ApiTokens, u \in user, scopes \in Narrowings, expires \in 1..MaxTime :
          IssueToken(t, u, scopes, expires)
    \/ \E t \in DOMAIN apiToken : Revoke(t)

Tick ==
    /\ clock < MaxTime
    /\ clock' = clock + 1
    /\ UNCHANGED <<tables, context>>

Next ==
    \/ \E secret \in Secrets, at \in Reading : InstallBootstrapToken(secret, at)
    \/ \E secret \in Secrets, at \in Reading, u \in Users, w \in Workspaces, t \in ApiTokens :
          Bootstrap(secret, at, u, w, t)
    \/ \E t \in ApiTokens, w \in Workspaces, p \in Permission : Require(t, w, p)
    \/ \E request \in context : Handle(request)
    \/ Administer
    \/ Tick

Spec == Init /\ [][Next]_vars

-----------------------------------------------------------------------------
(* Properties                                                              *)

\* The tables hold rows of their schema, and references to rows that exist.
TypeOK ==
    /\ clock \in 0..MaxTime
    /\ DOMAIN bootstrapToken \subseteq Secrets
    /\ bootstrapToken \in [DOMAIN bootstrapToken ->
          [expires : Lifetime..(MaxTime + Lifetime), consumed : BOOLEAN]]
    /\ user \subseteq Users /\ workspace \subseteq Workspaces
    /\ membership \subseteq [workspace : workspace, user : user, role : Role]
    /\ DOMAIN apiToken \subseteq ApiTokens
    /\ apiToken \in [DOMAIN apiToken ->
          [user : user, scopes : SUBSET Permission, expires : Nat \cup {Null},
           revoked : Nat \cup {Null}]]
    /\ answer \subseteq [user : user, workspace : workspace, token : DOMAIN apiToken]
    /\ context \subseteq
          [token : DOMAIN apiToken, workspace : Workspaces, permission : Permission,
           at : 0..clock]

\* However many secrets the process's starts install and clients send at once, one of them
\* makes one owner of one workspace, and the others make nothing.
OneIdentity ==
    /\ \A u, v \in user : u = v
    /\ \A m, n \in membership : m = n
    /\ \A a, b \in answer : a = b
    /\ \A s, r \in DOMAIN bootstrapToken :
          bootstrapToken[s].consumed /\ bootstrapToken[r].consumed => s = r
    /\ user # {} <=> \E s \in DOMAIN bootstrapToken : bootstrapToken[s].consumed

\* No reading of the clock finds the secret valid any more.
Spent(s) ==
    /\ s \in DOMAIN bootstrapToken
    /\ bootstrapToken[s].consumed \/ bootstrapToken[s].expires + MaxLag <= clock

\* A secret that was used or has expired stays so, whatever the starts that install it again.
KeepsSpent ==
    \A s \in Secrets : Spent(s) =>
        Spent(s)' /\ s \in DOMAIN bootstrapToken' /\ bootstrapToken'[s] = bootstrapToken[s]

SpentStaysSpent == [][KeepsSpent]_vars

\* The token bootstrap returns is granted everything a route may require, in the workspace it
\* returns, until it is revoked.
OwnerReachesAll ==
    \A a \in answer : apiToken[a.token].revoked = Null =>
        Granted(a.token, a.workspace) = Permission

\* A handler runs for a member of its workspace whose role has the permission, with a token
\* that has not given it up and that was neither expired nor revoked before its context was
\* read; so it is also when the handler runs later.
ContextsAreAuthorized ==
    \A c \in context :
        LET t == apiToken[c.token] IN
        /\ \E m \in membership : /\ m.user = t.user /\ m.workspace = c.workspace
                                 /\ c.permission \in RolePermissions[m.role]
        /\ t.scopes = {} \/ c.permission \in t.scopes
        /\ t.expires = Null \/ c.at < t.expires
        /\ t.revoked = Null \/ c.at <= t.revoked

=============================================================================
