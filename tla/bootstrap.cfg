SPECIFICATION Spec
CONSTANTS
    Secrets = {s1, s2}
    Users = {u1, u2}
    Workspaces = {w1, w2}
    ApiTokens = {t1, t2}
    Lifetime = 1
    MaxLag = 1
    MaxTime = 3
    Narrowings <- SomeScopes
    MaxRequests = 1
    Null = Null
SYMMETRY Symmetry
INVARIANTS OneIdentity ContextsAreAuthorized
PROPERTIES SpentStaysSpent
CHECK_DEADLOCK FALSE
