SPECIFICATION Spec
CONSTANTS
    Runs = {r1}
    Clients = {c1, c2, c3}
    Gaps = {g1, g2}
    MaxVersion = 7
SYMMETRY Symmetry
INVARIANTS TypeOK VersionNamesRow
PROPERTIES  GapsStayExplicit ImplementsLifecycle
