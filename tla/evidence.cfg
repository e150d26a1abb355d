SPECIFICATION NamedSpec
CONSTANTS
    Workspaces <- TwoWorkspaces
    Names = {"n1", "n2"}
    Projects <- TwoProjects
    Runs <- TwoRuns
    Evidence <- TwoEvidence
    Findings = {f1, f2}
    Nodes <- TwoNodes
    Edges = {x1}
    NoRun = NoRun
    EvidenceRequests <- Artifacts
    FindingRequests <- FewClaims
    NodeRequests <- Objects
    EdgeRequests <- FewRelations
INVARIANTS ReferencesStayInside
PROPERTIES ImplementsEvidenceTable ImplementsFindingTable
CHECK_DEADLOCK FALSE
