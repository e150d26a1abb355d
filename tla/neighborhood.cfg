SPECIFICATION UntoldSpec
CONSTANTS
    Workspaces <- OneWorkspace
    Names = {"name"}
    Projects <- OneProject
    Runs = {}
    Evidence <- OneEvidence
    Findings = {}
    Nodes <- NodeIds
    Edges = {x1, x2, x3}
    NoRun = NoRun
    EvidenceRequests <- Artifacts
    FindingRequests <- NoRequests
    NodeRequests <- Objects
    EdgeRequests <- Relations
    Queries <- DeepQueries
SYMMETRY Symmetry
INVARIANTS NothingInvented UncutAnswerIsClosed SmallAnswerIsComplete
CHECK_DEADLOCK FALSE
