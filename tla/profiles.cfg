SPECIFICATION Spec
CONSTANTS
    Workspaces = {w1, w2}
    Names = {a, b, c}
    DataClasses = {metadata, sample}
    Profiles = {p1, p2, p3}
    Bodies <- AllBodies
SYMMETRY Symmetry
INVARIANTS ChainsEndInWorkspace LocalStaysLocal ClassesStayAllowed
CHECK_DEADLOCK FALSE
