SPECIFICATION Spec
CONSTANTS
    Ops = {o1, o2, o3}
    Groups = {1, 2, 3}
    Runs <- OneRun
    Requests <- SharedRequests
    Policy <- SharedPolicy
    Outcomes <- BothOutcomes
    Leases = {1}
    DayLength = 4
    MaxLag = 1
    MaxTime = 3
SYMMETRY Symmetry
INVARIANTS TypeOK ChargedWhileUncertain CapacityRespected PermitUsedOnce AdmittedWithinPolicy RunOperationsBounded
PROPERTIES TerminalIsFinal FenceAdvances AdmissionSpacing ImplementsLedger
CHECK_DEADLOCK FALSE
