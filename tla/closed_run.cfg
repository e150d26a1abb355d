SPECIFICATION Spec
CONSTANTS
    Ops = {o1, o2}
    Groups = {1}
    Runs <- OneRun
    Requests <- OneGroupRequests
    Policy <- OneGroupPolicy
    Outcomes <- BothOutcomes
    Leases = {1}
    DayLength = 24
    MaxLag = 0
    MaxTime = 3
PROPERTIES CancellationPreventsNewWork
CHECK_DEADLOCK FALSE
