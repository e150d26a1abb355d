SPECIFICATION FairOpenRunsSpec
CONSTANTS
    Ops = {1}
    Groups = {1}
    Runs <- OneRun
    Requests <- OneGroupRequests
    Policy <- OneGroupPolicy
    Outcomes <- BothOutcomes
    Leases = {1}
    DayLength = 24
    MaxLag = 0
    MaxTime = 3
PROPERTIES ExpiredPermitFreesSlot
CHECK_DEADLOCK FALSE
