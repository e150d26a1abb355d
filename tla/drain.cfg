SPECIFICATION FairOpenRunsSpec
CONSTANTS
    Ops = {1, 2, 3}
    Groups = {1, 2}
    Runs <- OneRun
    Requests <- QueueRequests
    Policy <- QueuePolicy
    Outcomes <- BothOutcomes
    Leases = {0}
    DayLength = 24
    MaxLag = 0
    MaxTime = 2
PROPERTIES BegunSettles 
CHECK_DEADLOCK FALSE
