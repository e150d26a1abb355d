SPECIFICATION FairExecSpec
CONSTANTS
    Ops = {o1, o2}
    Groups = {1}
    Runs <- OneRun
    Requests <- TwoRequests
    Policy <- OneAtATime
    Outcomes <- BothOutcomes
    Leases = {1}
    DayLength = 24
    MaxLag = 1
    MaxTime = 3
    CollectorChecked = TRUE
INVARIANTS ExecTypeOK SourceWithinCapacity ConfirmedHasEnded
PROPERTIES NeverRestarts AbandonedWorkSettles
CHECK_DEADLOCK FALSE
