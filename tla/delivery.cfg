SPECIFICATION OpenDeliverySpec
CONSTANTS
    Ops = {o1, o2}
    Groups = {1}
    Runs <- OneRun
    Requests <- TwiceRequests
    Policy <- WindowPolicy
    Outcomes <- BothOutcomes
    Leases = {1}
    DayLength = 24
    MaxLag = 0
    MaxTime = 3
    KeyConfigured = TRUE
    MaxRestarts = 2
SYMMETRY Symmetry
INVARIANTS PermitsReachSomeone  SerialBytesBounded
CHECK_DEADLOCK FALSE
