SPECIFICATION QuietSpec
CONSTANTS
    Ops = {o1, o2}
    Groups = {1, 2, 3}
    Runs <- OneRun
    Requests <- AllRequests
    Policy <- OneAtATime
    Outcomes <- UnknownOutcome
    Leases = {0}
    DayLength = 24
    MaxLag = 0
    MaxTime = 1
    Fingerprint <- Resources
    Registrations <- AllRegistrations
    Target <- AllTargets
    NoGroup = NoGroup
SYMMETRY Symmetry
INVARIANTS OperationsStayAuthorized HealthSeesUnknown
PROPERTIES RegistrationNarrows
CHECK_DEADLOCK FALSE
