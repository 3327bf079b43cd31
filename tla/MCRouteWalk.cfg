SPECIFICATION Spec
CONSTANTS
    NumTasks = 3
    NumVehicles = 5
    Task <- MCTask
    Vehicle <- MCVehicle
    DestTime <- MCDestTime
    DestMeters <- MCDestMeters
    Valid <- MCValid
    MaxCost = 1000000
INVARIANTS
    TypeOK
    OnboardBookkeeping
    VehicleLimitsHold
    EmptyTruckNeverDelivers
    ReportFits
PROPERTY MatchesCheck
CHECK_DEADLOCK FALSE
