SPECIFICATION Spec
CONSTANTS
    NumTasks = 3
    NumVehicles = 5
    Task <- MCTask
    Vehicle <- MCVehicle
    DestTime <- MCDestTime
    DestMeters <- MCDestMeters
    Valid <- MCValid
    MaxCost = 1000000
INVARIANT ReportedDistanceFollowsRoute
CHECK_DEADLOCK FALSE
