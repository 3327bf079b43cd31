SPECIFICATION Spec
CONSTANTS
    NumTasks = 2
    NumVehicles = 2
    Task <- MCTask
    Vehicle <- MCVehicle
    DestTime <- MCDestTime
    DestMeters <- MCDestMeters
    Valid <- MCValid
    MaxCost = 5000
    CostUnit = 360
    PartialSolutionResultEnabled = FALSE
INVARIANT UnsolvedIsInfeasible
