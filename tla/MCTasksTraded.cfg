SPECIFICATION Spec
CONSTANTS
    NumTasks = 3
    NumVehicles = 1
    Task <- MCTask
    Vehicle <- MCVehicle
    DestTime <- MCDestTime
    DestMeters <- MCDestMeters
    Valid <- MCValid
    MaxCost = 5000
    CostUnit = 360
    PartialSolutionResultEnabled = TRUE
PROPERTY NeighbourKeepsTasks
