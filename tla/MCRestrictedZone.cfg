SPECIFICATION SolvingSpec
CONSTANTS
    NumTasks = 2
    NumVehicles = 2
    Task <- MCTask
    Vehicle <- MCVehicle
    DestTime <- MCDestTime
    DestMeters <- MCDestMeters
    Valid <- MCValid
    MaxCost = 5000
    CostUnit = 360
    PartialSolutionResultEnabled = TRUE
    ExternalVehicle <- MCExternalVehicle
    ExternalTask <- MCExternalTask
    IntMax = 2
    ColonySize = 7
    TrialCountMax = 1
    MaxFitness = 3
    ZoneInputs <- MCZoneInputs
    TaskInputs <- MCTaskInputs
    VehicleInputs <- MCVehicleInputs
    Memory <- MCMemory
INVARIANT RestrictedZonesAvoided
