SPECIFICATION FairSpec
CONSTANTS
    Threads = {t1, t2}
    MaxFitness = 3
    HardLimit = 2
    NoNewLimit = 0
    Jitter = 1
    MaxFails = 0
INVARIANTS
    TypeOK
    OneWinnerPerFitness
    ResultIsBest
    HardLimitOverrun
PROPERTIES
    SharedOnlyImproves
    NoFreshBestIgnored
    Termination
    ImplementsSearch
