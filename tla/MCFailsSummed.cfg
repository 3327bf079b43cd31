SPECIFICATION Spec
CONSTANTS
    Threads = {t1, t2}
    MaxFitness = 1
    HardLimit = 0
    NoNewLimit = 0
    Jitter = 0
    MaxFails = 1
INVARIANT FailsAreSummed
