SPECIFICATION ServiceSpec
CONSTANTS
    Solves = {s1, s2, s3}
    Pings = {p1, p2}
    NumCPU = 2
    Modulus <- MCModulus
    Numerals <- MCNumerals
    Json <- MCJson
    Bodies <- MCBodies
    Texts <- MCTexts
    Samples <- MCSamples
    Int32Max = 63
    Values = {1, 7}
    Files <- MCFiles
    Levels = {"debug", "trace"}
    Callers = {"r1", "r2"}
    Asked = {"trace", "info", "error", "loud"}
    Parallel = {"p"}
    Sequential = {"s"}
    Workers = {"w1", "w2"}
    MaxElement = 2
    MaxFails = 1
INVARIANTS
    ServiceTypeOK
    SlotsAccounted
    AnswerFits
    AskedIsSolved
    ConsolesTell
PROPERTIES
    EveryRequestAnswered
    KeepsPromise
    RequestsApart
