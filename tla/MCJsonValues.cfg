SPECIFICATION ValuesSpec
CONSTANTS
    Docs <- MCDocs
    Vectors <- MCVectors
    Cuts <- MCCuts
    Narrow <- MCNarrow
INVARIANTS
    BinaryKept
    OrderSound
    PointersRestore
PROPERTY PatchesFit
CHECK_DEADLOCK FALSE
