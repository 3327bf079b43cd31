SPECIFICATION ReaderSpec
CONSTANT Texts <- MCTexts
INVARIANTS
    ReaderTypeOK
    ReadsInside
    BufferIsText
    LongestToken
    TokensMeanValues
    DocumentsFaithful
PROPERTY ScanTerminates
CHECK_DEADLOCK FALSE
