SPECIFICATION FairSpec
CONSTANTS
    Word <- MCWord
    SP = "SP"
    LF = "LF"
    NUL = "NUL"
    VerbOf <- MCVerbOf
    Chunk = 6
    Texts <- MCTexts
    Samples <- MCSamples
    ShortLen = 3
    LongLen = 4
PROPERTY
    EveryCallReturns
CHECK_DEADLOCK FALSE
