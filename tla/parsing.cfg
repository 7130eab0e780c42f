SPECIFICATION FairSpec
CONSTANTS
    Word <- MCWord
    SP = "SP"
    LF = "LF"
    NUL = "NUL"
    VerbOf <- MCVerbOf
    Chunk = 6
    Texts <- MCTexts
    Samples <- MCSamples
    ShortLen = 3
    LongLen = 7
INVARIANTS
    TypeOK
    FirstLineDecides
    WritesAreNameable
    NeverAsksForMore
    CleanLinesAreSafe
    SearchesAreBounded
    CutTextsDoNothing
PROPERTY
    SeparatedTextsReturn
CHECK_DEADLOCK FALSE
