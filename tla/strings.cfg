SPECIFICATION Spec
CONSTANTS
    Word <- MCWord
    SP = "SP"
    LF = "LF"
    NUL = "NUL"
    Junk = "junk"
    VerbOf <- MCVerbOf
    Chunk = 2
    MaxLen = 5
    n1 = n1
    n2 = n2
    Name <- MCName
    Inputs <- MCInputs
    Needles <- MCNeedles
INVARIANTS
    TypeOK
    StaysInBounds
    EndsInNul
    FindsTheLeast
    ReadsInside
PROPERTY
    HoldTexts
SYMMETRY Symmetry
