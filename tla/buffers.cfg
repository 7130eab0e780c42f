SPECIFICATION Spec
CONSTANTS
    Chunk = 2
    NUL = "NUL"
    Junk = "junk"
    n1 = n1
    n2 = n2
    Name <- MCName
    Letter = {"k"}
    MaxSize = 4
    MaxMemory = 6
    Beyond = {}
INVARIANTS
    TypeOK
    StaysInBounds
    KeepsBytes

SYMMETRY Symmetry
