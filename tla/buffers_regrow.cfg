SPECIFICATION Spec
CONSTANTS
    Chunk = 2
    NUL = "NUL"
    Junk = "junk"
    n1 = n1
    n2 = n2
    Name <- MCName
    Letter = {"k"}
    MaxSize = 5
    MaxMemory = 20
    Beyond = {"regrow"}
INVARIANTS
    FailsBeforeItOverruns

SYMMETRY Symmetry
