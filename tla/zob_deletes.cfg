SPECIFICATION Spec
CONSTANTS
    Word <- MCWord
    SP = "SP"
    LF = "LF"
    NUL = "NUL"
    VerbOf <- MCVerbOf
    Chunk = 100
    ReadRoom = 3
    IoMayFail = FALSE
    c1 = c1
    c2 = c2
    Client <- MCClient
    NoClient = NoClient
    Keys <- OneKey
    Values <- Few
    Broken <- NoTexts
    Commands <- MCCommands
    Inputs <- MCInputs
    AnswerRoom = 2
    Durable = {"new", "update"}
    CanCrash = TRUE
    CanHangUp = TRUE
INVARIANT AckedDeletesAreOnDisk
