SPECIFICATION McSpec
VIEW McView
CONSTANTS
    Ids = {i1, i2, i3, i4}
    Null = Null
    Answers <- McAnswers
    Texts <- McTexts
    CallChars <- McCalls
    Blank = "n"
    MaxEntries = 3
    MaxBytes = 6
    EntryBytes = 1
    BlockBytes <- McBlockBytes
    MaxClock = 6
    MaxTokens = 4
    Requests <- McRequests
    Pieces <- McPieces
SYMMETRY Symmetry
INVARIANTS
    TypeOK
    Consistent
    WithinLimits
    AttachTrue
    RestoreServes
    StreamedIsWhole
    StreamWellFormed
PROPERTY OldestGoes
