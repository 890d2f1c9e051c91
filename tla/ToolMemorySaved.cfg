SPECIFICATION Spec
CONSTANTS
    Ids = {i1, i2}
    Null = Null
    Answers <- BlankAnswers
    Texts <- BlankTexts
    CallChars <- McCalls
    Blank = "n"
    MaxEntries = 2
    MaxBytes = 9
    EntryBytes = 1
    BlockBytes <- McBlockBytes
    MaxClock = 6
SYMMETRY Symmetry
PROPERTY RememberedIsSaved
