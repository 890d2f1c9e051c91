SPECIFICATION Spec
CONSTANTS
    Tokens <- McTokens
    Chars = {0, 1, 2}
    Hidden = 0
    Piece <- McPiece
    Tokenize <- McTokenize
    Prompts <- TwoPrompts
    Turns <- OneTurn
    ToolResult <- McToolResult
    Stops <- McStops
    StopApis = {"completions"}
    Decoded = {0, 1, 2}
    Closing <- McClosing
    OpenApis = {"openai"}
    Greedy = {FALSE}
    Tools = {FALSE, TRUE}
    Apis = {"responses", "completions", "openai"}
    TailOnly = FALSE
    Ctx = 20
    Backend = "cuda"
    Chunk = 2
    ResumeMin = 1
    Window = 2
    Retained = 4
    MinTokens = 2
    ColdMaxTokens = 4
    Step = 3
    MaxDecode = 2
    MaxTurns = 2
    Faults = {"stop", "disk", "gone", "cuda"}
INVARIANTS
    TypeOK
    LiveStatesTrue
    FiledUnderItsText
PROPERTY RequestEnds
