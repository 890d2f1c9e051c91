SPECIFICATION Spec
CONSTANTS
    Tokens <- McTokens
    Chars = {0, 1, 2}
    Hidden = 0
    Piece <- McPiece
    Tokenize <- McTokenize
    Prompts <- McPrompts
    Turns <- ResumeTurns
    ToolResult <- McToolResult
    Stops <- NoStops
    StopApis = {}
    Decoded = {0, 1, 2}
    Closing <- McClosing
    OpenApis = {}
    Greedy = {TRUE}
    Tools = {FALSE, TRUE}
    Apis = {"completions"}
    TailOnly = FALSE
    Ctx = 20
    Backend = "cuda"
    Chunk = 2
    ResumeMin = 1
    Window = 2
    Retained = 4
    MinTokens = 2
    ColdMaxTokens = 4
    Step = 3
    MaxDecode = 2
    MaxTurns = 2
    Faults = {}
INVARIANT PayloadIsOneState
