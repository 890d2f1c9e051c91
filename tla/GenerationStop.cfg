SPECIFICATION Spec
CONSTANTS
    Tokens <- McTokens
    Chars = {0, 1, 2}
    Hidden = 0
    Piece <- McPiece
    Tokenize <- McTokenize
    Prompts <- McPrompts
    Turns <- OneTurn
    ToolResult <- McToolResult
    Stops <- NoStops
    StopApis = {}
    Decoded = {1}
    Closing <- McClosing
    OpenApis = {}
    Greedy = {FALSE}
    Tools = {FALSE}
    Apis = {"responses", "anthropic"}
    TailOnly = FALSE
    Ctx = 20
    Backend = "cpu"
    Chunk = 2
    ResumeMin = 1
    Window = 2
    Retained = 4
    MinTokens = 2
    ColdMaxTokens = 4
    Step = 20
    MaxDecode = 2
    MaxTurns = 2
    Faults = {"stop"}
INVARIANT FiledUnderItsText
