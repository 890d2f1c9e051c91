SPECIFICATION Spec
CONSTANTS
    Tokens <- McTokens
    Chars = {0, 1, 2}
    Hidden = 0
    Piece <- McPiece
    Tokenize <- McTokenize
    Prompts <- McPrompts
    Turns <- OneTurn
    ToolResult <- McToolResult
    Stops <- McStops
    StopApis = {"openai"}
    Decoded = {1, 2}
    Closing <- McClosing
    OpenApis = {}
    Greedy = {FALSE}
    Tools = {FALSE}
    Apis = {"openai"}
    TailOnly = FALSE
    Ctx = 20
    Backend = "cpu"
    Chunk = 2
    ResumeMin = 1
    Window = 2
    Retained = 4
    MinTokens = 2
    ColdMaxTokens = 4
    Step = 20
    MaxDecode = 3
    MaxTurns = 3
    Faults = {}
INVARIANT FiledUnderItsText
