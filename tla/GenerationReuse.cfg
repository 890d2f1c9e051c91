SPECIFICATION Spec
CONSTANTS
    Tokens <- McTokens
    Chars = {0, 1, 2}
    Hidden = 0
    Piece <- McPiece
    Tokenize <- McTokenize
    Prompts <- GrowingPrompts
    Turns <- ResumeTurns
    ToolResult <- McToolResult
    Stops <- NoStops
    StopApis = {}
    Decoded = {0, 2}
    Closing <- McClosing
    OpenApis = {}
    Greedy = {FALSE}
    Tools = {FALSE, TRUE}
    Apis = {"responses", "anthropic"}
    TailOnly = FALSE
    Ctx = 20
    Backend = "cpu"
    Chunk = 2
    ResumeMin = 1
    Window = 2
    Retained = 4
    MinTokens = 2
    ColdMaxTokens = 4
    Step = 20
    MaxDecode = 2
    MaxTurns = 3
    Faults = {"gone"}
INVARIANTS
    FiledUnderItsText
    PromptContinues
    FirstTokenFollowsPrompt
