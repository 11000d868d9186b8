SPECIFICATION FairSpec
CONSTANTS
    Template = "Llama3"
    CtxLen = 16
    MaxGen = 3
    Slack = 1
    ChunkLen = 3
    SystemLen = 1
    MaxPromptChars = 8
    TokensPerChar = 1
INVARIANTS NoPanic
CHECK_DEADLOCK FALSE
