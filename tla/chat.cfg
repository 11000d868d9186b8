SPECIFICATION FairSpec
CONSTANTS
    Template = "Llama3"
    CtxLen = 20
    MaxGen = 2
    Slack = 9
    ChunkLen = 3
    SystemLen = 1
    MaxPromptChars = 2
    TokensPerChar = 2
INVARIANTS NoPanic StartedIffContext TemplateConsistent
PROPERTIES GenerateReturns
CHECK_DEADLOCK FALSE
