SPECIFICATION Spec
CONSTANTS
    Bytes <- MCBytes
    Ascii <- MCAscii
    Lead <- MCLead
    Letters <- MCLetters
    Numbers <- MCNumbers
    Newlines <- MCNewlines
    Blanks <- MCBlanks
    Space <- MCSpace
    Quote <- MCQuote
    Contractions <- MCContractions
    MaxDigits = 3
    Vocab <- MCVocab
    Merges <- MCMerges
    Prompts <- MCPrompts
    Sampled <- MCSampled
    MaxTokens = 4
    Cols = 8
    Page = 4
    Intro = 13
    KeysPerFrame = 2
INVARIANTS MatcherIsPattern EncodesByRank AnswerIsStream WrapKeepsText
PROPERTIES ScreenSteady
