SPECIFICATION FairSpec
CONSTANTS
    Workers = {w1, w2}
    Main = Main
    Totals = {3}
    InlineBelow = 3
    MinChunk = 1
    ChunksPerCore = 1
    MaxJobs = 1
    OnTime = TRUE
PROPERTIES EveryRunReturns
