SPECIFICATION FairSpec
CONSTANTS
    Workers = {w1, w2}
    Main = Main
    Totals = {2, 3, 7}
    InlineBelow = 3
    MinChunk = 1
    ChunksPerCore = 1
    MaxJobs = 2
    OnTime = TRUE
INVARIANTS TaskAlive DisjointRanges
PROPERTIES ImplementsLoop RunReturns
