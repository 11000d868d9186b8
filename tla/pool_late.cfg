SPECIFICATION Spec
CONSTANTS
    Workers = {w1, w2}
    Main = Main
    Totals = {3}
    InlineBelow = 3
    MinChunk = 1
    ChunksPerCore = 1
    MaxJobs = 2
    OnTime = FALSE
INVARIANTS TaskAlive
