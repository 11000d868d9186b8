SPECIFICATION FairSpec
CONSTANTS
    HeaderSize = 4
    EntrySize = 1
    Align = 2
    Blocks <- MCBlocks
    ActBytes <- MCActBytes
    ActElems <- MCActElems
    MaxBatch = 64
    Ctx = 2
    Extra = 256
    Page = 4
    CrcLen = 2
    Ggufs <- MCGgufs
    Exposed <- MCExposed
    MaxExtra = 1
    Chunk = 5
    Wrap = 256
INVARIANTS OnlyIntactModels NoFalseAlarm WellFormedBoots
PROPERTIES BootEnds
