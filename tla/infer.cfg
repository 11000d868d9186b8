SPECIFICATION Spec
CONSTANTS
    Tokens = {1, 2}
    Layers = 2
    Heads = 2
    KvHeads = 1
    Ctx = 3
    MaxBatch = 2
    Models <- MCModels
    Jobs <- MCJobs
    WeightRow <- MCWeightRow
    Source <- MCSource
    HalfSteps = {1, 2, 4}
    Exponents = {1, 64, 101, 102, 103, 104, 108, 111, 112, 113, 114, 127, 140, 141, 142, 143, 144, 254, 255}
    Fractions <- MCFractions
    Vocab = 5
    Logits = {0, 1, 2}
    TOP_K = 4
    Weight <- MCWeight
    TopPs = {50, 90, 100}
    Draws = 8
INVARIANTS ContextDecides ProductExact BitIdentical QuantizeClose HalfNearest SampledFromNucleus
CHECK_DEADLOCK FALSE
