CONSTANTS
    d1 = d1
    d2 = d2
    NoData = NoData
    NumNodes = 3
    MaxSlots = 6
    NodeIdMax = 2147483647
    Data <- MCData
    Inputs <- MCInputs

SPECIFICATION SpecFromCount
VIEW DummyBlindView
CONSTRAINT EdgeBound


INVARIANT AdjacencyRunsWellFormed
