CONSTANTS
    d1 = d1
    d2 = d2
    NoData = NoData
    NumNodes = 3
    MaxSlots = 6
    NodeIdMax = 2147483647
    Data <- MCDataOne
    Inputs <- MCInputsOne

SPECIFICATION Spec
VIEW DummyBlindView
CONSTRAINT EdgeBound

INVARIANT TypeOK
INVARIANT AdjacencyRunsWellFormed

PROPERTY OtherSourcesStable
PROPERTY MultigraphRefinement
