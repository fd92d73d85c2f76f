CONSTANTS
    NodeIds <- MCNodeIds
    Restrictions <- MCRestrictions
    MaxRestrictions = 4
    SpecialNode = SpecialNode
    Nodes = {0, 1}
    Weights = {0, 2}
    Names = {7}
    MaxEdges = 2
    BarrierLists <- MCBarrierLists
    TrafficLightLists <- MCTrafficLightLists

SPECIFICATION MCSpec

\* The constructor returns once the graph is built.
CHECK_DEADLOCK FALSE

INVARIANT TypeOK
INVARIANT IsOnlyExclusive
INVARIANT CountIsBucketTotal
INVARIANT LookupsAnswerInput
INVARIANT EdgeBasedNodeIdsDistinct
PROPERTY GraphOffersInputTraversals
