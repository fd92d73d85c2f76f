------------------------ MODULE EdgeBasedGraphFactory ------------------------
(***************************************************************************)
(* The EdgeBasedGraphFactory constructor                                  *)
(* (src/Contractor/EdgeBasedGraphFactory.cpp) as a whole: it files the    *)
(* turn restrictions (RestrictionMap), then copies the barrier and        *)
(* traffic-light lists into sets, then turns the import edges into the    *)
(* node-based graph (NodeBasedGraph). The three run one after the other   *)
(* in one call; each part's properties are stated in its own module.      *)
(***************************************************************************)
EXTENDS Naturals, Sequences, SequencesExt

CONSTANTS
    NodeIds, Restrictions, MaxRestrictions, SpecialNode,  \* RestrictionMap's
    Nodes, Weights, Names, MaxEdges,                      \* NodeBasedGraph's
    BarrierLists,        \* the barrier_node_list arguments a caller may pass
    TrafficLightLists    \* the traffic_light_node_list arguments

VARIABLES
    input_restrictions_list, restriction_pos, m_restriction_map,
    m_restriction_bucket_list, m_turn_restrictions_count,
    barrier_node_list, traffic_light_node_list, m_barrier_nodes,
    m_traffic_lights,
    input_edge_list, edge_pos, edges_list, m_node_based_graph,
    phase                \* which of the constructor's parts runs

R == INSTANCE RestrictionMap WITH pos <- restriction_pos, MaxInput <- MaxRestrictions
N == INSTANCE NodeBasedGraph WITH pos <- edge_pos, MaxInput <- MaxEdges

RVars == <<input_restrictions_list, restriction_pos, m_restriction_map,
           m_restriction_bucket_list, m_turn_restrictions_count>>
NVars == <<input_edge_list, edge_pos, edges_list, m_node_based_graph>>
SetVars == <<barrier_node_list, traffic_light_node_list, m_barrier_nodes,
             m_traffic_lights>>
vars == <<RVars, NVars, SetVars, phase>>

TypeOK ==
    /\ R!TypeOK
    /\ N!TypeOK
    /\ m_barrier_nodes \subseteq Nodes
    /\ m_traffic_lights \subseteq Nodes
    /\ phase \in {"restrictions", "edges"}

Init ==
    /\ R!Init
    /\ N!Init
    /\ barrier_node_list \in BarrierLists
    /\ traffic_light_node_list \in TrafficLightLists
    /\ m_barrier_nodes = {}
    /\ m_traffic_lights = {}
    /\ phase = "restrictions"

\* One iteration of the restriction loop.
FileRestriction ==
    /\ phase = "restrictions"
    /\ R!Next
    /\ UNCHANGED <<NVars, SetVars, phase>>

\* After the loop: m_barrier_nodes.insert and m_traffic_lights.insert of
\* the whole lists.
InsertNodeSets ==
    /\ phase = "restrictions"
    /\ R!Built
    /\ m_barrier_nodes' = ToSet(barrier_node_list)
    /\ m_traffic_lights' = ToSet(traffic_light_node_list)
    /\ phase' = "edges"
    /\ UNCHANGED <<RVars, NVars, barrier_node_list, traffic_light_node_list>>

\* One iteration of the edge loop, or the graph's construction after it.
ConvertEdge ==
    /\ phase = "edges"
    /\ N!Next
    /\ UNCHANGED <<RVars, SetVars, phase>>

Next == FileRestriction \/ InsertNodeSets \/ ConvertEdge

Spec == Init /\ [][Next]_vars

(* Properties: those of the two parts, over the whole constructor.         *)

\* An is-only restriction is alone in its bucket (RestrictionMap).
IsOnlyExclusive == R!IsOnlyExclusive

\* m_turn_restrictions_count counts the filed entries (RestrictionMap).
CountIsBucketTotal == R!CountIsBucketTotal

\* Both lookups answer what the restriction input says (RestrictionMap).
LookupsAnswerInput == R!LookupsAnswerInput

\* Every node-based edge has its own edge-based node id (NodeBasedGraph).
EdgeBasedNodeIdsDistinct == N!EdgeBasedNodeIdsDistinct

\* The graph built offers exactly the traversals the import edges allow
\* (NodeBasedGraph).
GraphOffersInputTraversals == N!GraphOffersInputTraversals

============================================================================
