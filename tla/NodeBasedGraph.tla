--------------------------- MODULE NodeBasedGraph ---------------------------
(***************************************************************************)
(* The second loop of the EdgeBasedGraphFactory constructor               *)
(* (src/Contractor/EdgeBasedGraphFactory.cpp): every ImportEdge becomes   *)
(* one or two NodeBasedEdges, oriented so that the first is stored at the *)
(* node it leaves in the forward direction, with its distance clamped to  *)
(* at least 1 and an edge-based node id equal to its position in          *)
(* edges_list. Then the list is sorted and handed to the DynamicGraph     *)
(* constructor. That constructor is shown to refine Multigraph in         *)
(* DynamicGraph.tla, so the graph is stated here by what it refines to:   *)
(* for every node the bag of its out-edges.                               *)
(***************************************************************************)
EXTENDS Naturals, Sequences, SequencesExt, Bags

CONSTANTS
    Nodes,      \* node ids, 0..number_of_nodes - 1
    Weights,    \* weights an ImportEdge may carry
    Names,      \* name ids
    MaxInput    \* bound on the length of input_edge_list

ImportEdge ==
    [source : Nodes, target : Nodes, weight : Weights, name : Names,
     forward : BOOLEAN, backward : BOOLEAN]

VARIABLES
    input_edge_list,     \* the constructor's argument
    pos,                 \* the BOOST_FOREACH position (1-based)
    edges_list,          \* DeallocatingVector<NodeBasedEdge>
    m_node_based_graph   \* node -> bag of [target, data] once built, else <<>>

vars == <<input_edge_list, pos, edges_list, m_node_based_graph>>

EdgeData ==
    [forward : BOOLEAN, backward : BOOLEAN, distance : Nat \ {0}, name : Names,
     edgeBasedNodeID : Nat]

NodeBasedEdge == [source : Nodes, target : Nodes, data : EdgeData]

Built == m_node_based_graph # <<>>

TypeOK ==
    /\ input_edge_list \in BoundedSeq(ImportEdge, MaxInput)
    /\ edges_list \in Seq(NodeBasedEdge)
    /\ Built => \A u \in Nodes : IsABag(m_node_based_graph[u])

Init ==
    /\ input_edge_list \in BoundedSeq(ImportEdge, MaxInput)
    /\ pos = 1
    /\ edges_list = <<>>
    /\ m_node_based_graph = <<>>

\* A variant that takes the weight as it is.
DistanceUnclamped(ie) == ie.weight

\* (std::max)((int)weight, 1), asserted positive.
Distance(ie) == IF ie.weight < 1 THEN 1 ELSE ie.weight

\* The edge pushed first: turned around when the import edge is not
\* forward, so that forward then holds isBackward.
Oriented(ie) ==
    LET flip == ~ie.forward
    IN  [source |-> IF flip THEN ie.target ELSE ie.source,
         target |-> IF flip THEN ie.source ELSE ie.target,
         data |-> [forward |-> IF flip THEN ie.backward ELSE ie.forward,
                   backward |-> IF flip THEN ie.forward ELSE ie.backward,
                   distance |-> Distance(ie), name |-> ie.name,
                   edgeBasedNodeID |-> Len(edges_list)]]

\* The edge pushed second for a backward edge: source and target swapped,
\* forward and backward of the import edge swapped, the next id.
Reversed(ie) ==
    LET e == Oriented(ie)
    IN  [e EXCEPT !.source = e.target, !.target = e.source,
                  !.data.forward = ie.backward, !.data.backward = ie.forward,
                  !.data.edgeBasedNodeID = Len(edges_list) + 1]

Current == input_edge_list[pos]

Advance ==
    /\ ~Built
    /\ pos <= Len(input_edge_list)
    /\ pos' = pos + 1
    /\ UNCHANGED <<input_edge_list, m_node_based_graph>>

\* source == target: continue.
SkipSelfLoop ==
    /\ Advance
    /\ Oriented(Current).source = Oriented(Current).target
    /\ UNCHANGED edges_list

\* A variant that pushes the reversed copy with the id of the first.
PushBothSameId ==
    /\ Advance
    /\ Oriented(Current).source # Oriented(Current).target
    /\ Oriented(Current).data.backward
    /\ edges_list' = edges_list \o
          << Oriented(Current),
             [Reversed(Current) EXCEPT !.data.edgeBasedNodeID = Len(edges_list)] >>

\* A variant that pushes the import edge as it comes, never turned around.
PushUnoriented ==
    /\ Advance
    /\ Current.source # Current.target
    /\ edges_list' = Append(edges_list,
          [source |-> Current.source, target |-> Current.target,
           data |-> [Oriented(Current).data EXCEPT !.forward = Current.forward,
                                                   !.backward = Current.backward]])

\* An edge without backward: pushed once.
PushOne ==
    /\ Advance
    /\ Oriented(Current).source # Oriented(Current).target
    /\ ~Oriented(Current).data.backward
    /\ edges_list' = Append(edges_list, Oriented(Current))

\* An edge with backward: pushed, then pushed again reversed.
PushBoth ==
    /\ Advance
    /\ Oriented(Current).source # Oriented(Current).target
    /\ Oriented(Current).data.backward
    /\ edges_list' = edges_list \o << Oriented(Current), Reversed(Current) >>

\* A sequence as a bag of its elements.
BagOfSeq(s) == [x \in ToSet(s) |-> Cardinality({i \in DOMAIN s : s[i] = x})]

\* The input is released, the list sorted and the graph built from it; the
\* graph holds every edge, as a target and its data, at its source.
BuildGraph ==
    /\ ~Built
    /\ pos = Len(input_edge_list) + 1
    /\ input_edge_list' = <<>>
    /\ m_node_based_graph' =
          [u \in Nodes |->
              LET out == SelectSeq(edges_list, LAMBDA e : e.source = u)
              IN  BagOfSeq([i \in DOMAIN out |-> [target |-> out[i].target,
                                                  data |-> out[i].data]])]
    /\ UNCHANGED <<pos, edges_list>>

Next == SkipSelfLoop \/ PushOne \/ PushBoth \/ BuildGraph

Spec == Init /\ [][Next]_vars

----------------------------------------------------------------------------
(* Properties.                                                             *)

Traversal(a, b, ie) == [from |-> a, to |-> b, distance |-> Distance(ie), name |-> ie.name]

\* The ways an import edge may be travelled: source to target if forward,
\* target to source if backward; none for a self-loop.
Allowed(ie) ==
    IF ie.source = ie.target THEN {}
    ELSE (IF ie.forward THEN {Traversal(ie.source, ie.target, ie)} ELSE {})
         \cup (IF ie.backward THEN {Traversal(ie.target, ie.source, ie)} ELSE {})

\* The traversals a built graph offers: an entry at u towards v offers
\* u -> v if forward and v -> u if backward.
Offered(g, dir) ==
    UNION { { [from |-> IF dir = "forward" THEN u ELSE x.target,
               to |-> IF dir = "forward" THEN x.target ELSE u,
               distance |-> x.data.distance, name |-> x.data.name] :
                x \in {y \in DOMAIN g[u] : y.data[dir]} } : u \in Nodes }

\* The graph the constructor builds offers exactly the traversals its
\* input allows, whichever way round each import edge was given: every
\* allowed traversal is a forward entry at the node it leaves, and no entry
\* offers, forwards or backwards, a traversal the input does not allow.
GraphOffersInputTraversals ==
    [][~Built /\ Built' =>
         LET allowed == UNION {Allowed(input_edge_list[i]) : i \in DOMAIN input_edge_list}
         IN  /\ Offered(m_node_based_graph', "forward") = allowed
             /\ Offered(m_node_based_graph', "backward") \subseteq allowed]_vars

\* Every NodeBasedEdge gets its own edge-based node id, the reversed copy of
\* a two-way edge included: the ids of edges_list are distinct and below
\* its length.
EdgeBasedNodeIdsDistinct ==
    \A i, j \in DOMAIN edges_list :
        /\ edges_list[i].data.edgeBasedNodeID < Len(edges_list)
        /\ i # j => edges_list[i].data.edgeBasedNodeID # edges_list[j].data.edgeBasedNodeID

============================================================================
