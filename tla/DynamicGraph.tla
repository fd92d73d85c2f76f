---------------------------- MODULE DynamicGraph ----------------------------
(***************************************************************************)
(* The mutable adjacency graph of src/DataStructures/DynamicGraph.h.       *)
(*                                                                         *)
(* m_nodes[n] = (firstEdge, edges) names the run of slots of m_edges that  *)
(* holds the out-edges of n. A slot whose target is the largest node id    *)
(* is a dummy: free for any run that borders it. InsertEdge grows a run    *)
(* into the dummy after it, else into the dummy before it, else copies the *)
(* run to new slots at the end of the array; DeleteEdge and DeleteEdgesTo *)
(* fill the hole with the last edge of the run and turn that slot into a   *)
(* dummy. The node array's extra sentinel entry is never read by these     *)
(* operations and is left out; so are capacity and reserve, which do not   *)
(* change the contents.                                                    *)
(***************************************************************************)
EXTENDS Naturals, FiniteSets, Sequences, FiniteSetsExt

CONSTANTS
    NumNodes,    \* m_numNodes
    Data,        \* edge payloads (EdgeDataT), as far as they tell edges apart
    NoData,      \* a value-initialised EdgeDataT
    Inputs,      \* sorted input edge lists the graph may be built from
    MaxSlots,    \* bound on the length of m_edges
    NodeIdMax    \* std::numeric_limits<NodeIterator>::max(), past every node id

Nodes == 0..NumNodes - 1

\* The target of a dummy slot.
DummyTarget == NodeIdMax

InputEdge == [source : Nodes, target : Nodes, data : Data]

ASSUME
    /\ NumNodes \in Nat \ {0}
    /\ Inputs \subseteq Seq(InputEdge)
    /\ MaxSlots \in Nat
    /\ NodeIdMax \in Nat \ Nodes

VARIABLES
    m_nodes,     \* m_nodes[n]: [firstEdge, edges]
    m_edges,     \* m_edges[i] for i in 0..size-1: [target, data]
    m_numEdges   \* m_numEdges

vars == <<m_nodes, m_edges, m_numEdges>>

Size == Cardinality(DOMAIN m_edges)

isDummy(i) == m_edges[i].target = DummyTarget

makeDummy(e) == [e EXCEPT !.target = DummyTarget]

BeginEdges(n) == m_nodes[n].firstEdge
EndEdges(n) == m_nodes[n].firstEdge + m_nodes[n].edges
Run(n) == BeginEdges(n)..(EndEdges(n) - 1)

EdgeRec == [target : Nodes \cup {DummyTarget}, data : Data \cup {NoData}]

\* Every node's [BeginEdges, EndEdges) is a range of valid edge iterators.
TypeOK ==
    /\ \E k \in 0..MaxSlots : m_edges \in [0..(k - 1) -> EdgeRec]
    /\ m_nodes \in [Nodes -> [firstEdge : 0..Size, edges : 0..Size]]
    /\ \A n \in Nodes : EndEdges(n) <= Size
    /\ m_numEdges \in 0..MaxSlots

----------------------------------------------------------------------------
(* DynamicGraph(nodes, graph): the runs are laid out in node order, with  *)
(* no slack, from an input sorted by source.                              *)

Init ==
    \E graph \in Inputs :
        LET Before(n) == Quantify(DOMAIN graph, LAMBDA j : graph[j].source < n)
            Of(n)     == Quantify(DOMAIN graph, LAMBDA j : graph[j].source = n)
        IN  /\ m_nodes = [n \in Nodes |-> [firstEdge |-> Before(n), edges |-> Of(n)]]
            /\ m_edges = [i \in 0..(Len(graph) - 1) |->
                            [target |-> graph[i + 1].target, data |-> graph[i + 1].data]]
            /\ m_numEdges = Len(graph)

\* DynamicGraph(nodes): no edges, and an edge array of one value-initialised
\* slot per node (target 0).
InitFromCount ==
    /\ m_nodes = [n \in Nodes |-> [firstEdge |-> 0, edges |-> 0]]
    /\ m_edges = [i \in 0..(NumNodes - 1) |-> [target |-> 0, data |-> NoData]]
    /\ m_numEdges = 0

----------------------------------------------------------------------------
(* InsertEdge(from, to, data): three ways to make room for one more edge. *)

NewEdge(to, d) == [target |-> to, data |-> d]

\* The slot after the run is inside the array and a dummy.
CanGrowAfter(n) == EndEdges(n) < Size /\ isDummy(EndEdges(n))

CanGrowBefore(n) == BeginEdges(n) # 0 /\ isDummy(BeginEdges(n) - 1)

\* The slot after the run is a dummy: the new edge goes there.
InsertEdgeAfter(from, to, d) ==
    /\ CanGrowAfter(from)
    /\ m_edges' = [m_edges EXCEPT ![EndEdges(from)] = NewEdge(to, d)]
    /\ m_nodes' = [m_nodes EXCEPT ![from].edges = @ + 1]

\* A variant that takes the slot before the run without asking whether it
\* is free.
InsertEdgeBeforeUnchecked(from, to, d) ==
    LET f == BeginEdges(from) - 1
        last == f + m_nodes[from].edges
    IN  /\ ~CanGrowAfter(from)
        /\ BeginEdges(from) # 0
        /\ m_edges' = [m_edges EXCEPT ![f] = m_edges[last], ![last] = NewEdge(to, d)]
        /\ m_nodes' = [m_nodes EXCEPT ![from] = [firstEdge |-> f, edges |-> @.edges + 1]]

\* The slot before the run is a dummy: the run moves down by one, its last
\* edge goes to the new first slot and the new edge to the old last slot.
InsertEdgeBefore(from, to, d) ==
    LET f == BeginEdges(from) - 1
        last == f + m_nodes[from].edges
    IN  /\ ~CanGrowAfter(from)
        /\ CanGrowBefore(from)
        /\ m_edges' = [m_edges EXCEPT ![f] = m_edges[last], ![last] = NewEdge(to, d)]
        /\ m_nodes' = [m_nodes EXCEPT ![from] = [firstEdge |-> f, edges |-> @.edges + 1]]

\* A variant that sizes the new run as edges * 1.1, without the + 2.
InsertEdgeRelocateNoSlack(from, to, d) ==
    LET n == m_nodes[from].edges
        newFirstEdge == Size
        newSize == n + n \div 10
    IN  /\ ~CanGrowAfter(from)
        /\ ~CanGrowBefore(from)
        /\ Size + newSize <= MaxSlots
        /\ m_edges' = [i \in 0..(Size + newSize - 1) |->
                         CASE i \in Run(from)      -> makeDummy(m_edges[i])
                           [] i < Size             -> m_edges[i]
                           [] OTHER                -> m_edges[BeginEdges(from) + i - newFirstEdge]]
        /\ m_nodes' = [m_nodes EXCEPT ![from] = [firstEdge |-> newFirstEdge, edges |-> n + 1]]

\* Neither: the run is copied to edges * 1.1 + 2 new slots at the end of the
\* array, the old slots become dummies, and so does every new slot after
\* the new edge. The new slots are value-initialised by resize.
InsertEdgeRelocate(from, to, d) ==
    LET n == m_nodes[from].edges
        newFirstEdge == Size
        newSize == n + n \div 10 + 2
        fresh == [target |-> 0, data |-> NoData]
    IN  /\ ~CanGrowAfter(from)
        /\ ~CanGrowBefore(from)
        /\ Size + newSize <= MaxSlots
        /\ m_edges' = [i \in 0..(Size + newSize - 1) |->
                         CASE i \in Run(from)          -> makeDummy(m_edges[i])
                           [] i < Size                 -> m_edges[i]
                           [] i < newFirstEdge + n     -> m_edges[BeginEdges(from) + i - newFirstEdge]
                           [] i = newFirstEdge + n     -> NewEdge(to, d)
                           [] OTHER                    -> makeDummy(fresh)]
        /\ m_nodes' = [m_nodes EXCEPT ![from] = [firstEdge |-> newFirstEdge, edges |-> n + 1]]

InsertEdge(from, to, d) ==
    /\ \/ InsertEdgeAfter(from, to, d)
       \/ InsertEdgeBefore(from, to, d)
       \/ InsertEdgeRelocate(from, to, d)
    /\ m_numEdges' = m_numEdges + 1

----------------------------------------------------------------------------
(* DeleteEdge(source, e): e is an edge of source (the caller's contract). *)

\* A variant that computes the last edge before decrementing the count: it
\* swaps in, and frees, the slot after the run (reads past the array's
\* end are left out).
DeleteEdgeLastPastRun(source, e) ==
    LET last == EndEdges(source)
    IN  /\ e \in Run(source)
        /\ last < Size
        /\ m_edges' = [m_edges EXCEPT ![e] = m_edges[last], ![last] = makeDummy(@)]
        /\ m_nodes' = [m_nodes EXCEPT ![source].edges = @ - 1]
        /\ m_numEdges' = m_numEdges - 1

DeleteEdge(source, e) ==
    LET last == EndEdges(source) - 1
    IN  /\ e \in Run(source)
        /\ m_edges' = [m_edges EXCEPT ![e] = m_edges[last], ![last] = makeDummy(@)]
        /\ m_nodes' = [m_nodes EXCEPT ![source].edges = @ - 1]
        /\ m_numEdges' = m_numEdges - 1

----------------------------------------------------------------------------
(* DeleteEdgesTo(source, target): the loop over the run, as written.      *)

\* A variant whose inner loop is an if: it swaps in one edge from the end
\* and does not look at it again.
SwapOnce(E, i, iend, deleted, target) ==
    LET d  == deleted + 1
        E1 == [E EXCEPT ![i] = E[iend - d]]
    IN  <<[E1 EXCEPT ![iend - d] = makeDummy(@)], d>>

\* do { deleted++; E[i] = E[iend - deleted]; makeDummy(iend - deleted); }
\* while (i < iend - deleted && E[i].target == target)
RECURSIVE SwapInFromEnd(_, _, _, _, _)
SwapInFromEnd(E, i, iend, deleted, target) ==
    LET d  == deleted + 1
        E1 == [E EXCEPT ![i] = E[iend - d]]
        E2 == [E1 EXCEPT ![iend - d] = makeDummy(@)]
    IN  IF i < iend - d /\ E2[i].target = target
        THEN SwapInFromEnd(E2, i, iend, d, target)
        ELSE <<E2, d>>

\* for (i = begin, iend = end; i < iend - deleted; ++i)
\*     if (E[i].target == target) do ... while ...
RECURSIVE ScanRun(_, _, _, _, _)
ScanRun(E, i, iend, deleted, target) ==
    IF i >= iend - deleted
    THEN <<E, deleted>>
    ELSE IF E[i].target = target
         THEN LET r == SwapInFromEnd(E, i, iend, deleted, target)
              IN  ScanRun(r[1], i + 1, iend, r[2], target)
         ELSE ScanRun(E, i + 1, iend, deleted, target)

DeleteEdgesTo(source, target) ==
    LET r == ScanRun(m_edges, BeginEdges(source), EndEdges(source), 0, target)
    IN  /\ m_edges' = r[1]
        /\ m_numEdges' = m_numEdges - r[2]
        /\ m_nodes' = [m_nodes EXCEPT ![source].edges = @ - r[2]]

----------------------------------------------------------------------------

Next ==
    \E u, v \in Nodes :
        \/ \E d \in Data : InsertEdge(u, v, d)
        \/ \E e \in Run(u) : DeleteEdge(u, e)
        \/ DeleteEdgesTo(u, v)

Spec == Init /\ [][Next]_vars

SpecFromCount == InitFromCount /\ [][Next]_vars

----------------------------------------------------------------------------
(* Properties.                                                             *)

\* The adjacency-run invariant of the spec (section 8): every slot of a
\* run is a real edge and every other slot is a dummy, and no slot is in
\* the runs of two nodes, after any sequence of inserts (in place,
\* downwards or relocating) and deletes.
AdjacencyRunsWellFormed ==
    /\ \A n \in Nodes : \A i \in Run(n) : i \in DOMAIN m_edges /\ ~isDummy(i)
    /\ \A i \in DOMAIN m_edges : (\E n \in Nodes : i \in Run(n)) \/ isDummy(i)
    /\ \A n, m \in Nodes : n # m => Run(n) \cap Run(m) = {}

\* The bag of out-edges the run of n holds.
RunBag(n) ==
    [e \in {m_edges[i] : i \in Run(n)} |-> Quantify(Run(n), LAMBDA i : m_edges[i] = e)]

\* DynamicGraph implements a multigraph: InsertEdge adds exactly its edge,
\* DeleteEdge removes exactly the edge it is given, DeleteEdgesTo removes
\* every edge to the target and no other, and m_numEdges follows.
Abstract == INSTANCE Multigraph
    WITH Nodes <- Nodes, adj <- [n \in Nodes |-> RunBag(n)], numEdges <- m_numEdges

MultigraphRefinement == Abstract!Spec

\* The adjacency of a node as its users see it: where the run starts and
\* what it holds.
Adjacency(n) == <<BeginEdges(n), [k \in 0..(m_nodes[n].edges - 1) |-> m_edges[BeginEdges(n) + k]]>>

\* Only the iterators of the node an operation is applied to are
\* invalidated: no step changes the adjacency of two nodes.
OtherSourcesStable ==
    [][\A n, m \in Nodes :
         n # m => (Adjacency(n)' = Adjacency(n) \/ Adjacency(m)' = Adjacency(m))]_vars

=============================================================================
