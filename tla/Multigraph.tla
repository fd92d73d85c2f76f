----------------------------- MODULE Multigraph -----------------------------
(***************************************************************************)
(* What a mutable adjacency graph promises its users, with no storage     *)
(* layout: for every source a multiset (bag) of out-edges, each a target  *)
(* and a payload, and the number of edges; changed by inserting one edge, *)
(* deleting one given edge, or deleting every edge from a source to a     *)
(* target.                                                                *)
(***************************************************************************)
EXTENDS Naturals, Bags, BagsExt, Functions

CONSTANTS
    Nodes,   \* node ids
    Data     \* edge payloads, as far as they tell edges apart

OutEdge == [target : Nodes, data : Data]

VARIABLES
    adj,       \* adj[u]: the bag of out-edges of u
    numEdges   \* the edge count the graph reports

vars == <<adj, numEdges>>

Init ==
    /\ \A u \in Nodes : IsABag(adj[u]) /\ BagToSet(adj[u]) \subseteq OutEdge
    /\ numEdges = SumFunction([u \in Nodes |-> BagCardinality(adj[u])])

Insert(u, e) ==
    /\ adj' = [adj EXCEPT ![u] = BagAdd(@, e)]
    /\ numEdges' = numEdges + 1

DeleteOne(u, e) ==
    /\ BagIn(e, adj[u])
    /\ adj' = [adj EXCEPT ![u] = BagRemove(@, e)]
    /\ numEdges' = numEdges - 1

DeleteAllTo(u, v) ==
    LET kept == [e \in {x \in DOMAIN adj[u] : x.target # v} |-> adj[u][e]]
    IN  /\ adj' = [adj EXCEPT ![u] = kept]
        /\ numEdges' = numEdges - (BagCardinality(adj[u]) - BagCardinality(kept))

Next ==
    \E u \in Nodes :
        \/ \E e \in OutEdge : Insert(u, e) \/ DeleteOne(u, e)
        \/ \E v \in Nodes : DeleteAllTo(u, v)

Spec == Init /\ [][Next]_vars

=============================================================================
