--------------------------- MODULE MCDynamicGraph ---------------------------
(***************************************************************************)
(* DynamicGraph on three nodes and two payloads, built from one of a few  *)
(* sorted inputs: an empty one, one with a node whose run holds two edges *)
(* to the same target around an edge to another, and one where an empty   *)
(* node sits between two runs.                                            *)
(***************************************************************************)
EXTENDS DynamicGraph

CONSTANTS d1, d2

MCData == {d1, d2}

\* One payload: edges told apart by target only.
MCDataOne == {d1}

\* Bound on the number of edges the graph holds at once.
MaxEdges == 3

EdgeBound == m_numEdges <= MaxEdges

E(s, t, d) == [source |-> s, target |-> t, data |-> d]

MCInputs ==
    { <<>>,
      <<E(0, 1, d1), E(0, 1, d2), E(2, 0, d1)>>,
      <<E(1, 0, d1), E(1, 2, d2)>> }

\* The same inputs with every payload d1.
MCInputsOne ==
    { [j \in DOMAIN g |-> [g[j] EXCEPT !.data = d1]] : g \in MCInputs }

\* makeDummy keeps the payload of the slot it frees, and no operation reads
\* the payload of a dummy: relocation copies only the run, and a dummy is
\* taken into a run only by writing a new edge over it. States that differ
\* only there are therefore identified.
DummyBlindView ==
    <<m_nodes, m_numEdges,
      [i \in DOMAIN m_edges |-> IF isDummy(i) THEN DummyTarget ELSE m_edges[i]]>>

=============================================================================
