----------------------- MODULE MCEdgeBasedGraphFactory -----------------------
(***************************************************************************)
(* Constructor calls of EdgeBasedGraphFactory. Restriction lists of up to *)
(* four records over two keys (from 1 or 3, via 2) and two targets (1 or  *)
(* 3), plain or is-only, give every order of plain and is-only           *)
(* restrictions for one key, and two keys interleaved. Edge lists of up   *)
(* to two import edges over nodes 0 and 1 have a zero and a positive      *)
(* weight and every combination of forward and backward, self-loops       *)
(* included. The parts share no state, so each list is explored in full   *)
(* with the other one empty, and with one entry each for the sequence.    *)
(***************************************************************************)
EXTENDS EdgeBasedGraphFactory

MCNodeIds == {1, 2, 3}

MCRestrictions ==
    [fromNode : {1, 3}, viaNode : {2}, toNode : {1, 3}, isOnly : BOOLEAN]

\* A barrier listed twice, and one traffic light.
MCBarrierLists == {<<1, 1>>}
MCTrafficLightLists == {<<0>>}

MCInit ==
    /\ Init
    /\ \/ input_restrictions_list = <<>>
       \/ input_edge_list = <<>>
       \/ Len(input_restrictions_list) = 1 /\ Len(input_edge_list) = 1

MCSpec == MCInit /\ [][Next]_vars

=============================================================================
