-------------------------- MODULE MCSharedBarrier --------------------------
(* Three query threads in two server processes, one loader that publishes *)
(* two datasets: the second reuses the region of generation 0.            *)
EXTENDS SharedBarrier, TLC

CONSTANTS q1, q2, q3, p1, p2, hello, locate, nearest, timestamp, viaroute,
          unknown

MCQueries == {q1, q2, q3}
MCProcs == {p1, p2}
\* The plugins OSRM::OSRM registers, in its order, and a service nobody
\* registered.
MCDescriptors == <<hello, locate, nearest, timestamp, viaroute>>
MCServices == {hello, locate, nearest, timestamp, viaroute, unknown}
MCRequests == {viaroute, unknown}
MCProcOf == (q1 :> p1) @@ (q2 :> p1) @@ (q3 :> p2)
=============================================================================
