--------------------------- MODULE MCSharedMemory ---------------------------
(***************************************************************************)
(* One loader and one server process sharing one region id over three     *)
(* shmids. The loader gets the region writeable with remove_prev, or      *)
(* without it and asking for more than it got before, and may remove it;   *)
(* the server gets it read-only. Attaching may fail.                       *)
(***************************************************************************)
EXTENDS SharedMemory

MCCallsOf ==
    [p \in Procs |->
        IF p = "loader"
           THEN {GetCall("region", 1, TRUE), GetCall("region", 2, FALSE),
                 RemoveCall("region")}
           ELSE {GetCall("region", 0, FALSE)}]

=============================================================================
