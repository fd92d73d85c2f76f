------------------------ MODULE MCInternalDataFacade ------------------------
(***************************************************************************)
(* Inputs for InternalDataFacade: path sets with every key, without the   *)
(* timestamp and without the names file; an empty and a non-empty graph;  *)
(* timestamp files that are missing, empty, start with a newline, are    *)
(* short, or have a first line of 26 characters; and name lists with an  *)
(* empty first name, a single empty name and a single one-letter name.   *)
(***************************************************************************)
EXTENDS InternalDataFacade

AllKeys == RequiredKeys \cup {"timestamp"}

MCPathChoices == {AllKeys, AllKeys \ {"timestamp"}, AllKeys \ {"namesdata"}}

MCHsgrFiles == {[nodes |-> 2, edges |-> 1], [nodes |-> 0, edges |-> 0]}

Line26 == [i \in 1..26 |-> "d"] \o <<"LF">>

MCTimestampFiles == {NoFile, <<>>, <<"LF", "d">>, <<"d", "d">>, Line26}

MCNameLists == {<< <<>>, <<"a">>, <<"b", "a">> >>, << <<>> >>, << <<"a">> >>}

\* Small offsets, and a large one.
MCOutOfBoundsValues == {0, 1, 2, 3, 4, 5, 2147483647}

=============================================================================
