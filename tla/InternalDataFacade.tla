------------------------ MODULE InternalDataFacade ------------------------
(***************************************************************************)
(* The data facade used without shared memory                             *)
(* (src/Server/DataStructures/InternalDataFacade.h): its constructor,    *)
(* which checks the ServerPaths, looks up every path and loads the files *)
(* one after the other, and the two lookups whose answers come from       *)
(* those files: GetTimestamp and GetName.                                 *)
(*                                                                         *)
(* The files on disk are chosen in Init. The graph, node, edge and r-tree *)
(* files are reduced to what the constructor's control depends on: the    *)
(* graph's list sizes, asserted non-zero. A BOOST_ASSERT aborts in a      *)
(* debug build and is a no-op with NDEBUG; both builds are states. A read *)
(* past the end of a vector is undefined and yields any of                *)
(* OutOfBoundsValues.                                                      *)
(***************************************************************************)
EXTENDS Naturals, Sequences, SequencesExt

CONSTANTS
    PathChoices,       \* the sets of ServerPaths keys the caller may pass
    HsgrFiles,         \* [nodes, edges]: the list sizes readHSGRFromStream returns
    TimestampFiles,    \* contents of the timestamp file, or NoFile
    NoFile,
    NameLists,         \* the street names the names file was written from
    WriterEndOffset,   \* whether the writer appends the total as a last offset
    OutOfBoundsValues, \* what an unsigned read past a vector's end can yield
    UINT_MAX           \* the "no name" id (a model value)

RequiredKeys ==
    {"hsgrdata", "ramindex", "fileindex", "nodesdata", "edgesdata", "namesdata"}

ASSUME
    /\ \A p \in PathChoices : p \subseteq RequiredKeys \cup {"timestamp"}
    /\ WriterEndOffset \in BOOLEAN
    /\ \A ns \in NameLists : Len(ns) > 0

VARIABLES
    ndebug,                \* the build: TRUE when BOOST_ASSERT is compiled out
    disk,                  \* [paths, hsgr, timestamp, names]: the inputs
    stage,                 \* how far the constructor got, or how it ended
    m_timestamp,
    m_name_begin_indices,  \* 0-based in the code, 1-based here
    m_names_char_list,
    answer                 \* the last GetName call: [id, kind, name], or NoAnswer

vars == <<ndebug, disk, stage, m_timestamp, m_name_begin_indices,
          m_names_char_list, answer>>

Stages == {"check_paths", "resolve_paths", "load_graph", "load_node_edge",
           "load_rtree", "load_timestamp", "load_names", "ready",
           "threw", "aborted", "undefined"}

NoAnswer == [id |-> UINT_MAX, kind |-> "none", name |-> <<>>]

\* The names file as LoadStreetNames reads it: a count, the number of
\* characters, the prefix sums of the name lengths (with the total appended
\* if the writer does so) and the characters.
NamesFile(ns) ==
    LET offsets == [i \in 1..Len(ns) |-> Len(FlattenSeq(SubSeq(ns, 1, i - 1)))]
        total == Len(FlattenSeq(ns))
        indices == IF WriterEndOffset THEN Append(offsets, total) ELSE offsets
    IN  [number_of_names |-> Len(indices), number_of_chars |-> total,
         indices |-> indices, chars |-> FlattenSeq(ns)]

TypeOK ==
    /\ ndebug \in BOOLEAN
    /\ stage \in Stages
    /\ m_timestamp \in Seq(STRING)
    /\ m_names_char_list \in Seq(STRING)
    \* every begin index points into the character list, sentinel included
    /\ m_name_begin_indices \in Seq(0..(Len(m_names_char_list) - 1))
    /\ answer.kind \in {"none", "name", "garbage", "abort"}
    /\ answer.name \in Seq(STRING)

Init ==
    /\ ndebug \in BOOLEAN
    /\ disk \in [paths : PathChoices, hsgr : HsgrFiles,
                 timestamp : TimestampFiles, names : NameLists]
    /\ stage = "check_paths"
    /\ m_timestamp = <<>>
    /\ m_name_begin_indices = <<>>
    /\ m_names_char_list = <<>>
    /\ answer = NoAnswer

----------------------------------------------------------------------------
(* The constructor, one step per stage.                                    *)

\* BOOST_ASSERT(cond): abort in a debug build, else go on to stage s.
AssertThen(cond, s) == stage' = IF cond \/ ndebug THEN s ELSE "aborted"

Step(s) == stage = s /\ UNCHANGED <<ndebug, disk, answer>>

\* Each of the six required keys is checked, else OSRMException.
CheckPaths ==
    /\ Step("check_paths")
    /\ stage' = IF RequiredKeys \subseteq disk.paths THEN "resolve_paths" ELSE "threw"
    /\ UNCHANGED <<m_timestamp, m_name_begin_indices, m_names_char_list>>

\* find() of each key, asserted found, then dereferenced; "timestamp" was
\* not checked above, and dereferencing end() is undefined.
ResolvePaths ==
    /\ Step("resolve_paths")
    /\ stage' = CASE "timestamp" \in disk.paths -> "load_graph"
                  [] ~ndebug                   -> "aborted"
                  [] OTHER                     -> "undefined"
    /\ UNCHANGED <<m_timestamp, m_name_begin_indices, m_names_char_list>>

LoadGraph ==
    /\ Step("load_graph")
    /\ AssertThen(disk.hsgr.nodes # 0 /\ disk.hsgr.edges # 0, "load_node_edge")
    /\ UNCHANGED <<m_timestamp, m_name_begin_indices, m_names_char_list>>

\* The coordinate and edge lists are read in full; no property reads them.
LoadNodeAndEdgeInformation ==
    /\ Step("load_node_edge")
    /\ stage' = "load_rtree"
    /\ UNCHANGED <<m_timestamp, m_name_begin_indices, m_names_char_list>>

LoadRTree ==
    /\ Step("load_rtree")
    /\ stage' = "load_timestamp"
    /\ UNCHANGED <<m_timestamp, m_name_begin_indices, m_names_char_list>>

\* getline: the characters before the first newline.
FirstLine(s) ==
    LET nl == SelectInSeq(s, LAMBDA x : x = "LF")
    IN  IF nl = 0 THEN s ELSE SubSeq(s, 1, nl - 1)

NotAvailable == <<"n", "/", "a">>

\* The first line if the file exists, "n/a" if that is empty, cut to 25.
LoadTimestamp ==
    /\ Step("load_timestamp")
    /\ LET line == IF disk.timestamp = NoFile THEN <<>> ELSE FirstLine(disk.timestamp)
           t == IF line = <<>> THEN NotAvailable ELSE line
       IN  m_timestamp' = IF 25 < Len(t) THEN SubSeq(t, 1, 25) ELSE t
    /\ stage' = "load_names"
    /\ UNCHANGED <<m_name_begin_indices, m_names_char_list>>

\* A variant that sizes the character list to number_of_chars.
LoadStreetNamesNoSentinel ==
    /\ Step("load_names")
    /\ LET f == NamesFile(disk.names)
       IN  /\ m_name_begin_indices' = f.indices
           /\ m_names_char_list' = f.chars
           /\ AssertThen(f.number_of_names # 0 /\ f.number_of_chars # 0, "ready")
    /\ UNCHANGED m_timestamp

\* Both counts are asserted non-zero; the character list gets one more,
\* value-initialised, element as a sentinel.
LoadStreetNames ==
    /\ Step("load_names")
    /\ LET f == NamesFile(disk.names)
       IN  /\ m_name_begin_indices' = f.indices
           /\ m_names_char_list' = f.chars \o <<"NUL">>
           /\ AssertThen(f.number_of_names # 0 /\ f.number_of_chars # 0, "ready")
    /\ UNCHANGED m_timestamp

----------------------------------------------------------------------------
(* GetName on the loaded facade.                                           *)

\* m_name_begin_indices[i] with the code's 0-based index, or any value when
\* i is past the end.
IndexAt(i) ==
    IF i < Len(m_name_begin_indices) THEN {m_name_begin_indices[i + 1]}
    ELSE OutOfBoundsValues

\* A variant that copies up to and including end_index.
CopyNameThroughEnd(id, b, e) ==
    LET size == Len(m_names_char_list)
    IN  CASE ~ndebug /\ ~(id < Len(m_name_begin_indices) /\ b < size /\ e < size /\ b <= e)
                        -> [kind |-> "abort", name |-> <<>>]
          [] e < b \/ e >= size -> [kind |-> "garbage", name |-> <<>>]
          [] OTHER -> [kind |-> "name", name |-> SubSeq(m_names_char_list, b + 1, e + 1)]

\* The outcome of copying [begin, end) of the character list after the
\* four assertions: a name, an abort, or garbage when end < begin (the
\* unsigned length wraps) or end lies past the list.
CopyName(id, b, e) ==
    LET size == Len(m_names_char_list)
    IN  CASE ~ndebug /\ ~(id < Len(m_name_begin_indices) /\ b < size /\ e < size /\ b <= e)
                        -> [kind |-> "abort", name |-> <<>>]
          [] e < b \/ e > size -> [kind |-> "garbage", name |-> <<>>]
          [] OTHER -> [kind |-> "name", name |-> SubSeq(m_names_char_list, b + 1, e)]

GetName(id) ==
    IF id = UINT_MAX THEN {[kind |-> "name", name |-> <<>>]}
    ELSE {CopyName(id, b, e) : b \in IndexAt(id), e \in IndexAt(id + 1)}

\* A caller asks for the name of an id the edges file holds.
QueryName ==
    /\ stage = "ready"
    /\ \E id \in (0..(Len(disk.names) - 1)) \cup {UINT_MAX} :
         \E r \in GetName(id) :
            /\ answer' = [id |-> id, kind |-> r.kind, name |-> r.name]
            /\ stage' = IF r.kind = "abort" THEN "aborted" ELSE stage
    /\ UNCHANGED <<ndebug, disk, m_timestamp, m_name_begin_indices, m_names_char_list>>

Next ==
    \/ CheckPaths \/ ResolvePaths \/ LoadGraph \/ LoadNodeAndEdgeInformation
    \/ LoadRTree \/ LoadTimestamp \/ LoadStreetNames
    \/ QueryName

Spec == Init /\ [][Next]_vars

----------------------------------------------------------------------------
(* Properties.                                                             *)

\* GetName returns, for every name id of the file, the name the file was
\* written from, and the empty name for UINT_MAX, in either build: the
\* begin-index array read at name_id and name_id + 1 must cover the last
\* id too.
NamesRoundTrip ==
    answer.kind # "none" =>
        /\ answer.kind = "name"
        /\ answer.name = IF answer.id = UINT_MAX THEN <<>> ELSE disk.names[answer.id + 1]


=============================================================================
