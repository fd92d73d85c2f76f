# TLA+ models of Project-OSRM-Server

This directory holds TLA+ models of the parts of the routing server under
`src/` that have state, interleavings or boundary cases worth model checking,
the TLC configurations that check them, and `PROJECT.json`, which maps every
definition to the source lines it models and lists the runs, mutants, findings
and hazards.

## The system

- **Plugin registry** (`src/Library/OSRM.cpp`, the `OSRM` constructor,
  `RegisterPlugin`). Each server process's constructor registers five
  plugins in a map keyed by descriptor. `RegisterPlugin` deletes a plugin
  already under the descriptor, then calls `emplace`. `RunQuery` looks the
  request's service up in the map. An unknown service gets the stock 400
  reply and takes no lock.
- **Query barrier** (`src/Library/OSRM.cpp`, `OSRM::RunQuery`). With shared
  memory in use, each query thread passes a two-lock barrier before it reads
  the dataset. It takes `pending_update_mutex`, then `query_mutex`, and
  releases the first. It increments `number_of_queries` and lets the
  process's facade reload if a new dataset was published
  (`CheckAndReloadFacade`). Then it releases `query_mutex` and handles the
  request with no lock held. Afterwards it retakes `query_mutex`, decrements
  the counter, and calls `notify_all` on `no_running_queries_condition` when
  the counter reaches zero.
- **Dataset loader** (the `datastore` tool, not under `src/`, modelled from
  the spec). It holds `pending_update_mutex` while it recreates and fills the
  inactive one of two shared-memory regions (`SharedMemory`'s writeable
  constructor in `src/DataStructures/SharedMemoryFactory.h`). It then takes
  `query_mutex`, waits on the condition until no query runs, and flips the
  active region and the generation counter.
- **InternalDataFacade** (`src/Server/DataStructures/InternalDataFacade.h`),
  the facade used without shared memory. Its constructor checks the
  `ServerPaths`, looks the paths up, and loads graph, nodes and edges, r-tree,
  timestamp and street names one after the other. `GetName` cuts a name out
  of one character array between two entries of a begin-index array.
- **HTTP request parser** (`src/Server/RequestParser.cpp`). `consume` is a
  state machine fed one character at a time. A header is applied to the
  request and the compression type when the next line starts. `Reset`
  returns the parser to `method_start` for another request.
- **EdgeBasedGraphFactory** (`src/Contractor/EdgeBasedGraphFactory.cpp`).
  Its constructor first files the turn restrictions into a map from
  (from, via) to buckets of (to, is-only). `CheckForEmanatingIsOnlyTurn` and
  `CheckIfTurnIsRestricted` read that map. The constructor then turns every
  import edge into one or two node-based edges and builds a `DynamicGraph`
  from them.
- **DynamicGraph** (`src/DataStructures/DynamicGraph.h`), the mutable
  adjacency array used by the contractor. Each node owns a run of slots
  `[firstEdge, firstEdge + edges)` in one edge array. A slot whose target is
  the largest node id is a *dummy* (free). `InsertEdge` grows a run into the
  dummy after it, else into the dummy before it, else moves the run to
  `edges * 1.1 + 2` new slots at the end. `DeleteEdge` and `DeleteEdgesTo`
  fill each hole with the run's last edge and free that slot.
- **SharedMemory** (`src/DataStructures/SharedMemoryFactory.h`). Its
  factory `Get` makes a lock file and runs one of three paths. With
  `remove_prev` it removes the segment under the key, then creates a
  segment. A size of 0 opens a segment read-only. Any other size opens or
  creates a segment. The constructor maps the segment. A writeable object
  keeps a `shm_remove` whose destructor marks the segment for removal.
  `Remove` and `RegionExists` find a segment by its key.
- **bz2 input reader** (`src/DataStructures/InputReaderFactory.h`).
  `inputReaderFactory` opens a `.bz2` file with `BZ2_bzReadOpen`.
  libxml then pulls text through `readFromBz2Stream`. That function loops
  over `BZ2_bzRead`. At each `BZ_STREAM_END` it either closes the stream
  (when no unused bytes are left and `feof` is true) or reopens a stream on
  the unused bytes for the next concatenated stream. Any other error prints
  a message and calls `exit(-1)`. `closeBz2Stream` closes the stream and
  the file.
- **XORFastHash** (`src/DataStructures/XORFastHash.h`). Tabulation
  hashing of an unsigned key by its two 16-bit halves. The constructor
  fills two tables of `unsigned short` with their indices and shuffles
  them. Nothing under `src/` uses it.
- Not modelled (see `PROJECT.json`, components): `checkCoord`,
  `XORMiniHash`, regex helpers and the tools.

The barrier is the only place where threads and processes interact: query
threads of several server processes and one loader share the named mutexes,
the counter and the regions. Any of these processes may be killed, and the
named mutexes and the counter outlive it. The other components are sequential. Their
hazards are long call sequences, orderings of inputs, and boundary values.

## Modules

| Module | Models | State | Actions |
|---|---|---|---|
| `SharedBarrier` | `RunQuery` plus loader, and the plugin registry, with crashes | the processes that have died; per process the number of plugins the constructor has registered, the plugin map (descriptor to plugin index) and each plugin's life (unborn, live, deleted); per query thread the plugin its request went to and its reply status; both mutex owners, the counter, condition waiters, a pc per query thread, the loader's pc, generation, active region, the two regions, one facade per process | `Construct` (one `RegisterPlugin` per step); `Dispatch` and `BadRequest` (the lookup); one action per lock, unlock and counter step of `RunQuery`; `Crash` of a server process or the loader; the loader's `WriterLockPending`, `CreateRegion`, `WriteRegion`, `WriterLockQuery`, `WriterWait`, `WriterWakeUp`, `WriterSwap`; `SpuriousWakeup` |
| `InternalDataFacade` | the facade's constructor, `LoadTimestamp`, `LoadStreetNames`, `GetName` | the build (debug or `NDEBUG`), the files on disk, the constructor's stage, `m_timestamp`, `m_name_begin_indices`, `m_names_char_list`, the last `GetName` answer | `CheckPaths`, `ResolvePaths`, `LoadGraph`, `LoadNodeAndEdgeInformation`, `LoadRTree`, `LoadTimestamp`, `LoadStreetNames`, `QueryName` |
| `RequestParser` | `RequestParser::consume`, `Parse`, `Reset` | `state_`, `header`, the request, the compression type, the input and position, the last result | one action per case of `consume`, and `Reset` with the next request |
| `EdgeBasedGraphFactory` | the whole constructor | the two parts' variables, the barrier and traffic-light lists and sets, the phase | `FileRestriction` (a `RestrictionMap` step), `InsertNodeSets`, `ConvertEdge` (a `NodeBasedGraph` step) |
| `RestrictionMap` | the first loop of the `EdgeBasedGraphFactory` constructor and the two lookups | the input, the loop position, `m_restriction_map`, `m_restriction_bucket_list`, `m_turn_restrictions_count` | `NewSource`, `SkipAfterIsOnly`, `ReplaceByIsOnly`, `AppendRestriction` |
| `NodeBasedGraph` | the edge loop of that constructor and the graph it builds | the input, the loop position, `edges_list`, `m_node_based_graph` as a bag of out-edges per node | `SkipSelfLoop`, `PushOne`, `PushBoth`, `BuildGraph` |
| `Multigraph` | what DynamicGraph promises | a bag of out-edges per node, the edge count | `Insert`, `DeleteOne`, `DeleteAllTo` |
| `DynamicGraph` | `DynamicGraph.h` | `m_nodes`, `m_edges`, `m_numEdges` | both constructors as initial predicates, `InsertEdge` (three placements), `DeleteEdge`, `DeleteEdgesTo` (its loops as RECURSIVE operators) |
| `SharedMemory` | `SharedMemoryFactory.h`: `Get`, `Remove`, `RegionExists`, the constructors and the destructor, over System V segments | the lock file; each shmid's state (live with a key, marked for removal while mapped, freed), key and size; per process the pc of the current call, the shmid in hand, the `SharedMemory` objects it holds (a bag), the last outcome | `GetNoLockFile`, `GetStart`, `RemoveStart`, `RemoveOpen`, `RemoveRmid`, `OpenOnly`, `OpenExisting`, `CreateSegment`, `MapRegion`, `MapFails`, `Destroy` |
| `Bz2Reader` | `inputReaderFactory`'s bz2 branch, `readFromBz2Stream`, `closeBz2Stream` | the file (a sequence of streams, each a compressed and an uncompressed size), whether it exists, the stdio position and EOF flag, bzlib's stream (open, stream index, bytes in its buffer, whether that input is misaligned), `error`, `nUnused`, the reader's pc, the requested length, the bytes read in this call and delivered so far | `inputReaderFactory`, `Call`, `ReadOk`, `ReadStreamEndLast`, `ReadStreamEndNext`, `ReadFails`, `LoopExit`, `closeBz2Stream`; `BzRead` is a RECURSIVE operator giving every outcome bzlib may report |
| `XORFastHash` | `XORFastHash`'s constructor and `operator()` | the two tables, the constructor's pc and the shuffle position | `Fill`, `ShuffleTable1`, `ShuffleTable2` (one `random_shuffle` swap each); `XORHash` is an operator |
| `MC...` | model values, inputs and bounds for each | | |

Characters, names and payloads are abstracted to a few symbols. The parser
reads a word such as `Accept-Encoding` as one symbol wherever a token
character is accepted. The graph, node and r-tree files are reduced to the
list sizes the constructor asserts on. A `BOOST_ASSERT` aborts in a debug
build and does nothing with `NDEBUG`; `InternalDataFacade` has both builds as
initial states. A read past the end of a vector is undefined behaviour and
yields any value of `OutOfBoundsValues`.

Operators named `...NoCount`, `...Unchecked`, `...CutShort`, `SwapOnce` and
the like are deliberately wrong variants of the definition after them. They
are used only as mutants: a property must fail when the real definition is
replaced by one.

## Runs

- `shared_barrier` (`MCSharedBarrier.cfg`): three query threads, two of them
  in the same process, and a loader publishing two datasets. One process,
  a server or the loader, may die at any step.
  - `HandlerReadsPublishedData`: a handler only reads a region that is fully
    written, holds the generation its facade mapped, and is still current.
  - No property is checked of the plugin registry: the five descriptors
    of the constructor are distinct, so the delete-then-emplace branch of
    `RegisterPlugin` is never taken with a duplicate. Requests name
    `viaroute` or an unknown service.
  - `WriterEventuallyPublishes`: a loader holding `pending_update_mutex`
    publishes, provided two things hold. First, spurious wakeups do not go
    on forever. Second, no dead process holds a mutex or a count. Without
    the first, TLC finds a livelock: the woken loader retakes
    `query_mutex` ahead of the exiting query every time.
  - `QueriesKeepReturning`: while a live thread is inside `RunQuery`,
    queries keep returning from it, under the same two hypotheses. This
    rules out a circular wait and a lost notify, also after a process
    died holding nothing. One thread may starve, because the mutexes are
    not fair, so the property is about all queries rather than each one.
    Without the crash hypothesis, TLC finds every query blocked at
    `pending_update_mutex` once the loader died holding it. A server
    process that dies while counted blocks the loader the same way.
- `dynamic_graph` (`MCDynamicGraph.cfg`): three nodes, one payload, at most
  three edges at once and six slots. The inputs are an empty list, a list
  with two edges from node 0 to node 1, and a list with node 0 empty.
  - `TypeOK` includes that every run lies inside the edge array.
  - `AdjacencyRunsWellFormed`: runs hold no dummy and are pairwise disjoint.
  - `OtherSourcesStable`: no step changes the adjacency of two nodes.
  - `MultigraphRefinement`: `DynamicGraph` refines `Multigraph!Spec`.
- `dynamic_graph_from_count` (`MCDynamicGraphFromCount.cfg`, expected
  violation). The graph built by `DynamicGraph(nodes)` breaks
  `AdjacencyRunsWellFormed` in its initial state: the slots it allocates
  have target 0, not the dummy target. They are never reused.
- `edge_based_graph_factory` (`MCEdgeBasedGraphFactory.cfg`): the whole
  constructor. The restriction list is every list of up to four
  restrictions over two (from, via) keys and two targets, plain and
  is-only. The edge list is every list of up to two import edges over two
  nodes, with weight 0 or 2 and every combination of forward/backward,
  self-loops included. The two parts share no state, so each list is
  explored in full with the other empty, plus every pair of one-element
  lists.
  - `IsOnlyExclusive`: a bucket holding an is-only restriction holds nothing
    else.
  - `CountIsBucketTotal`: `m_turn_restrictions_count` equals the number of
    entries in the buckets, after the subtraction at line 51.
  - `LookupsAnswerInput`: once the loop ends, both lookups agree with a
    declarative reading of the input. The first is-only restriction for
    (u, v) decides, and the later ones are dropped.
  - `TypeOK` includes the positive distance asserted at line 89.
  - `EdgeBasedNodeIdsDistinct`: every node-based edge, including the
    reversed copy of a two-way edge, gets its own edge-based node id.
  - `GraphOffersInputTraversals` (an action property on the build step): the
    graph offers exactly the traversals the input allows, each stored
    forward at the node it leaves.
- `request_parser` (`MCRequestParser.cfg`): the following connections:
  - every well-formed request with up to two of six headers, two URIs and
    two versions;
  - every request with one header and one character replaced by one of
    eight symbols;
  - a request with no headers followed by any well-formed request with one
    header on the same parser, after `Reset`.

  No type invariant is checked here: the parser's variables keep their
  types by the shape of `consume`'s cases.
  `AcceptsWellFormed`: a well-formed request is never rejected, and the
  parser returns true on its last character and not before.
  `HeadersReachRequest`: an accepted request carries its last Referer and
  User-Agent. Its compression type is the one the last Accept-Encoding
  naming gzip or deflate asks for, gzip first. This holds even though each
  header is applied only when the next line starts. The reused connections
  start from a bare request, so no earlier header is pending.
- `request_parser_reset` (`MCRequestParserReset.cfg`, expected violation):
  on a reused parser, `HeadersReachRequest` fails. `Reset` leaves `header`
  set, so the first `header_line_start` of the next request applies the
  previous request's last header to it.
- `internal_data_facade` (`MCInternalDataFacade.cfg`). The inputs are:
  - debug and release builds;
  - path sets with all keys, without `timestamp`, and without `namesdata`;
  - an empty and a non-empty graph;
  - five timestamp files;
  - three name lists, written with the total length appended as a last
    offset.

  `TypeOK` includes that every begin index points into the character list.
  `NamesRoundTrip`: `GetName` returns every name as written, and the
  empty name for `UINT_MAX`.
- `internal_data_facade_spec_names` (expected violation): with the names
  file laid out as the spec says (one offset per name), `GetName` of the
  last id reads past `m_name_begin_indices`. It can return a wrong name
  (for instance the empty name in a debug build, where the assertions pass
  on the garbage) or garbage.

- `shared_memory` (`MCSharedMemory.cfg`). There is one key and three
  shmids. The loader calls `Get` with size 1 and `remove_prev`, `Get` with
  size 2 and no `remove_prev`, and `Remove`. A server calls `Get` with size
  0. Mapping may fail. Each process holds at most two objects. The lock
  file may or may not exist at the start.
  - `SegmentLeavesKeyOnlyByRemoval`: a keyed segment loses its key only by
    a `Remove` of that segment or by deleting a writeable object that maps
    it. It never loses its key by deleting a read-only object, or by
    deleting an object whose segment was replaced under the key.
  - `WriteableGetIsFresh`: a successful `Get` with `remove_prev` maps a
    segment that did not exist when the call began.
- `shared_memory_leak` (`MCSharedMemoryLeak.cfg`, expected violation).
  `SegmentsReleasedOnFailure` says a keyed segment is always mapped by an
  object or in the hands of a running call. It fails when `mapped_region`
  throws after `open_or_create` has created a segment. `remover.SetID` has
  not yet run, so nothing ever removes the segment.

- `bz2_reader` (`MCBz2Reader.cfg`): every file of one or two streams,
  with compressed sizes 1 to 3 and text sizes 1 to 2, with `BZ_MAX_UNUSED`
  = 2 and libxml asking for 1 or 2 bytes per call. A missing file is
  included too.
  - `ReadsOnlyOpenStream`: the loop never calls `BZ2_bzRead` on a stream
    that `ReadStreamEndLast` has closed.
  - `EndOfInputOnlyAtEnd`: the reader returns 0 to libxml (end of input)
    only after every stream's text was delivered.
  - `ExitOnlyAtChunkBoundary`: the reader exits with "Could not read bz2
    file" only on files whose size is a multiple of bzlib's read size. The
    run shows that such files do reach the exit (see Findings).

- `xor_fast_hash` (`MCXORFastHash.cfg`, expected violation), with one bit
  per half. `LsbCollisionFree` says that for a fixed high half, distinct
  low halves hash apart. That is what tabulation over two shuffled
  65k-entry tables gives. TLC finds it violated: the tables have
  `2 << W` entries filled with the index truncated to W bits, so the half
  `operator()` reads can hold a value twice. With `1 << W` entries, the
  property holds for W = 1 and W = 2.

Each passing property has a mutant in `PROJECT.json` that TLC catches under
the run's own configuration.

## Findings

- `src/DataStructures/DynamicGraph.h:58` (divergence from the spec): the
  count constructor leaves value-initialised slots that are neither dummies
  nor part of a run.
- `src/Server/RequestParser.cpp:34` (bug): `Reset` does not clear `header`.
  A request parsed after `Reset` can get the previous request's Referer,
  User-Agent or compression type.
- `src/Server/DataStructures/InternalDataFacade.h:371` (divergence from the
  spec): `GetName` needs an end offset after the last name. The spec's
  names layout does not have one.
- `src/DataStructures/SharedMemoryFactory.h:134` (divergence from the spec):
  a writeable `SharedMemory` whose mapping throws leaves the segment it
  created, keyed and unowned. The spec says the segment is released on
  every exit path.

- `src/DataStructures/InputReaderFactory.h:62` (bug): the last stream is
  detected by `feof(context->file)`. When a well-formed file's size is a
  multiple of `BZ_MAX_UNUSED` (5000), bzlib's last `fread` fills its buffer
  exactly and EOF is not yet set. The reader then opens a stream on no
  input, gets `BZ_UNEXPECTED_EOF`, and calls `exit(-1)` after the whole
  text was delivered.

- `src/DataStructures/XORFastHash.h:49` (divergence from the class
  comment): the tables have `2 << 16` entries, not 65k, and the fill wraps
  at 65536. Keys that differ only in their low half can collide.

## Bounds

- **Crashes.** One crash per behaviour (`MaxCrashes`). The crash may hit
  either server process or the loader, at any step. A second crash adds
  no blocking pattern that one does not show.
- **Barrier.** Three query threads in two processes are enough for two
  cases: a query that registers after its sibling reloaded, and two queries
  holding the count while the loader waits. Two updates let a facade be
  stale by one generation. They also let region 1 be recreated while an
  idle process still maps it.
- **DynamicGraph.** Six slots allow two relocations from the empty graph.
  Three edges allow a run `[v, w, v]` in which `DeleteEdgesTo` must re-check
  a swapped-in edge. `EdgeBound` caps the number of edges at once.
  `DummyBlindView` identifies states that differ only in the payload of
  dummy slots, which no operation reads.
- **Restrictions.** Four restrictions put two plain and two is-only
  restrictions on one key in every order. They also mix two keys.
- **Node-based edges.** Each import edge is transformed on its own, except
  for the id counter. Two edges already give two two-way edges (four ids),
  a self-loop next to an edge, and an edge with its reverse. Three edges
  take over four minutes and add no new case.
- **Parser.** Two headers let a later Accept-Encoding override an earlier
  one. The replaced-character requests reach every `return false`.
- **Shared memory.** Three shmids let the loader create a segment, remove it
  while the server maps it, and create a fresh one, all without running out.
  A further `Get` then exhausts the pool (ENOSPC). Sizes 1 and 2 reach the
  EINVAL path of `open_or_create`. Two objects per process let one
  process's destructor act on a segment that a later object replaced.
- **bz2 reader.** A read size of 2 with compressed sizes 1 to 3 gives
  files whose size is and is not a multiple of the read size. It also gives
  a stream ending inside a chunk, so that the unused bytes must be carried
  into the next stream, and a stream spanning two chunks. Two streams reach
  the reopen path; a third adds no new branch. bzlib and stdio are
  modelled as the environment. `fread` sets EOF only on a short count.
  `BZ2_bzRead` refills its buffer when it is empty and not at EOF, and
  reports `BZ_UNEXPECTED_EOF` when it needs input at EOF. On an exact fill
  it may report `BZ_STREAM_END` now, or `BZ_OK` now and `BZ_STREAM_END`
  with no bytes on the next call.
- **Plugins.** The five descriptors of the constructor, with requests for
  `viaroute` and an unknown service, reach both branches of the lookup.
  Two processes construct their maps independently of the barrier.
- **XORFastHash.** One bit per half makes tables of four entries, two per
  value, and 24 shuffles of each. That is enough for a shuffle that puts
  both copies of a value in the low half.
- **Facade.** The garbage values include every offset into the character
  lists and a large one.

## Fairness

Every query thread and the loader are OS threads, so a step that stays
enabled is eventually taken. This gives weak fairness on each
`RunQuery(q)`, on `Datastore`, and on each process's `Construct(p)`. Boost's interprocess mutexes are not
fair, so no strong fairness is assumed. Spurious wakeups are allowed with
no fairness at all. The sequential components have no liveness properties:
their loops end when the input is consumed, and their configurations say
`CHECK_DEADLOCK FALSE` for that reason.

## Not modelled

- The path of `RunQuery` without shared memory. It takes no lock and
  changes no shared state.
- A restart after a crash. Nothing under `src/` recovers a named mutex or
  the counter left by a dead process. A restarted process would block on
  them like the surviving threads do.
- Concurrent calls into one DynamicGraph: the callers are not under `src/`.
- In `SharedMemory`, the segment's contents and the file-backed variant
  (`SharedMemoryFactory_tmpl` on other platforms). `SharedBarrier` models
  the contents at the level of regions.
- A duplicate descriptor in `RegisterPlugin`. The map would keep the
  deleted plugin and leak the new one. The constructor's descriptors are
  distinct, so no run of the program reaches this.
- `checkCoord`, `XORMiniHash` (its tables are exactly one byte wide, so
  each is a permutation and there is nothing to explore), the regex helpers and the tools. The
  plain-XML branch of `inputReaderFactory` hands the file to libxml and has
  no state of its own.

## Plan for the remaining parts

1. `checkCoord` as an operator checked at the range boundaries.
2. The edge-based edge loop of the contractor, if its code comes under
   `src/`.
