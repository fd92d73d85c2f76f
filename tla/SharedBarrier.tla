--------------------------- MODULE SharedBarrier ---------------------------
(***************************************************************************)
(* The hot swap of a shared-memory dataset under running queries.          *)
(*                                                                         *)
(* Query side (src/Library/OSRM.cpp, OSRM::RunQuery with shared memory):   *)
(* every query thread takes pending_update_mutex, then query_mutex,        *)
(* releases pending_update_mutex, increments number_of_queries, lets the   *)
(* facade of its process reload if a new generation was published, and    *)
(* releases query_mutex; it then handles the request against the facade   *)
(* without any lock, and finally retakes query_mutex to decrement the      *)
(* counter, notifying no_running_queries_condition when it reaches zero.   *)
(*                                                                         *)
(* Writer side (the dataset loader, not under src/, modelled from the      *)
(* spec): it holds pending_update_mutex while it recreates and fills the   *)
(* inactive one of two regions (SharedMemory's constructor with            *)
(* remove_prev, src/DataStructures/SharedMemoryFactory.h), then takes      *)
(* query_mutex and waits on the condition until no query runs, flips the   *)
(* active region and the generation counter, and releases both mutexes.   *)
(***************************************************************************)
EXTENDS Naturals, FiniteSets, Sequences

CONSTANTS
    Queries,     \* query threads
    Procs,       \* server processes; the threads of one share a facade
    ProcOf,      \* ProcOf[q]: the process thread q belongs to
    Writer,      \* the dataset loader
    MaxUpdates,  \* the number of datasets the loader publishes
    NONE,        \* a free mutex
    Descriptors, \* the descriptors of the plugins the OSRM constructor
                 \* registers, in its order
    Services,    \* every descriptor
    Requests,    \* the services requests name
    MaxCrashes   \* how many processes may die in one behaviour

ASSUME
    /\ Writer \notin Queries
    /\ ProcOf \in [Queries -> Procs]
    /\ MaxUpdates \in Nat \ {0}
    /\ Descriptors \in Seq(Services)
    /\ Requests \subseteq Services
    /\ Writer \notin Procs
    /\ MaxCrashes \in Nat

\* Plugin i is the i-th one the constructor creates.
Plugins == 1..Len(Descriptors)
NoPlugin == 0

Slots == {1, 2}
Other(s) == 3 - s
Gens == 0..MaxUpdates

VARIABLES
    pending_update_mutex,  \* owner of barrier.pending_update_mutex, or NONE
    query_mutex,           \* owner of barrier.query_mutex, or NONE
    number_of_queries,     \* barrier.number_of_queries
    cond_waiters,          \* threads blocked on no_running_queries_condition
    pc,                    \* pc[q]: where query thread q is in RunQuery
    wpc,                   \* where the loader is
    generation,            \* the generation counter in the region header
    active_slot,           \* the region queries are told to map
    region,                \* region[s]: state and generation of region s
    facade,                \* facade[p]: region and generation process p maps
    registered,            \* registered[p]: plugins p's constructor has made
    plugin_map,            \* plugin_map[p][d]: the plugin under descriptor d
    plugin_state,          \* plugin_state[p][i]: unborn, live or deleted
    handler,               \* handler[q]: the plugin q's request went to
    reply,                 \* reply[q]: the status of q's last reply
    crashed                \* the processes (servers, loader) that have died

PluginVars == <<registered, plugin_map, plugin_state, handler, reply>>

vars == <<pending_update_mutex, query_mutex, number_of_queries, cond_waiters,
          pc, wpc, generation, active_slot, region, facade, PluginVars,
          crashed>>

QueryPcs == {"idle", "lock_pending", "lock_query", "unlock_pending",
             "register", "handle", "exit_lock", "deregister"}
WriterPcs == {"idle", "create", "write", "lock_query", "check", "waiting"}
RegionStates == {"absent", "writing", "ready"}

TypeOK ==
    /\ pending_update_mutex \in Queries \cup {Writer, NONE}
    /\ query_mutex \in Queries \cup {Writer, NONE}
    /\ number_of_queries \in 0..Cardinality(Queries)
    /\ cond_waiters \subseteq {Writer}
    /\ pc \in [Queries -> QueryPcs]
    /\ wpc \in WriterPcs
    /\ generation \in Gens
    /\ active_slot \in Slots
    /\ region \in [Slots -> [state : RegionStates, gen : Gens]]
    /\ facade \in [Procs -> [slot : Slots, gen : Gens]]
    /\ registered \in [Procs -> 0..Len(Descriptors)]
    /\ plugin_map \in [Procs -> [Services -> Plugins \cup {NoPlugin}]]
    /\ plugin_state \in [Procs -> [Plugins -> {"unborn", "live", "deleted"}]]
    /\ handler \in [Queries -> Plugins \cup {NoPlugin}]
    /\ reply \in [Queries -> {"none", "ok", "badRequest"}]
    /\ crashed \subseteq Procs \cup {Writer}

\* Before the first query the loader has published generation 0 in region
\* 1, and every server process has built its facade over it.
Init ==
    /\ pending_update_mutex = NONE
    /\ query_mutex = NONE
    /\ number_of_queries = 0
    /\ cond_waiters = {}
    /\ pc = [q \in Queries |-> "idle"]
    /\ wpc = "idle"
    /\ generation = 0
    /\ active_slot = 1
    /\ region = [s \in Slots |-> IF s = 1 THEN [state |-> "ready", gen |-> 0]
                                          ELSE [state |-> "absent", gen |-> 0]]
    /\ facade = [p \in Procs |-> [slot |-> 1, gen |-> 0]]
    /\ registered = [p \in Procs |-> 0]
    /\ plugin_map = [p \in Procs |-> [d \in Services |-> NoPlugin]]
    /\ plugin_state = [p \in Procs |-> [i \in Plugins |-> "unborn"]]
    /\ handler = [q \in Queries |-> NoPlugin]
    /\ reply = [q \in Queries |-> "none"]
    /\ crashed = {}

Goto(q, from, to) ==
    /\ pc[q] = from
    /\ pc' = [pc EXCEPT ![q] = to]

WriterVars == <<wpc, generation, active_slot, region>>

----------------------------------------------------------------------------
(* The OSRM constructor of each server process.                            *)

\* RegisterPlugin(plugin i): a plugin already under its descriptor is
\* deleted; emplace then inserts only if the descriptor is absent.
RegisterPlugin(p, i) ==
    LET d   == Descriptors[i]
        old == plugin_map[p][d]
    IN  /\ plugin_state' = [plugin_state EXCEPT ![p] =
              [j \in Plugins |-> IF j = i THEN "live"
                                 ELSE IF j = old THEN "deleted"
                                 ELSE plugin_state[p][j]]]
        /\ plugin_map' = IF old = NoPlugin
                         THEN [plugin_map EXCEPT ![p][d] = i] ELSE plugin_map

\* OSRM::OSRM: the facade, then one RegisterPlugin per plugin, in order.
Construct(p) ==
    /\ p \notin crashed
    /\ registered[p] < Len(Descriptors)
    /\ registered' = [registered EXCEPT ![p] = registered[p] + 1]
    /\ RegisterPlugin(p, registered[p] + 1)
    /\ UNCHANGED <<handler, reply, pending_update_mutex, query_mutex,
                   number_of_queries, cond_waiters, pc, facade, WriterVars,
                   crashed>>

----------------------------------------------------------------------------
(* Query side: OSRM::RunQuery.                                             *)

\* plugin_map.find(service) in the OSRM object of q's process, which
\* serves requests once its constructor has returned.
\* The service names a registered plugin; reply.status is set to ok and,
\* with shared memory in use, the thread goes for the barrier.
Dispatch(q) ==
    /\ Goto(q, "idle", "lock_pending")
    /\ \E s \in Requests :
          /\ registered[ProcOf[q]] = Len(Descriptors)
          /\ plugin_map[ProcOf[q]][s] # NoPlugin
          /\ handler' = [handler EXCEPT ![q] = plugin_map[ProcOf[q]][s]]
    /\ reply' = [reply EXCEPT ![q] = "ok"]
    /\ UNCHANGED <<registered, plugin_map, plugin_state, pending_update_mutex,
                   query_mutex, number_of_queries, cond_waiters, facade,
                   WriterVars>>

\* No plugin under the service: the reply is the stock 400 reply, and no
\* lock is taken.
BadRequest(q) ==
    /\ pc[q] = "idle"
    /\ \E s \in Requests :
          /\ registered[ProcOf[q]] = Len(Descriptors)
          /\ plugin_map[ProcOf[q]][s] = NoPlugin
    /\ reply' = [reply EXCEPT ![q] = "badRequest"]
    /\ handler' = [handler EXCEPT ![q] = NoPlugin]
    /\ UNCHANGED <<registered, plugin_map, plugin_state, pending_update_mutex,
                   query_mutex, number_of_queries, cond_waiters, pc, facade,
                   WriterVars>>

\* scoped_lock pending_lock(barrier.pending_update_mutex)
LockPending(q) ==
    /\ pending_update_mutex = NONE
    /\ Goto(q, "lock_pending", "lock_query")
    /\ pending_update_mutex' = q
    /\ UNCHANGED <<PluginVars, query_mutex, number_of_queries, cond_waiters, facade,
                   WriterVars>>

\* scoped_lock query_lock(barrier.query_mutex), pending lock still held.
LockQuery(q) ==
    /\ query_mutex = NONE
    /\ Goto(q, "lock_query", "unlock_pending")
    /\ query_mutex' = q
    /\ UNCHANGED <<PluginVars, pending_update_mutex, number_of_queries, cond_waiters,
                   facade, WriterVars>>

\* pending_lock.unlock(), before the counter is incremented.
UnlockPending(q) ==
    /\ Goto(q, "unlock_pending", "register")
    /\ pending_update_mutex' = NONE
    /\ UNCHANGED <<PluginVars, query_mutex, number_of_queries, cond_waiters, facade,
                   WriterVars>>

\* SharedDataFacade::CheckAndReloadFacade (not under src/): a facade that
\* still maps an older generation than the header announces remaps the
\* active region.
CheckAndReloadFacade(p) ==
    IF facade[p].gen # generation
    THEN facade' = [facade EXCEPT ![p] = [slot |-> active_slot, gen |-> generation]]
    ELSE UNCHANGED facade

\* A variant with the increment dropped (used to show that
\* HandlerReadsPublishedData depends on it).
RegisterNoCount(q) ==
    /\ Goto(q, "register", "handle")
    /\ CheckAndReloadFacade(ProcOf[q])
    /\ query_mutex' = NONE
    /\ UNCHANGED <<PluginVars, pending_update_mutex, number_of_queries, cond_waiters,
                   WriterVars>>

\* ++number_of_queries; CheckAndReloadFacade(); the query lock goes out of
\* scope at the end of the block.
Register(q) ==
    /\ Goto(q, "register", "handle")
    /\ number_of_queries' = number_of_queries + 1
    /\ CheckAndReloadFacade(ProcOf[q])
    /\ query_mutex' = NONE
    /\ UNCHANGED <<PluginVars, pending_update_mutex, cond_waiters, WriterVars>>

\* iter->second->HandleRequest(route_parameters, reply): the plugin reads
\* the facade of the process, holding no lock.
HandleRequest(q) ==
    /\ Goto(q, "handle", "exit_lock")
    /\ UNCHANGED <<PluginVars, pending_update_mutex, query_mutex, number_of_queries,
                   cond_waiters, facade, WriterVars>>

\* scoped_lock query_lock(barrier.query_mutex) after the request.
ExitLock(q) ==
    /\ query_mutex = NONE
    /\ Goto(q, "exit_lock", "deregister")
    /\ query_mutex' = q
    /\ UNCHANGED <<PluginVars, pending_update_mutex, number_of_queries, cond_waiters,
                   facade, WriterVars>>

\* A variant that never notifies the condition.
DeregisterNoNotify(q) ==
    /\ Goto(q, "deregister", "idle")
    /\ number_of_queries' = number_of_queries - 1
    /\ query_mutex' = NONE
    /\ UNCHANGED <<PluginVars, pending_update_mutex, cond_waiters, facade, WriterVars>>

\* A variant that leaves the count as it is.
DeregisterNoDecrement(q) ==
    /\ Goto(q, "deregister", "idle")
    /\ query_mutex' = NONE
    /\ UNCHANGED <<PluginVars, pending_update_mutex, number_of_queries, cond_waiters,
                   facade, WriterVars>>

\* A variant that tests the count against 1 instead of 0.
DeregisterNotifyAtOne(q) ==
    /\ Goto(q, "deregister", "idle")
    /\ number_of_queries' = number_of_queries - 1
    /\ cond_waiters' = IF number_of_queries' = 1 THEN {} ELSE cond_waiters
    /\ query_mutex' = NONE
    /\ handler' = [handler EXCEPT ![q] = NoPlugin]
    /\ UNCHANGED <<registered, plugin_map, plugin_state, reply,
                   pending_update_mutex, facade, WriterVars>>

\* --number_of_queries; notify_all when it reached 0; the lock, and with
\* RunQuery's return the plugin iterator, go out of scope.
Deregister(q) ==
    /\ Goto(q, "deregister", "idle")
    /\ number_of_queries' = number_of_queries - 1
    /\ cond_waiters' = IF number_of_queries' = 0 THEN {} ELSE cond_waiters
    /\ query_mutex' = NONE
    /\ handler' = [handler EXCEPT ![q] = NoPlugin]
    /\ UNCHANGED <<registered, plugin_map, plugin_state, reply,
                   pending_update_mutex, facade, WriterVars>>

\* The threads of a dead process take no more steps.
RunQuery(q) ==
  /\ ProcOf[q] \notin crashed
  /\ UNCHANGED crashed
  /\ \/ Dispatch(q)
     \/ BadRequest(q)
     \/ LockPending(q)
     \/ LockQuery(q)
     \/ UnlockPending(q)
     \/ Register(q)
     \/ HandleRequest(q)
     \/ ExitLock(q)
     \/ Deregister(q)

----------------------------------------------------------------------------
(* Writer side: the dataset loader.                                        *)

QueryVars == <<pc, number_of_queries, facade>>

\* The loader announces an update by taking pending_update_mutex.
WriterLockPending ==
    /\ wpc = "idle"
    /\ generation < MaxUpdates
    /\ pending_update_mutex = NONE
    /\ pending_update_mutex' = Writer
    /\ wpc' = "create"
    /\ UNCHANGED <<PluginVars, query_mutex, cond_waiters, generation, active_slot, region,
                   QueryVars>>

\* SharedMemory(lock_file, id, size, read_write, remove_prev) on the
\* inactive region: Remove(key) drops the old segment, open_or_create makes
\* a fresh one that is not yet filled.
CreateRegion ==
    /\ wpc = "create"
    /\ region' = [region EXCEPT ![Other(active_slot)] =
                    [state |-> "writing", gen |-> generation + 1]]
    /\ wpc' = "write"
    /\ UNCHANGED <<PluginVars, pending_update_mutex, query_mutex, cond_waiters, generation,
                   active_slot, QueryVars>>

\* The loader copies the dataset into the new region.
WriteRegion ==
    /\ wpc = "write"
    /\ region' = [region EXCEPT ![Other(active_slot)].state = "ready"]
    /\ wpc' = "lock_query"
    /\ UNCHANGED <<PluginVars, pending_update_mutex, query_mutex, cond_waiters, generation,
                   active_slot, QueryVars>>

WriterLockQuery ==
    /\ wpc = "lock_query"
    /\ query_mutex = NONE
    /\ query_mutex' = Writer
    /\ wpc' = "check"
    /\ UNCHANGED <<PluginVars, pending_update_mutex, cond_waiters, generation, active_slot,
                   region, QueryVars>>

\* while (number_of_queries > 0) no_running_queries_condition.wait(lock)
WriterWait ==
    /\ wpc = "check"
    /\ number_of_queries > 0
    /\ cond_waiters' = cond_waiters \cup {Writer}
    /\ query_mutex' = NONE
    /\ wpc' = "waiting"
    /\ UNCHANGED <<PluginVars, pending_update_mutex, generation, active_slot, region,
                   QueryVars>>

\* A woken loader (notified, or woken spuriously) retakes query_mutex
\* before wait returns.
WriterWakeUp ==
    /\ wpc = "waiting"
    /\ Writer \notin cond_waiters
    /\ query_mutex = NONE
    /\ query_mutex' = Writer
    /\ wpc' = "check"
    /\ UNCHANGED <<PluginVars, pending_update_mutex, cond_waiters, generation, active_slot,
                   region, QueryVars>>

SpuriousWakeup ==
    /\ Writer \in cond_waiters
    /\ cond_waiters' = cond_waiters \ {Writer}
    /\ UNCHANGED <<PluginVars, pending_update_mutex, query_mutex, WriterVars, QueryVars,
                   crashed>>

\* No query runs: flip the active region and the generation counter, and
\* release both mutexes.
WriterSwap ==
    /\ wpc = "check"
    /\ number_of_queries = 0
    /\ active_slot' = Other(active_slot)
    /\ generation' = generation + 1
    /\ query_mutex' = NONE
    /\ pending_update_mutex' = NONE
    /\ wpc' = "idle"
    /\ UNCHANGED <<PluginVars, cond_waiters, region, QueryVars>>

Datastore ==
  /\ Writer \notin crashed
  /\ UNCHANGED crashed
  /\ \/ WriterLockPending
     \/ CreateRegion
     \/ WriteRegion
     \/ WriterLockQuery
     \/ WriterWait
     \/ WriterWakeUp
     \/ WriterSwap

----------------------------------------------------------------------------
(* Crashes.  A server process or the loader may be killed at any point.    *)
(* Nothing in RunQuery or the loader releases a named mutex on another     *)
(* process's behalf, and no one corrects number_of_queries: a lock the     *)
(* dead process held stays held, its count stays counted.  A dead loader   *)
(* no longer waits on the condition.                                       *)

Crash(x) ==
    /\ x \notin crashed
    /\ Cardinality(crashed) < MaxCrashes
    /\ crashed' = crashed \cup {x}
    /\ cond_waiters' = cond_waiters \ {x}
    /\ UNCHANGED <<PluginVars, pending_update_mutex, query_mutex, WriterVars,
                   QueryVars>>

Next ==
    \/ \E p \in Procs : Construct(p)
    \/ \E q \in Queries : RunQuery(q)
    \/ Datastore
    \/ SpuriousWakeup
    \/ \E x \in Procs \cup {Writer} : Crash(x)

Spec == Init /\ [][Next]_vars

\* Threads are scheduled by the OS: a step that stays possible is taken.
\* The named mutexes are not fair, so nothing stronger is assumed, and a
\* spurious wakeup may or may not happen.
FairSpec ==
    /\ Spec
    /\ \A p \in Procs : WF_vars(Construct(p))
    /\ \A q \in Queries : WF_vars(RunQuery(q))
    /\ WF_vars(Datastore)

----------------------------------------------------------------------------
(* Properties.                                                             *)

\* A request handler (HandleRequest in RunQuery) only ever reads a region
\* that is completely written and holds the generation its facade mapped,
\* and that generation is still the current one: the loader can neither
\* swap nor recreate a region under a running query.
HandlerReadsPublishedData ==
    \A q \in Queries :
        pc[q] = "handle" =>
            LET f == facade[ProcOf[q]]
            IN  /\ f.gen = generation
                /\ region[f.slot] = [state |-> "ready", gen |-> f.gen]

\* Spurious wakeups stop at some point. Infinitely many of them would let
\* the loader retake query_mutex forever ahead of an exiting query.
FinitelyManySpuriousWakeups == <>[][~SpuriousWakeup]_vars

\* The pc of a query thread that number_of_queries counts.
Counted == {"handle", "exit_lock", "deregister"}

\* A dead process still holds part of the barrier: one of its threads (or
\* the loader) owns a named mutex, or is counted in number_of_queries.
DeadHoldsBarrier ==
    \E t \in Queries \cup {Writer} :
        /\ (IF t = Writer THEN Writer ELSE ProcOf[t]) \in crashed
        /\ \/ t \in {pending_update_mutex, query_mutex}
           \/ t \in Queries /\ pc[t] \in Counted

\* Once the loader holds pending_update_mutex it publishes its dataset: the
\* last query to deregister wakes it, and no wakeup is lost, as long as the
\* loader lives and no dead server process holds part of the barrier.
WriterEventuallyPublishes ==
    (FinitelyManySpuriousWakeups /\ [](Writer \notin crashed /\ ~DeadHoldsBarrier)) =>
        \A g \in 0..MaxUpdates - 1 :
            (pending_update_mutex = Writer /\ generation = g) ~> (generation = g + 1)


\* Queries keep returning from RunQuery for as long as a live server
\* thread is inside it (after the last return, none is left inside), unless a dead process holds part of the barrier.  The
\* two mutexes are always taken in the same order, a waiting loader holds
\* only pending_update_mutex, and the last query to leave wakes it: no wait
\* is circular and no wakeup is lost, also after a process that held
\* nothing died.  A single thread may starve: the named mutexes are not
\* fair.  When a dead process does hold a mutex or a count, TLC finds the
\* other threads blocked for good: boost's named mutexes are not robust.
InRunQuery == \E q \in Queries : pc[q] # "idle" /\ ProcOf[q] \notin crashed

QueriesKeepReturning ==
    (FinitelyManySpuriousWakeups /\ []~DeadHoldsBarrier) =>
        \/ []<><<\E q \in Queries : pc[q] # "idle" /\ pc'[q] = "idle">>_vars
        \/ <>[]~InRunQuery

=============================================================================
