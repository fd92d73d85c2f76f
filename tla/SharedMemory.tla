---------------------------- MODULE SharedMemory ----------------------------
(***************************************************************************)
(* SharedMemory and SharedMemoryFactory::Get                              *)
(* (src/DataStructures/SharedMemoryFactory.h) over System V shared        *)
(* memory, as several processes use them at once.                         *)
(*                                                                         *)
(* The kernel's segments are a function of shmids. A live segment is      *)
(* found by its key, that is, by the region id hashed with the lock file  *)
(* (ftok). IPC_RMID frees a segment at once when nothing maps it;         *)
(* otherwise the kernel marks it for destruction ("dest"): it is no       *)
(* longer found by its key but stays mapped until the last detach. A      *)
(* shmid is never handed out twice.                                        *)
(*                                                                         *)
(* Each system call that a constructor, Remove or a destructor makes is    *)
(* one step, so steps of other processes fall between them. The           *)
(* xsi_shared_memory handle that Remove opens, and the handle kept in a    *)
(* SharedMemory, attach nothing; only a mapped_region attaches. Whether    *)
(* the mapping is read-only or read-write changes no state here.           *)
(***************************************************************************)
EXTENDS Naturals, FiniteSets, Bags, BagsExt

CONSTANTS
    Procs,        \* the processes that use shared memory
    Ids,          \* region ids passed to Get and Remove
    Shmids,       \* the kernel's segment ids
    NoShmid,
    CallsOf,      \* process -> the calls it may make
    MapMayFail,   \* whether attaching may fail for lack of memory (ENOMEM)
    MaxObjects    \* bound on the SharedMemory objects a process holds at once

\* Get(id, size, read_write, remove_prev) and the static Remove(id).
GetCall(id, size, remove_prev) ==
    [op |-> "get", id |-> id, size |-> size, remove_prev |-> remove_prev]
RemoveCall(id) == [op |-> "remove", id |-> id, size |-> 0, remove_prev |-> FALSE]

\* A call as it runs: with the shmids the kernel had handed out when it began.
Started(c, inuse) ==
    [op |-> c.op, id |-> c.id, size |-> c.size, remove_prev |-> c.remove_prev,
     since |-> inuse]

ASSUME
    /\ NoShmid \notin Shmids
    /\ MapMayFail \in BOOLEAN
    /\ \A p \in Procs : \A c \in CallsOf[p] : c.id \in Ids /\ c.size \in Nat

VARIABLES
    lock_file,    \* whether <temp dir>/osrm.lock exists
    seg,          \* shmid -> [st, key, size]
    pc,           \* process -> where it is in its current call
    call,         \* process -> the current call, with the shmids in use when it began
    shm,          \* process -> the segment the constructor's handle refers to
    rm,           \* process -> the segment Remove(key) opened
    objects,      \* process -> bag of the SharedMemory objects it holds
    outcome       \* process -> how its last call ended

vars == <<lock_file, seg, pc, call, shm, rm, objects, outcome>>

SegStates == {"unused", "live", "dest", "freed"}
PCs == {"idle", "open", "remove_open", "remove_rmid", "create", "map"}
Outcomes == {"none", "ok", "OSRMException", "interprocess_exception", "true", "false"}

\* A SharedMemory: the segment it maps, the id its shm_remove will remove
\* (NoShmid if SetID was not called) and whether it was asked for a size.
Object == [shmid : Shmids, remover : Shmids \cup {NoShmid}, writeable : BOOLEAN]

TypeOK ==
    /\ lock_file \in BOOLEAN
    /\ seg \in [Shmids -> [st : SegStates, key : Ids, size : Nat]]
    /\ pc \in [Procs -> PCs]
    /\ shm \in [Procs -> Shmids \cup {NoShmid}]
    /\ rm \in [Procs -> Shmids \cup {NoShmid}]
    /\ \A p \in Procs : IsABag(objects[p]) /\ BagToSet(objects[p]) \subseteq Object
    /\ outcome \in [Procs -> Outcomes]

Init ==
    /\ lock_file \in BOOLEAN
    /\ seg = [s \in Shmids |-> [st |-> "unused", key |-> CHOOSE i \in Ids : TRUE, size |-> 0]]
    /\ pc = [p \in Procs |-> "idle"]
    /\ call = [p \in Procs |-> Started(RemoveCall(CHOOSE i \in Ids : TRUE), {})]
    /\ shm = [p \in Procs |-> NoShmid]
    /\ rm = [p \in Procs |-> NoShmid]
    /\ objects = [p \in Procs |-> EmptyBag]
    /\ outcome = [p \in Procs |-> "none"]

----------------------------------------------------------------------------
(* The kernel.                                                              *)

\* The live segment under a key (open_only finds it), at most one.
Keyed(id) == {s \in Shmids : seg[s].st = "live" /\ seg[s].key = id}

\* Some SharedMemory of some process maps s.
Mapped(s, objs) == \E p \in Procs : \E o \in DOMAIN objs[p] : o.shmid = s

\* IPC_RMID on s, given the objects that map segments afterwards.
Rmid(s, objs) == IF Mapped(s, objs) THEN "dest" ELSE "freed"

----------------------------------------------------------------------------
(* SharedMemoryFactory::Get and the SharedMemory constructor.              *)

InUse == {s \in Shmids : seg[s].st # "unused"}

\* The handle of a SharedMemory that failed to construct is dropped (its
\* shm_remove was never given an id); Get turns the interprocess_exception
\* into an OSRMException.
Throw(p) ==
    /\ pc' = [pc EXCEPT ![p] = "idle"]
    /\ shm' = [shm EXCEPT ![p] = NoShmid]
    /\ outcome' = [outcome EXCEPT ![p] = "OSRMException"]

\* No lock file and no size: "lock file does not exist, exiting".
GetNoLockFile(p) ==
    /\ pc[p] = "idle"
    /\ ~lock_file
    /\ \E c \in CallsOf[p] :
          /\ c.op = "get" /\ c.size = 0
          /\ call' = [call EXCEPT ![p] = Started(c, InUse)]
    /\ outcome' = [outcome EXCEPT ![p] = "OSRMException"]
    /\ UNCHANGED <<lock_file, seg, pc, shm, rm, objects>>

\* A variant that goes to open_or_create whatever remove_prev says.
GetStartSkipRemove(p) ==
    /\ pc[p] = "idle"
    /\ BagCardinality(objects[p]) < MaxObjects
    /\ \E c \in CallsOf[p] :
          /\ c.op = "get" /\ (lock_file \/ c.size # 0)
          /\ call' = [call EXCEPT ![p] = Started(c, InUse)]
          /\ lock_file' = TRUE
          /\ pc' = [pc EXCEPT ![p] = IF c.size = 0 THEN "open" ELSE "create"]
    /\ outcome' = [outcome EXCEPT ![p] = "none"]
    /\ UNCHANGED <<seg, shm, rm, objects>>

\* A writer creates the missing lock file; the key is computed from it and
\* the constructor reads (size 0), or removes the previous segment first,
\* or goes straight to open_or_create.
GetStart(p) ==
    /\ pc[p] = "idle"
    /\ BagCardinality(objects[p]) < MaxObjects
    /\ \E c \in CallsOf[p] :
          /\ c.op = "get" /\ (lock_file \/ c.size # 0)
          /\ call' = [call EXCEPT ![p] = Started(c, InUse)]
          /\ lock_file' = TRUE
          /\ pc' = [pc EXCEPT ![p] = CASE c.size = 0   -> "open"
                                       [] c.remove_prev -> "remove_open"
                                       [] OTHER         -> "create"]
    /\ outcome' = [outcome EXCEPT ![p] = "none"]
    /\ UNCHANGED <<seg, shm, rm, objects>>

\* The static Remove(id); without the lock file, ftok throws to the caller.
RemoveStart(p) ==
    /\ pc[p] = "idle"
    /\ \E c \in CallsOf[p] :
          /\ c.op = "remove"
          /\ call' = [call EXCEPT ![p] = Started(c, InUse)]
    /\ pc' = [pc EXCEPT ![p] = IF lock_file THEN "remove_open" ELSE "idle"]
    /\ outcome' = [outcome EXCEPT ![p] = IF lock_file THEN "none" ELSE "interprocess_exception"]
    /\ UNCHANGED <<lock_file, seg, shm, rm, objects>>

\* RegionExists: open_only on the key succeeds.
RegionExists(id) == Keyed(id) # {}

\* Read-only: open_only on the key, or throw.
OpenOnly(p) ==
    /\ pc[p] = "open"
    /\ IF RegionExists(call[p].id)
          THEN /\ shm' = [shm EXCEPT ![p] = CHOOSE s \in Keyed(call[p].id) : TRUE]
               /\ pc' = [pc EXCEPT ![p] = "map"]
               /\ UNCHANGED outcome
          ELSE Throw(p)
    /\ UNCHANGED <<lock_file, seg, call, rm, objects>>

\* Remove(key) goes on with open_or_create inside Get, and returns otherwise.
AfterRemove(p) == IF call[p].op = "get" THEN "create" ELSE "idle"

\* Remove(key), first half: open_only; not_found_error is swallowed and
\* Remove returns false.
RemoveOpen(p) ==
    /\ pc[p] = "remove_open"
    /\ IF RegionExists(call[p].id)
          THEN /\ rm' = [rm EXCEPT ![p] = CHOOSE s \in Keyed(call[p].id) : TRUE]
               /\ pc' = [pc EXCEPT ![p] = "remove_rmid"]
               /\ UNCHANGED outcome
          ELSE /\ pc' = [pc EXCEPT ![p] = AfterRemove(p)]
               /\ outcome' = [outcome EXCEPT ![p] = IF call[p].op = "get" THEN @ ELSE "false"]
               /\ UNCHANGED rm
    /\ UNCHANGED <<lock_file, seg, call, shm, objects>>

\* Remove(key), second half: xsi_shared_memory::remove(shmid), which
\* returns false when the segment is already gone.
RemoveRmid(p) ==
    /\ pc[p] = "remove_rmid"
    /\ LET s == rm[p]
           ok == seg[s].st \in {"live", "dest"}
       IN  /\ seg' = IF ok THEN [seg EXCEPT ![s].st = Rmid(s, objects)] ELSE seg
           /\ outcome' = [outcome EXCEPT ![p] =
                             IF call[p].op = "get" THEN @ ELSE IF ok THEN "true" ELSE "false"]
    /\ pc' = [pc EXCEPT ![p] = AfterRemove(p)]
    /\ rm' = [rm EXCEPT ![p] = NoShmid]
    /\ UNCHANGED <<lock_file, call, shm, objects>>

\* open_or_create(key, size): shmget with IPC_CREAT opens the live segment
\* under the key when it is at least size large ...
OpenExisting(p) ==
    /\ pc[p] = "create"
    /\ \E s \in Keyed(call[p].id) :
          IF seg[s].size >= call[p].size
             THEN /\ shm' = [shm EXCEPT ![p] = s]
                  /\ pc' = [pc EXCEPT ![p] = "map"]
                  /\ UNCHANGED outcome
             ELSE Throw(p)    \* EINVAL
    /\ UNCHANGED <<lock_file, seg, call, rm, objects>>

\* ... and otherwise creates one, zero-filled, under a new shmid; when the
\* system has no segment left, shmget fails (ENOSPC). SHM_LOCK failing is
\* only logged.
CreateSegment(p) ==
    /\ pc[p] = "create"
    /\ ~RegionExists(call[p].id)
    /\ IF \E s \in Shmids : seg[s].st = "unused"
          THEN LET s == CHOOSE x \in Shmids : seg[x].st = "unused"
               IN  /\ seg' = [seg EXCEPT ![s] = [st |-> "live", key |-> call[p].id,
                                                 size |-> call[p].size]]
                   /\ shm' = [shm EXCEPT ![p] = s]
                   /\ pc' = [pc EXCEPT ![p] = "map"]
                   /\ UNCHANGED outcome
          ELSE /\ Throw(p)
               /\ UNCHANGED seg
    /\ UNCHANGED <<lock_file, call, rm, objects>>

\* A variant that sets the remover on every path, the read-only one too.
NewObjectAlwaysRemoves(p) ==
    [shmid |-> shm[p], remover |-> shm[p], writeable |-> call[p].size # 0]

\* A variant that builds the object from the handle after it was handed
\* over (a moved-from handle has no shmid).
NewObjectMovedFrom(p) ==
    [shmid |-> shm'[p], remover |-> IF call[p].size # 0 THEN shm'[p] ELSE NoShmid,
     writeable |-> call[p].size # 0]

\* The SharedMemory the constructor completes: a writeable one gets its
\* segment's id in remover.SetID.
NewObject(p) ==
    [shmid |-> shm[p], remover |-> IF call[p].size # 0 THEN shm[p] ELSE NoShmid,
     writeable |-> call[p].size # 0]

\* mapped_region attaches (shmat also attaches a segment marked for
\* destruction), and Get returns the object.
MapRegion(p) ==
    /\ pc[p] = "map"
    /\ seg[shm[p]].st \in {"live", "dest"}
    /\ shm' = [shm EXCEPT ![p] = NoShmid]
    /\ objects' = [objects EXCEPT ![p] = BagAdd(@, NewObject(p))]
    /\ pc' = [pc EXCEPT ![p] = "idle"]
    /\ outcome' = [outcome EXCEPT ![p] = "ok"]
    /\ UNCHANGED <<lock_file, seg, call, rm>>

\* shmat fails: the segment was freed since it was opened (EINVAL), or
\* there is no memory to map it.
MapFails(p) ==
    /\ pc[p] = "map"
    /\ seg[shm[p]].st = "freed" \/ MapMayFail
    /\ Throw(p)
    /\ UNCHANGED <<lock_file, seg, call, rm, objects>>

----------------------------------------------------------------------------
(* Deleting a SharedMemory.                                                 *)

\* Members are destroyed in reverse order: shm_remove first removes the id
\* it was given (the object still maps that segment), then the region
\* detaches; the last detach frees a segment marked for destruction.
Destroy(p) ==
    \E o \in DOMAIN objects[p] :
       LET objs == [objects EXCEPT ![p] = BagRemove(@, o)]
           r == o.remover
           removed == IF r # NoShmid /\ seg[r].st \in {"live", "dest"}
                         THEN [seg EXCEPT ![r].st = Rmid(r, objects)] ELSE seg
           s == o.shmid
       IN  /\ objects' = objs
           /\ seg' = IF removed[s].st = "dest" /\ ~Mapped(s, objs)
                        THEN [removed EXCEPT ![s].st = "freed"] ELSE removed
           /\ UNCHANGED <<lock_file, pc, call, shm, rm, outcome>>

Next ==
    \E p \in Procs :
       \/ GetNoLockFile(p) \/ GetStart(p) \/ RemoveStart(p)
       \/ OpenOnly(p) \/ RemoveOpen(p) \/ RemoveRmid(p)
       \/ OpenExisting(p) \/ CreateSegment(p)
       \/ MapRegion(p) \/ MapFails(p)
       \/ Destroy(p)

Spec == Init /\ [][Next]_vars

----------------------------------------------------------------------------
(* Properties.                                                             *)

\* A segment stops being found under its key only through a Remove of that
\* key (the static one or remove_prev's) that opened this very segment, or
\* through deleting a writeable SharedMemory that maps it: deleting a
\* read-only SharedMemory, or one whose segment was since replaced under
\* the key, never takes a region away from the processes that open it.
SegmentLeavesKeyOnlyByRemoval ==
    [][\A s \in Shmids :
          seg[s].st = "live" /\ seg'[s].st # "live" =>
             \E p \in Procs :
                \/ pc[p] = "remove_rmid" /\ rm[p] = s
                \/ \E o \in DOMAIN objects[p] :
                      /\ o.writeable /\ o.shmid = s
                      /\ objects'[p] = BagRemove(objects[p], o)]_vars

\* Every live segment belongs to someone: a SharedMemory maps it, or a
\* constructor in progress holds it. A Get that throws releases what it
\* acquired, as the resource rules ask of every exit path.
SegmentsReleasedOnFailure ==
    \A s \in Shmids :
       seg[s].st = "live" => Mapped(s, objects) \/ \E p \in Procs : shm[p] = s

\* With remove_prev, a writeable Get returns a segment created by that
\* call, never one that existed when the call began and that other
\* processes may still map, although readers, removers and destructors
\* act between its steps.
WriteableGetIsFresh ==
    [][\A p \in Procs :
          /\ pc[p] = "map" /\ pc'[p] = "idle" /\ outcome'[p] = "ok"
          /\ call[p].size # 0 /\ call[p].remove_prev
          => shm[p] \notin call[p].since]_vars

============================================================================
