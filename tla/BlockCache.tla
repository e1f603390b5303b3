----------------------------- MODULE BlockCache -----------------------------
(***************************************************************************)
(* The block cache of easy-fs (easy-fs/src/block_cache.rs): a manager with *)
(* a queue of at most CacheSize cached blocks, handles (Arcs) to them that *)
(* the file system keeps while it works on a block, replacement of the     *)
(* first block nobody holds, write-back on drop, and block_cache_sync_all. *)
(*                                                                         *)
(* get_block_cache and every closure run under a mutex and are one step.   *)
(* block_cache_sync_all keeps the manager locked but writes one block at a *)
(* time: clients that already hold a handle go on meanwhile, and the power *)
(* may fail between two writes.                                            *)
(***************************************************************************)
EXTENDS Integers, Sequences, FiniteSets, Functions, SequencesExt

CONSTANTS
    Block,     \* block ids of the device
    Data,      \* what a block can contain
    Client,    \* callers: file-system operations in progress
    Obj,       \* heap slots for BlockCache objects
    CacheSize, \* BLOCK_CACHE_SIZE
    MaxPins,   \* handles a file-system operation keeps at once
    NoReply,   \* reply after a step that reads and writes nothing
    Crashed    \* reply after a power failure

Accesses == {"read", "write"} \X Block \X Data

ASSUME CacheAssumption ==
    /\ CacheSize \in Nat \ {0}
    /\ MaxPins \in Nat
    /\ {NoReply, Crashed} \cap Accesses = {}

VARIABLES
    disk,      \* the block device
    queue,     \* BlockCacheManager.queue
    block_id,  \* per object
    cache,     \* per object: the content of the buffer
    modified,  \* per object
    handles,   \* per client: the objects it holds an Arc to
    sync_pos,  \* 0, or the queue position sync_all writes next
    touched,   \* blocks modified since the last sync_all began
    reply,     \* what the closure just run saw or wrote
    panicked   \* "Run out of BlockCache!"

vars == <<disk, queue, block_id, cache, modified, handles, sync_pos, touched,
          reply, panicked>>

objVars == <<block_id, cache, modified>>

TypeOK ==
    /\ disk \in [Block -> Data]
    /\ queue \in Seq(Obj)
    /\ block_id \in [Obj -> Block]
    /\ cache \in [Obj -> Data]
    /\ modified \in [Obj -> BOOLEAN]
    /\ handles \in [Client -> SUBSET Obj]
    /\ sync_pos \in Nat
    /\ touched \subseteq Block
    /\ reply \in Accesses \cup {NoReply, Crashed}
    /\ panicked \in BOOLEAN

Init ==
    /\ disk \in [Block -> Data]
    /\ queue = <<>>
    /\ block_id \in [Obj -> Block] /\ cache \in [Obj -> Data]
    /\ modified = [o \in Obj |-> FALSE]
    /\ handles = [c \in Client |-> {}]
    /\ sync_pos = 0
    /\ touched = {}
    /\ reply = NoReply
    /\ panicked = FALSE

-----------------------------------------------------------------------------
(* Somebody besides the manager holds o: Arc::strong_count is not 1.        *)
Held(o) == \E c \in Client : o \in handles[c]

Unused(o) == o \notin Range(queue) /\ ~Held(o)

(* The queue positions where b is found.                                    *)
CachedAt(b) == {i \in DOMAIN queue : block_id[queue[i]] = b}

(* Mutant: replacement does not look at the reference count.                *)
EvictableAny == DOMAIN queue

(* Mutant: only the head of the queue is considered, a strict FIFO.         *)
EvictableHead == {i \in DOMAIN queue : i = 1 /\ ~Held(queue[i])}

(* The queue positions replacement may choose from.                         *)
Evictable == {i \in DOMAIN queue : ~Held(queue[i])}

(* Mutant: a dropped block is not written back.                             *)
NotWrittenBack(o) == disk

(* BlockCache::sync, which Drop calls too: a modified block is written.     *)
SyncedDisk(o) ==
    IF modified[o] THEN [disk EXCEPT ![block_id[o]] = cache[o]] ELSE disk

(* get_block_cache is entered: the manager is not locked by sync_all.       *)
MayGet(c) == ~panicked /\ sync_pos = 0 /\ Cardinality(handles[c]) < MaxPins

GetHit(c, b) ==
    /\ MayGet(c)
    /\ \E i \in CachedAt(b) :
        /\ \A j \in CachedAt(b) : i <= j
        /\ handles' = [handles EXCEPT ![c] = @ \cup {queue[i]}]
    /\ reply' = NoReply
    /\ UNCHANGED <<disk, queue, objVars, sync_pos, touched, panicked>>

(* BlockCache::new reads b from device d into the new object o, which goes  *)
(* to the end of queue q.                                                   *)
Load(c, b, o, q, d) ==
    /\ block_id' = [block_id EXCEPT ![o] = b]
    /\ cache' = [cache EXCEPT ![o] = d[b]]
    /\ modified' = [modified EXCEPT ![o] = FALSE]
    /\ queue' = Append(q, o)
    /\ handles' = [handles EXCEPT ![c] = @ \cup {o}]

GetMiss(c, b) ==
    /\ MayGet(c)
    /\ CachedAt(b) = {}
    /\ Len(queue) # CacheSize
    /\ \E o \in Obj : Unused(o) /\ Load(c, b, o, queue, disk)
    /\ reply' = NoReply
    /\ UNCHANGED <<disk, sync_pos, touched, panicked>>

(* The queue is full: the first entry nobody holds is drained, and its drop *)
(* writes it back before the new block is read.                             *)
GetReplacing(c, b) ==
    /\ MayGet(c)
    /\ CachedAt(b) = {}
    /\ Len(queue) = CacheSize
    /\ \E i \in Evictable :
        /\ \A j \in Evictable : i <= j
        /\ disk' = SyncedDisk(queue[i])
        /\ \E o \in Obj : Unused(o) /\ Load(c, b, o, RemoveAt(queue, i), disk')
    /\ reply' = NoReply
    /\ UNCHANGED <<sync_pos, touched, panicked>>

(* Every entry is held: "Run out of BlockCache!".                           *)
GetExhausted(c, b) ==
    /\ MayGet(c)
    /\ CachedAt(b) = {}
    /\ Len(queue) = CacheSize
    /\ Evictable = {}
    /\ panicked' = TRUE
    /\ UNCHANGED <<disk, queue, objVars, handles, sync_pos, touched, reply>>

(* get_block_cache(b).lock().read(..) through a handle.                     *)
ReadCached(c, o) ==
    /\ ~panicked
    /\ o \in handles[c]
    /\ reply' = <<"read", block_id[o], cache[o]>>
    /\ UNCHANGED <<disk, queue, objVars, handles, sync_pos, touched, panicked>>

(* Mutant: get_mut does not mark the block.                                 *)
NotMarked(o) == modified

(* get_mut marks the block modified, whatever the closure then does to it.  *)
MarkModified(o) == [modified EXCEPT ![o] = TRUE]

ModifyCached(c, o, d) ==
    /\ ~panicked
    /\ o \in handles[c]
    /\ cache' = [cache EXCEPT ![o] = d]
    /\ modified' = MarkModified(o)
    /\ touched' = touched \cup {block_id[o]}
    /\ reply' = <<"write", block_id[o], d>>
    /\ UNCHANGED <<disk, queue, block_id, handles, sync_pos, panicked>>

(* The Arc is dropped at the end of the statement that used it; were it the *)
(* last one, the BlockCache would be dropped and written back.              *)
Release(c, o) ==
    /\ ~panicked
    /\ o \in handles[c]
    /\ handles' = [handles EXCEPT ![c] = @ \ {o}]
    /\ disk' = IF o \in Range(queue) \/ \E e \in Client \ {c} : o \in handles[e]
               THEN disk ELSE SyncedDisk(o)
    /\ reply' = NoReply
    /\ UNCHANGED <<queue, objVars, sync_pos, touched, panicked>>

SyncAllBegin ==
    /\ ~panicked
    /\ sync_pos = 0
    /\ sync_pos' = 1
    /\ touched' = {}
    /\ reply' = NoReply
    /\ UNCHANGED <<disk, queue, objVars, handles, panicked>>

SyncAllStep ==
    /\ ~panicked
    /\ sync_pos \in DOMAIN queue
    /\ disk' = SyncedDisk(queue[sync_pos])
    /\ modified' = [modified EXCEPT ![queue[sync_pos]] = FALSE]
    /\ sync_pos' = sync_pos + 1
    /\ reply' = NoReply
    /\ UNCHANGED <<queue, block_id, cache, handles, touched, panicked>>

SyncAllEnd ==
    /\ ~panicked
    /\ sync_pos > Len(queue)
    /\ sync_pos' = 0
    /\ reply' = NoReply
    /\ UNCHANGED <<disk, queue, objVars, handles, touched, panicked>>

(* The machine stops; what is on the device stays.                          *)
PowerFailure ==
    /\ ~panicked
    /\ queue' = <<>>
    /\ handles' = [c \in Client |-> {}]
    /\ modified' = [o \in Obj |-> FALSE]
    /\ sync_pos' = 0
    /\ touched' = {}
    /\ reply' = Crashed
    /\ UNCHANGED <<disk, block_id, cache, panicked>>

Next ==
    \/ \E c \in Client, b \in Block :
          \/ GetHit(c, b)
          \/ GetMiss(c, b)
          \/ GetReplacing(c, b)
          \/ GetExhausted(c, b)
    \/ \E c \in Client, o \in Obj :
          \/ ReadCached(c, o)
          \/ Release(c, o)
          \/ \E d \in Data : ModifyCached(c, o, d)
    \/ SyncAllBegin
    \/ SyncAllStep
    \/ SyncAllEnd
    \/ PowerFailure

Spec == Init /\ [][Next]_vars

-----------------------------------------------------------------------------
InUse == {o \in Obj : ~Unused(o)}

(* A block never has two cached copies, held or queued: two copies would    *)
(* let one write-back undo the other (the search in get_block_cache and the *)
(* strong_count test of replacement).                                       *)
OneCopyPerBlock ==
    /\ IsInjective(queue)
    /\ \A o, p \in InUse : block_id[o] = block_id[p] => o = p

(* Replacement never takes a block away from a client that holds it, and    *)
(* the queue never outgrows its limit.                                      *)
HeldBlocksStayCached ==
    /\ \A o \in Obj : Held(o) => o \in Range(queue)
    /\ Len(queue) <= CacheSize

(* The queue is consistent: replacement (get_block_cache) never makes a     *)
(* second copy of a block, nor drops one that somebody holds.               *)
CacheConsistent == TypeOK /\ OneCopyPerBlock /\ HeldBlocksStayCached

(* A cached block that differs from the device is marked modified, so that  *)
(* a drop or a sync writes it.                                              *)
UnmodifiedMatchesDisk ==
    \A o \in InUse : ~modified[o] => cache[o] = disk[block_id[o]]

(* The cache runs out only when the clients together hold as many blocks as *)
(* it has: the nested closures of one operation, which hold three at most,  *)
(* always get a block.                                                      *)
ExhaustedOnlyWhenHeld ==
    panicked => Cardinality({o \in Obj : Held(o)}) >= CacheSize

(* What a client sees in b: the cached copy if there is one.                *)
StoredNow(b) ==
    IF \E i \in DOMAIN queue : block_id[queue[i]] = b
    THEN cache[queue[CHOOSE i \in DOMAIN queue : block_id[queue[i]] = b]]
    ELSE disk[b]

(* When block_cache_sync_all returns, every block that nobody modified      *)
(* since it began is on the device as the file system last wrote it.        *)
SyncAllIsDurable ==
    sync_pos > Len(queue) => \A b \in Block \ touched : disk[b] = StoredNow(b)

(* The cache implements a store of blocks: a read sees the last write,      *)
(* across replacement, sync and reload, and only a crash falls back to the  *)
(* device.                                                                  *)
Store == INSTANCE BlockStore WITH
    store   <- [b \in Block |-> StoredNow(b)],
    durable <- disk

ImplementsStore == Store!StoreSpec

=============================================================================
