-------------------------- MODULE BlockCacheProofs --------------------------
(***************************************************************************)
(* Theorems about BlockCache, for any device, any number of clients and    *)
(* any cache size: one copy per block, no lost write-back, durability of   *)
(* block_cache_sync_all, when the cache runs out, and that the cache       *)
(* implements BlockStore.                                                  *)
(***************************************************************************)
EXTENDS BlockCache, SeqFacts, FiniteSetTheorems

Cached == Range(queue)

(* block_cache_sync_all has passed the entries before sync_pos: one of them *)
(* that is modified was modified since it began.                            *)
SyncedSoFar ==
    \A i \in DOMAIN queue :
        i < sync_pos /\ modified[queue[i]] => block_id[queue[i]] \in touched

(* The panic of get_block_cache found the queue full and every entry held.  *)
AllHeldWhenExhausted ==
    panicked => Len(queue) = CacheSize /\ \A o \in Cached : Held(o)

(* What the clients and the write-back rely on, per queue entry.            *)
UniqueCached == \A o, p \in Cached : block_id[o] = block_id[p] => o = p

CleanMatchesDisk == \A o \in Cached : ~modified[o] => cache[o] = disk[block_id[o]]

HeldAreCached == \A o \in Obj : Held(o) => o \in Cached

(* The inductive invariant.                                                 *)
CacheInv ==
    /\ TypeOK
    /\ IsInjective(queue)
    /\ UniqueCached
    /\ HeldAreCached
    /\ Len(queue) <= CacheSize
    /\ CleanMatchesDisk
    /\ SyncedSoFar
    /\ AllHeldWhenExhausted

-----------------------------------------------------------------------------
(* An empty cache over any device satisfies the invariant.                  *)
LEMMA InitInv == Init => CacheInv
<1> SUFFICES ASSUME Init PROVE CacheInv
  OBVIOUS
<1>1. TypeOK
  <2>1. /\ queue \in Seq(Obj) /\ sync_pos \in Nat
        /\ handles \in [Client -> SUBSET Obj]
    BY DEF Init
  <2>2. modified \in [Obj -> BOOLEAN]
    BY DEF Init
  <2>3. touched \subseteq Block /\ panicked \in BOOLEAN
    BY DEF Init
  <2>4. reply \in Accesses \cup {NoReply, Crashed}
    BY Zenon DEF Init
  <2> QED BY <2>1, <2>2, <2>3, <2>4, Zenon DEF Init, TypeOK
<1>2. DOMAIN queue = {} /\ Len(queue) = 0
  BY DEF Init
<1>3. Cached = {} /\ IsInjective(queue)
  BY <1>2, Zenon DEF Cached, Range, IsInjective
<1>4. \A o \in Obj : ~Held(o)
  BY DEF Init, Held
<1>5. ~panicked
  BY DEF Init
<1>6. UniqueCached /\ CleanMatchesDisk /\ AllHeldWhenExhausted
  BY <1>3, <1>5 DEF UniqueCached, CleanMatchesDisk, AllHeldWhenExhausted
<1>7. HeldAreCached /\ SyncedSoFar
  BY <1>2, <1>4 DEF HeldAreCached, SyncedSoFar
<1>8. Len(queue) <= CacheSize
  BY <1>2, CacheAssumption
<1> QED BY <1>1, <1>3, <1>6, <1>7, <1>8 DEF CacheInv

(* get_block_cache on a block that is not cached: BlockCache::new reads it  *)
(* into a fresh object at the end of a queue with room for it.              *)
LEMMA LoadInv ==
  ASSUME CacheInv, NEW c \in Client, NEW b \in Block, NEW o \in Obj,
         NEW q \in Seq(Obj), NEW d \in [Block -> Data],
         Load(c, b, o, q, d), disk' = d,
         ~panicked, panicked' = panicked,
         sync_pos = 0, sync_pos' = sync_pos,
         touched' = touched, reply' = NoReply,
         Unused(o), o \notin Range(q), IsInjective(q), Len(q) < CacheSize,
         Range(q) \subseteq Cached,
         \A p \in Obj : Held(p) => p \in Range(q),
         \A p \in Range(q) : block_id[p] # b,
         \A p \in Range(q) : ~modified[p] => cache[p] = d[block_id[p]]
  PROVE  CacheInv'
<1>1. /\ queue' \in Seq(Obj)
      /\ Cached' = Range(q) \cup {o}
      /\ IsInjective(queue')
  BY AppendFacts DEF Load, Cached
<1>2. Len(queue') <= CacheSize
  BY LenFacts, CacheAssumption DEF Load
<1>3. Range(q) \subseteq Obj
  BY RangeFacts
<1>4. TypeOK'
  BY <1>1 DEF CacheInv, TypeOK, Load
<1>5. /\ block_id'[o] = b /\ cache'[o] = d[b] /\ ~modified'[o]
      /\ \A p \in Range(q) : /\ block_id'[p] = block_id[p]
                             /\ cache'[p] = cache[p]
                             /\ modified'[p] = modified[p]
  BY <1>3 DEF CacheInv, TypeOK, Load
<1>6. UniqueCached'
  BY <1>1, <1>5 DEF CacheInv, UniqueCached
<1>7. CleanMatchesDisk'
  BY <1>1, <1>5 DEF CleanMatchesDisk
<1>8. HeldAreCached'
  <2> SUFFICES ASSUME NEW p \in Obj, Held(p)' PROVE p \in Cached'
    BY DEF HeldAreCached
  <2>1. Held(p) \/ p = o
    BY DEF Held, Load, CacheInv, TypeOK
  <2> QED BY <1>1, <2>1
<1>9. SyncedSoFar'
  <2>1. \A i \in DOMAIN queue' : ~(i < sync_pos')
    BY <1>1
  <2> QED BY <2>1 DEF SyncedSoFar
<1>10. AllHeldWhenExhausted'
  BY DEF AllHeldWhenExhausted
<1> QED BY <1>1, <1>2, <1>4, <1>6, <1>7, <1>8, <1>9, <1>10 DEF CacheInv

(* A modified block that is written back leaves the other blocks alone.     *)
LEMMA SyncedDiskFacts ==
  ASSUME CacheInv, NEW o \in Cached
  PROVE  /\ SyncedDisk(o) \in [Block -> Data]
         /\ SyncedDisk(o)[block_id[o]] = cache[o]
         /\ \A b \in Block \ {block_id[o]} : SyncedDisk(o)[b] = disk[b]
         /\ \A p \in Cached : ~modified[p] => cache[p] = SyncedDisk(o)[block_id[p]]
<1>1. o \in Obj /\ Cached \subseteq Obj
  BY RangeFacts DEF CacheInv, TypeOK, Cached
<1>2. /\ SyncedDisk(o) \in [Block -> Data]
      /\ \A b \in Block \ {block_id[o]} : SyncedDisk(o)[b] = disk[b]
  BY <1>1 DEF SyncedDisk, CacheInv, TypeOK
<1>3. SyncedDisk(o)[block_id[o]] = cache[o]
  BY <1>1 DEF SyncedDisk, CacheInv, TypeOK, CleanMatchesDisk
<1>4. ASSUME NEW p \in Cached, ~modified[p]
      PROVE  cache[p] = SyncedDisk(o)[block_id[p]]
  <2>1. CASE p = o
    BY <1>3, <2>1
  <2>2. CASE p # o
    <3>1. block_id[p] \in Block \ {block_id[o]}
      BY <1>1, <2>2 DEF CacheInv, TypeOK, UniqueCached
    <3> QED BY <1>2, <1>4, <3>1 DEF CacheInv, CleanMatchesDisk
  <2> QED BY <2>1, <2>2
<1> QED BY <1>2, <1>3, <1>4

-----------------------------------------------------------------------------
(* The steps that neither write the device nor change what is cached.       *)

LEMMA GetHitInv ==
  ASSUME CacheInv, NEW c \in Client, NEW b \in Block, GetHit(c, b)
  PROVE  CacheInv'
<1>1. PICK i \in DOMAIN queue :
        handles' = [handles EXCEPT ![c] = @ \cup {queue[i]}]
  BY DEF GetHit, CachedAt
<1>2. queue[i] \in Cached /\ queue[i] \in Obj
  BY RangeFacts DEF CacheInv, TypeOK, Cached
<1>3. /\ UNCHANGED <<disk, queue, block_id, cache, modified, sync_pos, touched,
                     panicked>>
      /\ reply' = NoReply /\ ~panicked
  BY DEF GetHit, MayGet, objVars
<1>4. Cached' = Cached
  BY <1>3 DEF Cached
<1>5. TypeOK'
  <2>1. handles' \in [Client -> SUBSET Obj]
    BY <1>1, <1>2 DEF CacheInv, TypeOK
  <2> QED BY <1>3, <2>1 DEF CacheInv, TypeOK
<1>6. HeldAreCached'
  <2> SUFFICES ASSUME NEW p \in Obj, Held(p)' PROVE p \in Cached
    BY <1>4 DEF HeldAreCached
  <2>1. Held(p) \/ p = queue[i]
    BY <1>1 DEF Held, CacheInv, TypeOK
  <2> QED BY <1>2, <2>1 DEF CacheInv, HeldAreCached
<1>7. UniqueCached' /\ CleanMatchesDisk' /\ SyncedSoFar'
  BY <1>3, <1>4 DEF CacheInv, UniqueCached, CleanMatchesDisk, SyncedSoFar
<1>8. AllHeldWhenExhausted'
  BY <1>3 DEF AllHeldWhenExhausted
<1> QED BY <1>3, <1>5, <1>6, <1>7, <1>8 DEF CacheInv

LEMMA GetExhaustedInv ==
  ASSUME CacheInv, NEW c \in Client, NEW b \in Block, GetExhausted(c, b)
  PROVE  CacheInv'
<1>1. /\ UNCHANGED <<disk, queue, block_id, cache, modified, handles, sync_pos,
                     touched, reply>>
      /\ panicked' = TRUE /\ Len(queue) = CacheSize /\ Evictable = {}
  BY DEF GetExhausted, objVars
<1>2. Cached' = Cached /\ \A o : Held(o)' <=> Held(o)
  BY <1>1 DEF Cached, Held
<1>3. \A o \in Cached : Held(o)
  BY <1>1, RangeFacts DEF CacheInv, TypeOK, Cached, Evictable
<1>4. AllHeldWhenExhausted'
  BY <1>1, <1>2, <1>3 DEF AllHeldWhenExhausted
<1>5. TypeOK'
  BY <1>1 DEF CacheInv, TypeOK
<1>6. UniqueCached' /\ CleanMatchesDisk' /\ SyncedSoFar' /\ HeldAreCached'
  BY <1>1, <1>2
     DEF CacheInv, UniqueCached, CleanMatchesDisk, SyncedSoFar, HeldAreCached
<1> QED BY <1>1, <1>4, <1>5, <1>6 DEF CacheInv

LEMMA ReadCachedInv ==
  ASSUME CacheInv, NEW c \in Client, NEW o \in Obj, ReadCached(c, o)
  PROVE  CacheInv'
<1>1. /\ UNCHANGED <<disk, queue, block_id, cache, modified, handles, sync_pos,
                     touched, panicked>>
      /\ reply' = <<"read", block_id[o], cache[o]>>
  BY DEF ReadCached, objVars
<1>2. Cached' = Cached /\ \A p : Held(p)' <=> Held(p)
  BY <1>1 DEF Cached, Held
<1>3. TypeOK'
  <2>1. reply' \in Accesses
    BY <1>1 DEF CacheInv, TypeOK, Accesses
  <2> QED BY <1>1, <2>1 DEF CacheInv, TypeOK
<1>4. /\ UniqueCached' /\ CleanMatchesDisk' /\ SyncedSoFar' /\ HeldAreCached'
      /\ AllHeldWhenExhausted'
  BY <1>1, <1>2 DEF CacheInv, UniqueCached, CleanMatchesDisk, SyncedSoFar,
                    HeldAreCached, AllHeldWhenExhausted
<1> QED BY <1>1, <1>3, <1>4 DEF CacheInv

(* An Arc that is dropped is never the last one: the queue has another, so  *)
(* nothing is written.                                                      *)
LEMMA ReleaseInv ==
  ASSUME CacheInv, NEW c \in Client, NEW o \in Obj, Release(c, o)
  PROVE  CacheInv' /\ disk' = disk
<1>1. o \in Cached
  BY DEF CacheInv, HeldAreCached, Held, Release
<1>2. /\ UNCHANGED <<disk, queue, block_id, cache, modified, sync_pos, touched,
                     panicked>>
      /\ handles' = [handles EXCEPT ![c] = @ \ {o}]
      /\ reply' = NoReply /\ ~panicked
  BY <1>1 DEF Release, objVars, Cached
<1>3. Cached' = Cached /\ \A p \in Obj : Held(p)' => Held(p)
  BY <1>2 DEF Cached, Held, CacheInv, TypeOK
<1>4. TypeOK'
  <2>1. handles' \in [Client -> SUBSET Obj]
    BY <1>2 DEF CacheInv, TypeOK
  <2> QED BY <1>2, <2>1 DEF CacheInv, TypeOK
<1>5. /\ UniqueCached' /\ CleanMatchesDisk' /\ SyncedSoFar' /\ HeldAreCached'
      /\ AllHeldWhenExhausted'
  BY <1>2, <1>3 DEF CacheInv, UniqueCached, CleanMatchesDisk, SyncedSoFar,
                    HeldAreCached, AllHeldWhenExhausted
<1> QED BY <1>2, <1>4, <1>5 DEF CacheInv

-----------------------------------------------------------------------------
(* The steps that fill the queue, change a block or write one back.         *)

LEMMA GetMissInv ==
  ASSUME CacheInv, NEW c \in Client, NEW b \in Block, GetMiss(c, b)
  PROVE  CacheInv'
<1>1. PICK o \in Obj : Unused(o) /\ Load(c, b, o, queue, disk)
  BY DEF GetMiss
<1>2. /\ UNCHANGED <<disk, sync_pos, touched, panicked>> /\ reply' = NoReply
      /\ ~panicked /\ sync_pos = 0
      /\ CachedAt(b) = {} /\ Len(queue) # CacheSize
  BY DEF GetMiss, MayGet
<1>3. queue \in Seq(Obj) /\ disk \in [Block -> Data] /\ IsInjective(queue)
  BY DEF CacheInv, TypeOK
<1>4. Len(queue) < CacheSize
  BY <1>1, <1>2, <1>3, LenFacts, CacheAssumption DEF CacheInv
<1>5. \A p \in Range(queue) : block_id[p] # b
  BY <1>2, <1>3, RangeFacts DEF CachedAt
<1>6. o \notin Range(queue) /\ Range(queue) \subseteq Cached
  BY <1>1 DEF Unused, Cached
<1>7. \A p \in Obj : Held(p) => p \in Range(queue)
  BY DEF CacheInv, HeldAreCached, Cached
<1>8. \A p \in Range(queue) : ~modified[p] => cache[p] = disk[block_id[p]]
  BY DEF CacheInv, CleanMatchesDisk, Cached
<1> QED BY <1>1, <1>2, <1>3, <1>4, <1>5, <1>6, <1>7, <1>8, LoadInv

(* The entry that is replaced is nobody's and reaches the device first.     *)
LEMMA GetReplacingInv ==
  ASSUME CacheInv, NEW c \in Client, NEW b \in Block, GetReplacing(c, b)
  PROVE  CacheInv'
<1>1. PICK i \in Evictable :
        /\ disk' = SyncedDisk(queue[i])
        /\ \E o \in Obj : Unused(o) /\ Load(c, b, o, RemoveAt(queue, i), disk')
  BY DEF GetReplacing
<1>2. PICK o \in Obj : Unused(o) /\ Load(c, b, o, RemoveAt(queue, i), disk')
  BY <1>1
<1>3. /\ UNCHANGED <<sync_pos, touched, panicked>> /\ reply' = NoReply
      /\ ~panicked /\ sync_pos = 0
      /\ CachedAt(b) = {} /\ Len(queue) = CacheSize
  BY DEF GetReplacing, MayGet
<1>4. queue \in Seq(Obj) /\ IsInjective(queue)
  BY DEF CacheInv, TypeOK
<1>5. i \in DOMAIN queue /\ ~Held(queue[i])
  BY DEF Evictable
<1> DEFINE q == RemoveAt(queue, i)
<1>6. /\ q \in Seq(Obj) /\ IsInjective(q)
      /\ Range(queue) = Range(q) \cup {queue[i]}
      /\ queue[i] \notin Range(q)
  BY <1>4, <1>5, RemoveAtFacts
<1>7. Len(q) < CacheSize
  BY <1>2, <1>3, <1>4, <1>5, LenFacts
<1>8. queue[i] \in Cached /\ Range(q) \subseteq Cached
  BY <1>6 DEF Cached
<1>9. /\ disk' \in [Block -> Data]
      /\ \A p \in Range(q) : ~modified[p] => cache[p] = disk'[block_id[p]]
  BY <1>1, <1>8, SyncedDiskFacts
<1>10. \A p \in Range(queue) : block_id[p] # b
  BY <1>3, <1>4, RangeFacts DEF CachedAt
<1>11. o \notin Range(q)
  BY <1>2, <1>8 DEF Unused, Cached
<1>12. \A p \in Obj : Held(p) => p \in Range(q)
  BY <1>5, <1>6 DEF CacheInv, HeldAreCached, Cached
<1>13. Load(c, b, o, q, disk') /\ Unused(o)
  BY <1>2
<1> HIDE DEF q
<1> QED BY <1>3, <1>6, <1>7, <1>8, <1>9, <1>10, <1>11, <1>12, <1>13, LoadInv

LEMMA ModifyCachedInv ==
  ASSUME CacheInv, NEW c \in Client, NEW o \in Obj, NEW d \in Data,
         ModifyCached(c, o, d)
  PROVE  CacheInv' /\ o \in Cached
<1>1. o \in Cached
  BY DEF CacheInv, HeldAreCached, Held, ModifyCached
<1>2. /\ UNCHANGED <<disk, queue, block_id, handles, sync_pos, panicked>>
      /\ cache' = [cache EXCEPT ![o] = d]
      /\ modified' = [modified EXCEPT ![o] = TRUE]
      /\ touched' = touched \cup {block_id[o]}
      /\ reply' = <<"write", block_id[o], d>>
  BY DEF ModifyCached, MarkModified
<1>3. /\ Cached' = Cached /\ Cached \subseteq Obj
      /\ \A p : Held(p)' <=> Held(p)
  BY <1>2, RangeFacts DEF Cached, Held, CacheInv, TypeOK
<1>4. TypeOK'
  <2>1. reply' \in Accesses
    BY <1>2 DEF CacheInv, TypeOK, Accesses
  <2> QED BY <1>2, <2>1 DEF CacheInv, TypeOK
<1>5. CleanMatchesDisk'
  BY <1>2, <1>3 DEF CacheInv, TypeOK, CleanMatchesDisk
<1>6. SyncedSoFar'
  BY <1>2, RangeFacts DEF CacheInv, TypeOK, SyncedSoFar
<1>7. UniqueCached' /\ HeldAreCached' /\ AllHeldWhenExhausted'
  BY <1>2, <1>3 DEF CacheInv, UniqueCached, HeldAreCached, AllHeldWhenExhausted
<1> QED BY <1>1, <1>2, <1>4, <1>5, <1>6, <1>7 DEF CacheInv

LEMMA SyncAllStepInv ==
  ASSUME CacheInv, SyncAllStep
  PROVE  CacheInv' /\ queue[sync_pos] \in Cached
<1> DEFINE o == queue[sync_pos]
<1>1. o \in Cached /\ o \in Obj /\ sync_pos \in DOMAIN queue /\ Cached \subseteq Obj
  BY RangeFacts DEF SyncAllStep, CacheInv, TypeOK, Cached
<1>2. /\ UNCHANGED <<queue, block_id, cache, handles, touched, panicked>>
      /\ disk' = SyncedDisk(o) /\ modified' = [modified EXCEPT ![o] = FALSE]
      /\ sync_pos' = sync_pos + 1 /\ reply' = NoReply
  BY DEF SyncAllStep
<1>3. Cached' = Cached /\ \A p : Held(p)' <=> Held(p)
  BY <1>2 DEF Cached, Held
<1> HIDE DEF o
<1>4. /\ disk' \in [Block -> Data]
      /\ disk'[block_id[o]] = cache[o]
      /\ \A p \in Cached : ~modified[p] => cache[p] = disk'[block_id[p]]
  BY <1>1, <1>2, SyncedDiskFacts
<1>5. TypeOK'
  <2>1. modified' \in [Obj -> BOOLEAN]
    BY <1>2 DEF CacheInv, TypeOK
  <2>2. sync_pos' \in Nat
    BY <1>2 DEF CacheInv, TypeOK
  <2> QED BY <1>2, <1>4, <2>1, <2>2 DEF CacheInv, TypeOK
<1>6. CleanMatchesDisk'
  BY <1>1, <1>2, <1>3, <1>4 DEF CacheInv, TypeOK, CleanMatchesDisk
<1>7. SyncedSoFar'
  <2> SUFFICES ASSUME NEW i \in DOMAIN queue, i < sync_pos + 1,
                      modified'[queue[i]]
               PROVE  block_id[queue[i]] \in touched
    BY <1>2 DEF SyncedSoFar
  <2>1. queue[i] # o
    BY <1>1, <1>2, RangeFacts DEF CacheInv, TypeOK
  <2>2. i # sync_pos /\ i \in Int
    BY <2>1, LenFacts DEF o, CacheInv, TypeOK
  <2>3. i < sync_pos
    BY <2>2 DEF CacheInv, TypeOK
  <2>4. modified[queue[i]]
    BY <1>1, <1>2, <2>1, RangeFacts DEF CacheInv, TypeOK
  <2> QED BY <2>3, <2>4 DEF CacheInv, SyncedSoFar
<1>8. UniqueCached' /\ HeldAreCached' /\ AllHeldWhenExhausted'
  BY <1>2, <1>3 DEF CacheInv, UniqueCached, HeldAreCached, AllHeldWhenExhausted
<1> QED BY <1>1, <1>2, <1>5, <1>6, <1>7, <1>8 DEF CacheInv, o

LEMMA SyncAllBoundsInv ==
  ASSUME CacheInv, SyncAllBegin \/ SyncAllEnd
  PROVE  CacheInv'
<1>1. /\ UNCHANGED <<disk, queue, block_id, cache, modified, handles, panicked>>
      /\ sync_pos' \in {0, 1} /\ reply' = NoReply
      /\ touched' \in {{}, touched}
  BY DEF SyncAllBegin, SyncAllEnd, objVars
<1>2. Cached' = Cached /\ \A p : Held(p)' <=> Held(p)
  BY <1>1 DEF Cached, Held
<1>3. TypeOK'
  BY <1>1 DEF CacheInv, TypeOK
<1>4. SyncedSoFar'
  <2>1. \A i \in DOMAIN queue : ~(i < sync_pos')
    BY <1>1 DEF CacheInv, TypeOK
  <2> QED BY <1>1, <2>1 DEF SyncedSoFar
<1>5. UniqueCached' /\ CleanMatchesDisk' /\ HeldAreCached' /\ AllHeldWhenExhausted'
  BY <1>1, <1>2 DEF CacheInv, UniqueCached, CleanMatchesDisk, HeldAreCached,
                    AllHeldWhenExhausted
<1> QED BY <1>1, <1>3, <1>4, <1>5 DEF CacheInv

LEMMA PowerFailureInv ==
  ASSUME CacheInv, PowerFailure
  PROVE  CacheInv' /\ Cached' = {}
<1>1. /\ UNCHANGED <<disk, block_id, cache, panicked>>
      /\ queue' = <<>> /\ handles' = [c \in Client |-> {}]
      /\ modified' = [o \in Obj |-> FALSE] /\ sync_pos' = 0 /\ touched' = {}
      /\ reply' = Crashed /\ ~panicked
  BY DEF PowerFailure
<1>2. DOMAIN queue' = {} /\ Len(queue') = 0 /\ queue' \in Seq(Obj)
  BY <1>1
<1>3. Cached' = {} /\ IsInjective(queue')
  BY <1>2, Zenon DEF Cached, Range, IsInjective
<1>4. \A o \in Obj : ~Held(o)'
  BY <1>1 DEF Held
<1>5. TypeOK'
  <2>1. modified' \in [Obj -> BOOLEAN] /\ touched' \subseteq Block
    BY <1>1
  <2>2. handles' \in [Client -> SUBSET Obj] /\ sync_pos' \in Nat
    BY <1>1
  <2>3. reply' \in Accesses \cup {NoReply, Crashed}
    BY <1>1, Zenon
  <2>4. /\ disk' \in [Block -> Data] /\ block_id' \in [Obj -> Block]
        /\ cache' \in [Obj -> Data] /\ panicked' \in BOOLEAN
    BY <1>1 DEF CacheInv, TypeOK
  <2> QED BY <1>2, <2>1, <2>2, <2>3, <2>4, Zenon DEF TypeOK
<1>6. UniqueCached' /\ CleanMatchesDisk' /\ AllHeldWhenExhausted'
  BY <1>1, <1>3 DEF UniqueCached, CleanMatchesDisk, AllHeldWhenExhausted
<1>7. HeldAreCached' /\ SyncedSoFar'
  BY <1>2, <1>4 DEF HeldAreCached, SyncedSoFar
<1>8. Len(queue') <= CacheSize
  BY <1>2, CacheAssumption
<1> QED BY <1>3, <1>5, <1>6, <1>7, <1>8 DEF CacheInv

-----------------------------------------------------------------------------
(* Every step keeps the invariant.                                          *)
LEMMA NextInv == CacheInv /\ [Next]_vars => CacheInv'
<1> SUFFICES ASSUME CacheInv, [Next]_vars PROVE CacheInv'
  OBVIOUS
<1>1. ASSUME NEW c \in Client, NEW b \in Block,
             \/ GetHit(c, b) \/ GetMiss(c, b)
             \/ GetReplacing(c, b) \/ GetExhausted(c, b)
      PROVE  CacheInv'
  BY <1>1, GetHitInv, GetMissInv, GetReplacingInv, GetExhaustedInv
<1>2. ASSUME NEW c \in Client, NEW o \in Obj,
             \/ ReadCached(c, o) \/ Release(c, o)
             \/ \E d \in Data : ModifyCached(c, o, d)
      PROVE  CacheInv'
  BY <1>2, ReadCachedInv, ReleaseInv, ModifyCachedInv
<1>3. CASE SyncAllBegin \/ SyncAllEnd
  BY <1>3, SyncAllBoundsInv
<1>4. CASE SyncAllStep
  BY <1>4, SyncAllStepInv
<1>5. CASE PowerFailure
  BY <1>5, PowerFailureInv
<1>6. CASE UNCHANGED vars
  BY <1>6 DEF vars, CacheInv, TypeOK, UniqueCached, HeldAreCached,
              CleanMatchesDisk, SyncedSoFar, AllHeldWhenExhausted, Cached, Held
<1> QED BY <1>1, <1>2, <1>3, <1>4, <1>5, <1>6 DEF Next

(* CacheInv is an invariant of the block cache.                             *)
THEOREM CacheInvariance == Spec => []CacheInv
BY InitInv, NextInv, PTL DEF Spec

(* An object is in use exactly when it is queued.                           *)
LEMMA InUseIsCached == CacheInv => InUse = Cached
<1> SUFFICES ASSUME CacheInv PROVE InUse = Cached
  OBVIOUS
<1>1. Cached \subseteq Obj
  BY RangeFacts DEF CacheInv, TypeOK, Cached
<1> QED BY <1>1 DEF CacheInv, HeldAreCached, InUse, Unused, Cached

(* In every reachable state a block has one copy at most, and a block that  *)
(* a client holds is in the queue: get_block_cache's search and the         *)
(* strong_count test of replacement, for any number of clients and sizes.   *)
THEOREM CacheConsistentCorrect == Spec => []CacheConsistent
<1>1. CacheInv => CacheConsistent
  BY InUseIsCached DEF CacheInv, CacheConsistent, OneCopyPerBlock, UniqueCached,
                       HeldBlocksStayCached, HeldAreCached, Cached
<1> QED BY CacheInvariance, <1>1, PTL

(* In every reachable state a copy that differs from the device is marked   *)
(* modified: no drop and no sync forgets a write.                           *)
THEOREM WriteBackCorrect == Spec => []UnmodifiedMatchesDisk
<1>1. CacheInv => UnmodifiedMatchesDisk
  BY InUseIsCached DEF CacheInv, UnmodifiedMatchesDisk, CleanMatchesDisk
<1> QED BY CacheInvariance, <1>1, PTL

(* The distinct entries of a queue are as many as its length.               *)
LEMMA QueueCardinality ==
  ASSUME NEW S, NEW q \in Seq(S), IsInjective(q)
  PROVE  Cardinality(Range(q)) = Len(q)
<1>1. Len(q) \in Nat /\ DOMAIN q = 1 .. Len(q)
  OBVIOUS
<1>2. q \in Bijection(1 .. Len(q), Range(q))
  <2>1. q \in [1 .. Len(q) -> Range(q)]
    <3>1. q = [i \in 1 .. Len(q) |-> q[i]]
      OBVIOUS
    <3>2. \A i \in 1 .. Len(q) : q[i] \in Range(q)
      BY <1>1, RangeFacts
    <3> QED BY <3>1, <3>2
  <2>2. \A t \in Range(q) : \E i \in 1 .. Len(q) : q[i] = t
    BY <1>1, RangeFacts
  <2>3. \A i, j \in 1 .. Len(q) : q[i] = q[j] => i = j
    BY <1>1 DEF IsInjective
  <2> QED BY <2>1, <2>2, <2>3, Zenon DEF Bijection, Injection, Surjection, IsInjective
<1>3. ExistsBijection(1 .. Len(q), Range(q))
  BY <1>2, Zenon DEF ExistsBijection
<1> QED BY <1>1, <1>3, FS_CountingElements

(* The panic of get_block_cache means that the clients together hold as     *)
(* many blocks as the cache has entries.                                    *)
THEOREM ExhaustionCorrect == Spec => []ExhaustedOnlyWhenHeld
<1>1. ASSUME CacheInv, panicked
      PROVE  Cardinality({o \in Obj : Held(o)}) >= CacheSize
  <2>1. Cached \subseteq Obj
    BY <1>1, RangeFacts DEF CacheInv, TypeOK, Cached
  <2>2. {o \in Obj : Held(o)} = Cached
    BY <1>1, <2>1 DEF CacheInv, HeldAreCached, AllHeldWhenExhausted
  <2>3. Cardinality(Cached) = Len(queue)
    BY <1>1, QueueCardinality DEF CacheInv, TypeOK, Cached
  <2>4. Len(queue) = CacheSize
    BY <1>1 DEF CacheInv, AllHeldWhenExhausted
  <2>5. Cardinality({o \in Obj : Held(o)}) = CacheSize
    BY <2>2, <2>3, <2>4, Zenon
  <2> QED BY <2>5, CacheAssumption
<1>2. CacheInv => ExhaustedOnlyWhenHeld
  BY <1>1 DEF ExhaustedOnlyWhenHeld
<1> QED BY CacheInvariance, <1>2, PTL

(* What a search in the queue finds: the one cached copy of the block, or   *)
(* else the device.                                                         *)
Lookup(q, bid, ca, d, b) ==
    IF \E i \in DOMAIN q : bid[q[i]] = b
    THEN ca[q[CHOOSE i \in DOMAIN q : bid[q[i]] = b]]
    ELSE d[b]

LEMMA LookupFacts ==
  ASSUME NEW S, NEW q \in Seq(S), NEW bid, NEW ca, NEW d,
         \A o, p \in Range(q) : bid[o] = bid[p] => o = p
  PROVE  /\ \A o \in Range(q) : Lookup(q, bid, ca, d, bid[o]) = ca[o]
         /\ \A b : (\A o \in Range(q) : bid[o] # b)
                      => Lookup(q, bid, ca, d, b) = d[b]
<1>1. ASSUME NEW o \in Range(q) PROVE Lookup(q, bid, ca, d, bid[o]) = ca[o]
  <2> DEFINE k == CHOOSE i \in DOMAIN q : bid[q[i]] = bid[o]
  <2>1. \E i \in DOMAIN q : bid[q[i]] = bid[o]
    BY RangeFacts
  <2>2. k \in DOMAIN q /\ bid[q[k]] = bid[o]
    BY <2>1, Zenon
  <2> HIDE DEF k
  <2>3. q[k] = o
    BY <2>2, RangeFacts
  <2> USE DEF k
  <2> QED BY <2>1, <2>3, Zenon DEF Lookup
<1>2. ASSUME NEW b, \A o \in Range(q) : bid[o] # b
      PROVE  Lookup(q, bid, ca, d, b) = d[b]
  <2>1. ~ \E i \in DOMAIN q : bid[q[i]] = b
    BY <1>2, RangeFacts
  <2> QED BY <2>1, Zenon DEF Lookup
<1> QED BY <1>1, <1>2, Zenon

(* What a client sees is the cached copy if there is one, else the device.  *)
LEMMA StoredFacts ==
  ASSUME CacheInv
  PROVE  /\ \A o \in Cached : StoredNow(block_id[o]) = cache[o]
         /\ \A b : (\A o \in Cached : block_id[o] # b) => StoredNow(b) = disk[b]
<1>1. \A b : StoredNow(b) = Lookup(queue, block_id, cache, disk, b)
  BY Zenon DEF StoredNow, Lookup
<1> QED BY <1>1, LookupFacts DEF CacheInv, TypeOK, UniqueCached, Cached

(* The same after a step.                                                   *)
LEMMA StoredFactsNext ==
  ASSUME CacheInv'
  PROVE  /\ \A o \in Cached' : StoredNow(block_id[o])' = cache'[o]
         /\ \A b : (\A o \in Cached' : block_id'[o] # b) => StoredNow(b)' = disk'[b]
<1>1. \A b : StoredNow(b)' = Lookup(queue', block_id', cache', disk', b)
  BY Zenon DEF StoredNow, Lookup
<1>2. \A o : StoredNow(block_id[o])' = Lookup(queue', block_id', cache', disk', block_id'[o])
  BY Zenon DEF StoredNow, Lookup
<1> QED BY <1>1, <1>2, LookupFacts DEF CacheInv, TypeOK, UniqueCached, Cached

(* When block_cache_sync_all has passed the whole queue, what it was asked  *)
(* to save is on the device, whatever other clients changed meanwhile.      *)
THEOREM SyncAllCorrect == Spec => []SyncAllIsDurable
<1>1. ASSUME CacheInv, sync_pos > Len(queue), NEW b \in Block \ touched
      PROVE  disk[b] = StoredNow(b)
  <2>1. CASE \A o \in Cached : block_id[o] # b
    BY <1>1, <2>1, StoredFacts
  <2>2. ASSUME NEW o \in Cached, block_id[o] = b PROVE disk[b] = StoredNow(b)
    <3>1. PICK i \in DOMAIN queue : queue[i] = o
      BY <1>1, RangeFacts DEF CacheInv, TypeOK, Cached
    <3>2. i < sync_pos
      BY <1>1, LenFacts DEF CacheInv, TypeOK
    <3>3. ~modified[o]
      BY <1>1, <2>2, <3>1, <3>2 DEF CacheInv, SyncedSoFar
    <3>4. cache[o] = disk[b]
      BY <1>1, <2>2, <3>3 DEF CacheInv, CleanMatchesDisk
    <3> QED BY <1>1, <2>2, <3>4, StoredFacts
  <2> QED BY <2>1, <2>2
<1>2. CacheInv => SyncAllIsDurable
  BY <1>1 DEF SyncAllIsDurable
<1> QED BY CacheInvariance, <1>2, PTL

-----------------------------------------------------------------------------
(* The cache implements BlockStore: what programs see is StoredNow, what    *)
(* survives a crash is the device.                                          *)

Stored == [b \in Block |-> StoredNow(b)]

LEMMA InitStored == Init => Store!StoreInit
<1> SUFFICES ASSUME Init PROVE Store!StoreInit
  OBVIOUS
<1>1. DOMAIN queue = {}
  BY DEF Init
<1>2. \A b \in Block : StoredNow(b) = disk[b]
  BY <1>1, Zenon DEF StoredNow
<1>3. disk \in [Block -> Data] /\ reply = NoReply
  BY DEF Init
<1>4. disk = Stored
  BY <1>2, <1>3 DEF Stored
<1> QED BY <1>3, <1>4, Zenon DEF Store!StoreInit, Stored

(* A step that changes neither the queue, the objects nor the device is     *)
(* invisible to programs.                                                   *)
LEMMA QuietStored ==
  ASSUME UNCHANGED <<disk, queue, block_id, cache>>
  PROVE  Stored' = Stored
BY DEF Stored, StoredNow

(* Loading a block shows what was stored in it before, provided the device  *)
(* it is read from holds what programs see in every uncached block.         *)
LEMMA LoadStored ==
  ASSUME CacheInv, CacheInv', NEW c \in Client, NEW b \in Block, NEW o \in Obj,
         NEW q \in Seq(Obj), o \notin Range(q), Range(q) \subseteq Cached,
         Load(c, b, o, q, disk'),
         \A x \in Block : (\A p \in Range(q) : block_id[p] # x)
                             => disk'[x] = StoredNow(x),
         \A p \in Range(q) : block_id[p] # b
  PROVE  Stored' = Stored
<1>1. Cached' = Range(q) \cup {o}
  BY AppendFacts DEF Load, Cached
<1>2. Range(q) \subseteq Obj
  BY RangeFacts
<1>3. /\ block_id'[o] = b /\ cache'[o] = disk'[b]
      /\ \A p \in Range(q) : block_id'[p] = block_id[p] /\ cache'[p] = cache[p]
  BY <1>2 DEF CacheInv, TypeOK, Load
<1>4. ASSUME NEW x \in Block PROVE StoredNow(x)' = StoredNow(x)
  <2>1. CASE x = b
    <3>1. StoredNow(b)' = disk'[b]
      BY <1>1, <1>3, StoredFactsNext
    <3> QED BY <2>1, <3>1
  <2>2. ASSUME NEW p \in Range(q), block_id[p] = x
        PROVE  StoredNow(x)' = StoredNow(x)
    <3>1. StoredNow(x) = cache[p]
      BY <2>2, StoredFacts
    <3>2. StoredNow(x)' = cache'[p]
      BY <1>1, <1>3, <2>2, StoredFactsNext
    <3> QED BY <1>3, <3>1, <3>2
  <2>3. CASE x # b /\ \A p \in Range(q) : block_id[p] # x
    <3>1. \A p \in Cached' : block_id'[p] # x
      BY <1>1, <1>3, <2>3
    <3>2. StoredNow(x)' = disk'[x]
      BY <3>1, StoredFactsNext
    <3> QED BY <2>3, <3>2
  <2> QED BY <2>1, <2>2, <2>3
<1> QED BY <1>4, Zenon DEF Stored

(* A write-back puts the block on the device as programs see it.            *)
LEMMA SyncedStored ==
  ASSUME CacheInv, NEW o \in Cached, disk' = SyncedDisk(o)
  PROVE  \/ UNCHANGED disk
         \/ \E b \in Block : disk' = [disk EXCEPT ![b] = Stored[b]]
<1>1. o \in Obj /\ block_id[o] \in Block
  BY RangeFacts DEF CacheInv, TypeOK, Cached
<1>2. Stored[block_id[o]] = cache[o]
  BY <1>1, StoredFacts DEF Stored
<1> QED BY <1>1, <1>2 DEF SyncedDisk

LEMMA GetMissStored ==
  ASSUME CacheInv, CacheInv', NEW c \in Client, NEW b \in Block, GetMiss(c, b)
  PROVE  Store!WriteBack
<1>1. PICK o \in Obj : Unused(o) /\ Load(c, b, o, queue, disk)
  BY DEF GetMiss
<1>2. disk' = disk /\ reply' = NoReply /\ CachedAt(b) = {}
  BY DEF GetMiss
<1>3. queue \in Seq(Obj) /\ o \notin Range(queue) /\ Range(queue) \subseteq Cached
  BY <1>1 DEF CacheInv, TypeOK, Unused, Cached
<1>4. \A p \in Range(queue) : block_id[p] # b
  BY <1>2, <1>3, RangeFacts DEF CachedAt
<1>5. \A x \in Block : (\A p \in Range(queue) : block_id[p] # x)
                          => disk'[x] = StoredNow(x)
  BY <1>2, StoredFacts DEF Cached
<1>6. Load(c, b, o, queue, disk')
  BY <1>1, <1>2
<1>7. Stored' = Stored
  BY <1>3, <1>4, <1>5, <1>6, LoadStored
<1> QED BY <1>2, <1>7, Zenon DEF Store!WriteBack, Stored

LEMMA GetReplacingStored ==
  ASSUME CacheInv, CacheInv', NEW c \in Client, NEW b \in Block,
         GetReplacing(c, b)
  PROVE  Store!WriteBack
<1>1. PICK i \in Evictable :
        /\ disk' = SyncedDisk(queue[i])
        /\ \E o \in Obj : Unused(o) /\ Load(c, b, o, RemoveAt(queue, i), disk')
  BY DEF GetReplacing
<1>2. PICK o \in Obj : Unused(o) /\ Load(c, b, o, RemoveAt(queue, i), disk')
  BY <1>1
<1> DEFINE q == RemoveAt(queue, i)
           e == queue[i]
<1>3. /\ q \in Seq(Obj) /\ Range(q) \subseteq Cached /\ e \in Cached
      /\ e \notin Range(q)
      /\ Cached = Range(q) \cup {e}
  BY RemoveAtFacts DEF CacheInv, TypeOK, Evictable, Cached
<1>4. o \notin Range(q) /\ Load(c, b, o, q, disk')
  BY <1>2, <1>3 DEF Unused, Cached
<1>5. reply' = NoReply /\ CachedAt(b) = {}
  BY DEF GetReplacing
<1>6. \A p \in Cached : block_id[p] # b
  BY <1>5, RangeFacts DEF CachedAt, CacheInv, TypeOK, Cached
<1>7. disk' = SyncedDisk(e)
  BY <1>1
<1> HIDE DEF q, e
<1>8. ASSUME NEW x \in Block, \A p \in Range(q) : block_id[p] # x
      PROVE  disk'[x] = StoredNow(x)
  <2>1. CASE x = block_id[e]
    BY <1>3, <1>7, <2>1, SyncedDiskFacts, StoredFacts
  <2>2. CASE x # block_id[e]
    <3>1. StoredNow(x) = disk[x]
      BY <1>3, <1>8, <2>2, StoredFacts
    <3>2. disk'[x] = disk[x]
      BY <1>3, <1>7, <2>2, SyncedDiskFacts
    <3> QED BY <3>1, <3>2
  <2> QED BY <2>1, <2>2
<1>9. Stored' = Stored
  BY <1>3, <1>4, <1>6, <1>8, LoadStored
<1>10. \/ UNCHANGED disk
       \/ \E x \in Block : disk' = [disk EXCEPT ![x] = Stored[x]]
  BY <1>3, <1>7, SyncedStored
<1> QED BY <1>5, <1>9, <1>10, Zenon DEF Store!WriteBack, Stored

LEMMA ReadCachedStored ==
  ASSUME CacheInv, NEW c \in Client, NEW o \in Obj, ReadCached(c, o)
  PROVE  \E b \in Block : Store!Read(b)
<1>1. o \in Cached /\ block_id[o] \in Block
  BY DEF CacheInv, TypeOK, HeldAreCached, Held, ReadCached
<1>2. Stored[block_id[o]] = cache[o]
  BY <1>1, StoredFacts DEF Stored
<1>3. UNCHANGED <<disk, queue, block_id, cache>>
  BY DEF ReadCached, objVars
<1>4. Stored' = Stored /\ disk' = disk
  BY <1>3, QuietStored
<1>5. reply' = <<"read", block_id[o], Stored[block_id[o]]>>
  BY <1>2 DEF ReadCached
<1>6. Store!Read(block_id[o])
  BY <1>4, <1>5, Zenon DEF Store!Read, Stored
<1> QED BY <1>1, <1>6

LEMMA ModifyCachedStored ==
  ASSUME CacheInv, CacheInv', NEW c \in Client, NEW o \in Obj, NEW d \in Data,
         ModifyCached(c, o, d)
  PROVE  \E b \in Block, e \in Data : Store!Write(b, e)
<1>1. o \in Cached
  BY ModifyCachedInv
<1>2. /\ UNCHANGED <<disk, queue, block_id>>
      /\ cache' = [cache EXCEPT ![o] = d]
      /\ reply' = <<"write", block_id[o], d>>
  BY DEF ModifyCached
<1>3. Cached' = Cached /\ Cached \subseteq Obj /\ block_id[o] \in Block
  BY <1>2, RangeFacts DEF Cached, CacheInv, TypeOK
<1>4. ASSUME NEW x \in Block
      PROVE  StoredNow(x)' = IF x = block_id[o] THEN d ELSE StoredNow(x)
  <2>1. CASE x = block_id[o]
    <3>1. StoredNow(x)' = cache'[o]
      BY <1>1, <1>2, <1>3, <2>1, StoredFactsNext
    <3> QED BY <1>2, <2>1, <3>1 DEF CacheInv, TypeOK
  <2>2. ASSUME NEW p \in Cached, x = block_id[p], x # block_id[o]
        PROVE  StoredNow(x)' = StoredNow(x)
    <3>1. StoredNow(x)' = cache'[p]
      BY <1>2, <1>3, <2>2, StoredFactsNext
    <3>2. cache'[p] = cache[p]
      BY <1>2, <1>3, <2>2 DEF CacheInv, TypeOK
    <3> QED BY <2>2, <3>1, <3>2, StoredFacts
  <2>3. CASE \A p \in Cached : block_id[p] # x
    <3>1. StoredNow(x)' = disk'[x] /\ StoredNow(x) = disk[x]
      BY <1>2, <1>3, <2>3, StoredFacts, StoredFactsNext
    <3> QED BY <1>1, <1>2, <2>3, <3>1
  <2> QED BY <2>1, <2>2, <2>3
<1>5. Stored' = [Stored EXCEPT ![block_id[o]] = d]
  BY <1>3, <1>4 DEF Stored
<1>6. Store!Write(block_id[o], d)
  BY <1>2, <1>5, Zenon DEF Store!Write, Stored
<1> QED BY <1>3, <1>6

(* block_cache_sync_all writes one block as programs see it.                *)
LEMMA SyncAllStepStored ==
  ASSUME CacheInv, CacheInv', SyncAllStep
  PROVE  Store!WriteBack
<1> DEFINE o == queue[sync_pos]
<1>1. o \in Cached /\ disk' = SyncedDisk(o) /\ reply' = NoReply
  BY SyncAllStepInv DEF SyncAllStep
<1>2. Cached' = Cached /\ UNCHANGED <<block_id, cache>>
  BY DEF SyncAllStep, Cached
<1> HIDE DEF o
<1>3. ASSUME NEW x \in Block PROVE StoredNow(x)' = StoredNow(x)
  <2>1. ASSUME NEW p \in Cached, x = block_id[p]
        PROVE  StoredNow(x)' = StoredNow(x)
    BY <1>2, <2>1, StoredFacts, StoredFactsNext
  <2>2. CASE \A p \in Cached : block_id[p] # x
    <3>1. StoredNow(x)' = disk'[x] /\ StoredNow(x) = disk[x]
      BY <1>2, <2>2, StoredFacts, StoredFactsNext
    <3>2. disk'[x] = disk[x]
      BY <1>1, <2>2, SyncedDiskFacts
    <3> QED BY <3>1, <3>2
  <2> QED BY <2>1, <2>2
<1>4. Stored' = Stored
  BY <1>3, Zenon DEF Stored
<1>5. \/ UNCHANGED disk
      \/ \E x \in Block : disk' = [disk EXCEPT ![x] = Stored[x]]
  BY <1>1, SyncedStored
<1> QED BY <1>1, <1>4, <1>5, Zenon DEF Store!WriteBack, Stored

LEMMA PowerFailureStored ==
  ASSUME CacheInv, CacheInv', PowerFailure
  PROVE  Store!Crash
<1>1. Cached' = {} /\ disk' = disk /\ reply' = Crashed
  BY PowerFailureInv DEF PowerFailure
<1>2. \A x \in Block : StoredNow(x)' = disk[x]
  BY <1>1, StoredFactsNext
<1>3. disk = Stored'
  BY <1>2 DEF Stored, CacheInv, TypeOK
<1> QED BY <1>1, <1>3, Zenon DEF Store!Crash, Stored

(* The steps programs do not see.                                           *)
LEMMA QuietSteps ==
  ASSUME CacheInv,
         \/ \E c \in Client, b \in Block : GetHit(c, b)
         \/ \E c \in Client, o \in Obj : Release(c, o)
         \/ SyncAllBegin
         \/ SyncAllEnd
  PROVE  Store!WriteBack
<1>1. UNCHANGED <<disk, queue, block_id, cache>> /\ reply' = NoReply
  BY ReleaseInv DEF GetHit, Release, SyncAllBegin, SyncAllEnd, objVars
<1>2. Stored' = Stored
  BY <1>1, QuietStored
<1> QED BY <1>1, <1>2, Zenon DEF Store!WriteBack, Stored

(* Every step of the cache is a step of the store or leaves it alone.       *)
LEMMA NextStored ==
  CacheInv /\ CacheInv' /\ [Next]_vars => [Store!StoreNext]_(Store!storeVars)
<1> SUFFICES ASSUME CacheInv, CacheInv', [Next]_vars
             PROVE  Store!StoreNext \/ UNCHANGED Store!storeVars
  OBVIOUS
<1>1. ASSUME NEW c \in Client, NEW b \in Block,
             GetMiss(c, b) \/ GetReplacing(c, b)
      PROVE  Store!StoreNext
  BY <1>1, GetMissStored, GetReplacingStored DEF Store!StoreNext
<1>2. ASSUME NEW c \in Client, NEW o \in Obj, ReadCached(c, o)
      PROVE  Store!StoreNext
  BY <1>2, ReadCachedStored, Zenon DEF Store!StoreNext
<1>3. ASSUME NEW c \in Client, NEW o \in Obj, NEW d \in Data,
             ModifyCached(c, o, d)
      PROVE  Store!StoreNext
  BY <1>3, ModifyCachedStored, Zenon DEF Store!StoreNext
<1>4. CASE \/ \E c \in Client, b \in Block : GetHit(c, b)
           \/ \E c \in Client, o \in Obj : Release(c, o)
           \/ SyncAllBegin
           \/ SyncAllEnd
  BY <1>4, QuietSteps DEF Store!StoreNext
<1>5. CASE SyncAllStep
  BY <1>5, SyncAllStepStored DEF Store!StoreNext
<1>6. CASE PowerFailure
  BY <1>6, PowerFailureStored DEF Store!StoreNext
<1>7. ASSUME NEW c \in Client, NEW b \in Block, GetExhausted(c, b)
      PROVE  UNCHANGED Store!storeVars
  <2>1. UNCHANGED <<disk, queue, block_id, cache, reply>>
    BY <1>7 DEF GetExhausted, objVars
  <2>2. Stored' = Stored
    BY <2>1, QuietStored
  <2> QED BY <2>1, <2>2, Zenon DEF Store!storeVars, Stored
<1>8. CASE UNCHANGED vars
  <2>1. UNCHANGED <<disk, queue, block_id, cache, reply>>
    BY <1>8 DEF vars
  <2>2. Stored' = Stored
    BY <2>1, QuietStored
  <2> QED BY <2>1, <2>2, Zenon DEF Store!storeVars, Stored
<1> QED BY <1>1, <1>2, <1>3, <1>4, <1>5, <1>6, <1>7, <1>8 DEF Next

(* The block cache implements a store in which a read sees the last write,  *)
(* across replacement, write-back and reload, and a crash falls back to     *)
(* what had reached the device.                                             *)
THEOREM StoreRefinement == Spec => ImplementsStore
BY InitStored, NextStored, CacheInvariance, PTL
   DEF Spec, ImplementsStore, Store!StoreSpec

=============================================================================
