----------------------------- MODULE EfsCrash -----------------------------
(***************************************************************************)
(* The machine stops inside an operation of easy-fs.  Blocks reach the     *)
(* disk one by one, when the cache replaces them or at the sync that ends  *)
(* the operation, and nothing orders them: on the disk every block the     *)
(* operation changes is as before or as after it, or somewhere between if  *)
(* the operation locks it more than once: a bitmap block, bit by bit, and  *)
(* a second-level index block, entry by entry.  The next boot reads what   *)
(* is there; there is no repair.                                           *)
(***************************************************************************)
EXTENDS EasyFs

VARIABLES old,     \* the disk before the last operation
          crashed

crashVars == <<vars, old, crashed>>

Disk == [inode_bitmap |-> inode_bitmap, data_bitmap |-> data_bitmap,
         inode_area |-> inode_area, block |-> block]

CrashInit == Init /\ old = Disk /\ crashed = FALSE

(* An operation that changes the disk, from its first block to its sync.    *)
Operation ==
    /\ ~crashed
    /\ \/ \E name \in Names : Create(name)
       \/ \E i \in 0 .. InodeNum - 1 :
             \/ Clear(i)
             \/ \E w \in Writes : WriteAt(i, w)
    /\ panic' = "none"
    /\ old' = Disk
    /\ UNCHANGED crashed

OldInode(i) == old.inode_area[InodePos(i)]

(* The inode the operation worked on.                                       *)
Target == IF reply.op = "create" THEN 0 ELSE reply.on

(* The bits the operation set, from the lowest on (alloc), or cleared, in   *)
(* the order of clear_size (dealloc).                                       *)
ChangedBits(from, to, bits) ==
    IF from \subseteq to THEN AllocBits(from, bits, Cardinality(to \ from))
    ELSE LET ids == ClearedIds(OldInode(Target), old.block)
         IN  [k \in DOMAIN ids |-> ids[k] - efs.data_area_start_block]

(* A bitmap on the disk: of each of its blocks, the changes up to some time.*)
BitmapWritten(from, to, bits) ==
    LET order   == ChangedBits(from, to, bits)
        of(b)   == b \div BLOCK_BITS
        upTo(t) == {order[j] : j \in {k \in DOMAIN order : k <= t[of(order[k])]}}
    IN  {(from \ upTo(t)) \cup (to \cap upTo(t)) :
           t \in [{of(b) : b \in Range(order)} -> 0 .. Len(order)]}

(* f with some of its changes.                                              *)
PartlyWritten(from, to) ==
    {[x \in DOMAIN to |-> IF x \in done THEN to[x] ELSE from[x]] :
        done \in SUBSET {x \in DOMAIN to : to[x] # from[x]}}

(* The second-level index blocks of inode n.                                *)
SecondLevel(n) ==
    IF DataBlocks(n.size) <= INDIRECT1_BOUND THEN {}
    ELSE {block[n.indirect2][a] :
            a \in 0 .. (DataBlocks(n.size) - 1 - INDIRECT1_BOUND) \div K}

(* The blocks with fewer of the new entries in the second level.            *)
Filling(from, to) ==
    {[x \in DOMAIN to |->
        IF x \in DOMAIN t
        THEN [w \in 0 .. K - 1 |-> IF w < t[x] THEN to[x][w] ELSE from[x][w]]
        ELSE to[x]] :
       t \in [SecondLevel(DiskInode(Target)) -> 1 .. K]}

Crash ==
    /\ ~crashed
    /\ reply.op \in {"create", "write", "clear"}
    /\ inode_bitmap' \in BitmapWritten(old.inode_bitmap, inode_bitmap, efs.inode_bits)
    /\ data_bitmap' \in BitmapWritten(old.data_bitmap, data_bitmap, efs.data_bits)
    /\ inode_area' \in PartlyWritten(old.inode_area, inode_area)
    /\ \E to \in Filling(old.block, block) : block' \in PartlyWritten(old.block, to)
    /\ crashed' = TRUE
    /\ efs' = OpenedEfs(super_block)
    /\ UNCHANGED <<super_block, reply, panic, old>>

CrashNext == Operation \/ Crash

CrashSpec == CrashInit /\ [][CrashNext]_crashVars

-----------------------------------------------------------------------------
OldWords(i) == ReadWords(OldInode(i), old.block, 0, OldInode(i).size)

(* The files before the operation.                                          *)
OldFiles == old.inode_bitmap \ {0}

OldBlocks(i) == Range(ClearedIds(OldInode(i), old.block))

(* After a crash every directory entry that existed is as it was, so find   *)
(* gets to it before any new one; all files but the one that was being      *)
(* changed have the content they had; and their inodes and blocks are still *)
(* in use in the bitmaps, so no later operation gives them to another file. *)
OthersSurviveCrash ==
    crashed =>
        /\ FileCount >= Len(OldWords(0)) \div DIRENT_SZ
        /\ ReadWords(DiskInode(0), block, 0, OldInode(0).size) = OldWords(0)
        /\ \A i \in OldFiles \ {Target} :
              /\ ReadWords(DiskInode(i), block, 0, DiskInode(i).size) = OldWords(i)
              /\ i \in inode_bitmap
              /\ OldBlocks(i) \subseteq {DataStart + b : b \in data_bitmap}

(* The blocks that inode n and its index blocks on the disk name, as far as *)
(* they do: an entry that did not reach the disk names none.                *)
NamedBlocks(n) ==
    LET d == DataBlocks(n.size)
        entries(b, c) ==
            IF b = 0 THEN {} ELSE {block[b][w] : w \in 0 .. Min({c, K}) - 1}
        second == entries(n.indirect2, (d - INDIRECT1_BOUND + K - 1) \div K)
        direct == {n.direct[i] : i \in 0 .. Min({d, D}) - 1}
    IN  (direct \cup (IF d > D THEN {n.indirect1} ELSE {})
                \cup entries(n.indirect1, d - D)
                \cup (IF d > INDIRECT1_BOUND THEN {n.indirect2} ELSE {})
                \cup second \cup UNION {entries(b, K) : b \in second}) \ {0}

(* After a crash no index names a block of another file: where an index     *)
(* block did not reach the disk, it holds zeros and not the entries or the  *)
(* data of an earlier file (dealloc_data zeroes what it frees).  This is    *)
(* all there is: get_block_id takes a zero entry for block 0, so that       *)
(* reading the file that was being written may lead to the super block, and *)
(* from there, its words taken for block ids, anywhere.                     *)
IndexNamesOwnBlocks ==
    crashed => \A i, j \in {0} \cup OldFiles :
        i # j => NamedBlocks(DiskInode(i)) \cap NamedBlocks(DiskInode(j)) = {}

=============================================================================
