------------------------------- MODULE EasyFs -------------------------------
(***************************************************************************)
(* The file system easy-fs: the disk layout (easy-fs/src/efs.rs), the      *)
(* bitmaps (bitmap.rs), inodes with direct, indirect and doubly indirect   *)
(* blocks (layout.rs), the one directory and the operations of Inode       *)
(* (vfs.rs).  Every operation holds the file-system mutex and ends with a  *)
(* sync, so it is one step here; blocks are read and written through the   *)
(* block cache, which is a plain store of blocks (see BlockCache).         *)
(*                                                                         *)
(* The unit of data is the 32-bit word: a block has BLOCK_WORDS of them,   *)
(* which is also how many entries an index block has.  A directory entry   *)
(* is two words, a name and an inode number.                               *)
(***************************************************************************)
EXTENDS Integers, Sequences, FiniteSets, Functions, FiniteSetsExt, SequencesExt

CONSTANTS
    BLOCK_WORDS,        \* BLOCK_SZ / 4, and INODE_INDIRECT1_COUNT
    BLOCK_BITS,         \* bits of a bitmap block
    INODES_PER_BLOCK,   \* BLOCK_SZ / size_of::<DiskInode>()
    INODE_DIRECT_COUNT,
    TotalBlocks,        \* arguments of EasyFileSystem::create
    InodeBitmapBlocks,
    Names,              \* names of files, positive numbers
    Writes,             \* [off, data]: what write_at is called with
    Reads               \* [off, len]: what read_at is called with

ASSUME EasyFsAssumption ==
    /\ {BLOCK_WORDS, BLOCK_BITS, INODES_PER_BLOCK, INODE_DIRECT_COUNT,
        TotalBlocks, InodeBitmapBlocks} \subseteq Nat \ {0}
    /\ Names \subseteq Nat \ {0}
    /\ Writes \subseteq [off : Nat, data : Seq(Nat) \ {<<>>}]
    /\ Reads \subseteq [off : Nat, len : Nat \ {0}]

VARIABLES
    super_block,  \* block 0
    efs,          \* the EasyFileSystem in memory: where the areas start
    inode_bitmap, \* the bits that are set
    data_bitmap,
    inode_area,   \* the DiskInode at <<block, slot>>
    block,        \* content of block 0 and of the data area, by block id
    reply,        \* the operation just made and its answer
    panic         \* "none", "space" (no space left) or "assert"

vars == <<super_block, efs, inode_bitmap, data_bitmap, inode_area, block,
          reply, panic>>

K == BLOCK_WORDS
D == INODE_DIRECT_COUNT
DIRENT_SZ == 2

INDIRECT1_BOUND == D + K
INDIRECT2_BOUND == INDIRECT1_BOUND + K * K

-----------------------------------------------------------------------------
(* The layout EasyFileSystem::create chooses.                               *)
InodeNum == InodeBitmapBlocks * BLOCK_BITS

InodeAreaBlocks == (InodeNum + INODES_PER_BLOCK - 1) \div INODES_PER_BLOCK

InodeTotalBlocks == InodeBitmapBlocks + InodeAreaBlocks

DataTotalBlocks == TotalBlocks - 1 - InodeTotalBlocks

DataBitmapBlocks == (DataTotalBlocks + BLOCK_BITS) \div (BLOCK_BITS + 1)

EFS_MAGIC == 998244353 \* 0x3b800001

SuperBlock ==
    [total_blocks        |-> TotalBlocks,
     inode_bitmap_blocks |-> InodeBitmapBlocks,
     inode_area_blocks   |-> InodeAreaBlocks,
     data_bitmap_blocks  |-> DataBitmapBlocks,
     data_area_blocks    |-> DataTotalBlocks - DataBitmapBlocks]

CreatedEfs ==
    [inode_bits             |-> InodeNum,
     data_bits              |-> DataBitmapBlocks * BLOCK_BITS,
     inode_area_start_block |-> 1 + InodeBitmapBlocks,
     data_area_start_block  |-> 1 + InodeTotalBlocks + DataBitmapBlocks]

(* What EasyFileSystem::open computes from the super block.                 *)
OpenedEfs(sb) ==
    [inode_bits             |-> sb.inode_bitmap_blocks * BLOCK_BITS,
     data_bits              |-> sb.data_bitmap_blocks * BLOCK_BITS,
     inode_area_start_block |-> 1 + sb.inode_bitmap_blocks,
     data_area_start_block  |-> 1 + sb.inode_bitmap_blocks
                                  + sb.inode_area_blocks + sb.data_bitmap_blocks]

DataStart == CreatedEfs.data_area_start_block

(* Blocks seen as words: those a bit of the data bitmap leads to (the ones  *)
(* from TotalBlocks on are not on the device), and the super block, where   *)
(* an index entry of zero leads to.                                         *)
BlockIds == {0} \cup DataStart .. DataStart + CreatedEfs.data_bits - 1

(* The first words of the super block.                                      *)
SuperWords ==
    LET words == <<EFS_MAGIC, SuperBlock.total_blocks, SuperBlock.inode_bitmap_blocks,
                   SuperBlock.inode_area_blocks, SuperBlock.data_bitmap_blocks,
                   SuperBlock.data_area_blocks>>
    IN  [w \in 0 .. K - 1 |-> IF w < Len(words) THEN words[w + 1] ELSE 0]

Zero == [w \in 0 .. K - 1 |-> 0]

NewInode(type) ==
    [size |-> 0, direct |-> [i \in 0 .. D - 1 |-> 0],
     indirect1 |-> 0, indirect2 |-> 0, type |-> type]

InodePlaces ==
    (1 + InodeBitmapBlocks .. InodeTotalBlocks) \X (0 .. INODES_PER_BLOCK - 1)

(* get_disk_inode_pos: the block and the slot of inode i.                   *)
InodePos(i) == <<efs.inode_area_start_block + i \div INODES_PER_BLOCK,
                 i % INODES_PER_BLOCK>>

DiskInode(i) == inode_area[InodePos(i)]

(* The operation, the name or inode it was called on, and its answer.       *)
Answer(op, on, off, data, res) ==
    [op |-> op, on |-> on, off |-> off, data |-> data, res |-> res]

Init ==
    /\ super_block = SuperBlock
    /\ efs = CreatedEfs
    /\ inode_bitmap = {0}
    /\ data_bitmap = {}
    /\ inode_area = [p \in InodePlaces |->
          NewInode(IF p = <<1 + InodeBitmapBlocks, 0>> THEN "Directory" ELSE "File")]
    /\ block = [b \in BlockIds |-> IF b = 0 THEN SuperWords ELSE Zero]
    /\ reply = Answer("none", 0, 0, <<>>, 0)
    /\ panic = "none"

-----------------------------------------------------------------------------
(* Mutant: the bits that are set are not left out.                          *)
AllBits(bitmap, bits) == 0 .. bits - 1

(* Bitmap::alloc called n times: the n lowest bits that are clear.          *)
FreeBits(bitmap, bits) == 0 .. bits - 1 \ bitmap

AllocBits(bitmap, bits, n) ==
    FoldLeft(LAMBDA got, k : Append(got, Min(FreeBits(bitmap, bits) \ Range(got))),
             <<>>, [k \in 1 .. n |-> k])

DataBlocks(size) == (size + K - 1) \div K

(* Mutant: the doubly indirect block is not counted.                        *)
TotalWithoutIndirect2(size) ==
    LET d == DataBlocks(size)
    IN  d + (IF d > D THEN 1 ELSE 0)
          + (IF d > INDIRECT1_BOUND
             THEN (d - INDIRECT1_BOUND + K - 1) \div K ELSE 0)

(* DiskInode::total_blocks: the blocks of a file, index blocks included.    *)
TotalBlocksOf(size) ==
    LET d == DataBlocks(size)
    IN  d + (IF d > D THEN 1 ELSE 0)
          + (IF d > INDIRECT1_BOUND
             THEN 1 + (d - INDIRECT1_BOUND + K - 1) \div K ELSE 0)

(* DiskInode::get_block_id: the i-th data block of inode n.                 *)
GetBlockId(n, blk, i) ==
    LET last == i - INDIRECT1_BOUND
    IN  IF i < D THEN n.direct[i]
        ELSE IF i < INDIRECT1_BOUND THEN blk[n.indirect1][i - D]
        ELSE blk[blk[n.indirect2][last \div K]][last % K]

(* The index blocks increase_size takes while data blocks lo .. hi are      *)
(* filled: indirect1 right before data block D, indirect2 before data block *)
(* INDIRECT1_BOUND, and a second-level block before every K-th from there.  *)
IndexTaken(lo, hi) ==
    ({1} \X ({D} \cap lo .. hi))
        \cup ({2} \X ({INDIRECT1_BOUND} \cap lo .. hi))
        \cup ({3} \X {m \in lo .. hi : /\ m >= INDIRECT1_BOUND
                                       /\ (m - INDIRECT1_BOUND) % K = 0})

(* How many of the new blocks are used up once data block i is filled.      *)
Used(lo, i) == (i - lo + 1) + Cardinality(IndexTaken(lo, i))

(* Mutant: the entry at the boundary goes to the next slot.                 *)
IndirectShifted(new, lo, hi, old, base) ==
    [w \in 0 .. K - 1 |-> IF w > 0 /\ base + w - 1 \in lo .. hi
                          THEN new[Used(lo, base + w - 1)] ELSE old[w]]

(* The index block whose entries are the data blocks from base on, after    *)
(* data blocks lo .. hi got their new blocks.                               *)
IndirectFilled(new, lo, hi, old, base) ==
    [w \in 0 .. K - 1 |-> IF base + w \in lo .. hi
                          THEN new[Used(lo, base + w)] ELSE old[w]]

(* DiskInode::increase_size with the blocks new: the inode ...              *)
IncreasedInode(n, size, new) ==
    LET lo == DataBlocks(n.size)
        hi == DataBlocks(size) - 1
    IN  [n EXCEPT
           !.size = size,
           !.direct = [i \in 0 .. D - 1 |->
                         IF i \in lo .. hi THEN new[Used(lo, i)] ELSE @[i]],
           !.indirect1 = IF D \in lo .. hi THEN new[Used(lo, D) - 1] ELSE @,
           !.indirect2 = IF INDIRECT1_BOUND \in lo .. hi
                         THEN new[Used(lo, INDIRECT1_BOUND) - 2] ELSE @]

(* ... and its index blocks.                                                *)
IncreasedBlocks(n, size, new) ==
    LET lo == DataBlocks(n.size)
        hi == DataBlocks(size) - 1
        m  == IncreasedInode(n, size, new)
        base(a) == INDIRECT1_BOUND + a * K
        second  == [a \in 0 .. K - 1 |->
                      IF base(a) \in lo .. hi THEN new[Used(lo, base(a)) - 1]
                      ELSE block[m.indirect2][a]]
        first   == IF hi < D THEN block
                   ELSE [block EXCEPT ![m.indirect1] =
                           IndirectFilled(new, lo, hi, @, D)]
    IN  IF hi < INDIRECT1_BOUND THEN first
        ELSE FoldSet(LAMBDA a, blk :
                       [blk EXCEPT ![second[a]] =
                          IndirectFilled(new, lo, hi, @, base(a))],
                     [first EXCEPT ![m.indirect2] = second],
                     0 .. (hi - INDIRECT1_BOUND) \div K)

(* The index blocks of inode n that an access up to data block hi reads.    *)
IndexBlocks(n, blk, hi) ==
    (IF hi >= D THEN {n.indirect1} ELSE {})
        \cup (IF hi >= INDIRECT1_BOUND
              THEN {n.indirect2} \cup {blk[n.indirect2][a] :
                     a \in 0 .. (hi - INDIRECT1_BOUND) \div K}
              ELSE {})

(* Mutant: the place in the first block is forgotten.                       *)
FirstBlockFromStart(n, blk, off, len) ==
    LET at(p)   == IF p \div K = off \div K THEN p - off ELSE p % K
        word(p) == blk[GetBlockId(n, blk, p \div K)][at(p)]
    IN  [i \in 1 .. Min({off + len, n.size}) - off |-> word(off + i - 1)]

(* DiskInode::read_at: the words from off on, as far as the file goes.      *)
ReadWords(n, blk, off, len) ==
    LET word(p) == blk[GetBlockId(n, blk, p \div K)][p % K]
    IN  [i \in 1 .. Min({off + len, n.size}) - off |-> word(off + i - 1)]

(* DiskInode::write_at: the blocks after data is written at off.            *)
WrittenBlocks(n, blk, off, data) ==
    FoldLeft(LAMBDA f, i :
               [f EXCEPT ![GetBlockId(n, blk, (off + i - 1) \div K)]
                          [(off + i - 1) % K] = data[i]],
             blk, [i \in DOMAIN data |-> i])

Outcome(cause, n, blk, bitmap) ==
    [cause |-> cause, inode |-> n, block |-> blk, bitmap |-> bitmap]

(* Inode::write_at on inode n: it grows if it must (Inode::increase_size    *)
(* allocates the blocks first), then the words are written.  It fails when  *)
(* the bitmap or the index of the file is full, when increase_size runs out *)
(* of the blocks it was given, and when a block is not on the device.       *)
Stored(n, off, data) ==
    LET size   == off + Len(data)
        grows  == size >= n.size
        lo     == DataBlocks(n.size)
        hi     == DataBlocks(size) - 1
        needed == IF grows THEN TotalBlocksOf(size) - TotalBlocksOf(n.size) ELSE 0
        bits   == AllocBits(data_bitmap, efs.data_bits, needed)
        new    == [k \in 1 .. needed |-> efs.data_area_start_block + bits[k]]
        m      == IF grows THEN IncreasedInode(n, size, new) ELSE n
        filled == IF grows THEN IncreasedBlocks(n, size, new) ELSE block
        reached == IndexBlocks(m, filled, DataBlocks(m.size) - 1)
                     \cup {GetBlockId(m, filled, i) : i \in off \div K .. hi}
    IN  IF \/ hi >= INDIRECT2_BOUND
           \/ needed > Cardinality(FreeBits(data_bitmap, efs.data_bits))
        THEN Outcome("space", n, block, data_bitmap)
        ELSE IF hi >= lo /\ Used(lo, hi) > needed
        THEN Outcome("assert", n, block, data_bitmap)
        ELSE IF \E b \in reached : b >= TotalBlocks
        THEN Outcome("space", n, block, data_bitmap)
        ELSE Outcome("none", m, WrittenBlocks(m, filled, off, data),
                     data_bitmap \cup Range(bits))

(* DiskInode::clear_size: the blocks of inode n, in the order they are      *)
(* collected.                                                               *)
ClearedIds(n, blk) ==
    LET d    == DataBlocks(n.size)
        rest == d - INDIRECT1_BOUND
        direct   == [i \in 1 .. Min({d, D}) |-> n.direct[i - 1]]
        entries(b, c) == <<b>> \o [i \in 1 .. c |-> blk[b][i - 1]]
        second(a, c)  == entries(blk[n.indirect2][a], c)
    IN  direct
          \o (IF d > D THEN entries(n.indirect1, Min({d - D, K})) ELSE <<>>)
          \o (IF rest > 0
              THEN <<n.indirect2>>
                     \o FlattenSeq([a \in 1 .. rest \div K |-> second(a - 1, K)])
                     \o (IF rest % K > 0 THEN second(rest \div K, rest % K) ELSE <<>>)
              ELSE <<>>)

ClearedInode(n) ==
    LET d == DataBlocks(n.size)
    IN  [n EXCEPT !.size = 0,
                  !.direct = [i \in 0 .. D - 1 |-> IF i < d THEN 0 ELSE @[i]],
                  !.indirect1 = IF d > D THEN 0 ELSE @,
                  !.indirect2 = IF d > INDIRECT1_BOUND THEN 0 ELSE @]

(* Mutant: a block goes back to the bitmap as it is.                        *)
NotZeroed(ids) == block

(* dealloc_data zeroes every block it gives back.                           *)
Zeroed(ids) == [b \in BlockIds |-> IF b \in ids THEN Zero ELSE block[b]]

(* Bitmap::dealloc of each of the bits.                                     *)
DeallocBits(bitmap, bits) == bitmap \ bits

(* Inode::clear on inode n: every bit must have been set (Bitmap::dealloc)  *)
(* and as many blocks must come back as total_blocks counts.                *)
Cleared(n) ==
    LET ids  == ClearedIds(n, block)
        bits == {b - efs.data_area_start_block : b \in Range(ids)}
    IN  IF \/ Len(ids) # TotalBlocksOf(n.size)
           \/ ~IsInjective(ids)
           \/ ~(bits \subseteq data_bitmap)
        THEN Outcome("assert", n, block, data_bitmap)
        ELSE Outcome("none", ClearedInode(n), Zeroed(Range(ids)),
                     DeallocBits(data_bitmap, bits))

-----------------------------------------------------------------------------
FileCount == DiskInode(0).size \div DIRENT_SZ

(* The i-th directory entry: a name and an inode number.                    *)
Dirent(i) == ReadWords(DiskInode(0), block, i * DIRENT_SZ, DIRENT_SZ)

(* The entries find_inode_id stops at, the first one counts.                *)
Entries(name) == {i \in 0 .. FileCount - 1 : Dirent(i)[1] = name}

FindInode(name) == Dirent(Min(Entries(name)))[2]

Panic(cause) ==
    /\ panic' = cause
    /\ reply' = Answer("panic", 0, 0, <<>>, 0)
    /\ UNCHANGED <<super_block, efs, inode_bitmap, data_bitmap, inode_area, block>>

(* The outcome of an operation on inode i, which also set the inodes of     *)
(* area and the bits of imap.                                               *)
Commit(i, out, area, imap, answer) ==
    \/ out.cause # "none" /\ Panic(out.cause)
    \/ /\ out.cause = "none"
       /\ inode_area' = [area EXCEPT ![InodePos(i)] = out.inode]
       /\ inode_bitmap' = imap
       /\ block' = out.block
       /\ data_bitmap' = out.bitmap
       /\ reply' = answer
       /\ UNCHANGED <<super_block, efs, panic>>

InodeMarked(i) == inode_bitmap \cup {i}

(* Inode::create on the root: nothing if the name exists; otherwise a new   *)
(* inode, initialised, and an entry appended to the directory.              *)
Create(name) ==
    /\ panic = "none"
    /\ \/ /\ Entries(name) # {}
          /\ reply' = Answer("create", name, 0, <<>>, -1)
          /\ UNCHANGED <<super_block, efs, inode_bitmap, data_bitmap, inode_area,
                         block, panic>>
       \/ /\ Entries(name) = {}
          /\ FreeBits(inode_bitmap, efs.inode_bits) # {}
          /\ LET i == AllocBits(inode_bitmap, efs.inode_bits, 1)[1]
             IN  Commit(0, Stored(DiskInode(0), FileCount * DIRENT_SZ, <<name, i>>),
                        [inode_area EXCEPT ![InodePos(i)] = NewInode("File")],
                        InodeMarked(i), Answer("create", name, 0, <<>>, i))
       \/ /\ Entries(name) = {}
          /\ FreeBits(inode_bitmap, efs.inode_bits) = {}
          /\ Panic("space")

(* Inode::find on the root.                                                 *)
Find(name) ==
    /\ panic = "none"
    /\ reply' = Answer("find", name, 0, <<>>,
                       IF Entries(name) = {} THEN -1 ELSE FindInode(name))
    /\ UNCHANGED <<super_block, efs, inode_bitmap, data_bitmap, inode_area, block,
                   panic>>

(* The inodes of which find or create has returned a handle.                *)
Files == inode_bitmap \ {0}

WriteAt(i, w) ==
    /\ panic = "none"
    /\ i \in Files
    /\ Commit(i, Stored(DiskInode(i), w.off, w.data), inode_area, inode_bitmap,
              Answer("write", i, w.off, w.data, Len(w.data)))

Clear(i) ==
    /\ panic = "none"
    /\ i \in Files
    /\ Commit(i, Cleared(DiskInode(i)), inode_area, inode_bitmap,
              Answer("clear", i, 0, <<>>, 0))

(* The last block of a file, which is the last one it was given, was        *)
(* written, so every block of a file is on the device.                      *)
ReadAt(i, r) ==
    /\ panic = "none"
    /\ i \in Files
    /\ LET data == ReadWords(DiskInode(i), block, r.off, r.len)
       IN  reply' = Answer("read", i, r.off, data, Len(data))
    /\ UNCHANGED <<super_block, efs, inode_bitmap, data_bitmap, inode_area, block,
                   panic>>

Ls ==
    /\ panic = "none"
    /\ reply' = Answer("ls", 0, 0,
                       [i \in 1 .. FileCount |-> Dirent(i - 1)[1]], 0)
    /\ UNCHANGED <<super_block, efs, inode_bitmap, data_bitmap, inode_area, block,
                   panic>>

(* The machine is restarted between two operations; everything is synced.   *)
Open ==
    /\ panic = "none"
    /\ efs' = OpenedEfs(super_block)
    /\ reply' = Answer("open", 0, 0, <<>>, 0)
    /\ UNCHANGED <<super_block, inode_bitmap, data_bitmap, inode_area, block, panic>>

Next ==
    \/ \E name \in Names : Create(name) \/ Find(name)
    \/ \E i \in 0 .. InodeNum - 1 :
          \/ Clear(i)
          \/ \E w \in Writes : WriteAt(i, w)
          \/ \E r \in Reads : ReadAt(i, r)
    \/ Ls
    \/ Open

Spec == Init /\ [][Next]_vars

-----------------------------------------------------------------------------
TypeOK ==
    /\ super_block = SuperBlock
    /\ efs \in [inode_bits : Nat, data_bits : Nat,
                inode_area_start_block : Nat, data_area_start_block : Nat]
    /\ inode_bitmap \subseteq 0 .. efs.inode_bits - 1
    /\ data_bitmap \subseteq 0 .. efs.data_bits - 1
    /\ inode_area \in [InodePlaces ->
          [size : Nat, direct : [0 .. D - 1 -> BlockIds], indirect1 : BlockIds,
           indirect2 : BlockIds, type : {"File", "Directory"}]]
    /\ block \in [BlockIds -> [0 .. K - 1 -> Nat]]
    /\ panic \in {"none", "space", "assert"}

(* The data and index blocks of inode n.                                    *)
FileBlocks(n) ==
    {GetBlockId(n, block, i) : i \in 0 .. DataBlocks(n.size) - 1}
        \cup IndexBlocks(n, block, DataBlocks(n.size) - 1)

(* Every allocated block belongs to exactly one place of exactly one file,  *)
(* and every block of a file is allocated: nothing is shared between files  *)
(* or between the levels of an index, nothing is lost (increase_size,       *)
(* clear_size and the bitmap at every boundary of the index).               *)
BlocksOwnedOnce ==
    /\ \A i \in inode_bitmap :
         Cardinality(FileBlocks(DiskInode(i))) = TotalBlocksOf(DiskInode(i).size)
    /\ \A i, j \in inode_bitmap :
         i # j => FileBlocks(DiskInode(i)) \cap FileBlocks(DiskInode(j)) = {}
    /\ UNION {FileBlocks(DiskInode(i)) : i \in inode_bitmap}
         = {DataStart + b : b \in data_bitmap}

(* A free block holds zeros, and so does the part of a file's last block    *)
(* behind its end: growing a file never shows what an earlier one left      *)
(* (dealloc_data).                                                          *)
UnusedIsZero ==
    /\ \A b \in BlockIds \ {0} : b - DataStart \notin data_bitmap => block[b] = Zero
    /\ \A i \in inode_bitmap :
         LET n == DiskInode(i)
         IN  \A p \in n.size .. DataBlocks(n.size) * K - 1 :
               block[GetBlockId(n, block, p \div K)][p % K] = 0

(* The used inodes are the root and the ones the directory names, once      *)
(* each; no name appears twice.                                             *)
InodesMatchDirectory ==
    LET numbers == [i \in 1 .. FileCount |-> Dirent(i - 1)[2]]
        names   == [i \in 1 .. FileCount |-> Dirent(i - 1)[1]]
    IN  /\ IsInjective(numbers) /\ IsInjective(names)
        /\ inode_bitmap = {0} \cup Range(numbers) /\ 0 \notin Range(numbers)

(* The disk is consistent: bitmaps, inodes, index blocks and directory      *)
(* agree after every sequence of create, write_at, clear and open.          *)
DiskConsistent == TypeOK /\ BlocksOwnedOnce /\ InodesMatchDirectory

(* No assert and no unwrap of easy-fs fails while there is space: the       *)
(* blocks allocated for a file suffice, and clear returns as many as were   *)
(* allocated, each of them allocated.                                       *)
NoAssertFails == panic # "assert"

Existing == {name \in Names : Entries(name) # {}}

Store == INSTANCE FileStore WITH
    dir     <- [name \in Existing |-> FindInode(name)],
    content <- [i \in Files |-> ReadWords(DiskInode(i), block, 0, DiskInode(i).size)]

(* easy-fs implements named files: a read returns what the last writes left *)
(* there, through every level of the index, across growth, truncation,      *)
(* reuse of blocks and a remount.                                           *)
ImplementsFileStore == Store!StoreSpec

=============================================================================
