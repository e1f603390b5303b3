# A verification of ch_os

ch_os is a teaching kernel for RISC-V (QEMU and K210): one hart, processes with
their own address spaces, a round-robin scheduler, and the file system easy-fs
on a block device. This directory holds TLA+ models of its parts, the TLC runs
that check them on small instances, and TLAPS proofs of the main results for
every instance.

## 1. Inventory

| Component | Source (under `src/`) | State it keeps | Operations |
|---|---|---|---|
| Task control blocks | `os/src/task/task.rs`, `task/mod.rs` | status, pid, parent (weak), children (strong), exit code, kernel stack, address space, fd table | new, fork, exec, suspend, exit |
| Pid allocator, kernel stacks | `os/src/task/pid.rs` | next pid, stack of recycled pids; a mapped area per pid in the kernel space | alloc, dealloc (by drop), map, unmap (by drop) |
| Scheduler | `os/src/task/manager.rs`, `task/processor.rs` | FIFO ready queue, current task, idle context | add, fetch, take, run_tasks, schedule |
| System calls | `os/src/syscall/*.rs` | none of their own | yield, exit, fork, exec, waitpid, read, write, open, close, get_time, getpid |
| Traps | `os/src/trap/*` | trap context per task | system call, fault, timer, return |
| Memory | `os/src/memory/*` | frame allocator, page tables, areas of each address space | alloc and free of frames, map, unmap, from_elf, copy, recycle, translate |
| Block cache | `easy-fs/src/block_cache.rs` | queue of at most 16 cached blocks with a modified flag | get, read, modify, drop, sync_all |
| File system | `easy-fs/src/{bitmap,layout,efs,vfs}.rs` | on disk: super block, two bitmaps, inodes, index and data blocks, one directory | create, open, find, read_at, write_at, clear |
| Kernel files | `os/src/fs/*`, `syscall/fs.rs` | per open file: offset, inode; per process: fd table | open_file, read, write, close |
| Switch and trampoline | `os/src/trap/trap.S`, `task/switch.S`, `task/context.rs` | task context per task; satp, sscratch, stvec, TLB | `__alltraps`, `__restore`, `__switch` |
| Timer | `os/src/timer.rs` | the next trigger, in the firmware | set_next_trigger, get_time |
| virtio driver | `os/src/drivers/block/virtio_blk.rs`, `dependency/virtio-drivers/src/{queue,blk}.rs` | descriptors, available and used ring, free list | add, pop_used, read_block, write_block and their non-blocking forms |
| SD card driver | `os/src/drivers/block/sdcard.rs` | none; the state is in the card | init, read_sector, write_sector |
| User side | `user/src/*` | none shared | library calls, initproc, shell, tests |

How they interact. A trap enters `trap_handler`, which calls a system call
handler or `suspend`/`exit`. Handlers work on the current task, the ready queue
and, through `exit` and `waitpid`, on the task control blocks of parents and
children. A context switch happens only inside `schedule` and `run_tasks`.
Resources are released by drops: the last reference to a task control block
recycles the pid, unmaps the kernel stack and frees the page tables. The file
system calls the block cache with closures that run while a block is locked, and
ends each change with `block_cache_sync_all`; the cache calls the block driver.

What is hard here. The kernel runs with interrupts disabled on one hart, so a
handler is atomic up to its `__switch`; but tasks interleave freely at switches
and in user mode, families exit in any order, and correctness rests on reference
counts (`assert_eq!(Arc::strong_count(&child), 1)`) and on drop order, which no
test observes. The cache must not replace a block somebody holds, must write
back before it reloads, and the power may fail between two write-backs. The
index arithmetic of inodes has exact boundaries. `hazards` in `PROJECT.json`
lists these at their lines, with the properties that watch them. At the edges of
the kernel two machines run beside it: the virtio disk completes requests in its
own order and writes memory meanwhile, the SD card answers late, refuses or stays
busy. Under it the hart caches translations, which the assembly must flush at the
right places.

What makes each part correct:

* processes: vectors of children and parent references agree; every task leads
  to initproc; a zombie is collected exactly once, by its parent;
* pids and stacks: a pid is held or recycled, once; its kernel stack is mapped
  exactly as long as the task exists;
* scheduler: a runnable task is in one place; a ready task eventually runs;
* block cache: one copy per block, a held block stays, a read sees the last
  write, what was synced survives;
* memory: a frame has one owner, a task's pages are its own, nothing leaks;
* file system: a block belongs to one file or is free, free blocks are zero, a
  read returns what was written; a crash leaves the other files as they were;
* open files: an offset is shared by exactly the descriptors that fork copied,
  and a buffer cut into pages is read and written as if it were whole;
* traps and switches: a program finds its registers, but for tp, as it left them,
  the kernel runs on the stack of the process it serves, no stale translation is
  used;
* drivers: a call that reports success did what it was asked to; every call
  returns.

## 2. Modules

| Module | What it is |
|---|---|
| `Process` | tasks, pids, kernel stacks, scheduler, process system calls, stdin |
| `ProcTree` | abstract specification: what the process calls promise, on pids only |
| `MCProcess` | instances of `Process` for TLC |
| `SeqFacts`, `ProcessProofs` | lemmas on sequences; the theorems about `Process`, with its refinement |
| `BlockCache` | the block cache, its clients, sync and power failure |
| `BlockStore` | abstract specification: a store of blocks with a durable copy |
| `MCBlockCache` | instances of `BlockCache` for TLC |
| `BlockCacheProofs` | the theorems about `BlockCache`, with its refinement |
| `EasyFs` | disk layout, bitmaps, inodes with three index levels, directory, files |
| `FileStore` | abstract specification: a directory of sequences |
| `MCEasyFs` | an instance of `EasyFs` for TLC |
| `Memory` | frame allocator, page tables in memory, address spaces, kernel stacks |
| `PrivateMemory` | abstract specification: a memory image per task |
| `MCMemory` | an instance of `Memory` for TLC |
| `MemoryProofs` | the theorems about `Memory`, with its refinement |
| `EfsCrash`, `MCEfsCrash` | extends `EasyFs`: a crash inside an operation |
| `FileTable`, `FileTableProofs`, `MCFileTable` | descriptors, open files, stdin and stdout, over `FileStore`; the theorems about them |
| `OpenFiles` | abstract specification: a table of open files with shared offsets |
| `TrapSwitch`, `MCTrapSwitch` | trampoline, trap handler, context switch, TLB |
| `UserMachines` | abstract specification: a machine per process |
| `TrapSwitchProofs` | the theorems about `TrapSwitch`, with its refinement |
| `VirtQueue`, `VirtQueueProofs`, `MCVirtQueue` | the virtio queue and block driver, beside a disk |
| `SdCard`, `SdCardProofs` | the SD card driver, beside a card; the theorems about it |
| `DiskRequests` | abstract specification of a disk driver: requests to a disk |

`FileTable` composes with `EasyFs` through `FileStore`, which the one uses and the
other implements; `EfsCrash` takes the operations of `EasyFs` as they are.
`Process`, `Memory`, `FileTable` and `TrapSwitch` are four views of the same task
control block: each has the part of fork, exec, exit and waitpid that touches its
state, and leaves the rest to the others.

### Process

A task control block is a heap slot (`Tcb`); a slot is `Free` until fork uses
it and after waitpid drops it. `pid`, `parent`, `children`, `exit_code` and
`task_status` are the fields of the same name; `ready_queue`, `current`,
`pid_current` and `recycled` those of the task manager, the processor and the
pid allocator; `kstacks` the pids whose stack is mapped. Strong references are
not counted but enumerated: `Referenced` lists every place that can hold an
`Arc` to a task, which is what the assert of `sys_waitpid` and the drop at the
end of exit depend on. `panicked` becomes true where an assert, an unwrap or a
borrow would fail. `ret` is the answer of the last call.

A handler is one action (`SysFork`, `SysExec`, `SysExit`, `SysWaitpid`,
`SysYield`, `SysRead`, `Fault`, `Tick`); `RunTasks` is a round of the idle loop;
`ResumeRead` continues a stdin read that found no character and was suspended
inside the kernel. `Panic` is a program that traps with a cause `trap_handler` has no
arm for, or calls a number `syscall` has none for; which of the two programs do is the
constant `Unsupported`, and the kernel then stops (`Halted`). Programs are arbitrary, except that initproc follows
`initproc.rs` and a program may enter the loop of `user_lib::wait`; `upc` is
where such a program is. Only reads of one byte are made, as stdin asserts;
descriptors are left out here.

The refinement to `ProcTree` maps slots to the pids they carry: alive pids,
zombies with exit codes, the parent function and the answers.

### BlockCache

`queue`, `block_id`, `cache` and `modified` are the fields of the manager and of
the cached blocks; `handles` the `Arc`s clients hold; `disk` the device.
`get_block_cache` has four actions (hit, miss, replacement, exhaustion), each
atomic under the manager's mutex. `block_cache_sync_all` keeps the manager
locked and writes one block per step; clients that hold a handle may modify
blocks meanwhile, and power may fail between any two steps. In the kernel the
file-system mutex serialises operations; the model only assumes what the cache
itself enforces, so that its results do not depend on that mutex. Nobody ever
drops the last `Arc` outside replacement, but `Release` has that case.

### EasyFs

The unit of data is the 32-bit word: a block has `BLOCK_WORDS` of them, which is
also the number of entries of an index block; a directory entry is two words, a
name and an inode number (32 bytes in the code, of which the name takes 28).
`inode_bitmap` and `data_bitmap` are the sets of set bits, `inode_area` the
inodes at `<<block, slot>>`, `block` the content of the data area, `efs` the
area offsets the mounted file system holds in memory.

Every operation of `Inode` takes the file-system mutex and ends with a sync, so
it is one action; blocks come from the cache, which is a plain store by
`BlockCache`. `increase_size` consumes a vector of new blocks from the front:
`Used(lo, i)` is how many are gone once data block `i` is filled, index blocks
included, and the inode and index blocks are read off that. `clear_size` is the
sequence of ids it collects. `panic` is `"space"` where the code stops for lack
of inodes, blocks or index entries, or touches a block that is not on the
device (the bitmap has more bits than the data area has blocks), and `"assert"`
where an assert or an unwrap of its own bookkeeping fails. Writes are never
empty: the kernel splits a buffer into page slices and makes no call for none.
`Open` is a remount between operations.

### Memory

Frames hold words; a word is a number with flags, and serves as a page-table
entry or as data. A page table is what a walk from its root finds in memory, as
for the MMU, so a node that was freed or never zeroed shows. Frames start out
dirty. An operation threads a record through the code's calls in order
(`FrameAlloc`, `Descend`, `Map`, `MapOne`, `Push`, ...), which keeps the order
of allocations and, for drops, the order of the fields of `MemorySet`; so
`frame_recycled` is the allocator's stack exactly. A loop over pages, areas or
segments is `Iterate` over its rounds, each of which does nothing once the machine
has panicked. `LayoutAssumption` is what the linker script of the programs
(`user/src/linker.ld`) and the kernel's constants ensure: the segments of a program
are not empty, are in order and apart, and leave room for its stack below the trap
context; the kernel stacks of all pids fit. Boot is taken to find the frames it
needs. `Fork`, `Exec`, `Exit` and
`Reap` are the memory side of the operations of `Process` (pids and families
are there; here any unused pid may be taken and any zombie reaped). `Store` is a
store by a program, or by the kernel into a buffer the program owns. Of a page,
the first word is told apart; of a trap context, the kernel stack pointer and
the answer register a0. `DmaWords` is what the virtio driver tells the disk of a
buffer: the translated address of its first byte, and its length.

### EfsCrash

`EfsCrash` keeps the disk as it was before the last operation (`old`). A `Crash`
lets any subset of the blocks that the operation changed be on the disk: the
cache writes a block when it replaces it or at the final sync, in an order that
depends on what was cached before, and `BlockCache` shows that no other order is
excluded. A block that one operation locks several times may be on the disk as it
was between two of them: each block of a bitmap has the changes up to some moment,
in the order of `alloc` or of `clear_size` (`BitmapWritten`), and a second-level index
block the entries up to some one (`Filling`). The next boot opens what is there.

Block 0 is the super block, with its words (`SuperWords`), because `get_block_id`
reads an index entry that is still zero as block 0.

What is claimed is about the files that were not being changed: directory, content,
inode and blocks, all still marked in use (`OthersSurviveCrash`), and that no index on
the disk names a block of another file (`IndexNamesOwnBlocks`). What a crash may cost
is more than the file being changed has of its own, and none of it is excluded:

* its size may be there without its data or its index blocks. A zero entry then
  leads to block 0, and a zero pointer to a whole index block makes `get_block_id` take
  the words of the super block for block ids, so that reading or writing that file can
  reach any block, those of other files included;
* its inode or its blocks may be on the disk while the bitmap that marks them is not.
  A later operation hands them out again, to another file;
* blocks may stay marked that no file has.

So the files that survive a crash stay safe only as long as the damaged one is left
alone; there is no check at mount that finds it. Operations that end in the panic for
lack of space are not among those a crash can interrupt here.

### FileTable

`osinode` holds the open files that some table refers to (the `Arc`s);
`fd_table` the tables; `content` the files, as in `FileStore`. A user buffer is
given by its place in a page and its length, and `Slices` cuts it up as
`translated_byte_buffer` does. A call is one step, except a read of stdin without
a key, which suspends inside the call and continues with `StdinWakes`; this is
where a borrow of the task would be held across a switch (`HeldWhileReading`).
`log` is a history variable: what was written through an open file that began
with an empty file and is its only writer. `OpenFiles` knows neither slices nor
tables: every descriptor names an open file, reads and writes are at its offset.

### TrapSwitch

Of the registers `sp` is exchanged with sscratch, `a0` overwritten by the answer,
`pc` (sepc) moved past the ecall; `tp` is neither saved nor restored (`trap.S:19`: "skip
tp(x4), application does not use it"; `trap.S:59` restores the others) and therefore
one variable for all programs; `x` stands for all others. Virtual pages are named by the kernel stack that has
them; the trap context of a user space lies at the address of the top of kernel
stack 0, because `TRAP_CONTEXT` is `TRAMPOLINE - PAGE_SIZE` and so is the top page
of the first stack. That makes the fences matter: `TlbFill` may cache any valid
translation of the current table at any time, and only `sfence.vma` drops it. A
suspended handler is what it left on its kernel stack, found again through the
table. Any free pid and frame may be taken at fork and exec, more than the
allocators allow. initproc neither faults nor exits (`Process` has that case). A trap
that `trap_handler` has no arm for, and a call that `syscall` does not know, stop the
kernel (`Unsupported`, `Halted`).
`UserMachines` is a set of machines that compute and call the kernel, each with
registers of its own and all with one `tp`, which every program may set and no step
of the kernel changes; the refinement says that a program sees its own registers and
the answers, never a trap, until an unsupported trap or call stops them all. That
a program finds `tp` as it left it is not claimed: it does not, and the code assumes
that no program uses it.

### VirtQueue and SdCard

In `VirtQueue` the driver and the disk share descriptors and rings. `Add` and
`Publish` are the two halves of `add`, before and after its fence, so the disk can
look in between; `DeviceTake` and `DeviceServe` are the disk, which serves what it
took in any order, with success or an error. A blocking call (`read_block`,
`write_block`) spins after `Publish`, the non-blocking ones return. The header of a
request (`BlkReq`) is a local of the call. It is intact while the call spins; after
`read_block_nb` or `write_block_nb` has returned, its place on the stack belongs to
others, and the disk may read anything there (`HeaderSeen`: any type, any sector), so
that a write may go to another sector and a read may transfer nothing or another
sector. `DiskRequests` therefore promises the request's own type and sector only to a
call that waits; buffer, status and completion are the request's own in both cases.
The kernel makes waiting calls only. `PopUsed` also ends the call: a blocking one
returns with its status, of a non-blocking one the caller is told by its token.
Indices wrap
at `WRAP` (2^16 in the code). Entries of a ring are cleared when they are
consumed: the code leaves them and must not read them again, and a read of one
would be a type error. A blocking call pops whatever is first, so it is made only
while nothing else is in flight; the kernel makes blocking calls only, one at a
time, and panics on an error.

In `SdCard` every byte the driver polls is a step in which the card chooses:
`FF` (nothing yet), an answer, an error, a token, busy. `step` is the command
whose answer is awaited, `at` the place in the code. `TIMEOUT` and `RETRIES` stand
for 0xFFF polls and 255 rounds. The card ignores commands while it programs.
Deviations from the SD specification are modelled as the code has them: ACMD23 is
sent without CMD55, a write of several sectors has no stop token, the answer to
CMD12 is ignored. The last two can leave a card that is not ready for the next
command, which then fails; `CardReadyBetweenCalls` therefore claims this part only
for calls of one sector, the only ones the kernel makes.

## 3. Runs

| Run | Instance | Shows |
|---|---|---|
| `process_safety` | 4 tasks, 2 exit codes, waitpid of -1 and of every pid | no panic but for an unsupported trap or call; families, pids, stacks and queue stay consistent; only a parent reaps; `Process` implements `ProcTree` |
| `process_liveness` | 3 tasks, fairness | a ready task runs; orphans are reaped; a waiting parent is served |
| `cache_shared` | 3 blocks, 2 values, cache of 2, 2 clients holding up to 2 | one copy, held blocks stay, sync is durable, the cache gives up only when every block is held, `BlockCache` implements `BlockStore` |
| `efs_files` | blocks of 2 words, 1 direct block, 13 data blocks, 3 names, inodes for 2 files | one owner per block, zeroed free blocks, directory and inodes agree, no assert fails, `EasyFs` implements `FileStore` |
| `efs_crash` | blocks of 2 words, 1 direct block, 14 data blocks, bitmap blocks of 4 bits, 2 names, one crash | other files survive with their marks in the bitmaps, no index names a block of another file |
| `memory_spaces` | 3 pids, nodes of 4 entries, 35 frames, 2 programs, at most 3 forks and execs | one owner per frame, tables match areas, trap contexts are current, no assert fails, `Memory` implements `PrivateMemory` |
| `files_shared` | 2 tasks, 1 name, pages of 2 bytes, buffers across a boundary, at most 2 open files, 1 key | `FileTable` implements `OpenFiles`; writers that share an offset append; no task is borrowed across a switch |
| `trap_switch` | 2 pids, 5 frames, 2 values of tp | registers, stacks and translations are right, `TrapSwitch` implements `UserMachines` |
| `virtio` | 3 requests, 8 descriptors, indices modulo 8, 2 sectors, 2 values | descriptors are conserved, requests whole and answered, a spin sees its answer, `VirtQueue` implements `DiskRequests` |
| `sdcard` | 3 sectors, calls for 1 and 2, 3 polls, 2 retries, fairness | success means that every sector was transferred, the card is ready between calls, every call returns |
| `waitpid_null` | 3 tasks, address 0 allowed | finding 1 |
| `dma_stack` | as `memory_spaces`, kernel stacks of two pages | finding 2 |

An invariant whose name ends in `Consistent` is the conjunction of a module's type
invariant and its structural invariants, each defined and explained on its own
(`CacheConsistent` is `TypeOK`, `OneCopyPerBlock` and `HeldBlocksStayCached`, and
so on).

Bounds. Four tasks are initproc and a family of three generations, or three
siblings: enough for a zombie adopted together with a live sibling, for an
adopted task whose own children are adopted again, and for a pid that is reused
while its old siblings live. Pids are bounded by the slots, since recycled pids
are used first. Three blocks over a cache of two make every get replace, hit or
miss; two clients can hold every entry. One operation of easy-fs nests at most
three handles in a cache of sixteen, so `ExhaustedOnlyWhenHeld`, checked with two
clients that can fill a cache of two, means that the kernel never runs out.

In `efs_files` a file of 7 blocks is the largest the index can hold, and the
writes stop at, or cross, each boundary: direct to indirect, indirect to doubly
indirect (behind a gap), the last block, and one word too many. The disk holds
one such file, or a file with all three index levels beside one with two, so
blocks freed by one are reused by the other, and the third `create` runs out of
inodes. The bitmap has 15 bits for 13 blocks. In `memory_spaces` three forks and
execs (`MaxBuilds`, the bound on `builds`) suffice for a child of a child, an
exec by parent or child around a fork, and a pid and its kernel stack reused
after a reap; two children and an exec run out of frames. Without the bound the
orders of the recycled stack make the state space explode. `Pages` limits the
pages that are stored to. `efs_crash` crashes once, after any sequence of
operations on two files, with every subset of the changed blocks on the disk. A file
there has one block, or five with all levels of the index, two of them in the second
level, and what one operation marks lies in up to three blocks of the bitmap.

In `files_shared` a buffer of three bytes lies in two or three pages of two, at
either place of a page; two tasks suffice for a shared offset, for two open files
of one name, and for a truncation behind the other's back. In `virtio` two of the
three requests fit, in 6 of 8 descriptors, so the third meets a full queue; with
the indices modulo 8 they wrap while requests are in flight, and the free list
gets into every order. In `trap_switch` two pids take turns, and five frames let a
kernel stack come back in another frame than the one the TLB may know. In `sdcard`
three polls separate a prompt answer, a late one and none; two sectors make a
transfer that can fail in the middle.

Symmetry is used where nothing tells the values apart: task slots (in the safety
run only), the blocks, cached objects and clients of `cache_shared`, the frames of
`trap_switch`, the values of tp there, the requests, sectors and values of `virtio`. No run with a liveness property uses it.

Deadlock is checked in the process runs, in `trap_switch` and in `virtio`. In
the others it is not: the cache, the disk or the frames can be exhausted, and a
panicked system stops.

Fairness (`FairSpec`). `RunTasks` and `ResumeRead` are kernel code that nothing
preempts: weak fairness. `Tick` is the timer interrupt, armed before user mode is
entered: weak fairness. `LibraryStep(t)`, the next call of initproc or of the
wait loop, is strongly fair: each time such a task is scheduled it has a whole
time slice, and a few instructions lead to its call, but the timer may come
first. (The trigger is set again only in the timer trap, so a slice can also
expire during a switch; strong fairness assumes that a program does not stay in
step with the timer for ever.) Applications are not assumed to do anything.

In `SdCard` the driver is kernel code and runs on (weak fairness of its steps),
and a card that programs a block is done some time: without that the wait of
`get_dataresponse`, which has no timeout, would not end. The card is not assumed
ever to answer.

### Findings

1. `waitpid` with address 0 panics the kernel when a zombie is found
   (`syscall/process.rs:97`), while `user/src/syscall.rs:80` allows it.
2. The virtio driver translates the first byte of a buffer and gives the disk that
   address and the length (`virtio_blk.rs:76`, `queue.rs:218`). Kernel stacks
   are mapped page by page; after a fork, an exit, a wait and another fork the two
   pages of a stack are in frames that are not adjacent, and a buffer on the stack
   that crosses them (`BlockCache::new` reads into one) is not where the disk
   writes, against `easy-fs/src/block_dev.rs:4`.

The passing process runs assume that address 0 is not passed and that exec finds
ELF files. `process_liveness` also assumes that no program makes an unsupported trap
or call, since nothing runs afterwards; `process_safety` and `trap_switch` have both.

Remarks, on places where the kernel stops although the interface promises an
error, or where a comment and the code disagree. The models have the first six
as states in which the kernel has panicked:

* a trap without an arm in `trap_handler` (`trap/mod.rs:103`; a breakpoint, say) and an
  unknown call number (`syscall/mod.rs:31`): one program stops the whole kernel, where
  other faults only end the program;
* `exec` of a file that is not an ELF (`memory/memory_set.rs:346`), while
  `user/src/syscall.rs:73` promises -1;
* a read of stdin whose length is not one (`fs/stdio.rs:18`), while
  `user/src/syscall.rs:52` promises -1 on an error;
* a text with a multi-byte character across a page boundary: `fs/stdio.rs:53`
  unwraps each slice as UTF-8;
* fork or exec without enough frames (`memory/page_table.rs:107`);
* create without a free inode or block (`easy-fs/src/efs.rs:139`);
* `read_block_nb` and `write_block_nb` give the disk the address of a header that is
  dead when they return (`blk.rs:109`, `blk.rs:164`), while their comments speak only of
  the lifetime of `buf` and `resp`; the kernel does not call them;
* a name of 28 bytes is accepted (`layout.rs:417`) and leaves no zero at its end,
  while `layout.rs:8` limits names to 27;
* the timer is set again in the timer trap only (`trap/mod.rs:100`), so a program
  after a yield gets the rest of a slice, not the slice `task/processor.rs:93`
  speaks of;
* `timer.rs` calls the unit microseconds where it returns milliseconds.

## 4. Proofs

Each theorem holds for every value of the constants that satisfies the named
assumptions of its module; the assumptions say no more than that pids and sector
numbers are numbers, limits are positive, and the marks the models use (`None`,
`KERNEL`, `NoReply`...) are not among the values they mark; for `Memory` also that
programs and kernel stacks have the layout described in section 2.

### Process (`ProcessProofs`)

For any set of task slots, exit codes and pids: `TypeCorrect`, `SchedulerCorrect`,
`FamiliesCorrect`, `RootedCorrect`, `PidsCorrect`, `KernelStacksCorrect`,
`ReapingCorrect`, and, under the assumption that exec only finds ELF files and
waitpid only gets mapped pointers, `KernelNeverPanics`: the kernel stops only for an
unsupported trap or call. Here it is needed that nothing runs after a panic
(`PanicIsFinal`).

The invariants are not inductive one by one. That the reaped child is referenced
nowhere else needs the scheduler invariant (a zombie is in no queue) and the
family invariant (it is in one vector, once); that a fork never maps a stack
twice needs pid conservation; that a parent is never a zombie needs exit's
adoption. Moreover the model goes on after a panic only by stopping, so the
invariants must also hold in the state of a panic. `ProcInv` is the conjunction
of the type invariant, the scheduler, family, pid and stack invariants and two
facts about `upc` (only initproc is at the points of its program, and a task in
`stdin` is not a zombie). `Invariance` has one step per action. The absence of
cycles among parents is stated without induction: every non-empty set of tasks
has a member whose parent is outside it.

`SeqFacts` holds the facts about `Append`, `Tail`, removal of the last element,
concatenation and `RemoveAt`: the range of the result, and that it is injective.

### Process implements ProcTree (`ProcessProofs`)

`TreeRefinement`. The tree is over pids, the kernel over slots that are reused, so
the argument first shows that a pid has one slot (`TaskOfFacts`, `MapFacts`) and
that the mapped sets and functions change only at the pid an action touches
(`TreeFrame`, `OtherTree`); then each handler is a step of the tree (`ForkTree`,
`ExitTree`, `WaitpidFailsTree`, `ReapTree`) or leaves it alone. It rests on
`ProcInv` and on initproc keeping pid 0 (`RefInv`).

### BlockCache (`BlockCacheProofs`)

For any device, values, clients, cache size and number of handles:
`CacheConsistentCorrect`, `WriteBackCorrect`, `ExhaustionCorrect`,
`SyncAllCorrect` and `StoreRefinement`. What is inductive is `CacheInv`: the
structural invariants, that a clean entry is what the disk has, that the entries
`block_cache_sync_all` has passed are clean unless touched since it began
(`SyncedSoFar`, without which nothing is known when it ends), and that a panic
found a full queue of held entries (`AllHeldWhenExhausted`, from which
`ExhaustionCorrect` follows by counting handles). The refinement maps the store to
the cached copy where there is one and to the disk elsewhere. Loading, replacing
and writing back are stutters because a clean entry is what the disk has.

### TrapSwitch (`TrapSwitchProofs`)

For any set of pids, frames and register contents: `KernelConsistentCorrect`,
`TranslationsCorrect` and `MachinesRefinement`. `TrapInv` adds to the checked
invariants who owns each frame (`FramesOwned`), what each frame holds
(`FramesHold`: a trap context that knows its kernel stack, a handler exactly while
its process is away in `schedule`, nothing in a free frame), the queue, the control
registers at each place of the code, and how far the translation buffer agrees
with the table in force (`BufferAgrees`). The last one is where the fences are
needed: after waitpid an unmapped stack may stay in the buffer, but only until
`__restore`, so it is gone before another fork can map that stack again. The
refinement maps a program's machine to the processor while it runs and to its trap
context while it does not; `tp` is the same variable on both sides, which the code of
the kernel leaves alone and only programs change.

### SdCard (`SdCardProofs`)

For any number of sectors, lengths of calls, poll and retry limits:
`DriverConsistentCorrect` and `OkMeansDoneCorrect`. `DriverInv` says, for each
place of the driver, what the card can be doing (`CardInStep`), which calls lead
there (`CallInStep`), that the card is initialised from the answer to ACMD41 on
(`CardInitialised`) and that the sectors before `chunk` are done (`Progress`). The
point is that an answer is the answer to the command the driver has sent last, not
to an earlier one it gave up on: a late answer to CMD12, or a card that still
expects blocks after CMD25, may be there when the next call begins.

### VirtQueue (`VirtQueueProofs`)

For any queue size, any multiple of it at which the indices wrap and any set of
requests: `QueueConsistentCorrect`, `WholeRequestsCorrect`, `SpinCorrect` and
`DiskRefinement`. None of the checked invariants is inductive, because none says
where a head is between two of its appearances. `QueueInv` says that the free
descriptors are one list from `free_head` on (`FreeList`), that each request in
flight has its chain of three (`Chains`), and that there are two sequences of
heads, the published and the answered ones, that lie in the rings between the
indices (`Window`) and share out, with the taken heads and the one not yet
published, the requests in flight (`InFlight`). A ring never makes a full turn,
since a chain's last descriptor is no head (`RingFits`); so equal indices mean an
empty ring (`WindowEmpty`) although both wrap, and the slot `add` writes is not
one the disk has still to read (`WindowGrows`). What following `next` from a
descriptor gives is shown by taking the first place where two lists differ
(`Least`, `LinkedIs`), which stands for an induction. The last descriptors of the
list do not need the link `VirtQueue::new` leaves at 0, since its length is known.
The refinement needs that a spinning call is the one whose request the disk serves,
with the header it filled in; for requests whose call has returned it holds with
whatever header the disk finds.

### FileTable (`FileTableProofs`)

For any set of tasks and names, any page size, chunk size and buffers:
`TablesConsistentCorrect`, `AppendCorrect` and `OpenFilesRefinement`.

The first half is about one call. `SlicesTile` shows that the pieces
`translated_byte_buffer` cuts a buffer into follow each other without a gap and end
with the buffer, wherever in a page it starts; `WriteIsWhole` and `ReadIsWhole` that
the loops of `OSInode::write` and `OSInode::read` over such pieces are one transfer,
also when the file ends inside a piece; `ReadAllIsWhole` that the loop exec reads a
program with returns the whole file. The loops are recursive functions: what a
function computes is shown by giving it in closed form, and that the closed form is
the one the recursion has by taking the first place where they differ (`Least`),
which stands for an induction. The step is that writing a buffer behind another is
writing both at once (`WrittenTwice`).

The second half is the invariant `FileInv`. `TablesConsistent` is not inductive
without knowing that an `OSInode` exists exactly while a table holds it
(`EntriesOK`), that the number of a new one is therefore unused, and that only
descriptor 0 is stdin, which a suspended reader still has when it wakes (`StdinOK`).
`ForkedWritersAppend` needs that the offset of a file with a history is at its end
and that no other open file writes to it (`LogOK`). The refinement maps a task that
exists to the entries of its table that are used (`Descriptors`); the suspension of
a reader of stdin is a step that changes none of OpenFiles' variables but the reply.

### Memory (`MemoryProofs`)

For any number of frames, tasks, pages, programs and entries of a page-table node:
`InvHolds`, `SpacesAreConsistent`, `TrapContextsAreCurrent`, `NoAssertEverFails` and
`MemoryIsPrivate`. So the only way an operation of the memory code can panic is to
find no free frame.

None of the checked invariants is inductive. A table is found by a walk through
frames, the frames come from the allocator that also hands out pages, and one
operation takes, writes and gives back many of both; so the argument goes through
the code's calls from the bottom up.

- Loops. What a round keeps holds after every round, by taking the first round
  where it does not (`Least`, `Climb`), which stands for an induction.
- The allocator. A frame it gives is none of those it had given and not got back,
  and is zero; so a new page-table node has no valid entry, whatever was there.
- A page table is a tree (`Shape`, `IsTree`): each node but the root is linked from
  one place, at one level, and no leaf leads to a node. In a tree, linking a new
  node changes no translation, and writing a leaf changes one.
- An area. `MapOne` and `UnmapOne` enter and remove one page and its frame, `Push`
  and `RemoveArea` all pages of an area. A space is `Whole` when its table
  translates exactly the pages of its areas, as the areas say.
- Running out. A machine without a frame in the middle of `from_elf` or of a copy is
  `Stuck`: the remaining calls leave it so, and the step ends in the panic `"space"`.
  The model stops there with the state before the operation; nothing is claimed of
  the half-built space.
- The whole machine. `Sound` says that the frames given out are `Divided` among the
  kernel's space and the tasks' and that the kernel's table is whole; `Live` that
  the table of every living task is whole and its trap context is its own frame, with
  its own kernel stack; `KernelStacks` that every area of the kernel's space is the
  stack of a task that is there. `Inv` is their conjunction (`Good`), with the types
  and the panics that are left, and `NextInv` has one step per action. A zombie's table is not claimed to
  be whole: exit clears its areas and leaves the nodes, with stale leaves, until
  waitpid drops them, so what is kept of it is only which frames it owns.

The refinement reads a task's image off its user pages. These are the pages of its
areas with the U flag (`UserPageFacts`), so `from_elf` gives the image of the program
(`ElfIsLoaded`), a copy has the image of what it copies (`CopyIsAlike`), a store
changes one page of one image (`StoreImage`), and the other tasks' images stay since
none of their frames was written (`SparedTask`). Reaping, and a panic for lack of
frames, are stutters.

### Only model-checked

Liveness (outside this prover's logic). `EasyFs` and `EfsCrash`: the blocks of a
file are found through three levels of index blocks that the same operations grow
and clear, and what the bitmaps, sizes and directory add to this is another
development of the size of `MemoryProofs`. TLC checks them on small disks.

## 5. Not modelled

Boot, console output, firmware calls, the heap, the image packer, the shell and
the test programs: straight-line code, or programs that `Process` covers as
arbitrary ones. The timer is an interrupt that may come at any time; slices have
no length. Nested traps are excluded by the code (a trap in the kernel is a panic
by design). Of the virtio driver: registers, feature negotiation and the
allocation of the queue at boot. Of the SD card driver: the fields of the card's
registers, pins and clocks. In `EasyFs`: names as bytes, sizes beyond 32 bits (the
index ends far below), and the locks of blocks inside an operation; that no
operation locks a block twice rests on the blocks of a file being distinct, which
is `BlocksOwnedOnce`. In `Memory`: the identical kernel mapping, and pointers to
pages a program does not own: `translated_byte_buffer` and `translated_refmut` check
neither the U nor the W flag, while `Store` needs both. In `FileTable`: calls with
unknown numbers, which are in `Process` and `TrapSwitch`. In `EfsCrash`: a crash inside
an operation that runs out of space, and what the damaged file can do to others when
it is used after the crash (section 2).

Most lines of the repository are not its own. Of 65,775 lines 46,130 are
generated register accessors (`dependency/k210-pac`), and most others belong to
vendored crates: wrappers of single instructions (`riscv`), set-up of pins, clocks
and DMA channels (`k210-hal`, `k210-soc`), and virtio drivers for devices the
kernel does not use (gpu, net, input, console). They have no protocol with the
kernel to state; what the kernel runs of them, the virtio queue and block driver,
is `VirtQueue`. Of the kernel, easy-fs and the user library the models cover the
files that keep state.

## 6. Plan

Done: `Process`, `BlockCache`, `EasyFs`, `Memory`, then `FileTable`, `EfsCrash`,
`TrapSwitch`, `VirtQueue`, `SdCard`; the proofs about `Process`, `BlockCache`,
`TrapSwitch`, `VirtQueue`, `FileTable` and `Memory` with their refinements, and about
`SdCard`. What is left is to prove `DiskConsistent` of `EasyFs` and that it implements
`FileStore`, with the lemmas on trees of `MemoryProofs` as a model for index blocks,
and then what survives a crash in `EfsCrash`.
