------------------------------- MODULE Memory -------------------------------
(***************************************************************************)
(* Physical frames, page tables and address spaces (os/src/memory), as the *)
(* process operations of os/src/task use them: fork copies an address      *)
(* space, exec replaces it, exit frees its data frames, waitpid frees its  *)
(* page table and the kernel stack.                                        *)
(*                                                                         *)
(* Page tables live in memory: a frame is PTES words, a word is a pair of  *)
(* a number and a set of flags, and a table is read by walking frames from *)
(* its root, so that a frame freed too early is seen by the walk.  The     *)
(* kernel runs with interrupts off, so an operation is one step.  The      *)
(* identical mapping of the kernel space, made at boot and never changed,  *)
(* is left implicit: the kernel reads and writes frames directly.          *)
(***************************************************************************)
EXTENDS Integers, Sequences, Functions, SequencesExt

CONSTANTS
    PTES,                 \* entries of a page-table node (512)
    MemoryStart,          \* the frames are MemoryStart .. MemoryEnd - 1
    MemoryEnd,
    KERNEL_STACK_PAGES,
    USER_STACK_PAGES,
    Pids,                 \* 0 .. n; 0 is initproc
    Programs,             \* ELF files: sequences of [start, perm, data]
    InitProgram,
    Pages,                \* the pages programs try to store to ...
    Values,               \* ... and what they store
    MaxBuilds             \* bound: how often fork and exec are made

ASSUME MemoryAssumption ==
    /\ {PTES, MemoryStart, KERNEL_STACK_PAGES, USER_STACK_PAGES} \subseteq Nat \ {0}
    /\ PTES > 1
    /\ MemoryEnd \in Nat /\ MemoryStart <= MemoryEnd /\ MaxBuilds \in Nat
    /\ Pids \subseteq Nat /\ 0 \in Pids
    /\ Pages \subseteq 0 .. PTES * PTES * PTES - 1 /\ Values \subseteq Nat
    /\ InitProgram \in Programs

VARIABLES
    mem,            \* content of the frames
    frame_current,  \* StackFrameAllocator: frames from here on are unused ...
    frame_recycled, \* ... and these were given back
    kernel_space,   \* MemorySet: [nodes, areas] of the kernel
    memory_set,     \* MemorySet of every task
    trap_cx_ppn,    \* where a task's trap context is
    task,           \* "none", "alive" or "zombie"
    panic,          \* "none", "space" (no frame left) or "assert"
    builds          \* number of forks and execs so far

vars == <<mem, frame_current, frame_recycled, kernel_space, memory_set,
          trap_cx_ppn, task, panic, builds>>

Frames == MemoryStart .. MemoryEnd - 1

(* Page numbers.  The trampoline is the highest page of every space; its    *)
(* frame belongs to the kernel image.                                       *)
TRAMPOLINE == PTES * PTES * PTES - 1
TRAP_CONTEXT == TRAMPOLINE - 1
strampoline == MemoryStart - 1

(* kernel_stack_position, in pages                                          *)
KernelStackTop(pid) == TRAMPOLINE - pid * (KERNEL_STACK_PAGES + 1)
KernelStackBottom(pid) == KernelStackTop(pid) - KERNEL_STACK_PAGES

(* The loadable segments in order; the stack comes behind the last one and  *)
(* a guard page.                                                            *)
StackBottom(program) == Last(program).start + Len(Last(program).data) + 1

(* The kernel stacks fit, and programs are linked as user/src/linker.ld     *)
(* does: their segments have pages, are apart and leave room for the stack. *)
ASSUME LayoutAssumption ==
    /\ \A p \in Pids : KernelStackBottom(p) >= 0
    /\ \A program \in Programs :
         /\ program \in Seq([start : Nat, perm : SUBSET {"R", "W", "X"}, data : Seq(Nat)])
         /\ program # <<>> /\ \A k \in DOMAIN program : program[k].data # <<>>
         /\ \A k, l \in DOMAIN program :
              k < l => program[k].start + Len(program[k].data) <= program[l].start
         /\ StackBottom(program) + USER_STACK_PAGES <= TRAP_CONTEXT

Word == [ppn : Nat, flags : SUBSET {"V", "R", "W", "X", "U"}]
Empty == [ppn |-> 0, flags |-> {}]
Data(v) == [ppn |-> v, flags |-> {}]
ZeroPage == [i \in 0 .. PTES - 1 |-> Empty]

(* What a frame holds before it is used: anything, valid entries included.  *)
DirtyPage == [i \in 0 .. PTES - 1 |-> [ppn |-> 1, flags |-> {"V", "R"}]]

(* VirtPageNum::indexes                                                     *)
Indexes(vpn) == <<vpn \div (PTES * PTES), (vpn \div PTES) % PTES, vpn % PTES>>

Valid(e) == "V" \in e.flags

-----------------------------------------------------------------------------
(* An operation works on a record of the memory, the frame allocator, the   *)
(* address space at hand, the node a walk has reached and the frame that    *)
(* was allocated last.                                                      *)
Machine(m, current, recycled) ==
    [mem |-> m, current |-> current, recycled |-> recycled, panic |-> "none",
     nodes |-> <<>>, areas |-> <<>>, at |-> MemoryStart, got |-> MemoryStart]

Now == Machine(mem, frame_current, frame_recycled)

InSpace(b, space) == [b EXCEPT !.nodes = space.nodes, !.areas = space.areas]
SpaceOf(b) == [nodes |-> b.nodes, areas |-> b.areas]

(* Step(a, k) for k = 1 .. n, one after the other.                          *)
Iterate(Step(_, _), b, n) ==
    LET after[k \in 0 .. n] == IF k = 0 THEN b ELSE Step(after[k - 1], k)
    IN  after[n]

(* FrameTracker::new                                                        *)
NewFrame(page) == ZeroPage

(* frame_alloc, and the unwrap of every caller.                             *)
FrameAlloc(b) ==
    IF b.panic # "none" THEN b
    ELSE IF b.recycled # <<>>
    THEN [b EXCEPT !.got = Last(b.recycled), !.recycled = Front(@),
                   !.mem[Last(b.recycled)] = NewFrame(@)]
    ELSE IF b.current = MemoryEnd
    THEN [b EXCEPT !.panic = "space"]
    ELSE [b EXCEPT !.got = b.current, !.current = @ + 1,
                   !.mem[b.current] = NewFrame(@)]

(* StackFrameAllocator::dealloc, from the drop of a FrameTracker.           *)
FrameDealloc(b, ppn) ==
    IF b.panic # "none" THEN b
    ELSE IF ppn >= b.current \/ ppn \in Range(b.recycled)
    THEN [b EXCEPT !.panic = "assert"]
    ELSE [b EXCEPT !.recycled = Append(@, ppn)]

Dropped(b, frames) ==
    Iterate(LAMBDA a, k : FrameDealloc(a, frames[k]), b, Len(frames))

(* PageTable::find_pte_create: one level down, creating the node if it is   *)
(* missing, and the two levels above the leaf.                              *)
NodeEntry(ppn) == [ppn |-> ppn, flags |-> {"V"}]

Linked(b, at, i) ==
    [b EXCEPT !.mem[at][i] = NodeEntry(b.got), !.nodes = Append(@, b.got), !.at = b.got]

Descend(b, i) ==
    IF b.panic # "none" THEN b
    ELSE IF Valid(b.mem[b.at][i])
    THEN [b EXCEPT !.at = b.mem[b.at][i].ppn]
    ELSE LET a == FrameAlloc(b)
         IN  IF a.panic # "none" THEN a
             ELSE Linked(a, b.at, i)

FindPteCreate(b, vpn) ==
    Descend(Descend([b EXCEPT !.at = Head(b.nodes)], Indexes(vpn)[1]), Indexes(vpn)[2])

(* PageTable::map                                                           *)
Map(b, vpn, ppn, flags) ==
    LET f == FindPteCreate(b, vpn)
        i == Indexes(vpn)[3]
    IN  IF f.panic # "none" THEN f
        ELSE IF Valid(f.mem[f.at][i])
        THEN [f EXCEPT !.panic = "assert"]
        ELSE [f EXCEPT !.mem[f.at][i] = [ppn |-> ppn, flags |-> flags \cup {"V"}]]

(* PageTable::find_pte and translate, from the root; Empty also stands for  *)
(* a missing node.                                                          *)
Child(m, e, i) == IF Valid(e) THEN m[e.ppn][i] ELSE Empty

Translate(m, root, vpn) ==
    Child(m, Child(m, m[root][Indexes(vpn)[1]], Indexes(vpn)[2]), Indexes(vpn)[3])

-----------------------------------------------------------------------------
Area(start, pages, perm) == [start |-> start, pages |-> pages, perm |-> perm,
                             frames |-> <<>>]

(* MapArea::map_one of the last area, for its next page.                    *)
Backed(b) == [b EXCEPT !.areas[Len(b.areas)].frames = Append(@, b.got)]

MapOne(b, k) ==
    LET a    == FrameAlloc(b)
        area == Last(b.areas)
    IN  Map(Backed(a), area.start + k - 1, a.got, area.perm)

(* MapArea::copy_data: the first word of every page is what is told apart.  *)
CopyWord(b, vpn, v) ==
    [b EXCEPT !.mem[Translate(b.mem, Head(b.nodes), vpn).ppn][0] = Data(v)]

CopyData(b, start, data) ==
    Iterate(LAMBDA a, k : CopyWord(a, start + k - 1, data[k]), b, Len(data))

(* MapArea::map                                                             *)
MapPages(b, pages) == Iterate(MapOne, b, pages)

(* MemorySet::push                                                          *)
Push(b, area) == MapPages([b EXCEPT !.areas = Append(@, area)], area.pages)

(* MemorySet::new_bare and map_trampoline                                   *)
NewBare(b) ==
    LET a == FrameAlloc(b)
    IN  [a EXCEPT !.nodes = <<a.got>>, !.areas = <<>>]

MapTrampoline(b) == Map(b, TRAMPOLINE, strampoline, {"R", "X"})

LoadSegment(b, seg) ==
    LET p == Push(b, Area(seg.start, Len(seg.data), seg.perm \cup {"U"}))
    IN  IF p.panic = "none" THEN CopyData(p, seg.start, seg.data) ELSE p

LoadSegments(b, program) ==
    Iterate(LAMBDA a, k : LoadSegment(a, program[k]), b, Len(program))

(* MemorySet::from_elf                                                      *)
FromElf(b, program) ==
    LET loaded == LoadSegments(MapTrampoline(NewBare(b)), program)
        stack  == Push(loaded, Area(StackBottom(program), USER_STACK_PAGES,
                                    {"R", "W", "U"}))
    IN  Push(stack, Area(TRAP_CONTEXT, 1, {"R", "W"}))

(* Mutant: the pages of the copy stay empty.                                *)
CopyPagesSkipped(b, space, area) == b

(* The pages of an area of another space are copied one by one.             *)
CopyPage(b, space, vpn) ==
    [b EXCEPT !.mem[Translate(b.mem, Head(b.nodes), vpn).ppn] =
                  b.mem[Translate(b.mem, Head(space.nodes), vpn).ppn]]

CopyPages(b, space, area) ==
    Iterate(LAMBDA a, k : CopyPage(a, space, area.start + k - 1), b, area.pages)

CopyArea(b, space, area) ==
    LET p == Push(b, Area(area.start, area.pages, area.perm))
    IN  IF p.panic = "none" THEN CopyPages(p, space, area) ELSE p

CopyAreas(b, space) ==
    Iterate(LAMBDA a, k : CopyArea(a, space, space.areas[k]), b, Len(space.areas))

(* MemorySet::from_existed_user                                             *)
FromExistedUser(b, space) == CopyAreas(MapTrampoline(NewBare(b)), space)

(* MemorySet::recycle_data_pages: Vec::clear drops area by area.            *)
RecycleDataPages(b, space) ==
    Iterate(LAMBDA a, k : Dropped(a, space.areas[k].frames), b, Len(space.areas))

(* The drop of a MemorySet: the nodes of its page table, then its areas.    *)
DropSpace(b, space) == RecycleDataPages(Dropped(b, space.nodes), space)

(* KernelStack::new                                                         *)
KernelStackNew(b, pid) ==
    Push(b, Area(KernelStackBottom(pid), KERNEL_STACK_PAGES, {"R", "W"}))

(* MapArea::unmap_one: the frame goes back, then the entry is cleared.      *)
UnmapOne(b, vpn, ppn) ==
    LET d == FrameDealloc(b, ppn)
        node == Child(d.mem, d.mem[Head(d.nodes)][Indexes(vpn)[1]], Indexes(vpn)[2])
    IN  IF ~Valid(node) \/ ~Valid(d.mem[node.ppn][Indexes(vpn)[3]])
        THEN [d EXCEPT !.panic = "assert"]
        ELSE [d EXCEPT !.mem[node.ppn][Indexes(vpn)[3]] = Empty]

(* MapArea::unmap                                                           *)
UnmapArea(b, area) ==
    Iterate(LAMBDA a, k : UnmapOne(a, area.start + k - 1, area.frames[k]),
            b, area.pages)

(* Mutant: the area is removed but its pages stay mapped.                   *)
RemoveAreaStillMapped(b, start) ==
    LET idx  == SelectInSeq(b.areas, LAMBDA a : a.start = start)
    IN  [Dropped(b, b.areas[idx].frames) EXCEPT !.areas = RemoveAt(@, idx)]

(* MemorySet::remove_area_with_start_vpn, from the drop of a KernelStack.   *)
RemoveAreaWithStartVpn(b, start) ==
    LET idx  == SelectInSeq(b.areas, LAMBDA a : a.start = start)
        area == b.areas[idx]
    IN  IF idx = 0 THEN b
        ELSE [UnmapArea(b, area) EXCEPT !.areas = RemoveAt(@, idx)]

(* TrapContext: the kernel stack pointer and register a0 are told apart.    *)
InitContext(pid) == [ZeroPage EXCEPT ![0] = Data(KernelStackTop(pid))]

-----------------------------------------------------------------------------
TrapContextOf(b) == Translate(b.mem, Head(b.nodes), TRAP_CONTEXT).ppn

NoSpace == [nodes |-> <<>>, areas |-> <<>>]

(* The machine after boot: the kernel space and initproc                    *)
(* (TaskControlBlock::new), if there are frames enough.                     *)
BootKernel == MapTrampoline(NewBare(
                  Machine([f \in Frames |-> DirtyPage], MemoryStart, <<>>)))

BootUser == FromElf(BootKernel, InitProgram)

Booted == KernelStackNew(InSpace(BootUser, SpaceOf(BootKernel)), 0)

Init ==
    /\ Booted.panic = "none"
    /\ mem = [Booted.mem EXCEPT ![TrapContextOf(BootUser)] = InitContext(0)]
    /\ frame_current = Booted.current
    /\ frame_recycled = Booted.recycled
    /\ kernel_space = SpaceOf(Booted)
    /\ memory_set = [p \in Pids |-> IF p = 0 THEN SpaceOf(BootUser) ELSE NoSpace]
    /\ trap_cx_ppn = [p \in Pids |-> IF p = 0 THEN TrapContextOf(BootUser) ELSE 0]
    /\ task = [p \in Pids |-> IF p = 0 THEN "alive" ELSE "none"]
    /\ panic = "none"
    /\ builds = 0

(* The end of an operation: its changes, or the panic it ran into.          *)
Commit(b, m, kernel, spaces, cx, tasks) ==
    \/ /\ b.panic # "none"
       /\ panic' = b.panic
       /\ UNCHANGED <<mem, frame_current, frame_recycled, kernel_space,
                      memory_set, trap_cx_ppn, task>>
    \/ /\ b.panic = "none"
       /\ mem' = m
       /\ frame_current' = b.current
       /\ frame_recycled' = b.recycled
       /\ kernel_space' = kernel
       /\ memory_set' = spaces
       /\ trap_cx_ppn' = cx
       /\ task' = tasks
       /\ UNCHANGED panic

(* TaskControlBlock::fork and sys_fork.  The pid is one that is not in use  *)
(* (see Process).                                                           *)
Fork(t, c) ==
    LET user == FromExistedUser(Now, memory_set[t])
        b    == KernelStackNew(InSpace(user, kernel_space), c)
        cx   == TrapContextOf(user)
        m    == [b.mem EXCEPT ![cx][0] = Data(KernelStackTop(c)), ![cx][1] = Data(0),
                              ![trap_cx_ppn[t]][1] = Data(c)]
    IN  /\ panic = "none"
        /\ task[t] = "alive" /\ task[c] = "none"
        /\ builds < MaxBuilds
        /\ builds' = builds + 1
        /\ Commit(b, m, SpaceOf(b), [memory_set EXCEPT ![c] = SpaceOf(user)],
                  [trap_cx_ppn EXCEPT ![c] = cx], [task EXCEPT ![c] = "alive"])

(* Mutant: the trap context of the old address space stays in use.          *)
TrapContextKept(t, b) == trap_cx_ppn

TrapContextMoved(t, b) == [trap_cx_ppn EXCEPT ![t] = TrapContextOf(b)]

(* TaskControlBlock::exec: the new space is built before the old is dropped.*)
Exec(t, program) ==
    LET user == FromElf(Now, program)
        b    == DropSpace(user, memory_set[t])
        cx   == TrapContextMoved(t, user)
    IN  /\ panic = "none"
        /\ task[t] = "alive"
        /\ builds < MaxBuilds
        /\ builds' = builds + 1
        /\ Commit(b, [b.mem EXCEPT ![cx[t]] = InitContext(t)], kernel_space,
                  [memory_set EXCEPT ![t] = SpaceOf(user)], cx, task)

(* Mutant: the areas stay although their frames were given back.            *)
AreasKept(space) == space

AreasCleared(space) == [space EXCEPT !.areas = <<>>]

(* exit_current_and_run_next: only the data frames are freed.               *)
Exit(t) ==
    LET b == RecycleDataPages(Now, memory_set[t])
    IN  /\ panic = "none"
        /\ t # 0 /\ task[t] = "alive"
        /\ Commit(b, b.mem, kernel_space,
                  [memory_set EXCEPT ![t] = AreasCleared(@)], trap_cx_ppn,
                  [task EXCEPT ![t] = "zombie"])
        /\ UNCHANGED builds

(* sys_waitpid drops the last reference to a task: its kernel stack, then   *)
(* its address space.                                                       *)
Reap(t) ==
    LET k == RemoveAreaWithStartVpn(InSpace(Now, kernel_space), KernelStackBottom(t))
        b == DropSpace(k, memory_set[t])
    IN  /\ panic = "none"
        /\ task[t] = "zombie"
        /\ Commit(b, b.mem, SpaceOf(k), [memory_set EXCEPT ![t] = NoSpace],
                  [trap_cx_ppn EXCEPT ![t] = 0], [task EXCEPT ![t] = "none"])
        /\ UNCHANGED builds

(* A program stores into one of its pages, or the kernel does so for it     *)
(* through translated_byte_buffer; both walk the task's table.              *)
Store(t, vpn, v) ==
    LET e == Translate(mem, Head(memory_set[t].nodes), vpn)
    IN  /\ panic = "none"
        /\ task[t] = "alive"
        /\ {"V", "U", "W"} \subseteq e.flags
        /\ mem' = [mem EXCEPT ![e.ppn][0] = Data(v)]
        /\ UNCHANGED <<frame_current, frame_recycled, kernel_space, memory_set,
                       trap_cx_ppn, task, panic, builds>>

(* virtio_virt_to_phys, of an address in words.                             *)
VirtToPhys(va) ==
    Translate(mem, Head(kernel_space.nodes), va \div PTES).ppn * PTES + (va % PTES)

(* The words the disk transfers for a buffer of the kernel: Descriptor's    *)
(* set_buf translates the first one and gives the length.                   *)
DmaWords(va, len) == [i \in 0 .. len - 1 |-> VirtToPhys(va) + i]

Next ==
    \E t \in Pids :
        \/ \E c \in Pids : Fork(t, c)
        \/ \E program \in Programs : Exec(t, program)
        \/ Exit(t)
        \/ Reap(t)
        \/ \E vpn \in Pages, v \in Values : Store(t, vpn, v)

Spec == Init /\ [][Next]_vars

-----------------------------------------------------------------------------
Spaces == [nodes : Seq(Frames),
           areas : Seq([start : Nat, pages : Nat, perm : SUBSET {"R", "W", "X", "U"},
                        frames : Seq(Frames)])]

TypeOK ==
    /\ mem \in [Frames -> [0 .. PTES - 1 -> Word]]
    /\ frame_current \in MemoryStart .. MemoryEnd
    /\ frame_recycled \in Seq(Frames)
    /\ kernel_space \in Spaces
    /\ memory_set \in [Pids -> Spaces]
    /\ trap_cx_ppn \in [Pids -> {0} \cup Frames]
    /\ task \in [Pids -> {"none", "alive", "zombie"}]
    /\ panic \in {"none", "space", "assert"}
    /\ builds \in 0 .. MaxBuilds

Alive == {t \in Pids : task[t] = "alive"}

(* The frames of a space: column 0 has the nodes of its page table, the     *)
(* others the pages of its areas.                                           *)
Column(space, k) == IF k = 0 THEN space.nodes ELSE space.areas[k].frames

Owned(space) == UNION {Range(Column(space, k)) : k \in 0 .. Len(space.areas)}

OwnedOnce(space) ==
    \A k, l \in 0 .. Len(space.areas) :
        \A i \in DOMAIN Column(space, k), j \in DOMAIN Column(space, l) :
            Column(space, k)[i] = Column(space, l)[j] => k = l /\ i = j

(* Every frame that was ever handed out is either in the recycled stack,    *)
(* once, or has one owner, once: a node of one page table or a page of one  *)
(* area.  No frame is lost by fork, exec, exit and waitpid in any order,    *)
(* shared by two owners, or free while somebody owns it.                    *)
FramesOwnedOnce ==
    LET free   == Range(frame_recycled)
        kernel == Owned(kernel_space)
    IN  /\ \A i, j \in DOMAIN frame_recycled :
             frame_recycled[i] = frame_recycled[j] => i = j
        /\ OwnedOnce(kernel_space) /\ \A t \in Pids : OwnedOnce(memory_set[t])
        /\ free \cap kernel = {}
        /\ \A t \in Pids : Owned(memory_set[t]) \cap (free \cup kernel) = {}
        /\ \A t, u \in Pids :
             t # u => Owned(memory_set[t]) \cap Owned(memory_set[u]) = {}
        /\ free \cup kernel \cup UNION {Owned(memory_set[t]) : t \in Pids}
             = MemoryStart .. frame_current - 1

(* What the walk of a space's page table must find at page vpn.             *)
Promised(space, vpn) ==
    LET at == {k \in DOMAIN space.areas :
                 vpn \in space.areas[k].start
                           .. space.areas[k].start + space.areas[k].pages - 1}
    IN  IF vpn = TRAMPOLINE
        THEN {[ppn |-> strampoline, flags |-> {"V", "R", "X"}]}
        ELSE {[ppn   |-> space.areas[k].frames[vpn - space.areas[k].start + 1],
               flags |-> space.areas[k].perm \cup {"V"}] : k \in at}

(* The table of every living task and of the kernel, read from memory as    *)
(* the MMU reads it, maps each page of its areas to the frame the area      *)
(* owns, with the area's permissions, and no other page: a page that was    *)
(* unmapped, a guard page or a dirty node never translates.                 *)
TablesDescribeAreas ==
    \A space \in {kernel_space} \cup {memory_set[t] : t \in Alive} :
        \A vpn \in 0 .. TRAMPOLINE :
            LET e == Translate(mem, Head(space.nodes), vpn)
            IN  (IF Valid(e) THEN {e} ELSE {}) = Promised(space, vpn)

(* Address spaces are consistent: the allocator, the areas and the page     *)
(* tables in memory agree on who owns and who reaches a frame, through      *)
(* fork, exec, exit and the drops of waitpid.                               *)
SpacesConsistent == TypeOK /\ FramesOwnedOnce /\ TablesDescribeAreas

(* The frame number the kernel caches for the trap context is the one the   *)
(* table of the task gives, across exec, and the kernel stack pointer in it *)
(* is the task's own, after fork copied its parent's.                       *)
TrapContextCurrent ==
    \A t \in Alive :
        /\ trap_cx_ppn[t] = Translate(mem, Head(memory_set[t].nodes), TRAP_CONTEXT).ppn
        /\ mem[trap_cx_ppn[t]][0] = Data(KernelStackTop(t))

(* No frame is given back twice, no page mapped twice and no unmapped page  *)
(* unmapped: the asserts of the allocator and the page table never fail.    *)
NoAssertFails == panic # "assert"

UserPages(t) == {vpn \in 0 .. TRAMPOLINE :
                   {"V", "U"} \subseteq Translate(mem, Head(memory_set[t].nodes), vpn).flags}

Image == [t \in Alive |-> [vpn \in UserPages(t) |->
            mem[Translate(mem, Head(memory_set[t].nodes), vpn).ppn][0].ppn]]

Answers == [t \in Alive |-> mem[trap_cx_ppn[t]][1].ppn]

Private == INSTANCE PrivateMemory WITH alive <- Alive, image <- Image, a0 <- Answers

(* Every task has a memory of its own: fork gives the child a copy and two  *)
(* different answers, exec a fresh image, and nothing a task or its kernel  *)
(* code does changes the memory of another.                                 *)
ImplementsPrivateMemory == Private!PrivateSpec

(* The comment on BlockDevice::read_block: the block is read into the       *)
(* buffer, here one of two words anywhere on a task's kernel stack, as      *)
(* BlockCache::new passes it.                                               *)
DmaReachesBuffer ==
    \A t \in Alive :
        \A va \in KernelStackBottom(t) * PTES .. KernelStackTop(t) * PTES - 2 :
            DmaWords(va, 2) = [i \in 0 .. 1 |-> VirtToPhys(va + i)]

=============================================================================
