----------------------------- MODULE FileTable -----------------------------
(***************************************************************************)
(* Files as processes see them: the descriptor table of a task             *)
(* (task/task.rs), open files with their offset (fs/inode.rs), stdin and   *)
(* stdout (fs/stdio.rs) and the calls open, close, read, write             *)
(* (syscall/fs.rs), with the parts of fork, exec, exit and waitpid that    *)
(* touch the table.  easy-fs is the store of named files that EasyFs is    *)
(* shown to implement.                                                     *)
(*                                                                         *)
(* The kernel is not preempted, so a call is one step, except a read of    *)
(* stdin that finds no key: it suspends inside the call.  A user buffer is *)
(* the page slices translated_byte_buffer cuts it into.  A byte is 1 (one  *)
(* character), 2 or 3 (first and second half of a two-byte character).     *)
(***************************************************************************)
EXTENDS Integers, Sequences, FiniteSets, FiniteSetsExt, SequencesExt

CONSTANTS
    Tasks,      \* task control blocks
    InitTask,
    Names,      \* names of files
    InitFiles,  \* the files on the image: a function from some names to bytes
    PAGE_SIZE,
    CHUNK,      \* bytes read_all asks for at a time
    Texts,      \* what is written
    Lens,       \* how much is read
    FlagSets,   \* what open is called with
    Fds,        \* the descriptors calls are made with
    Closed,     \* the ones that are closed
    MaxFds,     \* bound on the length of a table
    MaxOpen,    \* bound on the open files
    MaxSize,    \* bound on the length of a file
    MaxKeys     \* bound on the keys that wait at the console

Bytes == 1 .. 3

Flags == {"WRONLY", "RDWR", "CREATE", "TRUNC"}

ASSUME FileTableAssumption ==
    /\ InitTask \in Tasks
    /\ {PAGE_SIZE, CHUNK, MaxFds} \subseteq Nat \ {0}
    /\ {MaxOpen, MaxSize, MaxKeys} \cup Lens \cup Fds \cup Closed \subseteq Nat
    /\ Texts \subseteq Seq(Bytes)
    /\ \E N \in SUBSET Names : InitFiles \in [N -> Seq(Bytes)]

VARIABLES
    content,    \* easy-fs: the bytes of every existing file
    osinode,    \* the OSInodes that exist
    fd_table,   \* fd_table[t]: a sequence of files and None
    status,     \* "unused", "live", "reading" (suspended in Stdin) or "zombie"
    keys,       \* how many keys wait at the console
    panic,      \* why the kernel stopped, or "none"
    reply,      \* the call just made and its answer
    log         \* history: what was written through each open file that is
                \* alone, opened to write on an empty file nobody else writes

kernelVars == <<content, osinode, fd_table, status, keys, panic>>

vars == <<content, osinode, fd_table, status, keys, panic, reply, log>>

None == 0
Stdin == -1
Stdout == -2

FS == INSTANCE FileStore WITH Writes <- {}, Reads <- {},
          dir <- [n \in DOMAIN content |-> n]

Reply(op, t, fd, name, flags, len, data, res) ==
    [op |-> op, task |-> t, fd |-> fd, name |-> name, flags |-> flags,
     len |-> len, data |-> data, res |-> res]

(* The table TaskControlBlock::new gives to initproc.                       *)
StdTable == <<Stdin, Stdout, Stdout>>

Init ==
    /\ content = InitFiles
    /\ osinode = [f \in {} |-> 0]
    /\ fd_table = [t \in Tasks |-> IF t = InitTask THEN StdTable ELSE <<>>]
    /\ status = [t \in Tasks |-> IF t = InitTask THEN "live" ELSE "unused"]
    /\ keys = 0
    /\ panic = "none"
    /\ reply = Reply("none", InitTask, 0, 0, {}, 0, <<>>, 0)
    /\ log = [f \in {} |-> <<>>]

-----------------------------------------------------------------------------
Running(t) == status[t] = "live" /\ panic = "none"

(* An Arc frees its OSInode with the last table entry that holds it.        *)
Referenced(tables) == UNION {Range(tables[t]) : t \in Tasks}

Collected(objects, tables) ==
    [f \in DOMAIN objects \cap Referenced(tables) |-> objects[f]]

With(f, x, v) == [y \in DOMAIN f \cup {x} |-> IF y = x THEN v ELSE f[y]]

Stop(cause, t) ==
    /\ panic' = cause
    /\ reply' = Reply("panic", t, 0, 0, {}, 0, <<>>, 0)
    /\ UNCHANGED <<content, osinode, fd_table, status, keys, log>>

(* The file descriptor fd of task t stands for; None for no open file.      *)
FileOf(t, fd) == IF fd >= Len(fd_table[t]) THEN None ELSE fd_table[t][fd + 1]

Readable(f) == f = Stdin \/ (f \in DOMAIN osinode /\ osinode[f].readable)

Writable(f) == f = Stdout \/ (f \in DOMAIN osinode /\ osinode[f].writable)

(* translated_byte_buffer: a buffer of len bytes that starts at byte at of  *)
(* a page, as index ranges of the bytes of the buffer in each page.         *)
Slices(at, len) ==
    IF len = 0 THEN <<>>
    ELSE [i \in 1 .. (at + len - 1) \div PAGE_SIZE + 1 |->
            [from |-> Max({1, (i - 1) * PAGE_SIZE - at + 1}),
             to   |-> Min({len, i * PAGE_SIZE - at})]]

(* Inode::read_at.                                                          *)
ReadAt(s, off, len) == SubSeq(s, off + 1, Min({off + len, Len(s)}))

(* Mutant: the offset does not move between two slices.                     *)
ReadSliceAtOnce(r, s, off, sl, len) ==
    LET got == ReadAt(s, off, sl.to - sl.from + 1)
    IN  [buf |-> [i \in 1 .. len |-> IF i - sl.from + 1 \in DOMAIN got
                                    THEN got[i - sl.from + 1] ELSE r.buf[i]],
         n |-> r.n + Len(got), end |-> FALSE]

(* One round of the loop of OSInode::read, also of read_all: fill a slice,  *)
(* stop at the first one that gets nothing.  buf is the caller's buffer.    *)
ReadSlice(r, s, off, sl, len) ==
    LET got == ReadAt(s, off + r.n, sl.to - sl.from + 1)
    IN  IF r.end \/ got = <<>> THEN [buf |-> r.buf, n |-> r.n, end |-> TRUE]
        ELSE [buf |-> [i \in 1 .. len |-> IF i - sl.from + 1 \in DOMAIN got
                                         THEN got[i - sl.from + 1] ELSE r.buf[i]],
              n |-> r.n + Len(got), end |-> FALSE]

(* The loop, slice after slice.                                             *)
SlicesRead(s, off, slices, len) ==
    LET r[k \in 0 .. Len(slices)] ==
          IF k = 0 THEN [buf |-> [i \in 1 .. len |-> 0], n |-> 0, end |-> FALSE]
          ELSE ReadSlice(r[k - 1], s, off, slices[k], len)
    IN  r[Len(slices)]

(* Mutant: the offset is moved once, behind the loop.                       *)
WriteSliceAtOnce(r, off, sl, data) ==
    FS!Overwritten(r, off, SubSeq(data, sl.from, sl.to))

(* One round of the loop of OSInode::write, at the offset the last one left.*)
WriteSlice(r, off, sl, data) ==
    FS!Overwritten(r, off + sl.from - 1, SubSeq(data, sl.from, sl.to))

SlicesWritten(s, off, slices, data) ==
    LET w[k \in 0 .. Len(slices)] ==
          IF k = 0 THEN s ELSE WriteSlice(w[k - 1], off, slices[k], data)
    IN  w[Len(slices)]

(* core::str::from_utf8 accepts a slice: no character is cut.               *)
ValidUtf8(s) == \A i \in DOMAIN s :
    /\ s[i] = 2 => i < Len(s) /\ s[i + 1] = 3
    /\ s[i] = 3 => i > 1 /\ s[i - 1] = 2

-----------------------------------------------------------------------------
(* OpenFlags::read_write.                                                   *)
ReadWrite(flags) ==
    IF flags = {} THEN [readable |-> TRUE, writable |-> FALSE]
    ELSE IF "WRONLY" \in flags THEN [readable |-> FALSE, writable |-> TRUE]
    ELSE [readable |-> TRUE, writable |-> TRUE]

(* alloc_fd: the first empty entry, else a new one at the end.              *)
AllocFd(t) ==
    LET free == {n \in 0 .. Len(fd_table[t]) - 1 : fd_table[t][n + 1] = None}
    IN  IF free = {} THEN Len(fd_table[t]) ELSE Min(free)

(* open_file's effect on the files: CREATE makes a missing file and clears  *)
(* an existing one, TRUNC clears.                                           *)
Opened(name, flags) ==
    IF {"CREATE", "TRUNC"} \cap flags # {} THEN With(content, name, <<>>) ELSE content

(* sys_open: flags that are not defined fail an unwrap, a missing file is   *)
(* an error, otherwise the new OSInode takes the first free descriptor.     *)
SysOpen(t, name, flags) ==
    LET f   == CHOOSE i \in 1 .. Cardinality(DOMAIN osinode) + 1 : i \notin DOMAIN osinode
        fd  == AllocFd(t)
        rw  == ReadWrite(flags)
        others == {g \in DOMAIN osinode : osinode[g].inode = name /\ osinode[g].writable}
        files   == Opened(name, flags)
        emptied == {"CREATE", "TRUNC"} \cap flags # {}
        ended   == IF rw.writable \/ emptied THEN others ELSE {}
        begun   == IF /\ rw.writable /\ others = {}
                      /\ emptied \/ content[name] = <<>> THEN {f} ELSE {}
    IN  /\ Running(t)
        /\ fd < MaxFds /\ Cardinality(DOMAIN osinode) < MaxOpen
        /\ IF ~(flags \subseteq Flags) THEN Stop("flags", t)
           ELSE IF name \notin DOMAIN content /\ "CREATE" \notin flags
           THEN /\ reply' = Reply("open", t, 0, name, flags, 0, <<>>, -1)
                /\ UNCHANGED <<kernelVars, log>>
           ELSE /\ content' = files
                /\ osinode' = With(osinode, f,
                     [readable |-> rw.readable, writable |-> rw.writable,
                      offset |-> 0, inode |-> name])
                /\ fd_table' = [fd_table EXCEPT ![t] =
                     IF fd = Len(@) THEN Append(@, f) ELSE [@ EXCEPT ![fd + 1] = f]]
                /\ reply' = Reply("open", t, 0, name, flags, 0, <<>>, fd)
                /\ log' = [g \in (DOMAIN log \ ended) \cup begun |->
                             IF g = f THEN <<>> ELSE log[g]]
                /\ UNCHANGED <<status, keys, panic>>

SysClose(t, fd) ==
    LET open == FileOf(t, fd) # None
    IN  /\ Running(t)
        /\ fd_table' = IF open THEN [fd_table EXCEPT ![t][fd + 1] = None] ELSE fd_table
        /\ osinode' = Collected(osinode, fd_table')
        /\ reply' = Reply("close", t, fd, 0, {}, 0, <<>>, IF open THEN 0 ELSE -1)
        /\ log' = Collected(log, fd_table')
        /\ UNCHANGED <<content, status, keys, panic>>

(* Mutant: the task's inner stays borrowed while the file is read.          *)
BorrowedWhileReading(t) == {t}

(* sys_read drops its borrow of the task before it calls the file.          *)
HeldWhileReading(t) == {}

(* suspend_current_and_run_next borrows the inner of the task it suspends.  *)
Suspend(t) ==
    IF t \in HeldWhileReading(t) THEN Stop("borrow", t)
    ELSE /\ status' = [status EXCEPT ![t] = "reading"]
         /\ reply' = Reply("block", t, 0, 0, {}, 0, <<>>, 0)
         /\ UNCHANGED <<content, osinode, fd_table, keys, panic, log>>

(* Stdin::read takes buffers of one byte; without a key it suspends.        *)
StdinRead(t, fd, len) ==
    IF len # 1 THEN Stop("stdin_len", t)
    ELSE IF keys = 0 THEN Suspend(t)
    ELSE /\ keys' = keys - 1
         /\ reply' = Reply("read", t, fd, 0, {}, 1, <<1>>, 1)
         /\ UNCHANGED <<content, osinode, fd_table, status, panic, log>>

SysRead(t, fd, at, len) ==
    LET f   == FileOf(t, fd)
        r   == SlicesRead(content[osinode[f].inode], osinode[f].offset,
                          Slices(at, len), len)
    IN  /\ Running(t)
        /\ IF ~Readable(f)
           THEN /\ reply' = Reply("read", t, fd, 0, {}, 0, <<>>, -1)
                /\ UNCHANGED <<kernelVars, log>>
           ELSE IF f = Stdin THEN StdinRead(t, fd, len)
           ELSE /\ osinode' = [osinode EXCEPT ![f].offset = @ + r.n]
                /\ reply' = Reply("read", t, fd, 0, {}, len, r.buf, r.n)
                /\ UNCHANGED <<content, fd_table, status, keys, panic, log>>

(* The suspended reader is scheduled again and finds a key.                 *)
StdinWakes(t) ==
    /\ status[t] = "reading" /\ panic = "none"
    /\ keys > 0
    /\ keys' = keys - 1
    /\ status' = [status EXCEPT ![t] = "live"]
    /\ reply' = Reply("read", t, 0, 0, {}, 1, <<1>>, 1)
    /\ UNCHANGED <<content, osinode, fd_table, panic, log>>

(* A key is pressed (external).                                             *)
KeyPressed ==
    /\ panic = "none"
    /\ keys < MaxKeys
    /\ keys' = keys + 1
    /\ reply' = Reply("type", InitTask, 0, 0, {}, 0, <<>>, 0)
    /\ UNCHANGED <<content, osinode, fd_table, status, panic, log>>

SysWrite(t, fd, at, data) ==
    LET f  == FileOf(t, fd)
        o  == osinode[f]
        sl == Slices(at, Len(data))
    IN  /\ Running(t)
        /\ f \in DOMAIN osinode => o.offset + Len(data) <= MaxSize
        /\ IF ~Writable(f)
           THEN /\ reply' = Reply("write", t, fd, 0, {}, 0, <<>>, -1)
                /\ UNCHANGED <<kernelVars, log>>
           ELSE IF f = Stdout
           THEN IF \E i \in DOMAIN sl : ~ValidUtf8(SubSeq(data, sl[i].from, sl[i].to))
                THEN Stop("utf8", t)
                ELSE /\ reply' = Reply("write", t, fd, 0, {}, Len(data), data, Len(data))
                     /\ UNCHANGED <<kernelVars, log>>
           ELSE /\ content' = [content EXCEPT ![o.inode] =
                                 SlicesWritten(@, o.offset, sl, data)]
                /\ osinode' = [osinode EXCEPT ![f].offset = @ + Len(data)]
                /\ reply' = Reply("write", t, fd, 0, {}, Len(data), data, Len(data))
                /\ log' = IF f \in DOMAIN log THEN [log EXCEPT ![f] = @ \o data] ELSE log
                /\ UNCHANGED <<fd_table, status, keys, panic>>

(* fork clones every entry: the child holds the same OSInodes.              *)
ForkedTable(t) == fd_table[t]

Fork(t, c) ==
    /\ Running(t)
    /\ status[c] = "unused"
    /\ status' = [status EXCEPT ![c] = "live"]
    /\ fd_table' = [fd_table EXCEPT ![c] = ForkedTable(t)]
    /\ reply' = Reply("fork", t, 0, 0, {}, 0, <<>>, c)
    /\ UNCHANGED <<content, osinode, keys, panic, log>>

(* sys_exec opens the program read-only, reads it all, keeps the table and  *)
(* drops the OSInode again.                                                 *)
SysExec(t, name) ==
    LET s      == content[name]
        chunks == [i \in 1 .. Len(s) \div CHUNK + 1 |->
                     [from |-> (i - 1) * CHUNK + 1, to |-> i * CHUNK]]
        all    == SlicesRead(s, 0, chunks, Len(s))
    IN  /\ Running(t)
        /\ reply' = IF name \in DOMAIN content
                    THEN Reply("exec", t, 0, name, {}, 0, all.buf, 0)
                    ELSE Reply("exec", t, 0, name, {}, 0, <<>>, -1)
        /\ UNCHANGED <<kernelVars, log>>

(* An exiting task keeps its table until it is collected.                   *)
Exit(t) ==
    /\ Running(t)
    /\ t # InitTask
    /\ status' = [status EXCEPT ![t] = "zombie"]
    /\ reply' = Reply("exit", t, 0, 0, {}, 0, <<>>, 0)
    /\ UNCHANGED <<content, osinode, fd_table, keys, panic, log>>

(* waitpid drops the task control block and with it the table.              *)
Reap(t) ==
    /\ status[t] = "zombie" /\ panic = "none"
    /\ status' = [status EXCEPT ![t] = "unused"]
    /\ fd_table' = [fd_table EXCEPT ![t] = <<>>]
    /\ osinode' = Collected(osinode, fd_table')
    /\ reply' = Reply("wait", t, 0, 0, {}, 0, <<>>, 0)
    /\ log' = Collected(log, fd_table')
    /\ UNCHANGED <<content, keys, panic>>

Next ==
    \/ \E t \in Tasks :
          \/ \E name \in Names : \/ SysExec(t, name)
                                 \/ \E flags \in FlagSets : SysOpen(t, name, flags)
          \/ \E fd \in Closed : SysClose(t, fd)
          \/ \E fd \in Fds :
             \E at \in 0 .. PAGE_SIZE - 1 :
                \/ \E len \in Lens : SysRead(t, fd, at, len)
                \/ \E data \in Texts : SysWrite(t, fd, at, data)
          \/ \E c \in Tasks : Fork(t, c)
          \/ StdinWakes(t) \/ Exit(t) \/ Reap(t)
    \/ KeyPressed

Spec == Init /\ [][Next]_vars

-----------------------------------------------------------------------------
TypeOK ==
    /\ \A n \in DOMAIN content : n \in Names /\ content[n] \in Seq(Bytes \cup {0})
    /\ \A f \in DOMAIN osinode :
         osinode[f] \in [readable : BOOLEAN, writable : BOOLEAN, offset : Nat,
                         inode : DOMAIN content]
    /\ \A t \in Tasks : Range(fd_table[t]) \subseteq
                          DOMAIN osinode \cup {None, Stdin, Stdout}
    /\ status \in [Tasks -> {"unused", "live", "reading", "zombie"}]
    /\ keys \in Nat
    /\ panic \in {"none", "borrow", "flags", "stdin_len", "utf8"}

(* No call borrows a task's inner twice: sys_read lets go of it before a    *)
(* read of stdin suspends the task (syscall/fs.rs).                         *)
NoDoubleBorrow == panic # "borrow"

(* The tables are consistent: no descriptor stands for a file that was      *)
(* dropped, no open file for one that does not exist, and a task that       *)
(* blocks in a read leaves its table to others.                             *)
TablesConsistent == TypeOK /\ NoDoubleBorrow

(* Processes that got a descriptor by fork share one offset: what they      *)
(* write to a new file ends up one behind the other, in the order of the    *)
(* calls, as long as nobody else opens the file to write or to empty it.    *)
ForkedWritersAppend ==
    \A f \in DOMAIN log : content[osinode[f].inode] = log[f]

Live == {t \in Tasks : status[t] # "unused"}

(* The descriptors of a process: the entries of its table that are used.    *)
DescriptorsOf(table) ==
    [fd \in {n \in 0 .. Len(table) - 1 : table[n + 1] # None} |-> table[fd + 1]]

Descriptors == [t \in Live |-> DescriptorsOf(fd_table[t])]

Files == INSTANCE OpenFiles WITH open <- osinode, fds <- Descriptors,
             Std <- DescriptorsOf(StdTable)

(* The descriptors behave as OpenFiles says: slice after slice of a buffer  *)
(* that crosses pages is one transfer, also when another process emptied    *)
(* the file behind this offset (OSInode::read, OSInode::write, open_file).  *)
ImplementsOpenFiles == Files!OpenSpec

=============================================================================
