------------------------------ MODULE Process ------------------------------
(***************************************************************************)
(* Process management of the kernel: the task control blocks               *)
(* (os/src/task/task.rs), the pid allocator and the kernel stacks          *)
(* (task/pid.rs), the FIFO ready queue (task/manager.rs), the processor    *)
(* and its idle loop (task/processor.rs), suspend and exit (task/mod.rs),  *)
(* the process system calls (syscall/process.rs), the stdin read that      *)
(* blocks inside a system call (syscall/fs.rs, fs/stdio.rs) and the traps  *)
(* that lead to them (trap/mod.rs).                                        *)
(*                                                                         *)
(* The kernel runs with interrupts off, on one hart: a handler is one      *)
(* atomic step, and tasks interleave only where a handler calls __switch   *)
(* (suspend, exit, an empty stdin).  User programs are arbitrary ("app"),  *)
(* except initproc (user/src/bin/initproc.rs) and the wait loop of the     *)
(* user library (user/src/lib.rs), whose next call is given by upc.        *)
(***************************************************************************)
EXTENDS Integers, Sequences, Functions, SequencesExt

CONSTANTS
    Tcb,         \* heap slots for TaskControlBlocks; their number bounds the tasks
    INITPROC,    \* the slot of the initial process (task/mod.rs:26)
    NoTask,      \* None of Option<Arc<TaskControlBlock>> and Option<Weak<..>>
    ExitCodes,   \* what an app passes to exit
    WaitPids,    \* the pids an app passes to waitpid, -1 (any child) included
    Files,       \* what exec finds under the name: "elf", "missing" or "other"
    ExitCodePtrs, \* where waitpid stores the code: "mapped" or "null"
    Unsupported  \* what apps do that the kernel has no arm for: a "trap", a "call"

ASSUME ProcessAssumption ==
    /\ INITPROC \in Tcb
    /\ NoTask \notin Tcb
    /\ ExitCodes \subseteq Int
    /\ WaitPids \subseteq Int
    /\ Files \subseteq {"elf", "missing", "other"}
    /\ ExitCodePtrs \subseteq {"mapped", "null"}
    /\ Unsupported \subseteq {"trap", "call"}

VARIABLES
    pid_current, \* PidAllocator.current
    recycled,    \* PidAllocator.recycled, a stack
    kstacks,     \* pids whose kernel stack is mapped in KERNEL_SPACE
    task_status, \* per slot: Free (no TCB there), Ready, Running, Zombie
    pid,         \* per slot: the PidHandle
    parent,      \* per slot: the Weak reference to the parent
    children,    \* per slot: the Vec of Arcs to the children
    exit_code,   \* per slot
    upc,         \* per slot: what its user program (or blocked call) does next
    ready_queue, \* TaskManager.ready_queue
    current,     \* Processor.current
    ret,         \* what the system call just finished returned, and to whom
    panicked     \* an assert, an unwrap or a RefCell borrow failed in the kernel

pidVars   == <<pid_current, recycled, kstacks>>
schedVars == <<ready_queue, current>>
vars == <<pid_current, recycled, kstacks, task_status, pid, parent, children,
          exit_code, upc, ready_queue, current, ret, panicked>>

Status == {"Free", "Ready", "Running", "Zombie"}

(* The points a user program can be at.  "app": any call is possible.       *)
(* "wait", "wait_yield": in the loop of user_lib::wait.  "stdin": inside    *)
(* the kernel, in the loop of Stdin::read.  "trap", "call": it trapped with *)
(* a cause, or made a call, that the kernel does not support.               *)
UserPc == {"app", "init_start", "init_child", "init_failed",
           "wait", "wait_yield", "stdin", "trap", "call"}

Replies == [pid : Int, call : {"none", "fork", "exec", "waitpid", "read"},
            arg : Int, val : Int, code : Int]

NoRet == [pid |-> -1, call |-> "none", arg |-> 0, val |-> 0, code |-> 0]

(* The call of t with this argument (0 when it has none) returned val; the  *)
(* code is what waitpid stored through its pointer.                         *)
Reply(t, call, arg, val, code) ==
    [pid |-> pid[t], call |-> call, arg |-> arg, val |-> val, code |-> code]

TypeOK ==
    /\ pid_current \in Nat
    /\ recycled \in Seq(Nat)
    /\ kstacks \subseteq Nat
    /\ task_status \in [Tcb -> Status]
    /\ pid \in [Tcb -> Nat]
    /\ parent \in [Tcb -> Tcb \cup {NoTask}]
    /\ children \in [Tcb -> Seq(Tcb)]
    /\ exit_code \in [Tcb -> Int]
    /\ upc \in [Tcb -> UserPc]
    /\ ready_queue \in Seq(Tcb)
    /\ current \in Tcb \cup {NoTask}
    /\ ret \in Replies
    /\ panicked \in BOOLEAN

(* Boot has created INITPROC with pid 0 and queued it (add_initproc).       *)
Init ==
    /\ pid_current = 1
    /\ recycled = <<>>
    /\ kstacks = {0}
    /\ task_status = [t \in Tcb |-> IF t = INITPROC THEN "Ready" ELSE "Free"]
    /\ pid = [t \in Tcb |-> 0]
    /\ parent = [t \in Tcb |-> NoTask]
    /\ children = [t \in Tcb |-> <<>>]
    /\ exit_code = [t \in Tcb |-> 0]
    /\ upc = [t \in Tcb |-> IF t = INITPROC THEN "init_start" ELSE "app"]
    /\ ready_queue = <<INITPROC>>
    /\ current = NoTask
    /\ ret = NoRet
    /\ panicked = FALSE

-----------------------------------------------------------------------------
(* The pid allocator: the last recycled pid, or a new one.                  *)
PidAlloc == IF recycled # <<>> THEN recycled[Len(recycled)] ELSE pid_current

(* Mutant: the recycled pid is read but not popped.                         *)
RecycledNotPopped == recycled

RecycledAfterAlloc ==
    IF recycled # <<>> THEN SubSeq(recycled, 1, Len(recycled) - 1) ELSE recycled

(* Mutant: the counter runs backwards.                                      *)
CurrentDecremented ==
    IF recycled # <<>> THEN pid_current ELSE pid_current - 1

CurrentAfterAlloc ==
    IF recycled # <<>> THEN pid_current ELSE pid_current + 1

(* The asserts of PidAllocator::dealloc.                                    *)
DeallocOK(p) == p < pid_current /\ p \notin Range(recycled)

(* Mutant: the kernel stack stays mapped when its task is dropped.          *)
KernelStackLeaked(p) == kstacks

(* KernelStack::drop removes the area from KERNEL_SPACE.                    *)
KernelStackDrop(p) == kstacks \ {p}

(* Some strong reference to t is left when the children vectors are ch, the *)
(* queue is q and the processor holds c.  A task inside Stdin::read is also *)
(* referenced from its own kernel stack (sys_read's task), INITPROC from    *)
(* its static.                                                              *)
Referenced(t, ch, q, c) ==
    \/ t = INITPROC
    \/ t = c
    \/ t \in Range(q)
    \/ \E p \in Tcb : t \in Range(ch[p])
    \/ upc[t] = "stdin"

(* t is the running task and its next instruction is in user mode.          *)
InUser(t) == ~panicked /\ current = t /\ upc[t] # "stdin"

(* Mutant: current_task (a clone) where take_current_task is needed.        *)
SuspendWithoutTake(t) ==
    /\ task_status' = [task_status EXCEPT ![t] = "Ready"]
    /\ ready_queue' = Append(ready_queue, t)
    /\ current' = current

(* Mutant: push_front for push_back.                                        *)
SuspendToFront(t) ==
    /\ task_status' = [task_status EXCEPT ![t] = "Ready"]
    /\ ready_queue' = <<t>> \o ready_queue
    /\ current' = NoTask

(* suspend_current_and_run_next, up to its __switch to the idle loop.       *)
Suspend(t) ==
    /\ task_status' = [task_status EXCEPT ![t] = "Ready"]
    /\ ready_queue' = Append(ready_queue, t)
    /\ current' = NoTask

-----------------------------------------------------------------------------
(* run_tasks: the idle loop takes the head of the ready queue.              *)
RunTasks ==
    /\ ~panicked
    /\ current = NoTask
    /\ ready_queue # <<>>
    /\ current' = Head(ready_queue)
    /\ ready_queue' = Tail(ready_queue)
    /\ task_status' = [task_status EXCEPT ![Head(ready_queue)] = "Running"]
    /\ ret' = NoRet
    /\ UNCHANGED <<pidVars, pid, parent, children, exit_code, upc, panicked>>

(* A timer interrupt taken in user mode.                                    *)
Tick(t) ==
    /\ InUser(t)
    /\ Suspend(t)
    /\ ret' = NoRet
    /\ UNCHANGED <<pidVars, pid, parent, children, exit_code, upc, panicked>>

SysYield(t) ==
    /\ InUser(t)
    /\ upc[t] \in {"app", "wait_yield"}
    /\ Suspend(t)
    /\ upc' = [upc EXCEPT ![t] = IF upc[t] = "wait_yield" THEN "wait" ELSE "app"]
    /\ ret' = NoRet
    /\ UNCHANGED <<pidVars, pid, parent, children, exit_code, panicked>>

(* fork copies the caller's user program; the copy differs in the return    *)
(* value, which initproc branches on.  The kernel stack of the new pid must *)
(* not be mapped yet (PageTable::map asserts it).                           *)
SysFork(t) ==
    /\ InUser(t)
    /\ upc[t] \in {"app", "init_start"}
    /\ \E c \in Tcb :
        /\ task_status[c] = "Free"
        /\ pid_current' = CurrentAfterAlloc
        /\ recycled' = RecycledAfterAlloc
        /\ kstacks' = kstacks \cup {PidAlloc}
        /\ panicked' = (PidAlloc \in kstacks)
        /\ task_status' = [task_status EXCEPT ![c] = "Ready"]
        /\ pid' = [pid EXCEPT ![c] = PidAlloc]
        /\ parent' = [parent EXCEPT ![c] = t]
        /\ children' = [children EXCEPT ![t] = Append(@, c)]
        /\ upc' = [upc EXCEPT
              ![t] = IF upc[t] = "init_start" THEN "wait" ELSE "app",
              ![c] = IF upc[t] = "init_start" THEN "init_child" ELSE "app"]
        /\ ready_queue' = Append(ready_queue, c)
        /\ ret' = Reply(t, "fork", 0, PidAlloc, 0)
        /\ UNCHANGED <<exit_code, current>>

(* exec: a missing name returns -1, a file that is not an ELF fails the     *)
(* assert of MemorySet::from_elf.                                           *)
SysExec(t, file) ==
    /\ InUser(t)
    /\ \/ upc[t] = "app"
       \/ upc[t] = "init_child" /\ file # "other"
    /\ upc' = [upc EXCEPT ![t] =
          IF file = "missing" /\ upc[t] = "init_child" THEN "init_failed"
                                                       ELSE "app"]
    /\ panicked' = (file = "other")
    /\ ret' = Reply(t, "exec", 0, IF file = "missing" THEN -1 ELSE 0, 0)
    /\ UNCHANGED <<pidVars, task_status, pid, parent, children, exit_code,
                   schedVars>>

(* Mutant: the children keep the exiting task as their parent.              *)
ParentsKept(t) == parent

(* exit: every child, dead or alive, gets INITPROC as its parent ...        *)
ParentsAfterExit(t) ==
    [c \in Tcb |-> IF c \in Range(children[t]) THEN INITPROC ELSE parent[c]]

(* Mutant: the children are dropped, not adopted.                           *)
ChildrenDropped(t) == [children EXCEPT ![t] = <<>>]

(* Mutant: only the children that have not exited are adopted.              *)
ZombiesNotAdopted(t) ==
    LET alive(c) == task_status[c] # "Zombie"
    IN  [children EXCEPT ![INITPROC] = @ \o SelectSeq(children[t], alive),
                         ![t] = <<>>]

(* ... and is pushed on INITPROC's vector, in order.                        *)
ChildrenAfterExit(t) ==
    [children EXCEPT ![INITPROC] = @ \o children[t], ![t] = <<>>]

(* exit_current_and_run_next.  INITPROC itself would borrow its own inner   *)
(* twice, and a task nobody lists would free the kernel stack it runs on.   *)
ExitCurrent(t, code) ==
    /\ InUser(t)
    /\ task_status' = [task_status EXCEPT ![t] = "Zombie"]
    /\ exit_code' = [exit_code EXCEPT ![t] = code]
    /\ parent' = ParentsAfterExit(t)
    /\ children' = ChildrenAfterExit(t)
    /\ current' = NoTask
    /\ panicked' = \/ t = INITPROC
                   \/ ~Referenced(t, children', ready_queue, NoTask)
    /\ ret' = NoRet
    /\ UNCHANGED <<pidVars, pid, upc, ready_queue>>

SysExit(t, code) ==
    /\ \/ upc[t] = "app"
       \/ upc[t] = "init_failed" /\ code = 0
    /\ ExitCurrent(t, code)

(* A page fault (-2) or an illegal instruction (-3) of the application.     *)
Fault(t, code) ==
    /\ upc[t] = "app"
    /\ code \in {-2, -3}
    /\ ExitCurrent(t, code)

(* A trap that trap_handler has no arm for (a breakpoint, say), or a number *)
(* that syscall has none for: both panic the kernel.                        *)
Panic(t, what) ==
    /\ InUser(t)
    /\ upc[t] = "app"
    /\ upc' = [upc EXCEPT ![t] = what]
    /\ panicked' = TRUE
    /\ ret' = NoRet
    /\ UNCHANGED <<pidVars, task_status, pid, parent, children, exit_code,
                   schedVars>>

(* user_lib::wait is entered; its first call is sys_waitpid(-1).            *)
UserWait(t) ==
    /\ InUser(t)
    /\ upc[t] = "app"
    /\ upc' = [upc EXCEPT ![t] = "wait"]
    /\ ret' = NoRet
    /\ UNCHANGED <<pidVars, task_status, pid, parent, children, exit_code,
                   schedVars, panicked>>

(* Mutant: any child matches, whatever pid is asked for.                    *)
MatchingIgnoresPid(t, w) == DOMAIN children[t]

(* The positions of t's children that waitpid(w) may report.                *)
Matching(t, w) ==
    {i \in DOMAIN children[t] : w = -1 \/ pid[children[t][i]] = w}

(* Mutant: the is_zombie test is missing.                                   *)
ZombiesOrNot(t, w) == Matching(t, w)

(* Mutant: the search for a zombie forgets that -1 means any child.         *)
ZombiesExactPid(t, w) ==
    {i \in Matching(t, w) : /\ task_status[children[t][i]] = "Zombie"
                            /\ pid[children[t][i]] = w}

(* Of the matching children, the zombies.                                   *)
Zombies(t, w) ==
    {i \in Matching(t, w) : task_status[children[t][i]] = "Zombie"}

(* Where t goes on after sys_waitpid returned val: user_lib::wait yields on *)
(* -2 and initproc yields on -1 and waits again after a pid.                *)
AfterWait(t, val) ==
    IF upc[t] = "app" THEN "app"
    ELSE IF val = -2 \/ (t = INITPROC /\ val = -1) THEN "wait_yield"
    ELSE IF t = INITPROC THEN "wait" ELSE "app"

WaitpidFails(t, w, val) ==
    /\ upc' = [upc EXCEPT ![t] = AfterWait(t, val)]
    /\ ret' = Reply(t, "waitpid", w, val, 0)
    /\ UNCHANGED <<pidVars, task_status, pid, parent, children, exit_code,
                   schedVars, panicked>>

(* The child at position i leaves the vector and is dropped: its pid is     *)
(* recycled, its kernel stack unmapped, its slot is free again.             *)
Reap(t, w, i, ptr) ==
    LET c  == children[t][i]
        ch == [children EXCEPT ![t] = RemoveAt(@, i)]
    IN  /\ children' = [ch EXCEPT ![c] = <<>>]
        /\ panicked' = \/ Referenced(c, ch, ready_queue, current)
                       \/ ptr = "null"
                       \/ ~DeallocOK(pid[c])
        /\ recycled' = Append(recycled, pid[c])
        /\ kstacks' = KernelStackDrop(pid[c])
        /\ task_status' = [task_status EXCEPT ![c] = "Free"]
        /\ pid' = [pid EXCEPT ![c] = 0]
        /\ parent' = [parent EXCEPT ![c] = NoTask]
        /\ exit_code' = [exit_code EXCEPT ![c] = 0]
        /\ upc' = [upc EXCEPT ![t] = AfterWait(t, pid[c]), ![c] = "app"]
        /\ ret' = Reply(t, "waitpid", w, pid[c], exit_code[c])
        /\ UNCHANGED <<pid_current, schedVars>>

SysWaitpid(t, w, ptr) ==
    /\ InUser(t)
    /\ \/ upc[t] = "app"
       \/ upc[t] = "wait" /\ w = -1 /\ ptr = "mapped"
    /\ \/ Matching(t, w) = {} /\ WaitpidFails(t, w, -1)
       \/ \E i \in Zombies(t, w) :
             /\ \A j \in Zombies(t, w) : i <= j
             /\ Reap(t, w, i, ptr)
       \/ Matching(t, w) # {} /\ Zombies(t, w) = {} /\ WaitpidFails(t, w, -2)

(* One round of Stdin::read: a character ends the call, none suspends it.   *)
GetChar(t) ==
    /\ \/ /\ upc' = [upc EXCEPT ![t] = "app"]
          /\ ret' = Reply(t, "read", 0, 1, 0)
          /\ UNCHANGED <<task_status, schedVars>>
       \/ /\ upc' = [upc EXCEPT ![t] = "stdin"]
          /\ ret' = NoRet
          /\ Suspend(t)
    /\ UNCHANGED <<pidVars, pid, parent, children, exit_code, panicked>>

SysRead(t) ==
    /\ InUser(t)
    /\ upc[t] = "app"
    /\ GetChar(t)

ResumeRead(t) ==
    /\ ~panicked
    /\ current = t
    /\ upc[t] = "stdin"
    /\ GetChar(t)

-----------------------------------------------------------------------------
TaskStep(t) ==
    \/ Tick(t)
    \/ SysYield(t)
    \/ SysFork(t)
    \/ \E file \in Files : SysExec(t, file)
    \/ \E code \in ExitCodes : SysExit(t, code)
    \/ \E code \in {-2, -3} : Fault(t, code)
    \/ \E what \in Unsupported : Panic(t, what)
    \/ UserWait(t)
    \/ \E w \in WaitPids, ptr \in ExitCodePtrs : SysWaitpid(t, w, ptr)
    \/ SysRead(t)
    \/ ResumeRead(t)

(* After a panic the kernel has shut the machine down.                      *)
Halted == panicked /\ UNCHANGED vars

Next ==
    \/ RunTasks
    \/ \E t \in Tcb : TaskStep(t)
    \/ Halted

Spec == Init /\ [][Next]_vars

(* The idle loop and a task inside Stdin::read run kernel code that nothing *)
(* preempts; a task in user mode is interrupted by the next timer tick.  A  *)
(* task that gets the processor again and again, each time for a whole time *)
(* slice, gets to make the next call of its program: strong fairness, as a  *)
(* slice may end before the call.  Nothing is assumed of apps.              *)
LibraryStep(t) ==
    \/ upc[t] = "init_start" /\ SysFork(t)
    \/ upc[t] = "wait" /\ SysWaitpid(t, -1, "mapped")
    \/ upc[t] = "wait_yield" /\ SysYield(t)

Fairness ==
    /\ WF_vars(RunTasks)
    /\ WF_vars(\E t \in Tcb : Tick(t))
    /\ WF_vars(\E t \in Tcb : ResumeRead(t))
    /\ \A t \in Tcb : SF_vars(LibraryStep(t))

FairSpec == Spec /\ Fairness

-----------------------------------------------------------------------------
Live == {t \in Tcb : task_status[t] # "Free"}

LivePids == {pid[t] : t \in Live}

(* No assert, unwrap or double borrow of the process code fails: the        *)
(* strong_count assert of sys_waitpid, the two asserts of                   *)
(* PidAllocator::dealloc, the assert that a kernel stack is not mapped      *)
(* twice, the borrow of INITPROC in exit, and the drop of a running task.   *)
(* The kernel stops only where an app made a trap or a call that            *)
(* trap_handler and syscall refuse with a panic of their own.               *)
NoPanic == panicked => \E t \in Tcb : upc[t] \in {"trap", "call"}

(* user/src/syscall.rs:80 lets waitpid be called with address 0 for the     *)
(* exit code, "which means that it need not be stored": no such call should *)
(* take the kernel down.                                                    *)
WaitpidNeverPanics == ~(panicked /\ ret.call = "waitpid")

(* A runnable task is in exactly one place, once: the ready queue when it   *)
(* is Ready, the processor when it is Running.  A zombie is in neither      *)
(* (add_task, take_current_task, run_tasks).                                *)
SchedulerOwnsRunnable ==
    /\ IsInjective(ready_queue)
    /\ Range(ready_queue) = {t \in Tcb : task_status[t] = "Ready"}
    /\ \A t \in Tcb : task_status[t] = "Running" <=> t = current

(* Every task but INITPROC is listed by exactly one vector, once, the one   *)
(* of the task its parent reference names, and that task has not exited:    *)
(* what exit's re-parenting and waitpid's removal have to keep true.        *)
ChildrenMatchParents ==
    /\ \A p \in Tcb : IsInjective(children[p])
    /\ \A p, c \in Tcb :
         c \in Range(children[p]) <=> (c \in Live \ {INITPROC} /\ parent[c] = p)
    /\ \A c \in Live \ {INITPROC} :
         parent[c] \in Live /\ task_status[parent[c]] # "Zombie"

(* The parent references have no cycle: they lead every task to INITPROC,   *)
(* in whatever order families exit.                                         *)
RootedAtInitproc ==
    \A S \in SUBSET (Live \ {INITPROC}) :
        S # {} => \E t \in S : parent[t] \notin S

(* Pids are conserved: two tasks never share one, and every pid ever issued *)
(* is either held by a task, zombies included, or recycled exactly once     *)
(* (PidHandle's Drop).                                                      *)
PidsConserved ==
    /\ \A t, u \in Live : pid[t] = pid[u] => t = u
    /\ IsInjective(recycled)
    /\ Range(recycled) \cap LivePids = {}
    /\ Range(recycled) \cup LivePids = 0 .. pid_current - 1

(* A kernel stack is mapped exactly while its task exists, so that a reused *)
(* pid never finds the old stack and no task loses the stack it will be     *)
(* switched to (KernelStack::new, Drop).                                    *)
KernelStacksMatchTasks == kstacks = LivePids

-----------------------------------------------------------------------------
(* A TCB disappears only when the running task, its parent at that moment,  *)
(* collects it with waitpid after it exited (sys_waitpid).                  *)
ReapedByParent(c) ==
    (task_status[c] # "Free" /\ task_status'[c] = "Free") =>
        /\ task_status[c] = "Zombie"
        /\ current = parent[c]
        /\ ret'.call = "waitpid" /\ ret'.val = pid[c] /\ ret'.code = exit_code[c]

OnlyParentReaps == [][\A c \in Tcb : ReapedByParent(c)]_vars

(* A task in the ready queue gets the processor, whatever the others do     *)
(* (the FIFO of TaskManager and the timer).                                 *)
ReadyTaskRuns ==
    \A t \in Tcb : task_status[t] = "Ready" ~> task_status[t] = "Running"

(* A zombie whose parent is initproc, adopted or its own, is collected: it  *)
(* does not keep its pid, kernel stack and page tables for ever.            *)
OrphansAreReaped ==
    \A t \in Tcb :
        (task_status[t] = "Zombie" /\ parent[t] = INITPROC)
            ~> task_status[t] = "Free"

(* A zombie whose parent sits in user_lib::wait is collected, or the parent *)
(* has collected another child and left the loop.                           *)
WaitingParentIsServed ==
    \A t, p \in Tcb :
        (/\ task_status[t] = "Zombie" /\ parent[t] = p
         /\ upc[p] \in {"wait", "wait_yield"})
            ~> (task_status[t] = "Free" \/ upc[p] \notin {"wait", "wait_yield"})

-----------------------------------------------------------------------------
(* The refinement mapping: TCB slots become the pids they carry.            *)
TaskOf(p) == CHOOSE t \in Live : pid[t] = p

TreeAlive == {pid[t] : t \in {u \in Live : task_status[u] # "Zombie"}}

TreeZombie ==
    [p \in {pid[t] : t \in {u \in Live : task_status[u] = "Zombie"}} |-> exit_code[TaskOf(p)]]

TreeParent ==
    [p \in {pid[t] : t \in Live \ {INITPROC}} |-> pid[parent[TaskOf(p)]]]

Tree == INSTANCE ProcTree WITH
    InitPid   <- 0,
    ExitCodes <- ExitCodes \cup {-2, -3, 0},
    alive     <- TreeAlive,
    zombie    <- TreeZombie,
    parentOf  <- TreeParent

(* The kernel implements the process tree its system calls promise.         *)
ImplementsTree == Tree!TreeSpec

=============================================================================
