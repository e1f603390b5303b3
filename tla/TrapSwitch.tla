----------------------------- MODULE TrapSwitch -----------------------------
(***************************************************************************)
(* How the processor moves between programs and the kernel: trap.S,        *)
(* switch.S, trap_handler and trap_return, and the switch through the idle *)
(* loop.  The processor, its control registers and its translation         *)
(* look-aside buffer are state; a trap context lives in a frame of the     *)
(* program's address space, and what a suspended handler was doing lives   *)
(* on a kernel stack, in a frame of the kernel's address space.            *)
(*                                                                         *)
(* A kernel stack is modelled by its top page.  The top page of the stack  *)
(* of process 0 and the trap context of every program have the same        *)
(* virtual address, in different address spaces.                           *)
(***************************************************************************)
EXTENDS Integers, Sequences

CONSTANTS Pids,      \* 0 .. n, pids and kernel stacks
          Frames,    \* physical frames for trap contexts and kernel stacks
          UserRegs,  \* the registers programs may come to have
          AppRegs,   \* the registers app_init_context gives a program
          Tps,       \* values of the register tp
          None

KERNEL == "kernel"

(* The registers programs and trap contexts hold.                           *)
Regs == [x : {r.x : r \in UserRegs \cup {AppRegs}},
         sp : {r.sp : r \in UserRegs \cup {AppRegs}},
         a0 : Int, pc : Nat]

ASSUME PidsAssumption ==
    /\ 0 \in Pids
    /\ None \notin Pids \cup Frames
    /\ KERNEL \notin Frames
    /\ Pids \subseteq Nat
    /\ UserRegs \cup {AppRegs} \subseteq Regs

VARIABLES cpu,      \* the registers: x (all but tp and the next), sp, a0, pc
          tp,       \* the register tp
          satp, sscratch, stvec, scause,
          tlb,      \* [page -> frame or None]
          at,       \* the code the processor is in
          current,  \* the running process, or None
          queue,    \* ready processes
          status, parent, kstack, taskCx,   \* task control blocks
          space,    \* its user space: the frame of its trap context
          mem       \* what the frames hold

vars == <<cpu, tp, satp, sscratch, stvec, scause, tlb, at, current, queue, status,
          parent, kstack, taskCx, space, mem>>

control == <<scause, current, queue, status, parent, kstack, taskCx, space>>

(* Virtual pages are named by the kernel stack that has them.               *)
TRAP_CONTEXT == 0

UserSp(v) == <<"user", v>>

TrapCxSp == <<"trap_cx">>

(* kernel_stack_position.                                                   *)
StackTop(p) == <<"stack", p>>

BootSp == <<"boot">>

Junk == [holds |-> "junk"]

Used == {f \in Frames : \E p \in Pids : kstack[p] = f \/ space[p] = f}

(* The page tables, as satp selects them.                                   *)
Table(root, page) ==
    IF root = KERNEL THEN kstack[page]
    ELSE IF page = TRAP_CONTEXT THEN root ELSE None

Translated(root, buffer, page) ==
    IF buffer[page] # None THEN buffer[page] ELSE Table(root, page)

NotFenced(buffer) == buffer

(* sfence.vma                                                               *)
Fenced(buffer) == [page \in Pids |-> None]

-----------------------------------------------------------------------------
(* Trap contexts and task contexts.                                         *)

AppInitContext(kernelSp) ==
    [holds |-> "trap_cx", regs |-> AppRegs, kernel_sp |-> kernelSp]

GotoTrapReturn(p) == [ra |-> "trap_return", sp |-> StackTop(p)]

(* A suspended handler: what it does when schedule returns.                 *)
Suspended(call) == [holds |-> "handler", call |-> call]

Init ==
    /\ \E f \in Frames : \E k \in Frames \ {f} :
          /\ space = [p \in Pids |-> IF p = 0 THEN f ELSE None]
          /\ kstack = [p \in Pids |-> IF p = 0 THEN k ELSE None]
          /\ mem = [g \in Frames |-> IF g = f THEN AppInitContext(StackTop(0)) ELSE Junk]
    /\ cpu = [x |-> KERNEL, sp |-> BootSp, a0 |-> 0, pc |-> 0]
    /\ tp \in Tps
    /\ satp = KERNEL /\ sscratch = BootSp /\ stvec = "trap_from_kernel" /\ scause = "none"
    /\ tlb = [page \in Pids |-> None]
    /\ at = "idle" /\ current = None /\ queue = <<0>>
    /\ status = [p \in Pids |-> IF p = 0 THEN "Ready" ELSE "None"]
    /\ parent = [p \in Pids |-> None]
    /\ taskCx = [p \in Pids |-> GotoTrapReturn(0)]

(* The hardware may walk the current table and keep the result at any time. *)
TlbFill ==
    /\ at \notin {"panic", "halted"}
    /\ \E page \in Pids :
          /\ tlb[page] = None /\ Table(satp, page) # None
          /\ tlb' = [tlb EXCEPT ![page] = Table(satp, page)]
    /\ UNCHANGED <<tp, cpu, satp, sscratch, stvec, at, mem, control>>

-----------------------------------------------------------------------------
(* User mode, and the way in.                                               *)

UserRuns ==
    /\ at = "user"
    /\ \E r \in UserRegs : cpu' = r
    /\ \E t \in Tps : tp' = t
    /\ UNCHANGED <<satp, sscratch, stvec, tlb, at, mem, control>>

RoomToFork ==
    /\ \E c \in Pids : status[c] = "None"
    /\ \E f \in Frames \ Used : Frames \ Used # {f}

(* A trap jumps to stvec.  A page fault or an illegal instruction, the      *)
(* timer, a call, or any other (a breakpoint, a misaligned access ...).     *)
(* Bounds: calls are the ones of UserRegs, made at their pcs, so that pc    *)
(* stays finite; a program forks when there is a pid and memory; process 0, *)
(* initproc, neither faults nor exits.                                      *)
Trap(cause) ==
    /\ at = "user"
    /\ cause = "ecall" => \E r \in UserRegs : r.x = cpu.x /\ r.pc = cpu.pc
    /\ cause = "ecall" /\ cpu.x = "fork" => RoomToFork
    /\ cause = "fault" \/ (cause = "ecall" /\ cpu.x = "exit") => current # 0
    /\ scause' = cause
    /\ at' = IF stvec = "alltraps" THEN "alltraps" ELSE "panic"
    /\ UNCHANGED <<tp, cpu, satp, sscratch, stvec, tlb, mem,
                   current, queue, status, parent, kstack, taskCx, space>>

(* The registers as the context is to hold them; sp went to sscratch.  tp   *)
(* is not among them: "application does not use it".                        *)
SaveContext(cx) == [cx EXCEPT !.regs = cpu]

(* Exchange sp and sscratch, save the registers but tp through the table of *)
(* the program, take the kernel's stack and table from the context, fence.  *)
Alltraps ==
    /\ at = "alltraps"
    /\ LET frame == Translated(satp, tlb, TRAP_CONTEXT)
           cx    == mem[frame]
       IN  IF sscratch # TrapCxSp \/ cx.holds # "trap_cx"
           THEN at' = "panic" /\ UNCHANGED <<cpu, satp, sscratch, tlb, mem>>
           ELSE /\ mem' = [mem EXCEPT ![frame] = SaveContext(cx)]
                /\ sscratch' = cpu.sp
                /\ cpu' = [x |-> KERNEL, sp |-> cx.kernel_sp, a0 |-> 0, pc |-> 0]
                /\ satp' = KERNEL
                /\ tlb' = Fenced(tlb)
                /\ at' = "handler"
    /\ UNCHANGED <<tp, stvec, control>>

-----------------------------------------------------------------------------
(* trap_handler.                                                            *)

(* The context of the running process: by its frame, not by its page.       *)
TrapCx == mem[space[current]]

Advanced(cx) == [cx EXCEPT !.regs.pc = @ + 1]

(* sepc is moved past the ecall, the call made, and x[10] set to the result *)
(* in the context the process has after the call.                           *)
SetResult(memory, frame, result) == [memory EXCEPT ![frame].regs.a0 = result]

InCall(call) ==
    /\ at = "handler" /\ scause = "ecall" /\ TrapCx.regs.x = call
    /\ stvec' = "trap_from_kernel"

Entered == [mem EXCEPT ![space[current]] = Advanced(TrapCx)]

(* schedule from within a handler: it leaves its frames on the kernel stack *)
(* and its ra and sp in the task context, and the idle loop goes on.        *)
Schedule(call, memory) ==
    LET frame == Translated(satp, tlb, cpu.sp[2])
    IN  /\ taskCx' = [taskCx EXCEPT ![current] = [ra |-> "schedule", sp |-> cpu.sp]]
        /\ mem' = [memory EXCEPT ![frame] = Suspended(call)]
        /\ cpu' = [cpu EXCEPT !.sp = BootSp]
        /\ at' = "idle"

(* suspend_current_and_run_next.                                            *)
Suspend(call, memory) ==
    /\ status' = [status EXCEPT ![current] = "Ready"]
    /\ queue' = Append(queue, current)
    /\ current' = None
    /\ Schedule(call, memory)
    /\ UNCHANGED <<tp, satp, sscratch, tlb, scause, parent, kstack, space>>

HandleTimer ==
    /\ at = "handler" /\ scause = "timer"
    /\ stvec' = "trap_from_kernel"
    /\ Suspend(FALSE, mem)

SysYield == InCall("yield") /\ Suspend(TRUE, Entered)

(* Any call that answers without touching contexts, stacks or the queue.    *)
SysGetpid ==
    /\ InCall("getpid")
    /\ mem' = SetResult(Entered, space[current], current)
    /\ at' = "trap_return"
    /\ UNCHANGED <<tp, cpu, satp, sscratch, tlb, control>>

ForkedParentStack(cx, c) == [Advanced(cx) EXCEPT !.regs.a0 = 0]

ForkedAtEcall(cx, c) == [cx EXCEPT !.kernel_sp = StackTop(c), !.regs.a0 = 0]

(* The context the child gets: its parent's, past the ecall, with its own   *)
(* kernel stack and the answer 0.                                           *)
ForkedCx(cx, c) == [Advanced(cx) EXCEPT !.kernel_sp = StackTop(c), !.regs.a0 = 0]

SysFork ==
    /\ InCall("fork")
    /\ \E c \in Pids, f \in Frames \ Used : \E k \in Frames \ (Used \cup {f}) :
          /\ status[c] = "None"
          /\ status' = [status EXCEPT ![c] = "Ready"]
          /\ parent' = [parent EXCEPT ![c] = current]
          /\ kstack' = [kstack EXCEPT ![c] = k]
          /\ space' = [space EXCEPT ![c] = f]
          /\ taskCx' = [taskCx EXCEPT ![c] = GotoTrapReturn(c)]
          /\ mem' = SetResult([Entered EXCEPT ![f] = ForkedCx(TrapCx, c)], space[current], c)
          /\ queue' = Append(queue, c)
    /\ at' = "trap_return"
    /\ UNCHANGED <<tp, cpu, satp, sscratch, tlb, scause, current>>

(* The program exists: a new space, with a new context, takes the place of  *)
(* the old one.  Or it does not.                                            *)
SysExec ==
    /\ InCall("exec")
    /\ \/ \E f \in Frames \ Used :
             /\ space' = [space EXCEPT ![current] = f]
             /\ LET loaded == [mem EXCEPT ![space[current]] = Junk,
                                          ![f] = AppInitContext(StackTop(current))]
                IN  mem' = SetResult(loaded, f, 0)
       \/ /\ mem' = SetResult(Entered, space[current], -1)
          /\ UNCHANGED space
    /\ at' = "trap_return"
    /\ UNCHANGED <<tp, cpu, satp, sscratch, tlb, scause, current, queue, status, parent,
                   kstack, taskCx>>

(* A zombie child is dropped: its kernel stack leaves the kernel's table    *)
(* and its frame is free.  No fence.                                        *)
SysWaitpid ==
    /\ InCall("waitpid")
    /\ LET children == {c \in Pids : parent[c] = current}
           zombies  == {c \in children : status[c] = "Zombie"}
       IN  \/ \E c \in zombies :
                /\ mem' = SetResult([Entered EXCEPT ![kstack[c]] = Junk], space[current], c)
                /\ kstack' = [kstack EXCEPT ![c] = None]
                /\ parent' = [parent EXCEPT ![c] = None]
                /\ status' = [status EXCEPT ![c] = "None"]
           \/ \E c \in children \ zombies :
                /\ mem' = SetResult(Entered, space[current], -2)
                /\ UNCHANGED <<kstack, parent, status>>
           \/ /\ mem' = SetResult(Entered, space[current], -1)
              /\ UNCHANGED <<kstack, parent, status>>
    /\ at' = "trap_return"
    /\ UNCHANGED <<tp, cpu, satp, sscratch, tlb, scause, current, queue, taskCx, space>>

(* exit_current_and_run_next: the data pages go, trap context included; the *)
(* kernel stack stays until the parent drops it.                            *)
Exit ==
    /\ \/ at = "handler" /\ scause = "fault" /\ stvec' = "trap_from_kernel"
       \/ InCall("exit")
    /\ status' = [status EXCEPT ![current] = "Zombie"]
    /\ parent' = [c \in Pids |-> IF parent[c] = current THEN 0 ELSE parent[c]]
    /\ mem' = [mem EXCEPT ![space[current]] = Junk]
    /\ space' = [space EXCEPT ![current] = None]
    /\ current' = None
    /\ cpu' = [cpu EXCEPT !.sp = BootSp]
    /\ at' = "idle"
    /\ UNCHANGED <<tp, satp, sscratch, tlb, scause, queue, kstack, taskCx>>

(* The calls syscall knows; getpid stands for the ones of SysGetpid.         *)
Calls == {"getpid", "yield", "fork", "exec", "waitpid", "exit"}

(* Any other trap, and any other call, past whose ecall sepc has been moved:*)
(* the kernel panics and the machine stops.                                 *)
Unsupported ==
    /\ at = "handler"
    /\ \/ scause = "other" /\ mem' = mem
       \/ scause = "ecall" /\ TrapCx.regs.x \notin Calls /\ mem' = Entered
    /\ stvec' = "trap_from_kernel"
    /\ at' = "halted"
    /\ UNCHANGED <<cpu, tp, satp, sscratch, tlb, control>>

Halted == at = "halted" /\ UNCHANGED vars

-----------------------------------------------------------------------------
(* The idle loop and the way out.                                           *)

(* run_tasks: __switch takes ra and sp from the task context.               *)
RunTasks ==
    /\ at = "idle" /\ queue # <<>>
    /\ LET p == Head(queue)
       IN  /\ current' = p
           /\ status' = [status EXCEPT ![p] = "Running"]
           /\ cpu' = [cpu EXCEPT !.sp = taskCx[p].sp]
           /\ at' = taskCx[p].ra
    /\ queue' = Tail(queue)
    /\ UNCHANGED <<tp, satp, sscratch, stvec, scause, tlb, parent, kstack, taskCx, space, mem>>

(* schedule returns: the handler goes on with what its stack says.          *)
ResumeHandler ==
    /\ at = "schedule"
    /\ LET frame == Translated(satp, tlb, cpu.sp[2])
       IN  IF mem[frame].holds # "handler"
           THEN at' = "panic" /\ UNCHANGED mem
           ELSE /\ mem' = IF mem[frame].call
                          THEN [SetResult(mem, space[current], 0) EXCEPT ![frame] = Junk]
                          ELSE [mem EXCEPT ![frame] = Junk]
                /\ at' = "trap_return"
    /\ UNCHANGED <<tp, cpu, satp, sscratch, stvec, tlb, control>>

(* trap_return: the user entry, and a jump to __restore.                    *)
TrapReturn ==
    /\ at = "trap_return"
    /\ stvec' = "alltraps"
    /\ at' = "restore"
    /\ UNCHANGED <<tp, cpu, satp, sscratch, tlb, mem, control>>

(* __restore: switch to the table of the program, fence, and load the       *)
(* registers from its context, all but tp, which is as the last program     *)
(* that ran left it.                                                        *)
Restore ==
    /\ at = "restore"
    /\ satp' = space[current]
    /\ tlb' = Fenced(tlb)
    /\ LET cx == mem[Translated(satp', tlb', TRAP_CONTEXT)]
       IN  IF cx.holds # "trap_cx"
           THEN at' = "panic" /\ UNCHANGED <<cpu, sscratch>>
           ELSE cpu' = cx.regs /\ sscratch' = TrapCxSp /\ at' = "user"
    /\ UNCHANGED <<tp, stvec, mem, control>>

Next ==
    \/ TlbFill \/ UserRuns
    \/ \E cause \in {"ecall", "timer", "fault", "other"} : Trap(cause)
    \/ Alltraps \/ HandleTimer \/ SysYield \/ SysGetpid \/ SysFork \/ SysExec
    \/ SysWaitpid \/ Exit \/ Unsupported \/ Halted
    \/ RunTasks \/ ResumeHandler \/ TrapReturn \/ Restore

Spec == Init /\ [][Next]_vars

-----------------------------------------------------------------------------
(* Properties.                                                              *)

Contexts == [holds : {"trap_cx"}, kernel_sp : {StackTop(p) : p \in Pids},
             regs : Regs]

(* The state is well typed; above all, the frame that a process takes for   *)
(* its trap context (trap_cx_ppn) holds a trap context, and nothing that    *)
(* the kernel meets on this path makes it panic, except what a program asks *)
(* for that it does not support ("halted": trap_handler's last arm, and a   *)
(* call that syscall does not know).                                        *)
TypeOK ==
    /\ at \in {"user", "alltraps", "handler", "idle", "schedule", "trap_return",
               "restore", "halted"}
    /\ satp \in Frames \cup {KERNEL}
    /\ tlb \in [Pids -> Frames \cup {None}]
    /\ current \in Pids \cup {None}
    /\ queue \in Seq(Pids)
    /\ \A p \in Pids : space[p] # None => mem[space[p]] \in Contexts

(* A handler runs on the kernel stack of the process it serves, and that    *)
(* stack is mapped, from the trap until trap_return, over any number of     *)
(* switches away and back (kernel_sp in the trap context, sp in the task    *)
(* context): no other process can overwrite what it has there.              *)
KernelOnOwnStack ==
    at \in {"handler", "schedule", "trap_return", "restore"} =>
        /\ cpu.sp = StackTop(current)
        /\ kstack[current] # None

(* The kernel is in a consistent state: contexts are whole, and a handler   *)
(* is on its process's stack (__alltraps, __switch, fork).                  *)
KernelConsistent == TypeOK /\ KernelOnOwnStack

(* The look-aside buffer never holds another frame than the table in force  *)
(* for a page that is mapped, although kernel stacks are unmapped and       *)
(* mapped again without a fence, and the trap context shares its address    *)
(* with the stack of process 0: the fences of __alltraps and __restore      *)
(* are enough.                                                              *)
NoStaleTranslation ==
    \A page \in Pids :
        tlb[page] # None /\ Table(satp, page) # None => tlb[page] = Table(satp, page)

Live == {p \in Pids : space[p] # None}

Machines ==
    INSTANCE UserMachines WITH
        alive  <- Live,
        regs   <- [p \in Live |-> IF p = current /\ at \in {"user", "alltraps"}
                                  THEN cpu ELSE mem[space[p]].regs],
        called <- {p \in Live : LET on == mem[kstack[p]]
                                IN  on.holds = "handler" /\ on.call},
        stopped <- at = "halted"

(* Traps, switches, forks and execs together give every program the         *)
(* registers of a processor of its own but for tp (UserMachines): what it   *)
(* left is what it finds, but for the answer to its call.  tp is one        *)
(* register for all programs, which only they change: a program that uses   *)
(* it, as trap.S assumes none does, may find what another left.             *)
ImplementsMachines == Machines!MachineSpec

=============================================================================
