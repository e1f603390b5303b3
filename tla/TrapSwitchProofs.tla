-------------------------- MODULE TrapSwitchProofs --------------------------
(***************************************************************************)
(* Theorems about TrapSwitch, for any number of processes, frames and      *)
(* register contents: contexts stay whole, handlers stay on their own      *)
(* stack, no stale translation is used, and every program keeps its        *)
(* registers, all but tp.                                                  *)
(***************************************************************************)
EXTENDS TrapSwitch, SeqFacts

InUser == {"user", "alltraps"}

InKernel == {"handler", "schedule", "trap_return", "restore"}

Handlers == [holds : {"handler"}, call : BOOLEAN]

StackTops == {StackTop(p) : p \in Pids}

(* The types of everything, kernel data structures and frames included.     *)
Typed ==
    /\ at \in InUser \cup InKernel \cup {"idle", "halted"}
    /\ satp \in Frames \cup {KERNEL}
    /\ tlb \in [Pids -> Frames \cup {None}]
    /\ current \in Pids \cup {None}
    /\ queue \in Seq(Pids)
    /\ status \in [Pids -> {"None", "Ready", "Running", "Zombie"}]
    /\ parent \in [Pids -> Pids \cup {None}]
    /\ kstack \in [Pids -> Frames \cup {None}]
    /\ space \in [Pids -> Frames \cup {None}]
    /\ taskCx \in [Pids -> [ra : {"trap_return", "schedule"}, sp : StackTops]]
    /\ mem \in [Frames -> Contexts \cup Handlers \cup {Junk}]

(* No frame serves two purposes, and a process has the frames that its      *)
(* status calls for.                                                        *)
FramesOwned ==
    /\ \A p, q \in Pids : kstack[p] # None => /\ kstack[p] = kstack[q] => p = q
                                              /\ kstack[p] # space[q]
    /\ \A p, q \in Pids : space[p] # None /\ space[p] = space[q] => p = q
    /\ \A p \in Pids :
          /\ kstack[p] # None <=> status[p] # "None"
          /\ space[p] # None <=> status[p] \in {"Ready", "Running"}

(* The queue holds each ready process once; the running one is current.     *)
QueueOwnsReady ==
    /\ IsInjective(queue)
    /\ \A p \in Range(queue) : status[p] = "Ready"
    /\ \A p \in Pids : status[p] = "Running" <=> p = current
    /\ current = None <=> at = "idle"

(* A process that was switched away from inside a handler.                  *)
InSchedule(p) ==
    \/ status[p] = "Ready" /\ taskCx[p].ra = "schedule"
    \/ p = current /\ at = "schedule"

(* What each frame holds: contexts know the stack of their process, a stack *)
(* holds a handler exactly while its process is away in schedule, and a     *)
(* free frame holds nothing.                                                *)
FramesHold ==
    /\ \A p \in Pids : space[p] # None =>
          mem[space[p]] \in Contexts /\ mem[space[p]].kernel_sp = StackTop(p)
    /\ \A p \in Pids : status[p] = "Ready" => taskCx[p].sp = StackTop(p)
    /\ \A p \in Pids : kstack[p] # None =>
          IF InSchedule(p) THEN mem[kstack[p]] \in Handlers ELSE mem[kstack[p]] = Junk
    /\ \A f \in Frames \ Used : mem[f] = Junk

(* The control registers, in the program and in the kernel.                 *)
RegistersSet ==
    /\ at \in InUser => /\ satp = space[current] /\ sscratch = TrapCxSp
                        /\ stvec = "alltraps" /\ cpu \in Regs
    /\ at \notin InUser => /\ satp = KERNEL
                           /\ cpu = [x |-> KERNEL, sp |-> cpu.sp, a0 |-> 0, pc |-> 0]
    /\ at = "restore" => stvec = "alltraps"
    /\ at \in InKernel => cpu.sp = StackTop(current)

(* The look-aside buffer agrees with the tables, except that after waitpid  *)
(* an unmapped stack may stay in it until __restore fences.                 *)
BufferAgrees ==
    \A page \in Pids :
        \/ tlb[page] = None
        \/ tlb[page] = Table(satp, page)
        \/ Table(satp, page) = None /\ at \in {"trap_return", "restore"}

(* The inductive invariant.                                                 *)
TrapInv ==
    Typed /\ FramesOwned /\ QueueOwnsReady /\ FramesHold /\ RegistersSet /\ BufferAgrees

(* FramesHold for other contents m of the frames.                           *)
Holds(m) ==
    /\ m \in [Frames -> Contexts \cup Handlers \cup {Junk}]
    /\ \A p \in Pids : space[p] # None =>
          m[space[p]] \in Contexts /\ m[space[p]].kernel_sp = StackTop(p)
    /\ \A p \in Pids : kstack[p] # None =>
          IF InSchedule(p) THEN m[kstack[p]] \in Handlers ELSE m[kstack[p]] = Junk
    /\ \A f \in Frames \ Used : m[f] = Junk

-----------------------------------------------------------------------------
(* Trap contexts.                                                           *)

Answering(cx, a0) == [cx EXCEPT !.regs.a0 = a0]

(* Moving sepc, setting x[10] and building the child's context all give     *)
(* whole contexts.                                                          *)
LEMMA ContextFacts ==
  ASSUME NEW cx \in Contexts
  PROVE  /\ Advanced(cx) \in Contexts
         /\ Advanced(cx).kernel_sp = cx.kernel_sp
         /\ Advanced(cx).regs = [cx.regs EXCEPT !.pc = @ + 1]
         /\ \A a0 \in Int :
              /\ Answering(cx, a0) \in Contexts
              /\ Answering(cx, a0).kernel_sp = cx.kernel_sp
              /\ Answering(cx, a0).regs = [cx.regs EXCEPT !.a0 = a0]
         /\ \A p \in Pids :
              /\ ForkedCx(cx, p) \in Contexts
              /\ ForkedCx(cx, p).kernel_sp = StackTop(p)
              /\ ForkedCx(cx, p).regs = [[cx.regs EXCEPT !.pc = @ + 1] EXCEPT !.a0 = 0]
         /\ cx.regs \in Regs /\ cx.holds = "trap_cx"
<1>1. /\ cx.regs \in Regs /\ cx.holds = "trap_cx"
      /\ cx.kernel_sp \in {StackTop(p) : p \in Pids}
      /\ cx = [holds |-> "trap_cx", kernel_sp |-> cx.kernel_sp, regs |-> cx.regs]
  BY DEF Contexts
<1>2. [cx.regs EXCEPT !.pc = @ + 1] \in Regs
  BY <1>1 DEF Regs
<1>3. ASSUME NEW a0 \in Int PROVE [cx.regs EXCEPT !.a0 = a0] \in Regs
  BY <1>1 DEF Regs
<1>4. Advanced(cx) = [holds |-> "trap_cx", kernel_sp |-> cx.kernel_sp,
                      regs |-> [cx.regs EXCEPT !.pc = @ + 1]]
  BY <1>1 DEF Advanced
<1>5. ASSUME NEW a0 \in Int
      PROVE  Answering(cx, a0) = [holds |-> "trap_cx", kernel_sp |-> cx.kernel_sp,
                                  regs |-> [cx.regs EXCEPT !.a0 = a0]]
  BY <1>1 DEF Answering
<1>6. ASSUME NEW p \in Pids
      PROVE  ForkedCx(cx, p) = [holds |-> "trap_cx", kernel_sp |-> StackTop(p),
                                regs |-> [[cx.regs EXCEPT !.pc = @ + 1] EXCEPT !.a0 = 0]]
  <2> DEFINE cy == Advanced(cx)
  <2>1. /\ cy.regs = [cx.regs EXCEPT !.pc = @ + 1]
        /\ cy = [holds |-> "trap_cx", kernel_sp |-> cx.kernel_sp, regs |-> cy.regs]
    BY <1>4
  <2> HIDE DEF cy
  <2> DEFINE cz == [cy EXCEPT !.kernel_sp = StackTop(p)]
  <2>2. cz = [holds |-> "trap_cx", kernel_sp |-> StackTop(p), regs |-> cy.regs]
    BY <2>1
  <2>3. ForkedCx(cx, p) = [cz EXCEPT !.regs.a0 = 0]
    BY DEF ForkedCx, cy
  <2> HIDE DEF cz
  <2>4. [cz EXCEPT !.regs.a0 = 0]
          = [holds |-> "trap_cx", kernel_sp |-> StackTop(p),
             regs |-> [cy.regs EXCEPT !.a0 = 0]]
    BY <2>2
  <2> QED BY <2>1, <2>3, <2>4
<1>7. [[cx.regs EXCEPT !.pc = @ + 1] EXCEPT !.a0 = 0] \in Regs
  <2> DEFINE r == [cx.regs EXCEPT !.pc = @ + 1]
  <2>1. r \in Regs
    BY <1>2
  <2> HIDE DEF r
  <2>2. [r EXCEPT !.a0 = 0] \in Regs
    BY <2>1 DEF Regs
  <2> QED BY <2>2 DEF r
<1>8. /\ Advanced(cx) \in Contexts
      /\ Advanced(cx).kernel_sp = cx.kernel_sp
      /\ Advanced(cx).regs = [cx.regs EXCEPT !.pc = @ + 1]
  BY <1>1, <1>2, <1>4 DEF Contexts
<1>9. ASSUME NEW a0 \in Int
      PROVE  /\ Answering(cx, a0) \in Contexts
             /\ Answering(cx, a0).kernel_sp = cx.kernel_sp
             /\ Answering(cx, a0).regs = [cx.regs EXCEPT !.a0 = a0]
  BY <1>1, <1>3, <1>5 DEF Contexts
<1>10. ASSUME NEW p \in Pids
       PROVE  /\ ForkedCx(cx, p) \in Contexts
              /\ ForkedCx(cx, p).kernel_sp = StackTop(p)
              /\ ForkedCx(cx, p).regs = [[cx.regs EXCEPT !.pc = @ + 1] EXCEPT !.a0 = 0]
  BY <1>6, <1>7 DEF Contexts
<1> QED BY <1>1, <1>8, <1>9, <1>10

(* The context saved by __alltraps, and the one exec makes.                 *)
LEMMA NewContextFacts ==
  ASSUME NEW p \in Pids
  PROVE  /\ AppInitContext(StackTop(p)) \in Contexts
         /\ AppInitContext(StackTop(p)).kernel_sp = StackTop(p)
         /\ AppInitContext(StackTop(p)).regs = AppRegs
         /\ \A cx \in Contexts : cpu \in Regs =>
               /\ SaveContext(cx) \in Contexts
               /\ SaveContext(cx).kernel_sp = cx.kernel_sp
               /\ SaveContext(cx).regs = cpu
BY PidsAssumption DEF Contexts, AppInitContext, SaveContext, StackTop

(* Setting x[10] in the frame of a context changes that context only.       *)
LEMMA SetResultFacts ==
  ASSUME NEW m, NEW f, NEW a0
  PROVE  SetResult(m, f, a0) = [m EXCEPT ![f] = Answering(m[f], a0)]
BY DEF SetResult, Answering

(* The three kinds of content are told apart by the model.                  *)
LEMMA KindsDiffer ==
  /\ \A cx \in Contexts : cx.holds = "trap_cx"
  /\ \A h \in Handlers : h.holds = "handler" /\ h.call \in BOOLEAN
  /\ Junk.holds = "junk"
BY DEF Contexts, Handlers, Junk

(* The running process is in its own context and on its own stack.          *)
LEMMA CurrentFacts ==
  ASSUME TrapInv, at # "idle"
  PROVE  /\ current \in Pids /\ status[current] = "Running"
         /\ space[current] \in Frames /\ space[current] # None
         /\ kstack[current] \in Frames /\ kstack[current] # None
         /\ mem[space[current]] \in Contexts
         /\ mem[space[current]].kernel_sp = StackTop(current)
         /\ current \notin Range(queue)
<1>1. current \in Pids /\ status[current] = "Running"
  BY DEF TrapInv, Typed, QueueOwnsReady
<1>2. space[current] # None /\ kstack[current] # None
  BY <1>1 DEF TrapInv, FramesOwned
<1>3. current \notin Range(queue)
  BY <1>1 DEF TrapInv, QueueOwnsReady
<1> QED BY <1>1, <1>2, <1>3 DEF TrapInv, Typed, FramesHold

LEMMA HoldsMem == TrapInv => Holds(mem)
BY DEF TrapInv, Typed, FramesHold, Holds

(* Changing the running process's context within its frame.                 *)
LEMMA ContextUpdate ==
  ASSUME TrapInv, at # "idle", NEW m, Holds(m), NEW cx \in Contexts,
         cx.kernel_sp = StackTop(current)
  PROVE  Holds([m EXCEPT ![space[current]] = cx])
<1> DEFINE n == [m EXCEPT ![space[current]] = cx]
<1>1. /\ space[current] \in Frames /\ current \in Pids
      /\ space[current] # None /\ space[current] \in Used
  BY CurrentFacts DEF Used
<1>2. /\ n \in [Frames -> Contexts \cup Handlers \cup {Junk}]
      /\ n[space[current]] = cx
      /\ \A f \in Frames : f # space[current] => n[f] = m[f]
  BY <1>1 DEF Holds
<1> HIDE DEF n
<1>3. ASSUME NEW p \in Pids, space[p] # None
      PROVE  n[space[p]] \in Contexts /\ n[space[p]].kernel_sp = StackTop(p)
  <2>1. CASE p = current
    BY <1>2, <2>1
  <2>2. CASE p # current
    <3>1. space[p] # space[current] /\ space[p] \in Frames
      BY <1>1, <1>3, <2>2 DEF TrapInv, FramesOwned, Typed
    <3> QED BY <1>2, <1>3, <3>1 DEF Holds
  <2> QED BY <2>1, <2>2
<1>4. ASSUME NEW p \in Pids, kstack[p] # None
      PROVE  n[kstack[p]] = m[kstack[p]]
  BY <1>1, <1>2, <1>4 DEF TrapInv, FramesOwned, Typed
<1>5. \A f \in Frames \ Used : n[f] = Junk
  BY <1>1, <1>2 DEF Holds
<1>6. Holds(n)
  BY <1>2, <1>3, <1>4, <1>5 DEF Holds
<1> QED BY <1>6 DEF n

(* On entry the handler has moved sepc.                                     *)
LEMMA EnteredFacts ==
  ASSUME TrapInv, at # "idle"
  PROVE  /\ Holds(Entered)
         /\ Entered[space[current]] = Advanced(TrapCx)
         /\ Advanced(TrapCx) \in Contexts
         /\ Advanced(TrapCx).kernel_sp = StackTop(current)
         /\ \A f \in Frames : f # space[current] => Entered[f] = mem[f]
         /\ \A a0 \in Int :
              /\ Holds(SetResult(Entered, space[current], a0))
              /\ SetResult(Entered, space[current], a0)
                   = [mem EXCEPT ![space[current]] = Answering(Advanced(TrapCx), a0)]
<1>1. /\ TrapCx \in Contexts /\ TrapCx.kernel_sp = StackTop(current)
      /\ space[current] \in Frames /\ current \in Pids
  BY CurrentFacts DEF TrapCx
<1>2. /\ Advanced(TrapCx) \in Contexts
      /\ Advanced(TrapCx).kernel_sp = StackTop(current)
  BY <1>1, ContextFacts
<1>3. Holds(Entered)
  BY <1>2, HoldsMem, ContextUpdate DEF Entered
<1>4. mem \in [Frames -> Contexts \cup Handlers \cup {Junk}]
  BY DEF TrapInv, Typed
<1>5. /\ Entered[space[current]] = Advanced(TrapCx)
      /\ \A f \in Frames : f # space[current] => Entered[f] = mem[f]
  BY <1>1, <1>4 DEF Entered
<1>6. ASSUME NEW a0 \in Int
      PROVE  /\ Holds(SetResult(Entered, space[current], a0))
             /\ SetResult(Entered, space[current], a0)
                  = [mem EXCEPT ![space[current]] = Answering(Advanced(TrapCx), a0)]
  <2>1. Entered \in [Frames -> Contexts \cup Handlers \cup {Junk}]
    BY <1>3 DEF Holds
  <2>2. SetResult(Entered, space[current], a0)
          = [Entered EXCEPT ![space[current]] = Answering(Advanced(TrapCx), a0)]
    <3>1. SetResult(Entered, space[current], a0)
            = [Entered EXCEPT ![space[current]] = Answering(Entered[space[current]], a0)]
      BY SetResultFacts
    <3> QED BY <1>5, <3>1
  <2>3. /\ Answering(Advanced(TrapCx), a0) \in Contexts
        /\ Answering(Advanced(TrapCx), a0).kernel_sp = StackTop(current)
    BY <1>1, <1>2, ContextFacts
  <2>4. Holds([Entered EXCEPT ![space[current]] = Answering(Advanced(TrapCx), a0)])
    BY <1>3, <2>3, ContextUpdate
  <2>5. [Entered EXCEPT ![space[current]] = Answering(Advanced(TrapCx), a0)]
          = [mem EXCEPT ![space[current]] = Answering(Advanced(TrapCx), a0)]
    BY <1>1, <1>4 DEF Entered
  <2> QED BY <2>2, <2>4, <2>5
<1> QED BY <1>2, <1>3, <1>5, <1>6

-----------------------------------------------------------------------------
(* The processor and the look-aside buffer.                                 *)

LEMMA InitInv == Init => TrapInv
<1> SUFFICES ASSUME Init PROVE TrapInv
  OBVIOUS
<1>1. PICK f \in Frames, k \in Frames :
        /\ f # k
        /\ space = [p \in Pids |-> IF p = 0 THEN f ELSE None]
        /\ kstack = [p \in Pids |-> IF p = 0 THEN k ELSE None]
        /\ mem = [g \in Frames |-> IF g = f THEN AppInitContext(StackTop(0)) ELSE Junk]
  BY DEF Init
<1> USE PidsAssumption
<1>2. /\ AppInitContext(StackTop(0)) \in Contexts
      /\ AppInitContext(StackTop(0)).kernel_sp = StackTop(0)
  BY NewContextFacts
<1>3. /\ at = "idle" /\ current = None /\ queue = <<0>> /\ satp = KERNEL
      /\ status = [p \in Pids |-> IF p = 0 THEN "Ready" ELSE "None"]
      /\ parent = [p \in Pids |-> None]
      /\ tlb = [page \in Pids |-> None]
      /\ taskCx = [p \in Pids |-> GotoTrapReturn(0)]
      /\ cpu = [x |-> KERNEL, sp |-> BootSp, a0 |-> 0, pc |-> 0]
  BY DEF Init
<1>4. Typed
  <2>1. at \in InUser \cup InKernel \cup {"idle"} /\ satp \in Frames \cup {KERNEL}
    BY <1>3
  <2>2. queue \in Seq(Pids)
    BY <1>3
  <2>3. taskCx \in [Pids -> [ra : {"trap_return", "schedule"}, sp : StackTops]]
    BY <1>3 DEF GotoTrapReturn, StackTops
  <2>4. mem \in [Frames -> Contexts \cup Handlers \cup {Junk}]
    BY <1>1, <1>2
  <2>5. status \in [Pids -> {"None", "Ready", "Running", "Zombie"}]
    BY <1>3
  <2>6. /\ tlb \in [Pids -> Frames \cup {None}] /\ parent \in [Pids -> Pids \cup {None}]
        /\ kstack \in [Pids -> Frames \cup {None}] /\ space \in [Pids -> Frames \cup {None}]
        /\ current \in Pids \cup {None}
    BY <1>1, <1>3
  <2> QED BY <2>1, <2>2, <2>3, <2>4, <2>5, <2>6 DEF Typed
<1>5. FramesOwned
  BY <1>1, <1>3 DEF FramesOwned
<1>6. QueueOwnsReady
  <2>1. DOMAIN queue = {1} /\ queue[1] = 0
    BY <1>3
  <2>2. IsInjective(queue) /\ Range(queue) = {0}
    BY <2>1, Z3 DEF IsInjective, Range
  <2> QED BY <1>3, <2>2 DEF QueueOwnsReady
<1>7. FramesHold
  <2>1. \A p \in Pids : ~InSchedule(p)
    BY <1>3 DEF InSchedule, GotoTrapReturn
  <2>2. Used = {f, k}
    BY <1>1 DEF Used
  <2>3. \A p \in Pids : status[p] = "Ready" => taskCx[p].sp = StackTop(p)
    BY <1>3 DEF GotoTrapReturn
  <2> QED BY <1>1, <1>2, <2>1, <2>2, <2>3 DEF FramesHold
<1>8. RegistersSet
  BY <1>3 DEF RegistersSet, InUser, InKernel
<1>9. BufferAgrees
  BY <1>3 DEF BufferAgrees
<1> QED BY <1>4, <1>5, <1>6, <1>7, <1>8, <1>9 DEF TrapInv

(* A step that changes neither tasks nor frames keeps what is said about    *)
(* them.                                                                    *)
LEMMA TasksFrame ==
  ASSUME TrapInv, UNCHANGED <<current, queue, status, parent, kstack, taskCx, space>>,
         at # "idle", at' # "idle", at' = "schedule" <=> at = "schedule"
  PROVE  /\ FramesOwned' /\ QueueOwnsReady'
         /\ Holds(mem') => FramesHold' /\ mem' \in [Frames -> Contexts \cup Handlers \cup {Junk}]
<1>1. FramesOwned' /\ QueueOwnsReady'
  BY DEF TrapInv, FramesOwned, QueueOwnsReady
<1>2. (\A p \in Pids : InSchedule(p)' <=> InSchedule(p)) /\ Used' = Used
  BY DEF InSchedule, Used
<1>3. ASSUME Holds(mem') PROVE FramesHold'
  BY <1>2, <1>3 DEF Holds, FramesHold, TrapInv
<1> QED BY <1>1, <1>3 DEF Holds

LEMMA TlbFillInv ==
  ASSUME TrapInv, TlbFill
  PROVE  TrapInv'
<1>1. PICK page \in Pids :
        /\ tlb[page] = None /\ Table(satp, page) # None
        /\ tlb' = [tlb EXCEPT ![page] = Table(satp, page)]
  BY DEF TlbFill
<1>2. UNCHANGED <<cpu, satp, sscratch, stvec, at, mem, current, queue, status,
                  parent, kstack, taskCx, space>>
  BY DEF TlbFill, control
<1>3. \A q \in Pids : Table(satp, q)' = Table(satp, q)
  BY <1>2 DEF Table
<1>4. Table(satp, page) \in Frames
  BY <1>1 DEF Table, TrapInv, Typed
<1>5. Typed'
  BY <1>1, <1>2, <1>4 DEF TrapInv, Typed
<1>6. BufferAgrees'
  BY <1>1, <1>2, <1>3 DEF TrapInv, Typed, BufferAgrees
<1>7. FramesOwned' /\ QueueOwnsReady' /\ FramesHold' /\ RegistersSet'
  BY <1>2 DEF TrapInv, FramesOwned, QueueOwnsReady, FramesHold, RegistersSet,
              InSchedule, Used
<1> QED BY <1>5, <1>6, <1>7 DEF TrapInv

LEMMA UserRunsInv ==
  ASSUME TrapInv, UserRuns
  PROVE  TrapInv'
<1>1. /\ UNCHANGED <<satp, sscratch, stvec, tlb, at, mem, current, queue, status,
                     parent, kstack, taskCx, space>>
      /\ at = "user" /\ cpu' \in UserRegs
  BY DEF UserRuns, control
<1>2. cpu' \in Regs
  BY <1>1, PidsAssumption
<1>3. Typed' /\ FramesOwned' /\ QueueOwnsReady' /\ FramesHold'
  BY <1>1 DEF TrapInv, Typed, FramesOwned, QueueOwnsReady, FramesHold, InSchedule, Used
<1>4. RegistersSet' /\ BufferAgrees'
  BY <1>1, <1>2 DEF TrapInv, RegistersSet, BufferAgrees, InUser, InKernel, Table
<1> QED BY <1>3, <1>4 DEF TrapInv

LEMMA TrapStepInv ==
  ASSUME TrapInv, NEW cause, Trap(cause)
  PROVE  TrapInv' /\ at' = "alltraps"
<1>1. /\ UNCHANGED <<cpu, satp, sscratch, stvec, tlb, mem, current, queue, status,
                     parent, kstack, taskCx, space>>
      /\ at = "user" /\ at' = "alltraps"
  BY DEF Trap, TrapInv, RegistersSet, InUser
<1>2. Typed'
  BY <1>1 DEF TrapInv, Typed, InUser
<1>3. FramesOwned' /\ QueueOwnsReady' /\ FramesHold'
  BY <1>1, TasksFrame, HoldsMem
<1>4. RegistersSet' /\ BufferAgrees'
  BY <1>1 DEF TrapInv, RegistersSet, BufferAgrees, InUser, InKernel, Table
<1> QED BY <1>1, <1>2, <1>3, <1>4 DEF TrapInv

LEMMA TrapReturnInv ==
  ASSUME TrapInv, TrapReturn
  PROVE  TrapInv'
<1>1. /\ UNCHANGED <<cpu, satp, sscratch, tlb, mem, current, queue, status,
                     parent, kstack, taskCx, space>>
      /\ at = "trap_return" /\ at' = "restore" /\ stvec' = "alltraps"
  BY DEF TrapReturn, control
<1>2. Typed'
  BY <1>1 DEF TrapInv, Typed, InKernel
<1>3. FramesOwned' /\ QueueOwnsReady' /\ FramesHold'
  BY <1>1, TasksFrame, HoldsMem
<1>4. RegistersSet' /\ BufferAgrees'
  BY <1>1 DEF TrapInv, RegistersSet, BufferAgrees, InUser, InKernel, Table
<1> QED BY <1>2, <1>3, <1>4 DEF TrapInv

(* The trap context is found in its frame, through the program's table.     *)
LEMMA AlltrapsFrame ==
  ASSUME TrapInv, at = "alltraps"
  PROVE  Translated(satp, tlb, TRAP_CONTEXT) = space[current]
<1>1. satp = space[current] /\ satp # KERNEL
  BY CurrentFacts, PidsAssumption DEF TrapInv, RegistersSet, InUser
<1>2. Table(satp, 0) = space[current]
  BY <1>1 DEF Table, TRAP_CONTEXT
<1>3. tlb[0] = None \/ tlb[0] = Table(satp, 0)
  BY PidsAssumption DEF TrapInv, BufferAgrees
<1> QED BY <1>2, <1>3 DEF Translated, TRAP_CONTEXT

LEMMA AlltrapsInv ==
  ASSUME TrapInv, Alltraps
  PROVE  /\ TrapInv' /\ at' = "handler"
         /\ mem' = [mem EXCEPT ![space[current]] = SaveContext(mem[space[current]])]
<1>1. Translated(satp, tlb, TRAP_CONTEXT) = space[current]
  BY AlltrapsFrame DEF Alltraps
<1> DEFINE cx == mem[space[current]]
<1>2. /\ cx \in Contexts /\ cx.kernel_sp = StackTop(current) /\ cx.holds = "trap_cx"
      /\ space[current] \in Frames /\ current \in Pids
  BY CurrentFacts, KindsDiffer DEF Alltraps
<1>3. sscratch = TrapCxSp /\ cpu \in Regs /\ at = "alltraps"
  BY DEF Alltraps, TrapInv, RegistersSet, InUser
<1>4. /\ UNCHANGED <<current, queue, status, parent, kstack, taskCx, space>>
      /\ mem' = [mem EXCEPT ![space[current]] = SaveContext(cx)]
      /\ cpu' = [x |-> KERNEL, sp |-> StackTop(current), a0 |-> 0, pc |-> 0]
      /\ satp' = KERNEL /\ tlb' = [page \in Pids |-> None] /\ at' = "handler"
  BY <1>1, <1>2, <1>3 DEF Alltraps, control, Fenced
<1>5. SaveContext(cx) \in Contexts /\ SaveContext(cx).kernel_sp = StackTop(current)
  BY <1>2, <1>3, NewContextFacts
<1> HIDE DEF cx
<1>6. Holds(mem')
  BY <1>3, <1>4, <1>5, HoldsMem, ContextUpdate
<1>7. /\ FramesOwned' /\ QueueOwnsReady' /\ FramesHold'
      /\ mem' \in [Frames -> Contexts \cup Handlers \cup {Junk}]
  BY <1>3, <1>4, <1>6, TasksFrame
<1>8. Typed'
  <2>1. /\ at' \in InUser \cup InKernel \cup {"idle", "halted"}
        /\ satp' \in Frames \cup {KERNEL}
        /\ tlb' \in [Pids -> Frames \cup {None}]
    BY <1>4 DEF InKernel
  <2> QED BY <1>4, <1>7, <2>1 DEF TrapInv, Typed
<1>9. RegistersSet'
  BY <1>4 DEF RegistersSet, InUser, InKernel
<1>10. BufferAgrees'
  BY <1>4 DEF BufferAgrees
<1> QED BY <1>4, <1>7, <1>8, <1>9, <1>10 DEF TrapInv, cx

-----------------------------------------------------------------------------
(* trap_handler.                                                            *)

(* In the kernel, the stack pointer leads to the process's own stack.       *)
LEMMA StackFrame ==
  ASSUME TrapInv, at \in {"handler", "schedule"}
  PROVE  Translated(satp, tlb, cpu.sp[2]) = kstack[current]
<1>1. cpu.sp = StackTop(current) /\ satp = KERNEL
  BY DEF TrapInv, RegistersSet, InKernel, InUser
<1>2. cpu.sp[2] = current
  BY <1>1 DEF StackTop
<1>3. Table(satp, current) = kstack[current]
  BY <1>1 DEF Table
<1>4. tlb[current] = None \/ tlb[current] = Table(satp, current)
  BY CurrentFacts DEF TrapInv, BufferAgrees
<1> QED BY <1>2, <1>3, <1>4 DEF Translated

(* A call that answers without changing processes.                          *)
LEMMA ReturnInv ==
  ASSUME TrapInv, at = "handler", at' = "trap_return", Holds(mem'),
         UNCHANGED <<cpu, satp, tlb, current, queue, status, parent, kstack, taskCx, space>>
  PROVE  TrapInv'
<1>1. /\ FramesOwned' /\ QueueOwnsReady' /\ FramesHold'
      /\ mem' \in [Frames -> Contexts \cup Handlers \cup {Junk}]
  BY TasksFrame
<1>2. Typed'
  BY <1>1 DEF TrapInv, Typed, InKernel
<1>3. RegistersSet'
  BY DEF TrapInv, RegistersSet, InUser, InKernel
<1>4. BufferAgrees'
  BY DEF TrapInv, BufferAgrees, Table
<1> QED BY <1>1, <1>2, <1>3, <1>4 DEF TrapInv

LEMMA SysGetpidInv ==
  ASSUME TrapInv, SysGetpid
  PROVE  TrapInv'
<1>1. at = "handler"
  BY DEF SysGetpid, InCall
<1>2. current \in Int
  <2>1. current \in Pids
    BY <1>1, CurrentFacts
  <2> QED BY <2>1, PidsAssumption
<1>3. Holds(mem')
  BY <1>1, <1>2, EnteredFacts DEF SysGetpid
<1> QED BY <1>1, <1>3, ReturnInv DEF SysGetpid, control

(* A trap or a call that is not supported stops the kernel where it is.     *)
LEMMA UnsupportedInv ==
  ASSUME TrapInv, Unsupported
  PROVE  TrapInv'
<1>1. /\ at = "handler" /\ at' = "halted"
      /\ UNCHANGED <<cpu, satp, tlb, current, queue, status, parent, kstack, taskCx, space>>
  BY DEF Unsupported, control
<1>2. Holds(mem')
  BY <1>1, EnteredFacts, HoldsMem DEF Unsupported
<1>3. /\ FramesOwned' /\ QueueOwnsReady' /\ FramesHold'
      /\ mem' \in [Frames -> Contexts \cup Handlers \cup {Junk}]
  BY <1>1, <1>2, TasksFrame
<1>4. Typed'
  BY <1>1, <1>3 DEF TrapInv, Typed
<1>5. RegistersSet'
  BY <1>1 DEF TrapInv, RegistersSet, InUser, InKernel
<1>6. BufferAgrees'
  BY <1>1 DEF TrapInv, BufferAgrees, Table
<1> QED BY <1>3, <1>4, <1>5, <1>6 DEF TrapInv

(* schedule leaves the handler on the process's own stack.                  *)
LEMMA SuspendInv ==
  ASSUME TrapInv, at = "handler", NEW m, Holds(m), NEW call \in BOOLEAN,
         Suspend(call, m)
  PROVE  /\ TrapInv' /\ current' = None
         /\ mem' = [m EXCEPT ![kstack[current]] = Suspended(call)]
<1>0. PICK c \in Pids : c = current
  BY CurrentFacts
<1>1. /\ c \in Pids /\ c # None /\ status[c] = "Running"
      /\ kstack[c] \in Frames /\ kstack[c] # None /\ c \notin Range(queue)
      /\ kstack[c] \in Used
  BY <1>0, CurrentFacts, PidsAssumption DEF Used
<1>2. /\ status' = [status EXCEPT ![c] = "Ready"]
      /\ queue' = Append(queue, c) /\ current' = None
      /\ taskCx' = [taskCx EXCEPT ![c] = [ra |-> "schedule", sp |-> cpu.sp]]
      /\ mem' = [m EXCEPT ![kstack[c]] = Suspended(call)]
      /\ cpu' = [cpu EXCEPT !.sp = BootSp] /\ at' = "idle"
      /\ UNCHANGED <<satp, sscratch, tlb, parent, kstack, space>>
  BY <1>0, StackFrame DEF Suspend, Schedule
<1>3. cpu.sp = StackTop(c)
  BY <1>0 DEF TrapInv, RegistersSet, InKernel
<1>4. Suspended(call) \in Handlers
  BY DEF Suspended, Handlers
<1>5. /\ status'[c] = "Ready" /\ \A p \in Pids : p # c => status'[p] = status[p]
      /\ taskCx'[c] = [ra |-> "schedule", sp |-> StackTop(c)]
      /\ \A p \in Pids : p # c => taskCx'[p] = taskCx[p]
      /\ mem'[kstack[c]] = Suspended(call)
      /\ \A f \in Frames : f # kstack[c] => mem'[f] = m[f]
  BY <1>1, <1>2, <1>3 DEF TrapInv, Typed, Holds
<1>6. Typed'
  <2>1. queue' \in Seq(Pids)
    BY <1>1, <1>2, AppendFacts DEF TrapInv, Typed
  <2>2. mem' \in [Frames -> Contexts \cup Handlers \cup {Junk}]
    BY <1>2, <1>4 DEF Holds
  <2>3. taskCx' \in [Pids -> [ra : {"trap_return", "schedule"}, sp : StackTops]]
    BY <1>1, <1>2, <1>3 DEF TrapInv, Typed, StackTops
  <2>4. /\ status' \in [Pids -> {"None", "Ready", "Running", "Zombie"}]
        /\ at' \in InUser \cup InKernel \cup {"idle", "halted"}
    BY <1>2 DEF TrapInv, Typed
  <2> QED BY <1>2, <2>1, <2>2, <2>3, <2>4 DEF TrapInv, Typed
<1>7. FramesOwned'
  BY <1>1, <1>2, <1>5 DEF TrapInv, FramesOwned
<1>8. QueueOwnsReady'
  <2>1. IsInjective(queue') /\ Range(queue') = Range(queue) \cup {c}
    BY <1>1, <1>2, AppendFacts DEF TrapInv, Typed, QueueOwnsReady
  <2>2. \A p \in Range(queue) : p \in Pids /\ p # c
    BY <1>1 DEF TrapInv, Typed, Range
  <2>3. \A p \in Range(queue') : status'[p] = "Ready"
    BY <1>5, <2>1, <2>2 DEF TrapInv, QueueOwnsReady
  <2>4. \A p \in Pids : status'[p] = "Running" <=> p = current'
    BY <1>0, <1>2, <1>5, PidsAssumption DEF TrapInv, QueueOwnsReady
  <2> QED BY <1>2, <2>1, <2>3, <2>4 DEF QueueOwnsReady
<1>9. FramesHold'
  <2>1. Used' = Used
    BY <1>2 DEF Used
  <2>2. InSchedule(c)' /\ \A p \in Pids : p # c => (InSchedule(p)' <=> InSchedule(p))
    <3>1. InSchedule(c)'
      BY <1>5 DEF InSchedule
    <3>2. ASSUME NEW p \in Pids, p # c PROVE InSchedule(p)' <=> InSchedule(p)
      <4>1. status'[p] = status[p] /\ taskCx'[p] = taskCx[p]
        BY <1>5, <3>2
      <4>2. p # current /\ p # current'
        BY <1>0, <1>2, <3>2, PidsAssumption
      <4> QED BY <4>1, <4>2 DEF InSchedule
    <3> QED BY <3>1, <3>2
  <2>3. ASSUME NEW p \in Pids, space[p] # None
        PROVE  mem'[space[p]] = m[space[p]]
    BY <1>1, <1>5, <2>3 DEF TrapInv, FramesOwned, Typed
  <2>4. ASSUME NEW p \in Pids, kstack[p] # None, p # c
        PROVE  mem'[kstack[p]] = m[kstack[p]]
    BY <1>1, <1>5, <2>4 DEF TrapInv, FramesOwned, Typed
  <2>5. \A p \in Pids : kstack[p] # None =>
          IF InSchedule(p)' THEN mem'[kstack[p]] \in Handlers ELSE mem'[kstack[p]] = Junk
    <3> SUFFICES ASSUME NEW p \in Pids, kstack[p] # None
                 PROVE  IF InSchedule(p)' THEN mem'[kstack[p]] \in Handlers
                                          ELSE mem'[kstack[p]] = Junk
      OBVIOUS
    <3>1. CASE p = c
      BY <1>4, <1>5, <2>2, <3>1
    <3>2. CASE p # c
      <4>1. IF InSchedule(p) THEN m[kstack[p]] \in Handlers ELSE m[kstack[p]] = Junk
        BY DEF Holds
      <4> QED BY <2>2, <2>4, <3>2, <4>1
    <3> QED BY <3>1, <3>2
  <2>6. \A f \in Frames \ Used : mem'[f] = Junk
    BY <1>1, <1>5 DEF Holds
  <2>7. \A p \in Pids : status'[p] = "Ready" => taskCx'[p].sp = StackTop(p)
    BY <1>5 DEF TrapInv, FramesHold
  <2> QED BY <1>2, <2>1, <2>3, <2>5, <2>6, <2>7 DEF FramesHold, Holds
<1>10. RegistersSet'
  <2>1. cpu = [x |-> KERNEL, sp |-> cpu.sp, a0 |-> 0, pc |-> 0] /\ satp = KERNEL
    BY DEF TrapInv, RegistersSet, InUser
  <2>2. cpu' = [x |-> KERNEL, sp |-> BootSp, a0 |-> 0, pc |-> 0]
    BY <1>2, <2>1
  <2> QED BY <1>2, <2>1, <2>2 DEF RegistersSet, InUser, InKernel
<1>11. BufferAgrees'
  BY <1>2 DEF TrapInv, BufferAgrees, Table
<1> QED BY <1>0, <1>2, <1>6, <1>7, <1>8, <1>9, <1>10, <1>11 DEF TrapInv

LEMMA SuspendingInv ==
  ASSUME TrapInv, HandleTimer \/ SysYield
  PROVE  TrapInv'
<1>1. at = "handler"
  BY DEF HandleTimer, SysYield, InCall
<1>2. CASE HandleTimer
  BY <1>1, <1>2, HoldsMem, SuspendInv DEF HandleTimer
<1>3. CASE SysYield
  <2>1. Suspend(TRUE, Entered) /\ Holds(Entered)
    BY <1>1, <1>3, EnteredFacts DEF SysYield
  <2> QED BY <1>1, <2>1, SuspendInv
<1> QED BY <1>2, <1>3

(* What fork does to the frames.                                            *)
LEMMA ForkFrames ==
  ASSUME TrapInv, SysFork
  PROVE  \E d \in Pids, f \in Frames \ Used, k \in Frames \ Used :
           /\ f # k /\ status[d] = "None" /\ d # current
           /\ kstack[d] = None /\ space[d] = None
           /\ status' = [status EXCEPT ![d] = "Ready"]
           /\ parent' = [parent EXCEPT ![d] = current]
           /\ kstack' = [kstack EXCEPT ![d] = k]
           /\ space' = [space EXCEPT ![d] = f]
           /\ taskCx' = [taskCx EXCEPT ![d] = GotoTrapReturn(d)]
           /\ queue' = Append(queue, d)
           /\ mem' \in [Frames -> Contexts \cup Handlers \cup {Junk}]
           /\ mem'[f] = ForkedCx(TrapCx, d)
           /\ mem'[space[current]] = Answering(Advanced(TrapCx), d)
           /\ \A g \in Frames : g \notin {f, space[current]} => mem'[g] = mem[g]
<1>1. at = "handler"
  BY DEF SysFork, InCall
<1>2. PICK d \in Pids, f \in Frames \ Used :
        \E k \in Frames \ (Used \cup {f}) :
          /\ status[d] = "None"
          /\ status' = [status EXCEPT ![d] = "Ready"]
          /\ parent' = [parent EXCEPT ![d] = current]
          /\ kstack' = [kstack EXCEPT ![d] = k]
          /\ space' = [space EXCEPT ![d] = f]
          /\ taskCx' = [taskCx EXCEPT ![d] = GotoTrapReturn(d)]
          /\ mem' = SetResult([Entered EXCEPT ![f] = ForkedCx(TrapCx, d)], space[current], d)
          /\ queue' = Append(queue, d)
  BY DEF SysFork
<1>3. /\ current \in Pids /\ status[current] = "Running"
      /\ space[current] \in Frames /\ space[current] \in Used
      /\ TrapCx \in Contexts
  BY <1>1, CurrentFacts DEF Used, TrapCx
<1>4. d # current /\ kstack[d] = None /\ space[d] = None /\ f # space[current]
  BY <1>2, <1>3 DEF TrapInv, FramesOwned
<1>5. d \in Int
  BY PidsAssumption
<1> DEFINE m == [Entered EXCEPT ![f] = ForkedCx(TrapCx, d)]
<1>6. /\ Entered \in [Frames -> Contexts \cup Handlers \cup {Junk}]
      /\ Entered[space[current]] = Advanced(TrapCx)
      /\ \A g \in Frames : g # space[current] => Entered[g] = mem[g]
  BY <1>1, EnteredFacts DEF Holds
<1>7. ForkedCx(TrapCx, d) \in Contexts
  BY <1>3, ContextFacts
<1>8. /\ m \in [Frames -> Contexts \cup Handlers \cup {Junk}]
      /\ m[f] = ForkedCx(TrapCx, d)
      /\ m[space[current]] = Advanced(TrapCx)
      /\ \A g \in Frames : g \notin {f, space[current]} => m[g] = mem[g]
  BY <1>3, <1>4, <1>6, <1>7
<1>9. mem' = SetResult(m, space[current], d)
  BY <1>2
<1> HIDE DEF m
<1>10. mem' = [m EXCEPT ![space[current]] = Answering(Advanced(TrapCx), d)]
  BY <1>8, <1>9, SetResultFacts
<1>11. Answering(Advanced(TrapCx), d) \in Contexts
  BY <1>3, <1>5, ContextFacts
<1>12. /\ mem' \in [Frames -> Contexts \cup Handlers \cup {Junk}]
       /\ mem'[f] = ForkedCx(TrapCx, d)
       /\ mem'[space[current]] = Answering(Advanced(TrapCx), d)
       /\ \A g \in Frames : g \notin {f, space[current]} => mem'[g] = mem[g]
  BY <1>3, <1>4, <1>8, <1>10, <1>11
<1>13. PICK k \in Frames \ Used :
         /\ f # k /\ status[d] = "None"
         /\ status' = [status EXCEPT ![d] = "Ready"]
         /\ parent' = [parent EXCEPT ![d] = current]
         /\ kstack' = [kstack EXCEPT ![d] = k]
         /\ space' = [space EXCEPT ![d] = f]
         /\ taskCx' = [taskCx EXCEPT ![d] = GotoTrapReturn(d)]
         /\ queue' = Append(queue, d)
  BY <1>2
<1> QED BY <1>4, <1>12, <1>13

LEMMA SysForkInv ==
  ASSUME TrapInv, SysFork
  PROVE  TrapInv'
<1>1. /\ at = "handler" /\ at' = "trap_return"
      /\ UNCHANGED <<cpu, satp, sscratch, tlb, current>>
  BY DEF SysFork, InCall
<1>2. PICK d \in Pids, f \in Frames \ Used, k \in Frames \ Used :
        /\ f # k /\ status[d] = "None" /\ d # current
        /\ kstack[d] = None /\ space[d] = None
        /\ status' = [status EXCEPT ![d] = "Ready"]
        /\ parent' = [parent EXCEPT ![d] = current]
        /\ kstack' = [kstack EXCEPT ![d] = k]
        /\ space' = [space EXCEPT ![d] = f]
        /\ taskCx' = [taskCx EXCEPT ![d] = GotoTrapReturn(d)]
        /\ queue' = Append(queue, d)
        /\ mem' \in [Frames -> Contexts \cup Handlers \cup {Junk}]
        /\ mem'[f] = ForkedCx(TrapCx, d)
        /\ mem'[space[current]] = Answering(Advanced(TrapCx), d)
        /\ \A g \in Frames : g \notin {f, space[current]} => mem'[g] = mem[g]
  BY ForkFrames
<1>3. PICK c \in Pids : c = current
  BY <1>1, CurrentFacts
<1>4. /\ c # None /\ status[c] = "Running" /\ space[c] \in Frames
      /\ space[c] # None /\ space[c] \in Used
      /\ TrapCx \in Contexts /\ TrapCx.kernel_sp = StackTop(c)
      /\ f # space[c] /\ k # space[c]
  BY <1>1, <1>3, CurrentFacts, PidsAssumption DEF Used, TrapCx
<1>5. /\ kstack'[d] = k /\ space'[d] = f /\ status'[d] = "Ready"
      /\ taskCx'[d] = [ra |-> "trap_return", sp |-> StackTop(d)]
      /\ \A p \in Pids : p # d => /\ kstack'[p] = kstack[p] /\ space'[p] = space[p]
                                  /\ status'[p] = status[p] /\ taskCx'[p] = taskCx[p]
  BY <1>2 DEF TrapInv, Typed, GotoTrapReturn
<1>6. \A p \in Pids : kstack[p] # f /\ kstack[p] # k /\ space[p] # f /\ space[p] # k
  BY <1>2 DEF Used
<1>7. f # None /\ k # None /\ f \in Frames /\ k \in Frames
  BY PidsAssumption
<1>8. Typed'
  <2>1. queue' \in Seq(Pids)
    BY <1>2, AppendFacts DEF TrapInv, Typed
  <2>2. taskCx' \in [Pids -> [ra : {"trap_return", "schedule"}, sp : StackTops]]
    BY <1>2 DEF TrapInv, Typed, GotoTrapReturn, StackTops
  <2>3. /\ status' \in [Pids -> {"None", "Ready", "Running", "Zombie"}]
        /\ parent' \in [Pids -> Pids \cup {None}]
        /\ kstack' \in [Pids -> Frames \cup {None}]
        /\ space' \in [Pids -> Frames \cup {None}]
        /\ at' \in InUser \cup InKernel \cup {"idle", "halted"}
    BY <1>1, <1>2, <1>3 DEF TrapInv, Typed, InKernel
  <2> QED BY <1>1, <1>2, <2>1, <2>2, <2>3 DEF TrapInv, Typed
<1>9. FramesOwned'
  <2>1. ASSUME NEW p \in Pids, NEW q \in Pids, kstack'[p] # None
        PROVE  (kstack'[p] = kstack'[q] => p = q) /\ kstack'[p] # space'[q]
    BY <1>2, <1>5, <1>6, <1>7, <2>1 DEF TrapInv, FramesOwned
  <2>2. ASSUME NEW p \in Pids, NEW q \in Pids, space'[p] # None, space'[p] = space'[q]
        PROVE  p = q
    BY <1>5, <1>6, <1>7, <2>2 DEF TrapInv, FramesOwned
  <2>3. ASSUME NEW p \in Pids
        PROVE  /\ kstack'[p] # None <=> status'[p] # "None"
               /\ space'[p] # None <=> status'[p] \in {"Ready", "Running"}
    BY <1>5, <1>7 DEF TrapInv, FramesOwned
  <2> QED BY <2>1, <2>2, <2>3 DEF FramesOwned
<1>10. QueueOwnsReady'
  <2>1. \A p \in Range(queue) : p \in Pids /\ p # d
    <3>1. Range(queue) \subseteq Pids
      BY RangeFacts DEF TrapInv, Typed
    <3> QED BY <1>2, <3>1 DEF TrapInv, QueueOwnsReady
  <2>2. IsInjective(queue') /\ Range(queue') = Range(queue) \cup {d}
    BY <1>2, <2>1, AppendFacts DEF TrapInv, Typed, QueueOwnsReady
  <2>3. \A p \in Range(queue') : status'[p] = "Ready"
    BY <1>5, <2>1, <2>2 DEF TrapInv, QueueOwnsReady
  <2>4. \A p \in Pids : status'[p] = "Running" <=> p = current'
    BY <1>1, <1>2, <1>5 DEF TrapInv, QueueOwnsReady
  <2> QED BY <1>1, <1>3, <1>4, <2>2, <2>3, <2>4 DEF QueueOwnsReady
<1>11. FramesHold'
  <2>1. ~InSchedule(d)'
    BY <1>1, <1>5 DEF InSchedule
  <2>2. ASSUME NEW p \in Pids, p # d PROVE InSchedule(p)' <=> InSchedule(p)
    BY <1>1, <1>5, <2>2 DEF InSchedule
  <2>3. ASSUME NEW p \in Pids, space'[p] # None
        PROVE  mem'[space'[p]] \in Contexts /\ mem'[space'[p]].kernel_sp = StackTop(p)
    <3>1. CASE p = d
      <4>1. ForkedCx(TrapCx, d) \in Contexts /\ ForkedCx(TrapCx, d).kernel_sp = StackTop(d)
        BY <1>4, ContextFacts
      <4> QED BY <1>2, <1>5, <3>1, <4>1
    <3>2. CASE p = c
      <4>1. /\ Advanced(TrapCx) \in Contexts
            /\ Advanced(TrapCx).kernel_sp = StackTop(c)
        BY <1>4, ContextFacts
      <4>2. d \in Int
        BY PidsAssumption
      <4>3. /\ Answering(Advanced(TrapCx), d) \in Contexts
            /\ Answering(Advanced(TrapCx), d).kernel_sp = StackTop(c)
        BY <4>1, <4>2, ContextFacts
      <4> QED BY <1>2, <1>3, <1>5, <3>2, <4>3
    <3>3. CASE p # d /\ p # c
      <4>1. space'[p] = space[p] /\ space[p] # space[c] /\ space[p] # f /\ space[p] \in Frames
        BY <1>4, <1>5, <1>6, <2>3, <3>3 DEF TrapInv, FramesOwned, Typed
      <4>2. mem'[space[p]] = mem[space[p]]
        BY <1>2, <1>3, <4>1
      <4> QED BY <2>3, <4>1, <4>2 DEF TrapInv, FramesHold
    <3> QED BY <3>1, <3>2, <3>3
  <2>4. ASSUME NEW p \in Pids, kstack'[p] # None
        PROVE  IF InSchedule(p)' THEN mem'[kstack'[p]] \in Handlers
                                 ELSE mem'[kstack'[p]] = Junk
    <3>1. CASE p = d
      <4>1. mem[k] = Junk
        BY <1>2 DEF TrapInv, FramesHold
      <4> QED BY <1>2, <1>3, <1>4, <1>5, <2>1, <3>1, <4>1
    <3>2. CASE p # d
      <4>1. kstack'[p] = kstack[p] /\ kstack[p] # space[c] /\ kstack[p] # f /\ kstack[p] \in Frames
        BY <1>5, <1>6, <2>4, <3>2 DEF TrapInv, FramesOwned, Typed
      <4>2. mem'[kstack[p]] = mem[kstack[p]]
        BY <1>2, <1>3, <4>1
      <4>3. IF InSchedule(p) THEN mem[kstack[p]] \in Handlers ELSE mem[kstack[p]] = Junk
        BY <2>4, <4>1 DEF TrapInv, FramesHold
      <4> QED BY <2>2, <3>2, <4>1, <4>2, <4>3
    <3> QED BY <3>1, <3>2
  <2>5. \A g \in Frames \ Used' : g \in Frames \ Used /\ g # f
    <3>1. f \in Used'
      BY <1>5, <1>7 DEF Used
    <3>2. ASSUME NEW g \in Used PROVE g \in Used'
      <4>1. PICK p \in Pids : g \in Frames /\ (kstack[p] = g \/ space[p] = g)
        BY <3>2 DEF Used
      <4>2. p # d
        BY <1>2, <4>1, PidsAssumption
      <4>3. kstack'[p] = g \/ space'[p] = g
        BY <1>5, <4>1, <4>2
      <4> QED BY <4>1, <4>3 DEF Used
    <3> QED BY <3>1, <3>2
  <2>6. \A g \in Frames \ Used' : mem'[g] = Junk
    <3>1. \A g \in Frames \ Used : g # space[c] /\ mem[g] = Junk
      BY <1>4 DEF TrapInv, FramesHold
    <3> QED BY <1>2, <1>3, <2>5, <3>1
  <2>7. \A p \in Pids : status'[p] = "Ready" => taskCx'[p].sp = StackTop(p)
    BY <1>5 DEF TrapInv, FramesHold
  <2> QED BY <2>3, <2>4, <2>6, <2>7 DEF FramesHold
<1>12. RegistersSet'
  BY <1>1 DEF TrapInv, RegistersSet, InUser, InKernel
<1>13. BufferAgrees'
  <2> SUFFICES ASSUME NEW page \in Pids
               PROVE  \/ tlb'[page] = None
                      \/ tlb'[page] = Table(satp, page)'
                      \/ Table(satp, page)' = None /\ at' \in {"trap_return", "restore"}
    BY DEF BufferAgrees
  <2>1. satp = KERNEL
    BY <1>1 DEF TrapInv, RegistersSet, InUser
  <2>2. tlb[page] = None \/ tlb[page] = kstack[page]
    BY <1>1, <2>1 DEF TrapInv, BufferAgrees, Table
  <2>3. Table(satp, page)' = kstack'[page]
    BY <1>1, <2>1 DEF Table
  <2> QED BY <1>1, <1>2, <1>5, <2>2, <2>3
<1> QED BY <1>8, <1>9, <1>10, <1>11, <1>12, <1>13 DEF TrapInv

(* exec that finds its program: a new frame with a fresh context.           *)
LEMMA ExecFrames ==
  ASSUME TrapInv, at = "handler", NEW f \in Frames \ Used,
         mem' = SetResult([mem EXCEPT ![space[current]] = Junk,
                                      ![f] = AppInitContext(StackTop(current))], f, 0)
  PROVE  /\ mem' \in [Frames -> Contexts \cup Handlers \cup {Junk}]
         /\ f # space[current]
         /\ mem'[space[current]] = Junk
         /\ mem'[f] \in Contexts /\ mem'[f].kernel_sp = StackTop(current)
         /\ mem'[f].regs = [AppRegs EXCEPT !.a0 = 0]
         /\ \A g \in Frames : g \notin {f, space[current]} => mem'[g] = mem[g]
<1> DEFINE cx == AppInitContext(StackTop(current))
           m1 == [mem EXCEPT ![space[current]] = Junk]
           m2 == [m1 EXCEPT ![f] = cx]
<1>1. /\ space[current] \in Frames /\ space[current] \in Used /\ current \in Pids
  BY CurrentFacts DEF Used
<1>2. cx \in Contexts /\ cx.kernel_sp = StackTop(current) /\ cx.regs = AppRegs
  BY <1>1, NewContextFacts
<1>3. mem' = SetResult(m2, f, 0)
  OBVIOUS
<1>4. mem \in [Frames -> Contexts \cup Handlers \cup {Junk}] /\ f # space[current]
  BY <1>1 DEF TrapInv, Typed
<1> HIDE DEF cx
<1>5. /\ m2 \in [Frames -> Contexts \cup Handlers \cup {Junk}]
      /\ m2[f] = cx /\ m2[space[current]] = Junk
      /\ \A g \in Frames : g \notin {f, space[current]} => m2[g] = mem[g]
  BY <1>1, <1>2, <1>4
<1> HIDE DEF m2
<1>6. mem' = [m2 EXCEPT ![f] = Answering(cx, 0)]
  BY <1>3, <1>5, SetResultFacts
<1>7. /\ Answering(cx, 0) \in Contexts
      /\ Answering(cx, 0).kernel_sp = StackTop(current)
      /\ Answering(cx, 0).regs = [AppRegs EXCEPT !.a0 = 0]
  <2>1. /\ Answering(cx, 0) \in Contexts
        /\ Answering(cx, 0).kernel_sp = cx.kernel_sp
        /\ Answering(cx, 0).regs = [cx.regs EXCEPT !.a0 = 0]
    <3>1. ASSUME NEW a0 \in Int
          PROVE  /\ Answering(cx, a0) \in Contexts
                 /\ Answering(cx, a0).kernel_sp = cx.kernel_sp
                 /\ Answering(cx, a0).regs = [cx.regs EXCEPT !.a0 = a0]
      BY <1>2, ContextFacts
    <3> QED BY <3>1
  <2> QED BY <1>2, <2>1
<1>8. /\ mem'[f] = Answering(cx, 0) /\ mem'[space[current]] = Junk
      /\ \A g \in Frames : g \notin {f, space[current]} => mem'[g] = mem[g]
      /\ mem' \in [Frames -> Contexts \cup Handlers \cup {Junk}]
  BY <1>1, <1>4, <1>5, <1>6, <1>7
<1> QED BY <1>4, <1>7, <1>8

LEMMA SysExecInv ==
  ASSUME TrapInv, SysExec
  PROVE  TrapInv'
<1>1. /\ at = "handler" /\ at' = "trap_return"
      /\ UNCHANGED <<cpu, satp, sscratch, tlb, current, queue, status, parent,
                     kstack, taskCx>>
  BY DEF SysExec, InCall
<1>2. PICK c \in Pids : c = current
  BY <1>1, CurrentFacts
<1>3. CASE mem' = SetResult(Entered, space[current], -1) /\ UNCHANGED space
  <2>1. ASSUME NEW a0 \in Int PROVE Holds(SetResult(Entered, space[current], a0))
    BY <1>1, EnteredFacts
  <2>2. Holds(mem')
    <3>1. -1 \in Int
      OBVIOUS
    <3> QED BY <1>3, <2>1, <3>1
  <2> QED BY <1>1, <1>3, <2>2, ReturnInv
<1>4. ASSUME NEW f \in Frames \ Used,
             space' = [space EXCEPT ![current] = f],
             mem' = SetResult([mem EXCEPT ![space[current]] = Junk,
                                          ![f] = AppInitContext(StackTop(current))], f, 0)
      PROVE  TrapInv'
  <2>1. /\ mem' \in [Frames -> Contexts \cup Handlers \cup {Junk}]
        /\ f # space[c] /\ mem'[space[c]] = Junk
        /\ mem'[f] \in Contexts /\ mem'[f].kernel_sp = StackTop(c)
        /\ \A g \in Frames : g \notin {f, space[c]} => mem'[g] = mem[g]
    BY <1>1, <1>2, <1>4, ExecFrames
  <2>2. /\ space'[c] = f /\ f # None
        /\ \A p \in Pids : p # c => space'[p] = space[p]
        /\ space[c] \in Frames /\ space[c] # None /\ c # None
    BY <1>1, <1>2, <1>4, CurrentFacts, PidsAssumption DEF TrapInv, Typed
  <2>3. \A p \in Pids : kstack[p] # f /\ space[p] # f
    BY <1>4 DEF Used
  <2>4. Typed'
    <3>1. space' \in [Pids -> Frames \cup {None}]
      BY <1>4 DEF TrapInv, Typed
    <3> QED BY <1>1, <2>1, <3>1 DEF TrapInv, Typed, InKernel
  <2>5. FramesOwned'
    <3>1. status[c] = "Running"
      BY <1>1, <1>2, CurrentFacts
    <3> QED BY <1>1, <2>2, <2>3, <3>1 DEF TrapInv, FramesOwned
  <2>6. QueueOwnsReady'
    BY <1>1, <1>2, <2>2 DEF TrapInv, QueueOwnsReady
  <2>7. FramesHold'
    <3>1. \A p \in Pids : InSchedule(p)' <=> InSchedule(p)
      BY <1>1 DEF InSchedule
    <3>2. ASSUME NEW p \in Pids, space'[p] # None
          PROVE  mem'[space'[p]] \in Contexts /\ mem'[space'[p]].kernel_sp = StackTop(p)
      <4>1. CASE p = c
        BY <2>1, <2>2, <4>1
      <4>2. CASE p # c
        <5>1. space'[p] = space[p] /\ space[p] # space[c] /\ space[p] # f /\ space[p] \in Frames
          BY <2>2, <2>3, <3>2, <4>2 DEF TrapInv, FramesOwned, Typed
        <5>2. mem'[space[p]] = mem[space[p]]
          BY <2>1, <5>1
        <5> QED BY <3>2, <5>1, <5>2 DEF TrapInv, FramesHold
      <4> QED BY <4>1, <4>2
    <3>3. ASSUME NEW p \in Pids, kstack'[p] # None
          PROVE  IF InSchedule(p)' THEN mem'[kstack'[p]] \in Handlers
                                   ELSE mem'[kstack'[p]] = Junk
      <4>1. kstack'[p] = kstack[p] /\ kstack[p] # space[c] /\ kstack[p] # f /\ kstack[p] \in Frames
        BY <1>1, <2>3, <3>3 DEF TrapInv, FramesOwned, Typed
      <4>2. mem'[kstack[p]] = mem[kstack[p]]
        BY <2>1, <4>1
      <4>3. IF InSchedule(p) THEN mem[kstack[p]] \in Handlers ELSE mem[kstack[p]] = Junk
        BY <3>3, <4>1 DEF TrapInv, FramesHold
      <4> QED BY <3>1, <4>1, <4>2, <4>3
    <3>4. \A g \in Frames \ Used' : g = space[c] \/ (g \in Frames \ Used /\ g # f)
      <4>1. f \in Used'
        BY <2>2 DEF Used
      <4>2. ASSUME NEW g \in Used, g # space[c] PROVE g \in Used'
        <5>1. PICK p \in Pids : g \in Frames /\ (kstack[p] = g \/ space[p] = g)
          BY <4>2 DEF Used
        <5>2. kstack'[p] = g \/ space'[p] = g
          BY <1>1, <2>2, <4>2, <5>1
        <5> QED BY <5>1, <5>2 DEF Used
      <4> QED BY <4>1, <4>2
    <3>5. \A g \in Frames \ Used' : mem'[g] = Junk
      BY <2>1, <3>4 DEF TrapInv, FramesHold
    <3>6. \A p \in Pids : status'[p] = "Ready" => taskCx'[p].sp = StackTop(p)
      BY <1>1 DEF TrapInv, FramesHold
    <3> QED BY <3>2, <3>3, <3>5, <3>6 DEF FramesHold
  <2>8. RegistersSet'
    BY <1>1 DEF TrapInv, RegistersSet, InUser, InKernel
  <2>9. BufferAgrees'
    BY <1>1 DEF TrapInv, BufferAgrees, Table
  <2> QED BY <2>4, <2>5, <2>6, <2>7, <2>8, <2>9 DEF TrapInv
<1> QED BY <1>3, <1>4 DEF SysExec

(* waitpid that drops a zombie.                                             *)
LEMMA ReapFrames ==
  ASSUME TrapInv, at = "handler", NEW d \in Pids, status[d] = "Zombie",
         mem' = SetResult([Entered EXCEPT ![kstack[d]] = Junk], space[current], d)
  PROVE  /\ d # current /\ kstack[d] \in Frames /\ kstack[d] # None /\ space[d] = None
         /\ kstack[d] # space[current]
         /\ mem' = [mem EXCEPT ![space[current]] = Answering(Advanced(TrapCx), d)]
         /\ Holds(mem')
<1>1. /\ current \in Pids /\ status[current] = "Running" /\ TrapCx \in Contexts
      /\ space[current] \in Frames
      /\ TrapCx.kernel_sp = StackTop(current)
  BY CurrentFacts DEF TrapCx
<1>2. /\ d # current /\ kstack[d] \in Frames /\ kstack[d] # None /\ space[d] = None
      /\ kstack[d] # space[current]
  BY <1>1 DEF TrapInv, FramesOwned, Typed
<1>3. mem[kstack[d]] = Junk
  <2>1. ~InSchedule(d)
    BY <1>2 DEF InSchedule
  <2> QED BY <1>2, <2>1 DEF TrapInv, FramesHold
<1>4. /\ Entered \in [Frames -> Contexts \cup Handlers \cup {Junk}]
      /\ \A g \in Frames : g # space[current] => Entered[g] = mem[g]
  BY EnteredFacts DEF Holds
<1>5. Entered[kstack[d]] = Junk
  BY <1>2, <1>3, <1>4
<1>6. [Entered EXCEPT ![kstack[d]] = Junk] = Entered
  BY <1>4, <1>5
<1>7. d \in Int
  BY PidsAssumption
<1>8. mem' = SetResult(Entered, space[current], d)
  BY <1>6
<1>9. /\ mem' = [mem EXCEPT ![space[current]] = Answering(Advanced(TrapCx), d)]
      /\ Holds(mem')
  BY <1>7, <1>8, EnteredFacts
<1> QED BY <1>2, <1>9

LEMMA SysWaitpidInv ==
  ASSUME TrapInv, SysWaitpid
  PROVE  TrapInv'
<1>1. /\ at = "handler" /\ at' = "trap_return"
      /\ UNCHANGED <<cpu, satp, sscratch, tlb, current, queue, taskCx, space>>
  BY DEF SysWaitpid, InCall
<1>2. ASSUME NEW a0 \in Int, mem' = SetResult(Entered, space[current], a0),
             UNCHANGED <<kstack, parent, status>>
      PROVE  TrapInv'
  <2>1. Holds(mem')
    BY <1>1, <1>2, EnteredFacts
  <2> QED BY <1>1, <1>2, <2>1, ReturnInv
<1>3. ASSUME NEW d \in Pids, status[d] = "Zombie",
             mem' = SetResult([Entered EXCEPT ![kstack[d]] = Junk], space[current], d),
             kstack' = [kstack EXCEPT ![d] = None],
             parent' = [parent EXCEPT ![d] = None],
             status' = [status EXCEPT ![d] = "None"]
      PROVE  TrapInv'
  <2>1. /\ d # current /\ kstack[d] \in Frames /\ kstack[d] # None /\ space[d] = None
        /\ Holds(mem')
    BY <1>1, <1>3, ReapFrames
  <2>2. /\ kstack'[d] = None /\ status'[d] = "None"
        /\ \A p \in Pids : p # d => kstack'[p] = kstack[p] /\ status'[p] = status[p]
    BY <1>3 DEF TrapInv, Typed
  <2>3. Typed'
    <3>1. /\ kstack' \in [Pids -> Frames \cup {None}]
          /\ parent' \in [Pids -> Pids \cup {None}]
          /\ status' \in [Pids -> {"None", "Ready", "Running", "Zombie"}]
      BY <1>3 DEF TrapInv, Typed
    <3>2. mem' \in [Frames -> Contexts \cup Handlers \cup {Junk}]
      BY <2>1 DEF Holds
    <3> QED BY <1>1, <3>1, <3>2 DEF TrapInv, Typed, InKernel
  <2>4. FramesOwned'
    BY <1>1, <2>1, <2>2 DEF TrapInv, FramesOwned
  <2>5. QueueOwnsReady'
    <3>1. Range(queue) \subseteq Pids
      BY RangeFacts DEF TrapInv, Typed
    <3>2. \A p \in Range(queue) : status'[p] = "Ready"
      BY <1>3, <2>2, <3>1 DEF TrapInv, QueueOwnsReady
    <3>3. \A p \in Pids : status'[p] = "Running" <=> p = current
      BY <1>3, <2>1, <2>2 DEF TrapInv, QueueOwnsReady
    <3> QED BY <1>1, <3>2, <3>3 DEF TrapInv, QueueOwnsReady
  <2>6. FramesHold'
    <3>1. ASSUME NEW p \in Pids, p # d PROVE InSchedule(p)' <=> InSchedule(p)
      BY <1>1, <2>2, <3>1 DEF InSchedule
    <3>2. \A p \in Pids : space'[p] # None =>
            mem'[space'[p]] \in Contexts /\ mem'[space'[p]].kernel_sp = StackTop(p)
      BY <1>1, <2>1 DEF Holds
    <3>3. ASSUME NEW p \in Pids, kstack'[p] # None
          PROVE  IF InSchedule(p)' THEN mem'[kstack'[p]] \in Handlers
                                   ELSE mem'[kstack'[p]] = Junk
      <4>1. p # d /\ kstack'[p] = kstack[p]
        BY <2>2, <3>3
      <4>2. IF InSchedule(p) THEN mem'[kstack[p]] \in Handlers ELSE mem'[kstack[p]] = Junk
        BY <2>1, <3>3, <4>1 DEF Holds
      <4> QED BY <3>1, <4>1, <4>2
    <3>4. mem'[kstack[d]] = Junk
      <4>1. ~InSchedule(d)
        BY <1>3, <2>1 DEF InSchedule
      <4> QED BY <2>1, <4>1 DEF Holds
    <3>5. \A g \in Frames \ Used' : g = kstack[d] \/ g \in Frames \ Used
      <4> SUFFICES ASSUME NEW g \in Used, g # kstack[d] PROVE g \in Used'
        OBVIOUS
      <4>1. PICK p \in Pids : g \in Frames /\ (kstack[p] = g \/ space[p] = g)
        BY DEF Used
      <4>2. kstack'[p] = g \/ space'[p] = g
        BY <1>1, <2>2, <4>1
      <4> QED BY <4>1, <4>2 DEF Used
    <3>6. \A g \in Frames \ Used' : mem'[g] = Junk
      BY <2>1, <3>4, <3>5 DEF Holds
    <3>7. \A p \in Pids : status'[p] = "Ready" => taskCx'[p].sp = StackTop(p)
      BY <1>1, <2>2 DEF TrapInv, FramesHold
    <3> QED BY <3>2, <3>3, <3>6, <3>7 DEF FramesHold
  <2>7. RegistersSet'
    BY <1>1 DEF TrapInv, RegistersSet, InUser, InKernel
  <2>8. BufferAgrees'
    <3> SUFFICES ASSUME NEW page \in Pids
                 PROVE  \/ tlb'[page] = None
                        \/ tlb'[page] = Table(satp, page)'
                        \/ Table(satp, page)' = None /\ at' \in {"trap_return", "restore"}
      BY DEF BufferAgrees
    <3>1. satp = KERNEL
      BY <1>1 DEF TrapInv, RegistersSet, InUser
    <3>2. tlb[page] = None \/ tlb[page] = kstack[page]
      BY <1>1, <3>1 DEF TrapInv, BufferAgrees, Table
    <3>3. Table(satp, page)' = kstack'[page]
      BY <1>1, <3>1 DEF Table
    <3> QED BY <1>1, <2>2, <3>2, <3>3
  <2> QED BY <2>3, <2>4, <2>5, <2>6, <2>7, <2>8 DEF TrapInv
<1>4. -1 \in Int /\ -2 \in Int
  OBVIOUS
<1> QED BY <1>2, <1>3, <1>4 DEF SysWaitpid

LEMMA ExitInv ==
  ASSUME TrapInv, Exit
  PROVE  TrapInv'
<1>1. /\ at = "handler" /\ at' = "idle" /\ current' = None
      /\ UNCHANGED <<satp, sscratch, tlb, queue, kstack, taskCx>>
      /\ cpu' = [cpu EXCEPT !.sp = BootSp]
  BY DEF Exit, InCall
<1>2. PICK c \in Pids : c = current
  BY <1>1, CurrentFacts
<1>3. /\ status' = [status EXCEPT ![c] = "Zombie"]
      /\ parent' = [d \in Pids |-> IF parent[d] = c THEN 0 ELSE parent[d]]
      /\ mem' = [mem EXCEPT ![space[c]] = Junk]
      /\ space' = [space EXCEPT ![c] = None]
  BY <1>2 DEF Exit
<1>4. /\ status[c] = "Running" /\ c # None /\ c \notin Range(queue)
      /\ space[c] \in Frames /\ space[c] # None
  BY <1>1, <1>2, CurrentFacts, PidsAssumption
<1>5. /\ status'[c] = "Zombie" /\ space'[c] = None /\ mem'[space[c]] = Junk
      /\ \A p \in Pids : p # c => status'[p] = status[p] /\ space'[p] = space[p]
      /\ \A g \in Frames : g # space[c] => mem'[g] = mem[g]
  BY <1>3, <1>4 DEF TrapInv, Typed
<1>6. Typed'
  <2>1. /\ status' \in [Pids -> {"None", "Ready", "Running", "Zombie"}]
        /\ space' \in [Pids -> Frames \cup {None}]
        /\ mem' \in [Frames -> Contexts \cup Handlers \cup {Junk}]
    BY <1>3 DEF TrapInv, Typed
  <2>2. parent' \in [Pids -> Pids \cup {None}]
    BY <1>3, PidsAssumption DEF TrapInv, Typed
  <2> QED BY <1>1, <2>1, <2>2 DEF TrapInv, Typed
<1>7. FramesOwned'
  BY <1>1, <1>4, <1>5 DEF TrapInv, FramesOwned
<1>8. QueueOwnsReady'
  <2>1. Range(queue) \subseteq Pids
    BY RangeFacts DEF TrapInv, Typed
  <2>2. \A p \in Range(queue) : status'[p] = "Ready"
    BY <1>4, <1>5, <2>1 DEF TrapInv, QueueOwnsReady
  <2>3. \A p \in Pids : status'[p] = "Running" <=> p = None
    BY <1>2, <1>5, PidsAssumption DEF TrapInv, QueueOwnsReady
  <2> QED BY <1>1, <2>2, <2>3 DEF TrapInv, QueueOwnsReady
<1>9. FramesHold'
  <2>1. ASSUME NEW p \in Pids PROVE InSchedule(p)' <=> InSchedule(p)
    <3>1. CASE p = c
      BY <1>1, <1>2, <1>4, <1>5, <3>1 DEF InSchedule
    <3>2. CASE p # c
      BY <1>1, <1>2, <1>5, <3>2, PidsAssumption DEF InSchedule
    <3> QED BY <3>1, <3>2
  <2>2. ASSUME NEW p \in Pids, space'[p] # None
        PROVE  mem'[space'[p]] \in Contexts /\ mem'[space'[p]].kernel_sp = StackTop(p)
    <3>1. p # c /\ space'[p] = space[p] /\ space[p] # space[c] /\ space[p] \in Frames
      BY <1>5, <2>2 DEF TrapInv, FramesOwned, Typed
    <3> QED BY <1>5, <2>2, <3>1 DEF TrapInv, FramesHold
  <2>3. ASSUME NEW p \in Pids, kstack'[p] # None
        PROVE  IF InSchedule(p)' THEN mem'[kstack'[p]] \in Handlers
                                 ELSE mem'[kstack'[p]] = Junk
    <3>1. kstack'[p] = kstack[p] /\ kstack[p] # space[c] /\ kstack[p] \in Frames
      BY <1>1, <2>3 DEF TrapInv, FramesOwned, Typed
    <3>2. mem'[kstack[p]] = mem[kstack[p]]
      BY <1>5, <3>1
    <3>3. IF InSchedule(p) THEN mem[kstack[p]] \in Handlers ELSE mem[kstack[p]] = Junk
      BY <2>3, <3>1 DEF TrapInv, FramesHold
    <3> QED BY <2>1, <3>1, <3>2, <3>3
  <2>4. \A g \in Frames \ Used' : g = space[c] \/ g \in Frames \ Used
    <3> SUFFICES ASSUME NEW g \in Used, g # space[c] PROVE g \in Used'
      OBVIOUS
    <3>1. PICK p \in Pids : g \in Frames /\ (kstack[p] = g \/ space[p] = g)
      BY DEF Used
    <3>2. kstack'[p] = g \/ space'[p] = g
      BY <1>1, <1>5, <3>1
    <3> QED BY <3>1, <3>2 DEF Used
  <2>5. \A g \in Frames \ Used' : mem'[g] = Junk
    BY <1>5, <2>4 DEF TrapInv, FramesHold
  <2>6. \A p \in Pids : status'[p] = "Ready" => taskCx'[p].sp = StackTop(p)
    BY <1>1, <1>5 DEF TrapInv, FramesHold
  <2> QED BY <2>2, <2>3, <2>5, <2>6 DEF FramesHold
<1>10. RegistersSet'
  <2>1. cpu = [x |-> KERNEL, sp |-> cpu.sp, a0 |-> 0, pc |-> 0] /\ satp = KERNEL
    BY <1>1 DEF TrapInv, RegistersSet, InUser
  <2>2. cpu' = [x |-> KERNEL, sp |-> BootSp, a0 |-> 0, pc |-> 0]
    BY <1>1, <2>1
  <2> QED BY <1>1, <2>1, <2>2 DEF RegistersSet, InUser, InKernel
<1>11. BufferAgrees'
  BY <1>1 DEF TrapInv, BufferAgrees, Table
<1> QED BY <1>6, <1>7, <1>8, <1>9, <1>10, <1>11 DEF TrapInv

-----------------------------------------------------------------------------
(* The idle loop and the way out.                                           *)

LEMMA RunTasksInv ==
  ASSUME TrapInv, RunTasks
  PROVE  TrapInv'
<1>1. /\ at = "idle" /\ queue # <<>> /\ queue' = Tail(queue)
      /\ UNCHANGED <<satp, sscratch, stvec, tlb, parent, kstack, taskCx, space, mem>>
  BY DEF RunTasks
<1>2. PICK p \in Pids : p = Head(queue)
  BY <1>1, TailFacts DEF TrapInv, Typed
<1>3. /\ current' = p /\ status' = [status EXCEPT ![p] = "Running"]
      /\ cpu' = [cpu EXCEPT !.sp = taskCx[p].sp] /\ at' = taskCx[p].ra
  BY <1>2 DEF RunTasks
<1>4. /\ queue' \in Seq(Pids) /\ IsInjective(queue') /\ p \in Range(queue)
      /\ Range(queue) = Range(queue') \cup {p} /\ p \notin Range(queue')
  BY <1>1, <1>2, TailFacts DEF TrapInv, Typed, QueueOwnsReady
<1>5. /\ status[p] = "Ready" /\ taskCx[p].sp = StackTop(p) /\ p # None
      /\ taskCx[p].ra \in {"trap_return", "schedule"}
  BY <1>4, PidsAssumption DEF TrapInv, Typed, QueueOwnsReady, FramesHold
<1>6. status'[p] = "Running" /\ \A q \in Pids : q # p => status'[q] = status[q]
  BY <1>3 DEF TrapInv, Typed
<1>7. current = None
  BY <1>1 DEF TrapInv, QueueOwnsReady
<1>8. Typed'
  <2>1. status' \in [Pids -> {"None", "Ready", "Running", "Zombie"}]
    BY <1>3 DEF TrapInv, Typed
  <2> QED BY <1>1, <1>3, <1>4, <1>5, <2>1 DEF TrapInv, Typed, InKernel
<1>9. FramesOwned'
  BY <1>1, <1>5, <1>6 DEF TrapInv, FramesOwned
<1>10. QueueOwnsReady'
  <2>1. Range(queue) \subseteq Pids
    BY RangeFacts DEF TrapInv, Typed
  <2>2. \A q \in Range(queue') : status'[q] = "Ready"
    BY <1>4, <1>6, <2>1 DEF TrapInv, QueueOwnsReady
  <2>3. \A q \in Pids : status'[q] = "Running" <=> q = p
    BY <1>6, <1>7, PidsAssumption DEF TrapInv, QueueOwnsReady
  <2>4. current' # None /\ at' # "idle"
    BY <1>3, <1>5
  <2> QED BY <1>3, <1>4, <2>2, <2>3, <2>4 DEF QueueOwnsReady
<1>11. FramesHold'
  <2>1. ASSUME NEW q \in Pids PROVE InSchedule(q)' <=> InSchedule(q)
    <3>1. CASE q = p
      BY <1>1, <1>3, <1>5, <1>6, <3>1 DEF InSchedule
    <3>2. CASE q # p
      BY <1>1, <1>3, <1>6, <1>7, <3>2, PidsAssumption DEF InSchedule
    <3> QED BY <3>1, <3>2
  <2>2. Used' = Used
    BY <1>1 DEF Used
  <2>3. \A q \in Pids : status'[q] = "Ready" => taskCx'[q].sp = StackTop(q)
    BY <1>1, <1>6 DEF TrapInv, FramesHold
  <2> QED BY <1>1, <2>1, <2>2, <2>3 DEF TrapInv, FramesHold
<1>12. RegistersSet'
  <2>1. cpu = [x |-> KERNEL, sp |-> cpu.sp, a0 |-> 0, pc |-> 0] /\ satp = KERNEL
    BY <1>1 DEF TrapInv, RegistersSet, InUser
  <2>2. cpu' = [x |-> KERNEL, sp |-> StackTop(p), a0 |-> 0, pc |-> 0]
    BY <1>3, <1>5, <2>1
  <2> QED BY <1>1, <1>3, <1>5, <2>1, <2>2 DEF RegistersSet, InUser, InKernel
<1>13. BufferAgrees'
  BY <1>1 DEF TrapInv, BufferAgrees, Table
<1> QED BY <1>8, <1>9, <1>10, <1>11, <1>12, <1>13 DEF TrapInv

(* The handler that schedule returns to is on the stack.                    *)
LEMMA ResumeFrames ==
  ASSUME TrapInv, ResumeHandler
  PROVE  /\ mem[kstack[current]] \in Handlers
         /\ kstack[current] # space[current]
         /\ at' = "trap_return"
         /\ mem' \in [Frames -> Contexts \cup Handlers \cup {Junk}]
         /\ mem'[kstack[current]] = Junk
         /\ mem'[space[current]] = IF mem[kstack[current]].call
                                   THEN Answering(mem[space[current]], 0)
                                   ELSE mem[space[current]]
         /\ \A g \in Frames : g \notin {kstack[current], space[current]} => mem'[g] = mem[g]
         /\ Answering(mem[space[current]], 0) \in Contexts
         /\ Answering(mem[space[current]], 0).kernel_sp = StackTop(current)
<1> DEFINE k == kstack[current]
           f == space[current]
<1>1. at = "schedule"
  BY DEF ResumeHandler
<1>2. /\ current \in Pids /\ k \in Frames /\ f \in Frames /\ k # None
      /\ mem[f] \in Contexts /\ mem[f].kernel_sp = StackTop(current)
  BY <1>1, CurrentFacts
<1>3. k # f
  BY <1>2 DEF TrapInv, FramesOwned
<1>4. mem[k] \in Handlers
  BY <1>1, <1>2 DEF TrapInv, FramesHold, InSchedule
<1>5. Translated(satp, tlb, cpu.sp[2]) = k
  BY <1>1, StackFrame
<1>6. mem[k].holds = "handler"
  BY <1>4, KindsDiffer
<1>7. /\ mem' = IF mem[k].call THEN [SetResult(mem, f, 0) EXCEPT ![k] = Junk]
                               ELSE [mem EXCEPT ![k] = Junk]
      /\ at' = "trap_return"
  BY <1>5, <1>6 DEF ResumeHandler
<1>8. /\ Answering(mem[f], 0) \in Contexts
      /\ Answering(mem[f], 0).kernel_sp = StackTop(current)
  <2>1. \A a0 \in Int : /\ Answering(mem[f], a0) \in Contexts
                        /\ Answering(mem[f], a0).kernel_sp = mem[f].kernel_sp
    BY <1>2, ContextFacts
  <2> QED BY <1>2, <2>1
<1>9. SetResult(mem, f, 0) = [mem EXCEPT ![f] = Answering(mem[f], 0)]
  BY SetResultFacts
<1>10. mem \in [Frames -> Contexts \cup Handlers \cup {Junk}]
  BY DEF TrapInv, Typed
<1> HIDE DEF k, f
<1>11. /\ mem' \in [Frames -> Contexts \cup Handlers \cup {Junk}]
       /\ mem'[k] = Junk
       /\ mem'[f] = IF mem[k].call THEN Answering(mem[f], 0) ELSE mem[f]
       /\ \A g \in Frames : g \notin {k, f} => mem'[g] = mem[g]
  <2>1. CASE mem[k].call
    BY <1>2, <1>3, <1>7, <1>8, <1>9, <1>10, <2>1
  <2>2. CASE ~mem[k].call
    BY <1>2, <1>3, <1>7, <1>10, <2>2
  <2> QED BY <2>1, <2>2
<1> QED BY <1>3, <1>4, <1>7, <1>8, <1>11 DEF k, f

LEMMA ResumeHandlerInv ==
  ASSUME TrapInv, ResumeHandler
  PROVE  TrapInv'
<1>1. /\ at = "schedule" /\ at' = "trap_return"
      /\ UNCHANGED <<cpu, satp, sscratch, stvec, tlb, current, queue, status,
                     parent, kstack, taskCx, space>>
  BY ResumeFrames DEF ResumeHandler, control
<1>2. PICK c \in Pids : c = current
  BY <1>1, CurrentFacts
<1>3. /\ kstack[c] # space[c] /\ mem'[kstack[c]] = Junk
      /\ mem' \in [Frames -> Contexts \cup Handlers \cup {Junk}]
      /\ \A g \in Frames : g \notin {kstack[c], space[c]} => mem'[g] = mem[g]
      /\ mem'[space[c]] \in Contexts /\ mem'[space[c]].kernel_sp = StackTop(c)
  BY <1>1, <1>2, ResumeFrames, CurrentFacts
<1>4. /\ status[c] = "Running" /\ kstack[c] # None /\ space[c] # None
      /\ kstack[c] \in Used /\ space[c] \in Used /\ c # None
  BY <1>1, <1>2, CurrentFacts, PidsAssumption DEF Used
<1>5. Typed'
  BY <1>1, <1>3 DEF TrapInv, Typed, InKernel
<1>6. FramesOwned' /\ QueueOwnsReady'
  BY <1>1 DEF TrapInv, FramesOwned, QueueOwnsReady
<1>7. FramesHold'
  <2>1. ~InSchedule(c)' /\ \A p \in Pids : p # c => (InSchedule(p)' <=> InSchedule(p))
    BY <1>1, <1>2, <1>4 DEF InSchedule
  <2>2. ASSUME NEW p \in Pids, space[p] # None
        PROVE  mem'[space[p]] \in Contexts /\ mem'[space[p]].kernel_sp = StackTop(p)
    <3>1. CASE p = c
      BY <1>3, <3>1
    <3>2. CASE p # c
      <4>1. space[p] \notin {kstack[c], space[c]} /\ space[p] \in Frames
        BY <1>4, <2>2, <3>2 DEF TrapInv, FramesOwned, Typed
      <4> QED BY <1>3, <2>2, <4>1 DEF TrapInv, FramesHold
    <3> QED BY <3>1, <3>2
  <2>3. ASSUME NEW p \in Pids, kstack[p] # None
        PROVE  IF InSchedule(p)' THEN mem'[kstack[p]] \in Handlers
                                 ELSE mem'[kstack[p]] = Junk
    <3>1. CASE p = c
      BY <1>3, <2>1, <3>1
    <3>2. CASE p # c
      <4>1. kstack[p] \notin {kstack[c], space[c]} /\ kstack[p] \in Frames
        BY <1>4, <2>3, <3>2 DEF TrapInv, FramesOwned, Typed
      <4>2. IF InSchedule(p) THEN mem[kstack[p]] \in Handlers ELSE mem[kstack[p]] = Junk
        BY <2>3 DEF TrapInv, FramesHold
      <4>3. mem'[kstack[p]] = mem[kstack[p]]
        BY <1>3, <4>1
      <4> QED BY <2>1, <3>2, <4>2, <4>3
    <3> QED BY <3>1, <3>2
  <2>4. Used' = Used
    BY <1>1 DEF Used
  <2>5. \A g \in Frames \ Used : mem'[g] = Junk
    BY <1>3, <1>4 DEF TrapInv, FramesHold
  <2>6. \A p \in Pids : status[p] = "Ready" => taskCx[p].sp = StackTop(p)
    BY DEF TrapInv, FramesHold
  <2> QED BY <1>1, <2>2, <2>3, <2>4, <2>5, <2>6 DEF FramesHold
<1>8. RegistersSet'
  BY <1>1 DEF TrapInv, RegistersSet, InUser, InKernel
<1>9. BufferAgrees'
  BY <1>1 DEF TrapInv, BufferAgrees, Table
<1> QED BY <1>5, <1>6, <1>7, <1>8, <1>9 DEF TrapInv

(* __restore finds the context of the process it returns to.                *)
LEMMA RestoreInv ==
  ASSUME TrapInv, Restore
  PROVE  TrapInv' /\ at' = "user" /\ cpu' = mem[space[current]].regs
<1>1. /\ at = "restore" /\ satp' = space[current] /\ tlb' = [page \in Pids |-> None]
      /\ UNCHANGED <<stvec, mem, current, queue, status, parent, kstack, taskCx, space>>
  BY DEF Restore, control, Fenced
<1>2. /\ space[current] \in Frames /\ mem[space[current]] \in Contexts
      /\ current \in Pids
  BY <1>1, CurrentFacts
<1>3. Translated(satp', tlb', TRAP_CONTEXT) = space[current]
  BY <1>1, <1>2, PidsAssumption DEF Translated, Table, TRAP_CONTEXT
<1>4. mem[space[current]].holds = "trap_cx" /\ mem[space[current]].regs \in Regs
  BY <1>2, ContextFacts
<1>5. cpu' = mem[space[current]].regs /\ sscratch' = TrapCxSp /\ at' = "user"
  BY <1>3, <1>4 DEF Restore
<1>6. Typed'
  <2>1. tlb' \in [Pids -> Frames \cup {None}] /\ satp' \in Frames
    BY <1>1, <1>2
  <2> QED BY <1>1, <1>5, <2>1 DEF TrapInv, Typed, InUser
<1>7. FramesOwned' /\ QueueOwnsReady' /\ FramesHold'
  BY <1>1, <1>5, TasksFrame, HoldsMem
<1>8. RegistersSet'
  BY <1>1, <1>4, <1>5 DEF TrapInv, RegistersSet, InUser, InKernel
<1>9. BufferAgrees'
  BY <1>1 DEF BufferAgrees
<1> QED BY <1>5, <1>6, <1>7, <1>8, <1>9 DEF TrapInv

-----------------------------------------------------------------------------
(* Every step keeps the invariant.                                          *)
LEMMA NextInv == TrapInv /\ [Next]_vars => TrapInv'
<1> SUFFICES ASSUME TrapInv, [Next]_vars PROVE TrapInv'
  OBVIOUS
<1>1. CASE TlbFill \/ UserRuns \/ Alltraps \/ TrapReturn
  BY <1>1, TlbFillInv, UserRunsInv, AlltrapsInv, TrapReturnInv
<1>2. ASSUME NEW cause, Trap(cause) PROVE TrapInv'
  BY <1>2, TrapStepInv
<1>3. CASE HandleTimer \/ SysYield \/ SysGetpid
  BY <1>3, SuspendingInv, SysGetpidInv
<1>4. CASE SysFork \/ SysExec \/ SysWaitpid \/ Exit
  BY <1>4, SysForkInv, SysExecInv, SysWaitpidInv, ExitInv
<1>5. CASE RunTasks \/ ResumeHandler \/ Restore
  BY <1>5, RunTasksInv, ResumeHandlerInv, RestoreInv
<1>6. CASE Halted \/ UNCHANGED vars
  BY <1>6 DEF Halted, vars, TrapInv, Typed, FramesOwned, QueueOwnsReady, FramesHold,
              RegistersSet, BufferAgrees, InSchedule, Used, Table
<1>7. CASE Unsupported
  BY <1>7, UnsupportedInv
<1> QED BY <1>1, <1>2, <1>3, <1>4, <1>5, <1>6, <1>7 DEF Next

(* TrapInv is an invariant of the trap and switch path.                     *)
THEOREM TrapInvariance == Spec => []TrapInv
BY InitInv, NextInv, PTL DEF Spec

(* Trap contexts stay whole and a handler runs on the mapped kernel stack   *)
(* of its own process, over any sequence of traps, forks, execs, exits and  *)
(* switches, and the kernel panics on this path only over a trap or a call  *)
(* that it does not support.                                                *)
THEOREM KernelConsistentCorrect == Spec => []KernelConsistent
<1>1. ASSUME TrapInv PROVE TypeOK
  BY <1>1 DEF TrapInv, Typed, FramesHold, TypeOK, InUser, InKernel
<1>2. ASSUME TrapInv PROVE KernelOnOwnStack
  <2>1. CASE at \in {"handler", "schedule", "trap_return", "restore"}
    BY <1>2, <2>1, CurrentFacts DEF TrapInv, RegistersSet, InKernel, KernelOnOwnStack
  <2> QED BY <2>1 DEF KernelOnOwnStack
<1>3. TrapInv => KernelConsistent
  BY <1>1, <1>2 DEF KernelConsistent
<1> QED BY TrapInvariance, <1>3, PTL

(* The fences of __alltraps and __restore are enough: a buffered            *)
(* translation of a mapped page is the one in force, although stacks are    *)
(* unmapped without a fence.                                                *)
THEOREM TranslationsCorrect == Spec => []NoStaleTranslation
<1>1. TrapInv => NoStaleTranslation
  BY DEF TrapInv, BufferAgrees, NoStaleTranslation
<1> QED BY TrapInvariance, <1>1, PTL

-----------------------------------------------------------------------------
(* The registers each program has, as UserMachines sees them.               *)

RegOf(p) ==
    IF p = current /\ at \in {"user", "alltraps"} THEN cpu ELSE mem[space[p]].regs

RegsNow == [p \in Live |-> RegOf(p)]

InCallNow(p) == mem[kstack[p]].holds = "handler" /\ mem[kstack[p]].call

CalledNow == {p \in Live : InCallNow(p)}

LEMMA MachinesNow ==
  /\ RegsNow = [p \in Live |-> IF p = current /\ at \in {"user", "alltraps"}
                               THEN cpu ELSE mem[space[p]].regs]
  /\ CalledNow = {p \in Live : LET on == mem[kstack[p]]
                               IN  on.holds = "handler" /\ on.call}
BY Zenon DEF RegsNow, RegOf, CalledNow, InCallNow

(* The machine of p moves past its call and gets the answer.                *)
LEMMA AnsweredFacts ==
  ASSUME NEW D, NEW g, g = [q \in D |-> g[q]], NEW p \in D, NEW a0
  PROVE  [g EXCEPT ![p].pc = @ + 1, ![p].a0 = a0]
           = [g EXCEPT ![p] = [[g[p] EXCEPT !.pc = @ + 1] EXCEPT !.a0 = a0]]
OBVIOUS

(* Only the registers of c change.                                          *)
LEMMA OneChanged ==
  ASSUME NEW c \in Live, Live' = Live,
         \A p \in Live : p # c => RegOf(p)' = RegOf(p)
  PROVE  RegsNow' = [RegsNow EXCEPT ![c] = RegOf(c)']
BY DEF RegsNow

(* A process that is not in schedule is in no unanswered call.              *)
LEMMA NotCalled ==
  ASSUME TrapInv, at # "idle", at # "schedule"
  PROVE  current \in Live /\ current \notin CalledNow
<1>1. ~InSchedule(current)
  BY CurrentFacts DEF InSchedule
<1>2. mem[kstack[current]] = Junk
  BY <1>1, CurrentFacts DEF TrapInv, FramesHold
<1> QED BY <1>2, CurrentFacts, KindsDiffer DEF CalledNow, InCallNow, Live

(* Steps that no program notices.                                           *)
LEMMA Unnoticed ==
  ASSUME Live' = Live, \A p \in Live : RegOf(p)' = RegOf(p),
         \A p \in Live : InCallNow(p)' <=> InCallNow(p)
  PROVE  UNCHANGED Machines!ownVars
<1>1. RegsNow' = RegsNow
  BY DEF RegsNow
<1>2. CalledNow' = CalledNow
  BY DEF CalledNow
<1> QED BY <1>1, <1>2, Zenon DEF Machines!ownVars, RegsNow, RegOf, CalledNow, InCallNow

LEMMA QuietSteps ==
  ASSUME TrapInv,
         \/ TlbFill \/ TrapReturn \/ RunTasks \/ Restore
         \/ \E cause \in {"ecall", "timer", "fault", "other"} : Trap(cause)
  PROVE  UNCHANGED Machines!ownVars
<1>1. UNCHANGED <<mem, kstack, space>>
  BY DEF TlbFill, TrapReturn, RunTasks, Restore, Trap, control
<1>2. Live' = Live
  BY <1>1 DEF Live
<1>3. \A p \in Live : InCallNow(p)' <=> InCallNow(p)
  BY <1>1 DEF InCallNow
<1>4. ASSUME NEW p \in Live PROVE RegOf(p)' = RegOf(p)
  <2>1. CASE TlbFill \/ TrapReturn
    BY <1>1, <2>1 DEF TlbFill, TrapReturn, control, RegOf
  <2>2. CASE RunTasks
    <3>1. at' \in {"trap_return", "schedule"} /\ at = "idle"
      <4>1. Head(queue) \in Pids
        BY <2>2, TailFacts DEF RunTasks, TrapInv, Typed
      <4> QED BY <2>2, <4>1 DEF RunTasks, TrapInv, Typed
    <3> QED BY <1>1, <3>1 DEF RegOf
  <2>3. CASE Restore
    <3>1. at = "restore" /\ at' = "user" /\ current' = current
          /\ cpu' = mem[space[current]].regs
      BY <2>3, RestoreInv DEF Restore, control
    <3> QED BY <1>1, <3>1 DEF RegOf
  <2>4. ASSUME NEW cause, Trap(cause) PROVE RegOf(p)' = RegOf(p)
    <3>1. at = "user" /\ at' = "alltraps" /\ UNCHANGED <<current, cpu>>
      BY <2>4, TrapStepInv DEF Trap
    <3> QED BY <1>1, <3>1 DEF RegOf
  <2> QED BY <2>1, <2>2, <2>3, <2>4
<1> QED BY <1>2, <1>3, <1>4, Unnoticed

(* __alltraps saves what the program had.                                   *)
LEMMA AlltrapsQuiet ==
  ASSUME TrapInv, Alltraps
  PROVE  UNCHANGED Machines!ownVars
<1>1. /\ at = "alltraps" /\ at' = "handler" /\ UNCHANGED <<current, kstack, space>>
      /\ mem' = [mem EXCEPT ![space[current]] = SaveContext(mem[space[current]])]
  BY AlltrapsInv DEF Alltraps, control
<1>2. PICK c \in Pids : c = current
  BY <1>1, CurrentFacts
<1>3. /\ space[c] \in Frames /\ mem[space[c]] \in Contexts /\ cpu \in Regs
      /\ space[c] # None
  BY <1>1, <1>2, CurrentFacts DEF TrapInv, RegistersSet, InUser
<1>4. /\ mem'[space[c]] = SaveContext(mem[space[c]])
      /\ \A g \in Frames : g # space[c] => mem'[g] = mem[g]
  BY <1>1, <1>2, <1>3 DEF TrapInv, Typed
<1>5. Live' = Live
  BY <1>1 DEF Live
<1>6. ASSUME NEW p \in Live PROVE InCallNow(p)' <=> InCallNow(p)
  <2>1. kstack[p] \in Frames /\ kstack[p] # space[c]
    BY <1>6 DEF Live, TrapInv, Typed, FramesOwned
  <2> QED BY <1>1, <1>4, <2>1 DEF InCallNow
<1>7. ASSUME NEW p \in Live PROVE RegOf(p)' = RegOf(p)
  <2>1. CASE p = c
    <3>1. mem'[space[c]].regs = cpu
      BY <1>2, <1>3, <1>4, NewContextFacts
    <3> QED BY <1>1, <1>2, <2>1, <3>1 DEF RegOf
  <2>2. CASE p # c
    <3>1. space[p] \in Frames /\ space[p] # space[c]
      BY <1>7, <2>2 DEF Live, TrapInv, Typed, FramesOwned
    <3> QED BY <1>1, <1>2, <1>4, <2>2, <3>1 DEF RegOf
  <2> QED BY <2>1, <2>2
<1> QED BY <1>5, <1>6, <1>7, Unnoticed

LEMMA UserRunsMachine ==
  ASSUME TrapInv, UserRuns
  PROVE  \E p \in Live : Machines!Run(p)
<1>1. /\ at = "user" /\ cpu' \in UserRegs
      /\ UNCHANGED <<at, mem, current, kstack, space>>
  BY DEF UserRuns, control
<1>2. PICK c \in Pids : c = current
  BY <1>1, CurrentFacts
<1>3. c \in Live /\ c \notin CalledNow
  BY <1>1, <1>2, NotCalled
<1>4. Live' = Live /\ CalledNow' = CalledNow
  BY <1>1 DEF Live, CalledNow, InCallNow
<1>5. RegOf(c)' = cpu' /\ \A p \in Live : p # c => RegOf(p)' = RegOf(p)
  BY <1>1, <1>2 DEF RegOf
<1>6. RegsNow' = [RegsNow EXCEPT ![c] = cpu']
  BY <1>3, <1>4, <1>5, OneChanged
<1>7. PICK r \in UserRegs : r = cpu'
  BY <1>1
<1>8. Machines!Run(c)
  <2>1. /\ c \notin CalledNow
        /\ \E q \in UserRegs : RegsNow' = [RegsNow EXCEPT ![c] = q]
        /\ Live' = Live /\ CalledNow' = CalledNow
    BY <1>3, <1>4, <1>6, <1>7
  <2> QED BY <2>1, Zenon DEF Machines!Run, RegsNow, RegOf, CalledNow, InCallNow
<1> QED BY <1>3, <1>8

(* The timer takes the processor away; the program is in no call.           *)
LEMMA HandleTimerQuiet ==
  ASSUME TrapInv, HandleTimer
  PROVE  UNCHANGED Machines!ownVars
<1>1. at = "handler" /\ Suspend(FALSE, mem)
  BY DEF HandleTimer
<1>2. PICK c \in Pids : c = current
  BY <1>1, CurrentFacts
<1>3. /\ mem' = [mem EXCEPT ![kstack[c]] = Suspended(FALSE)]
      /\ UNCHANGED <<kstack, space>> /\ at' = "idle"
  BY <1>1, <1>2, HoldsMem, SuspendInv DEF Suspend, Schedule
<1>4. /\ kstack[c] \in Frames /\ kstack[c] # None
      /\ c \in Live /\ c \notin CalledNow
  BY <1>1, <1>2, CurrentFacts, NotCalled
<1>5. /\ mem'[kstack[c]] = Suspended(FALSE)
      /\ \A g \in Frames : g # kstack[c] => mem'[g] = mem[g]
  BY <1>3, <1>4 DEF TrapInv, Typed
<1>6. Live' = Live
  BY <1>3 DEF Live
<1>7. ASSUME NEW p \in Live PROVE InCallNow(p)' <=> InCallNow(p)
  <2>1. CASE p = c
    <3>1. ~InCallNow(c)
      BY <1>4 DEF CalledNow
    <3>2. ~InCallNow(c)'
      BY <1>3, <1>5 DEF InCallNow, Suspended
    <3> QED BY <2>1, <3>1, <3>2
  <2>2. CASE p # c
    <3>1. kstack[p] \in Frames /\ kstack[p] # kstack[c]
      BY <1>4, <1>7, <2>2 DEF Live, TrapInv, Typed, FramesOwned
    <3> QED BY <1>3, <1>5, <3>1 DEF InCallNow
  <2> QED BY <2>1, <2>2
<1>8. ASSUME NEW p \in Live PROVE RegOf(p)' = RegOf(p)
  <2>1. space[p] \in Frames /\ space[p] # kstack[c]
    BY <1>4, <1>8 DEF Live, TrapInv, Typed, FramesOwned
  <2> QED BY <1>1, <1>3, <1>5, <2>1 DEF RegOf
<1> QED BY <1>6, <1>7, <1>8, Unnoticed

(* yield: past the ecall, and in an unanswered call.                        *)
LEMMA SysYieldMachine ==
  ASSUME TrapInv, SysYield
  PROVE  \E p \in Live : Machines!CallYield(p)
<1>1. at = "handler" /\ Suspend(TRUE, Entered) /\ TrapCx.regs.x = "yield"
  BY DEF SysYield, InCall
<1>2. PICK c \in Pids : c = current
  BY <1>1, CurrentFacts
<1>3. /\ mem' = [Entered EXCEPT ![kstack[c]] = Suspended(TRUE)]
      /\ UNCHANGED <<kstack, space>> /\ at' = "idle"
  BY <1>1, <1>2, EnteredFacts, SuspendInv DEF Suspend, Schedule
<1>4. /\ kstack[c] \in Frames /\ kstack[c] # None /\ space[c] \in Frames
      /\ space[c] # None /\ kstack[c] # space[c]
      /\ c \in Live /\ c \notin CalledNow /\ TrapCx \in Contexts
      /\ TrapCx = mem[space[c]]
  BY <1>1, <1>2, CurrentFacts, NotCalled DEF TrapInv, FramesOwned, TrapCx
<1>5. /\ Entered \in [Frames -> Contexts \cup Handlers \cup {Junk}]
      /\ Entered[space[c]] = Advanced(TrapCx)
      /\ \A g \in Frames : g # space[c] => Entered[g] = mem[g]
  BY <1>1, <1>2, EnteredFacts DEF Holds
<1>6. /\ mem'[kstack[c]] = Suspended(TRUE)
      /\ mem'[space[c]] = Advanced(TrapCx)
      /\ \A g \in Frames : g \notin {kstack[c], space[c]} => mem'[g] = mem[g]
  BY <1>3, <1>4, <1>5
<1>7. Live' = Live
  BY <1>3 DEF Live
<1>8. CalledNow' = CalledNow \cup {c}
  <2>1. InCallNow(c)'
    BY <1>3, <1>6 DEF InCallNow, Suspended
  <2>2. ASSUME NEW p \in Live, p # c PROVE InCallNow(p)' <=> InCallNow(p)
    <3>1. kstack[p] \in Frames /\ kstack[p] \notin {kstack[c], space[c]}
      BY <1>4, <2>2 DEF Live, TrapInv, Typed, FramesOwned
    <3> QED BY <1>3, <1>6, <3>1 DEF InCallNow
  <2> QED BY <1>4, <1>7, <2>1, <2>2 DEF CalledNow
<1>9. ASSUME NEW p \in Live, p # c PROVE RegOf(p)' = RegOf(p)
  <2>1. space[p] \in Frames /\ space[p] \notin {kstack[c], space[c]}
    BY <1>4, <1>9 DEF Live, TrapInv, Typed, FramesOwned
  <2>2. mem'[space'[p]] = mem[space[p]]
    BY <1>3, <1>6, <2>1
  <2>3. at = "handler" /\ at' = "idle"
    BY <1>1, <1>3
  <2> QED BY <2>2, <2>3 DEF RegOf
<1>10. /\ RegOf(c) = TrapCx.regs
       /\ RegOf(c)' = [TrapCx.regs EXCEPT !.pc = @ + 1]
  <2>1. at = "handler" /\ at' = "idle" /\ mem'[space'[c]] = Advanced(TrapCx)
    BY <1>1, <1>3, <1>6
  <2>2. Advanced(TrapCx).regs = [TrapCx.regs EXCEPT !.pc = @ + 1]
    BY <1>4, ContextFacts
  <2>3. RegOf(c) = TrapCx.regs
    BY <1>4, <2>1 DEF RegOf
  <2>4. RegOf(c)' = Advanced(TrapCx).regs
    BY <2>1 DEF RegOf
  <2> QED BY <2>2, <2>3, <2>4
<1>11. RegsNow[c] = TrapCx.regs
  BY <1>4, <1>10 DEF RegsNow
<1>12. RegsNow' = [RegsNow EXCEPT ![c] = [TrapCx.regs EXCEPT !.pc = @ + 1]]
  BY <1>4, <1>7, <1>9, <1>10, OneChanged
<1>13. RegsNow' = [RegsNow EXCEPT ![c].pc = @ + 1]
  BY <1>4, <1>11, <1>12 DEF RegsNow
<1>14. Machines!CallYield(c)
  <2>1. /\ c \notin CalledNow /\ RegsNow[c].x = "yield"
        /\ RegsNow' = [RegsNow EXCEPT ![c].pc = @ + 1]
        /\ CalledNow' = CalledNow \cup {c} /\ Live' = Live
    BY <1>1, <1>4, <1>7, <1>8, <1>11, <1>13
  <2> QED BY <2>1, Zenon DEF Machines!CallYield, RegsNow, RegOf, CalledNow, InCallNow
<1> QED BY <1>4, <1>14

(* The handler that schedule returns to answers the call it was in.         *)
LEMMA ResumeMachine ==
  ASSUME TrapInv, ResumeHandler
  PROVE  (\E p \in Live : Machines!AnswerYield(p)) \/ UNCHANGED Machines!ownVars
<1>1. /\ at = "schedule" /\ at' = "trap_return"
      /\ UNCHANGED <<current, kstack, space>>
  BY ResumeFrames DEF ResumeHandler, control
<1>2. PICK c \in Pids : c = current
  BY <1>1, CurrentFacts
<1>3. /\ mem[kstack[c]] \in Handlers /\ mem'[kstack[c]] = Junk
      /\ mem'[space[c]] = IF mem[kstack[c]].call
                          THEN Answering(mem[space[c]], 0) ELSE mem[space[c]]
      /\ \A g \in Frames : g \notin {kstack[c], space[c]} => mem'[g] = mem[g]
  BY <1>2, ResumeFrames
<1>4. /\ kstack[c] \in Frames /\ kstack[c] # None /\ space[c] \in Frames
      /\ space[c] # None /\ mem[space[c]] \in Contexts /\ c \in Live
  BY <1>1, <1>2, CurrentFacts DEF Live
<1>5. Live' = Live
  BY <1>1 DEF Live
<1>6. ASSUME NEW p \in Live, p # c
      PROVE  (InCallNow(p)' <=> InCallNow(p)) /\ RegOf(p)' = RegOf(p)
  <2>1. /\ kstack[p] \in Frames /\ kstack[p] \notin {kstack[c], space[c]}
        /\ space[p] \in Frames /\ space[p] \notin {kstack[c], space[c]}
    BY <1>4, <1>6 DEF Live, TrapInv, Typed, FramesOwned
  <2>2. mem'[kstack[p]] = mem[kstack[p]] /\ mem'[space[p]] = mem[space[p]]
    BY <1>3, <2>1
  <2> QED BY <1>1, <2>2 DEF InCallNow, RegOf
<1>7. ~InCallNow(c)' /\ (InCallNow(c) <=> mem[kstack[c]].call)
  BY <1>1, <1>3, KindsDiffer DEF InCallNow
<1>8. RegOf(c) = mem[space[c]].regs /\ RegOf(c)' = mem'[space[c]].regs
  BY <1>1 DEF RegOf
<1>9. CASE ~mem[kstack[c]].call
  BY <1>3, <1>5, <1>6, <1>7, <1>8, <1>9, Unnoticed
<1>10. CASE mem[kstack[c]].call
  <2>1. \A a0 \in Int : Answering(mem[space[c]], a0).regs = [mem[space[c]].regs EXCEPT !.a0 = a0]
    BY <1>4, ContextFacts
  <2>2. Answering(mem[space[c]], 0).regs = [RegOf(c) EXCEPT !.a0 = 0]
    BY <1>8, <2>1
  <2>3. RegOf(c)' = [RegOf(c) EXCEPT !.a0 = 0]
    BY <1>3, <1>8, <1>10, <2>2
  <2>4. RegsNow' = [RegsNow EXCEPT ![c] = [RegOf(c) EXCEPT !.a0 = 0]]
    BY <1>4, <1>5, <1>6, <2>3, OneChanged
  <2>5. RegsNow' = [RegsNow EXCEPT ![c].a0 = 0]
    BY <1>4, <2>4 DEF RegsNow
  <2>6. CalledNow' = CalledNow \ {c} /\ c \in CalledNow
    BY <1>4, <1>5, <1>6, <1>7, <1>10 DEF CalledNow
  <2>7. Machines!AnswerYield(c)
    BY <1>5, <2>5, <2>6, Zenon DEF Machines!AnswerYield, RegsNow, RegOf, CalledNow, InCallNow
  <2> QED BY <1>4, <2>7
<1> QED BY <1>9, <1>10

(* The answer is written, past the ecall, into the caller's registers and   *)
(* nobody else's.                                                           *)
LEMMA AnswerStep ==
  ASSUME TrapInv, at = "handler", at' = "trap_return",
         NEW c \in Pids, c = current,
         UNCHANGED <<current, space>>, NEW a0 \in Int,
         mem' = [mem EXCEPT ![space[current]] = Answering(Advanced(TrapCx), a0)],
         \A p \in Live : kstack'[p] = kstack[p]
  PROVE  /\ Live' = Live /\ CalledNow' = CalledNow
         /\ RegsNow' = Machines!Answered(c, a0)
         /\ RegsNow[c] = TrapCx.regs
<1>1. c = current
  OBVIOUS
<1>2. /\ space[c] \in Frames /\ space[c] # None /\ c \in Live
      /\ TrapCx \in Contexts /\ TrapCx = mem[space[c]]
  BY <1>1, CurrentFacts DEF TrapCx, Live
<1>3. /\ mem'[space[c]] = Answering(Advanced(TrapCx), a0)
      /\ \A g \in Frames : g # space[c] => mem'[g] = mem[g]
  BY <1>1, <1>2 DEF TrapInv, Typed
<1>4. Live' = Live
  BY DEF Live
<1>5. ASSUME NEW p \in Live PROVE InCallNow(p)' <=> InCallNow(p)
  <2>1. kstack[p] \in Frames /\ kstack[p] # space[c]
    BY <1>5 DEF Live, TrapInv, Typed, FramesOwned
  <2> QED BY <1>3, <2>1 DEF InCallNow
<1>6. ASSUME NEW p \in Live, p # c PROVE RegOf(p)' = RegOf(p)
  <2>1. space[p] \in Frames /\ space[p] # space[c]
    BY <1>2, <1>6 DEF Live, TrapInv, Typed, FramesOwned
  <2> QED BY <1>1, <1>3, <1>6, <2>1 DEF RegOf
<1>7. /\ RegOf(c) = TrapCx.regs
      /\ RegOf(c)' = [[TrapCx.regs EXCEPT !.pc = @ + 1] EXCEPT !.a0 = a0]
  <2>1. Advanced(TrapCx) \in Contexts /\ Advanced(TrapCx).regs = [TrapCx.regs EXCEPT !.pc = @ + 1]
    BY <1>2, ContextFacts
  <2>2. Answering(Advanced(TrapCx), a0).regs = [Advanced(TrapCx).regs EXCEPT !.a0 = a0]
    BY <2>1, ContextFacts
  <2> QED BY <1>2, <1>3, <2>1, <2>2 DEF RegOf
<1>8. RegsNow[c] = TrapCx.regs
  BY <1>2, <1>7 DEF RegsNow
<1>9. RegsNow' = [RegsNow EXCEPT ![c] = [[RegsNow[c] EXCEPT !.pc = @ + 1] EXCEPT !.a0 = a0]]
  BY <1>2, <1>4, <1>6, <1>7, <1>8, OneChanged
<1>10. RegsNow = [p \in Live |-> RegsNow[p]]
  BY DEF RegsNow
<1>11. RegsNow' = [RegsNow EXCEPT ![c].pc = @ + 1, ![c].a0 = a0]
  BY <1>2, <1>9, <1>10, AnsweredFacts
<1>12. Machines!Answered(c, a0) = [RegsNow EXCEPT ![c].pc = @ + 1, ![c].a0 = a0]
  BY Zenon DEF Machines!Answered, RegsNow, RegOf
<1>13. CalledNow' = CalledNow
  BY <1>4, <1>5 DEF CalledNow
<1> QED BY <1>1, <1>4, <1>8, <1>11, <1>12, <1>13

(* Calls that are answered at once.                                         *)
LEMMA SysGetpidMachine ==
  ASSUME TrapInv, SysGetpid
  PROVE  \E p \in Live : Machines!Answer(p)
<1>1. /\ at = "handler" /\ at' = "trap_return" /\ TrapCx.regs.x = "getpid"
      /\ UNCHANGED <<current, space, kstack>>
      /\ mem' = SetResult(Entered, space[current], current)
  BY DEF SysGetpid, InCall, control
<1>2. current \in Int
  <2>1. current \in Pids
    BY <1>1, CurrentFacts
  <2> QED BY <2>1, PidsAssumption
<1>3. mem' = [mem EXCEPT ![space[current]] = Answering(Advanced(TrapCx), current)]
  BY <1>1, <1>2, EnteredFacts
<1> PICK c \in Pids : c = current
  BY <1>1, CurrentFacts
<1>4. /\ Live' = Live /\ CalledNow' = CalledNow
      /\ RegsNow' = Machines!Answered(c, c)
      /\ RegsNow[c].x = "getpid"
  BY <1>1, <1>2, <1>3, AnswerStep
<1>5. c \in Live /\ c \notin CalledNow
  BY <1>1, NotCalled
<1>6. Machines!Answer(c)
  BY <1>4, <1>5, Zenon DEF Machines!Answer, RegsNow, RegOf, CalledNow, InCallNow
<1> QED BY <1>5, <1>6

LEMMA SysWaitpidMachine ==
  ASSUME TrapInv, SysWaitpid
  PROVE  \E p \in Live : Machines!Answer(p)
<1>1. /\ at = "handler" /\ at' = "trap_return" /\ TrapCx.regs.x = "waitpid"
      /\ UNCHANGED <<current, space>>
  BY DEF SysWaitpid, InCall
<1> PICK c \in Pids : c = current
  BY <1>1, CurrentFacts
<1>2. c \in Live /\ c \notin CalledNow
  BY <1>1, NotCalled
<1>3. \E a0 \in Pids \cup {-1, -2} :
        /\ a0 \in Int
        /\ mem' = [mem EXCEPT ![space[current]] = Answering(Advanced(TrapCx), a0)]
        /\ \A p \in Live : kstack'[p] = kstack[p]
  <2>1. ASSUME NEW d \in Pids, status[d] = "Zombie",
               mem' = SetResult([Entered EXCEPT ![kstack[d]] = Junk], space[current], d),
               kstack' = [kstack EXCEPT ![d] = None]
        PROVE  /\ d \in Int
               /\ mem' = [mem EXCEPT ![space[current]] = Answering(Advanced(TrapCx), d)]
               /\ \A p \in Live : kstack'[p] = kstack[p]
    <3>1. /\ space[d] = None
          /\ mem' = [mem EXCEPT ![space[current]] = Answering(Advanced(TrapCx), d)]
      BY <1>1, <2>1, ReapFrames
    <3>2. \A p \in Live : p \in Pids /\ p # d
      BY <3>1 DEF Live
    <3>3. \A p \in Live : kstack'[p] = kstack[p]
      BY <2>1, <3>2 DEF TrapInv, Typed
    <3>4. d \in Int
      BY PidsAssumption
    <3> QED BY <3>1, <3>3, <3>4
  <2>2. ASSUME NEW a0 \in Int, mem' = SetResult(Entered, space[current], a0), kstack' = kstack
        PROVE  mem' = [mem EXCEPT ![space[current]] = Answering(Advanced(TrapCx), a0)]
    BY <1>1, <2>2, EnteredFacts
  <2>3. -1 \in Int /\ -2 \in Int
    OBVIOUS
  <2>4. \/ \E d \in Pids :
             /\ status[d] = "Zombie"
             /\ mem' = SetResult([Entered EXCEPT ![kstack[d]] = Junk], space[current], d)
             /\ kstack' = [kstack EXCEPT ![d] = None]
        \/ mem' = SetResult(Entered, space[current], -2) /\ kstack' = kstack
        \/ mem' = SetResult(Entered, space[current], -1) /\ kstack' = kstack
    BY DEF SysWaitpid
  <2> QED BY <2>1, <2>2, <2>3, <2>4
<1>4. PICK a0 \in Pids \cup {-1, -2} :
        /\ a0 \in Int
        /\ mem' = [mem EXCEPT ![space[current]] = Answering(Advanced(TrapCx), a0)]
        /\ \A p \in Live : kstack'[p] = kstack[p]
  BY <1>3
<1>5. /\ Live' = Live /\ CalledNow' = CalledNow
      /\ RegsNow' = Machines!Answered(c, a0)
      /\ RegsNow[c].x = "waitpid"
  BY <1>1, <1>4, AnswerStep
<1>6. Machines!Answer(c)
  BY <1>2, <1>5, Zenon DEF Machines!Answer, RegsNow, RegOf, CalledNow, InCallNow
<1> QED BY <1>2, <1>6

(* exec either fails, or the program starts afresh.                         *)
LEMMA SysExecMachine ==
  ASSUME TrapInv, SysExec
  PROVE  \E p \in Live : Machines!Answer(p)
<1>1. /\ at = "handler" /\ at' = "trap_return" /\ TrapCx.regs.x = "exec"
      /\ UNCHANGED <<current, kstack>>
  BY DEF SysExec, InCall
<1> PICK c \in Pids : c = current
  BY <1>1, CurrentFacts
<1>2. c \in Live /\ c \notin CalledNow
  BY <1>1, NotCalled
<1>3. CASE mem' = SetResult(Entered, space[current], -1) /\ UNCHANGED space
  <2>1. ASSUME NEW a0 \in Int, mem' = SetResult(Entered, space[current], a0)
        PROVE  mem' = [mem EXCEPT ![space[current]] = Answering(Advanced(TrapCx), a0)]
    BY <1>1, <2>1, EnteredFacts
  <2>2. -1 \in Int
    OBVIOUS
  <2>3. mem' = [mem EXCEPT ![space[current]] = Answering(Advanced(TrapCx), -1)]
    BY <1>3, <2>1, <2>2
  <2>4. /\ Live' = Live /\ CalledNow' = CalledNow
        /\ RegsNow' = Machines!Answered(c, -1)
        /\ RegsNow[c].x = "exec"
    BY <1>1, <1>3, <2>2, <2>3, AnswerStep
  <2>5. Machines!Answer(c)
    BY <1>2, <2>4, Zenon DEF Machines!Answer, RegsNow, RegOf, CalledNow, InCallNow
  <2> QED BY <1>2, <2>5
<1>4. ASSUME NEW f \in Frames \ Used,
             space' = [space EXCEPT ![current] = f],
             mem' = SetResult([mem EXCEPT ![space[current]] = Junk,
                                          ![f] = AppInitContext(StackTop(current))], f, 0)
      PROVE  \E p \in Live : Machines!Answer(p)
  <2>1. c = current
    OBVIOUS
  <2>2. /\ mem'[f].regs = [AppRegs EXCEPT !.a0 = 0]
        /\ \A g \in Frames : g \notin {f, space[c]} => mem'[g] = mem[g]
    BY <1>1, <1>4, <2>1, ExecFrames
  <2>3. /\ space'[c] = f /\ f # None /\ c \in Live /\ space[c] # None
        /\ \A p \in Pids : p # c => space'[p] = space[p]
        /\ TrapCx = mem[space[c]]
    BY <1>1, <1>2, <1>4, <2>1, CurrentFacts, PidsAssumption DEF TrapInv, Typed, TrapCx
  <2>4. \A p \in Pids : kstack[p] # f /\ space[p] # f
    BY <1>4 DEF Used
  <2>5. Live' = Live
    BY <2>3 DEF Live
  <2>6. ASSUME NEW p \in Live PROVE InCallNow(p)' <=> InCallNow(p)
    <3>1. kstack[p] \in Frames /\ kstack[p] \notin {f, space[c]}
      BY <2>4, <2>6 DEF Live, TrapInv, Typed, FramesOwned
    <3>2. mem'[kstack'[p]] = mem[kstack[p]]
      BY <1>1, <2>2, <3>1
    <3> QED BY <3>2 DEF InCallNow
  <2>7. ASSUME NEW p \in Live, p # c PROVE RegOf(p)' = RegOf(p)
    <3>1. space[p] \in Frames /\ space[p] \notin {f, space[c]} /\ p \in Pids
      BY <2>3, <2>4, <2>7 DEF Live, TrapInv, Typed, FramesOwned
    <3>2. mem'[space'[p]] = mem[space[p]]
      BY <2>2, <2>3, <2>7, <3>1
    <3> QED BY <1>1, <3>2 DEF RegOf
  <2>8. RegOf(c)' = [AppRegs EXCEPT !.a0 = 0] /\ RegOf(c) = TrapCx.regs
    <3>1. RegOf(c)' = mem'[space'[c]].regs
      BY <1>1 DEF RegOf
    <3>2. RegOf(c) = TrapCx.regs
      BY <1>1, <2>3 DEF RegOf
    <3> QED BY <2>2, <2>3, <3>1, <3>2
  <2>9. RegsNow' = [RegsNow EXCEPT ![c] = [AppRegs EXCEPT !.a0 = 0]]
    BY <2>3, <2>5, <2>7, <2>8, OneChanged
  <2>10. RegsNow[c].x = "exec"
    BY <1>1, <2>3, <2>8 DEF RegsNow
  <2>11. CalledNow' = CalledNow
    BY <2>5, <2>6 DEF CalledNow
  <2>12. c \notin CalledNow
    BY <1>2, <2>1
  <2>13. Machines!Answer(c)
    BY <2>5, <2>9, <2>10, <2>11, <2>12, Zenon
       DEF Machines!Answer, RegsNow, RegOf, CalledNow, InCallNow
  <2> QED BY <2>3, <2>13
<1> QED BY <1>3, <1>4 DEF SysExec

(* The child starts with its parent's registers but for the answer.         *)
LEMMA SysForkMachine ==
  ASSUME TrapInv, SysFork
  PROVE  \E p \in Live, d \in Pids : Machines!Fork(p, d)
<1>1. /\ at = "handler" /\ at' = "trap_return" /\ TrapCx.regs.x = "fork"
      /\ UNCHANGED current
  BY DEF SysFork, InCall
<1>2. PICK d \in Pids, f \in Frames \ Used, k \in Frames \ Used :
        /\ f # k /\ status[d] = "None" /\ d # current
        /\ kstack[d] = None /\ space[d] = None
        /\ kstack' = [kstack EXCEPT ![d] = k]
        /\ space' = [space EXCEPT ![d] = f]
        /\ mem'[f] = ForkedCx(TrapCx, d)
        /\ mem'[space[current]] = Answering(Advanced(TrapCx), d)
        /\ \A g \in Frames : g \notin {f, space[current]} => mem'[g] = mem[g]
  BY ForkFrames
<1>3. PICK c \in Pids : c = current
  BY <1>1, CurrentFacts
<1>4. /\ c \in Live /\ c \notin CalledNow /\ TrapCx \in Contexts
      /\ TrapCx = mem[space[c]] /\ space[c] \in Frames /\ space[c] # None
      /\ space[c] \in Used
  BY <1>1, <1>3, CurrentFacts, NotCalled DEF TrapCx, Used
<1>5. /\ kstack'[d] = k /\ space'[d] = f /\ f # None /\ k # None
      /\ \A p \in Pids : p # d => kstack'[p] = kstack[p] /\ space'[p] = space[p]
      /\ \A p \in Pids : kstack[p] # f /\ space[p] # f /\ kstack[p] # k
  BY <1>2, PidsAssumption DEF TrapInv, Typed, Used
<1>6. Live' = Live \cup {d} /\ d \notin Live
  BY <1>2, <1>5 DEF Live
<1>7. CalledNow' = CalledNow
  <2>1. ASSUME NEW p \in Live PROVE InCallNow(p)' <=> InCallNow(p)
    <3>1. /\ p \in Pids /\ p # d /\ kstack[p] \in Frames
          /\ kstack[p] \notin {f, space[c]}
      BY <1>5, <1>6, <2>1 DEF Live, TrapInv, Typed, FramesOwned
    <3>2. mem'[kstack'[p]] = mem[kstack[p]]
      BY <1>2, <1>3, <1>5, <3>1
    <3> QED BY <3>2 DEF InCallNow
  <2>2. ~InCallNow(d)'
    <3>1. mem[k] = Junk
      BY <1>2 DEF TrapInv, FramesHold
    <3>2. mem'[k] = mem[k]
      BY <1>2, <1>3, <1>4
    <3> QED BY <1>5, <3>1, <3>2, KindsDiffer DEF InCallNow
  <2> QED BY <1>6, <2>1, <2>2 DEF CalledNow
<1>8. ASSUME NEW p \in Live, p # c PROVE RegOf(p)' = RegOf(p)
  <2>1. /\ p \in Pids /\ p # d /\ space[p] \in Frames
        /\ space[p] \notin {f, space[c]}
    BY <1>4, <1>5, <1>6, <1>8 DEF Live, TrapInv, Typed, FramesOwned
  <2>2. mem'[space'[p]] = mem[space[p]]
    BY <1>2, <1>3, <1>5, <2>1
  <2> QED BY <1>1, <2>2 DEF RegOf
<1>9. RegOf(c) = TrapCx.regs
  BY <1>1, <1>4 DEF RegOf
<1>10. RegOf(d)' = [[TrapCx.regs EXCEPT !.pc = @ + 1] EXCEPT !.a0 = 0]
  <2>1. RegOf(d)' = mem'[space'[d]].regs
    BY <1>1 DEF RegOf
  <2>2. ForkedCx(TrapCx, d).regs = [[TrapCx.regs EXCEPT !.pc = @ + 1] EXCEPT !.a0 = 0]
    BY <1>4, ContextFacts
  <2> QED BY <1>2, <1>5, <2>1, <2>2
<1>11. RegOf(c)' = [[TrapCx.regs EXCEPT !.pc = @ + 1] EXCEPT !.a0 = d]
  <2>1. RegOf(c)' = mem'[space'[c]].regs
    BY <1>1 DEF RegOf
  <2>2. space'[c] = space[c]
    BY <1>2, <1>3, <1>5
  <2>3. /\ Advanced(TrapCx) \in Contexts
        /\ Advanced(TrapCx).regs = [TrapCx.regs EXCEPT !.pc = @ + 1]
    BY <1>4, ContextFacts
  <2>4. d \in Int
    BY PidsAssumption
  <2>5. Answering(Advanced(TrapCx), d).regs = [Advanced(TrapCx).regs EXCEPT !.a0 = d]
    BY <2>3, <2>4, ContextFacts
  <2> QED BY <1>2, <1>3, <2>1, <2>2, <2>3, <2>5
<1> DEFINE Ans(a0) == [RegsNow EXCEPT ![c].pc = @ + 1, ![c].a0 = a0]
<1>12. RegsNow = [p \in Live |-> RegsNow[p]] /\ RegsNow[c] = TrapCx.regs
       /\ \A p \in Live : RegsNow[p] = RegOf(p)
  BY <1>4, <1>9 DEF RegsNow
<1>13. ASSUME NEW a0
       PROVE  Ans(a0) = [RegsNow EXCEPT ![c] = [[RegsNow[c] EXCEPT !.pc = @ + 1] EXCEPT !.a0 = a0]]
  BY <1>4, <1>12, AnsweredFacts
<1> HIDE DEF Ans
<1>14. ASSUME NEW a0
       PROVE  /\ Ans(a0)[c] = [[TrapCx.regs EXCEPT !.pc = @ + 1] EXCEPT !.a0 = a0]
              /\ \A p \in Live : p # c => Ans(a0)[p] = RegOf(p)
  BY <1>4, <1>12, <1>13
<1>15. RegsNow' = [q \in Live' |-> IF q = d THEN Ans(0)[c] ELSE Ans(d)[q]]
  <2>1. ASSUME NEW q \in Live' PROVE RegOf(q)' = IF q = d THEN Ans(0)[c] ELSE Ans(d)[q]
    <3>1. CASE q = d
      BY <1>10, <1>14, <3>1
    <3>2. CASE q = c
      BY <1>3, <1>2, <1>11, <1>14, <3>2
    <3>3. CASE q # d /\ q # c
      BY <1>6, <1>8, <1>14, <3>3
    <3> QED BY <3>1, <3>2, <3>3
  <2> QED BY <2>1 DEF RegsNow
<1>16. \A a0 : Machines!Answered(c, a0) = Ans(a0)
  BY Zenon DEF Machines!Answered, RegsNow, RegOf, Ans
<1>17. RegsNow' = [q \in Live' |-> IF q = d THEN Machines!Answered(c, 0)[c]
                                   ELSE Machines!Answered(c, d)[q]]
  <2>1. Machines!Answered(c, 0) = Ans(0) /\ Machines!Answered(c, d) = Ans(d)
    BY <1>16
  <2> QED BY <1>15, <2>1
<1>18. RegsNow[c].x = "fork"
  BY <1>1, <1>12
<1>19. Machines!Fork(c, d)
  BY <1>4, <1>6, <1>7, <1>17, <1>18, Zenon
     DEF Machines!Fork, RegsNow, RegOf, CalledNow, InCallNow
<1> QED BY <1>4, <1>19

LEMMA ExitMachine ==
  ASSUME TrapInv, Exit
  PROVE  \E p \in Live : Machines!Exit(p)
<1>1. at = "handler" /\ at' = "idle" /\ UNCHANGED kstack
  BY DEF Exit, InCall
<1>2. PICK c \in Pids : c = current
  BY <1>1, CurrentFacts
<1>3. /\ mem' = [mem EXCEPT ![space[c]] = Junk]
      /\ space' = [space EXCEPT ![c] = None]
  BY <1>2 DEF Exit
<1>4. c \in Live /\ c \notin CalledNow /\ space[c] \in Frames /\ space[c] # None
  BY <1>1, <1>2, CurrentFacts, NotCalled
<1>5. /\ space'[c] = None
      /\ \A p \in Pids : p # c => space'[p] = space[p]
      /\ \A g \in Frames : g # space[c] => mem'[g] = mem[g]
  BY <1>3, <1>4 DEF TrapInv, Typed
<1>6. Live' = Live \ {c}
  BY <1>5 DEF Live
<1>7. ASSUME NEW p \in Live, p # c
      PROVE  (InCallNow(p)' <=> InCallNow(p)) /\ RegOf(p)' = RegOf(p)
  <2>1. /\ p \in Pids /\ kstack[p] \in Frames /\ kstack[p] # space[c]
        /\ space[p] \in Frames /\ space[p] # space[c]
    BY <1>4, <1>7 DEF Live, TrapInv, Typed, FramesOwned
  <2>2. mem'[kstack'[p]] = mem[kstack[p]] /\ mem'[space'[p]] = mem[space[p]]
    BY <1>1, <1>5, <1>7, <2>1
  <2> QED BY <1>1, <2>2 DEF InCallNow, RegOf
<1>8. CalledNow' = CalledNow
  BY <1>4, <1>6, <1>7 DEF CalledNow
<1>9. RegsNow' = [q \in Live' |-> RegsNow[q]]
  BY <1>6, <1>7 DEF RegsNow
<1>10. Machines!Exit(c)
  BY <1>4, <1>6, <1>8, <1>9, Zenon DEF Machines!Exit, RegsNow, RegOf, CalledNow, InCallNow
<1> QED BY <1>4, <1>10

(* A call that is not known: past the ecall, and unanswered for ever.       *)
LEMMA UnsupportedMachine ==
  ASSUME TrapInv, Unsupported
  PROVE  \E p \in Live : Machines!Stop(p)
<1>1. at = "handler" /\ at' = "halted" /\ UNCHANGED <<current, space, kstack>>
  BY DEF Unsupported, control
<1>2. PICK c \in Pids : c = current
  BY <1>1, CurrentFacts
<1>3. c \in Live /\ c \notin CalledNow
  BY <1>1, <1>2, NotCalled
<1>4. /\ space[c] \in Frames /\ space[c] # None
      /\ TrapCx \in Contexts /\ TrapCx = mem[space[c]]
  BY <1>1, <1>2, CurrentFacts DEF TrapCx
<1>5. /\ Live' = Live /\ RegOf(c) = TrapCx.regs
      /\ RegsNow[c] = TrapCx.regs
  BY <1>1, <1>3, <1>4 DEF Live, RegOf, RegsNow
<1>6. \A g \in Frames : g # space[c] => mem'[g] = mem[g]
  BY <1>1, <1>2, EnteredFacts DEF Unsupported
<1>7. ASSUME NEW p \in Live PROVE InCallNow(p)' <=> InCallNow(p)
  <2>1. kstack[p] \in Frames /\ kstack[p] # space[c]
    BY <1>7 DEF Live, TrapInv, Typed, FramesOwned
  <2> QED BY <1>1, <1>6, <2>1 DEF InCallNow
<1>8. CalledNow' = CalledNow
  BY <1>5, <1>7 DEF CalledNow
<1>9. ASSUME NEW p \in Live, p # c PROVE RegOf(p)' = RegOf(p)
  <2>1. space[p] \in Frames /\ space[p] # space[c]
    BY <1>4, <1>9 DEF Live, TrapInv, Typed, FramesOwned
  <2> QED BY <1>1, <1>6, <2>1 DEF RegOf
<1>10. CASE mem' = mem
  <2>1. \A p \in Live : RegOf(p)' = RegOf(p)
    BY <1>1, <1>10 DEF RegOf
  <2>2. RegsNow' = RegsNow
    BY <1>5, <2>1 DEF RegsNow
  <2>3. Machines!Stop(c)
    BY <1>3, <1>5, <1>8, <2>2, Zenon DEF Machines!Stop, RegsNow, RegOf, CalledNow, InCallNow
  <2> QED BY <1>3, <2>3
<1>11. CASE TrapCx.regs.x \notin Calls /\ mem' = Entered
  <2>1. Advanced(TrapCx).regs = [TrapCx.regs EXCEPT !.pc = @ + 1]
    BY <1>4, ContextFacts
  <2>2. mem'[space[c]] = Advanced(TrapCx)
    BY <1>1, <1>2, <1>11, EnteredFacts
  <2>3. RegOf(c)' = [TrapCx.regs EXCEPT !.pc = @ + 1]
    BY <1>1, <2>1, <2>2 DEF RegOf
  <2>4. RegsNow' = [RegsNow EXCEPT ![c] = [RegsNow[c] EXCEPT !.pc = @ + 1]]
    BY <1>3, <1>5, <1>9, <2>3, OneChanged
  <2>5. RegsNow' = [RegsNow EXCEPT ![c].pc = @ + 1]
    BY <2>4
  <2>6. RegsNow[c].x \notin Machines!Calls
    BY <1>5, <1>11 DEF Calls, Machines!Calls
  <2>7. Machines!Stop(c)
    BY <1>3, <1>5, <1>8, <2>5, <2>6, Zenon
       DEF Machines!Stop, RegsNow, RegOf, CalledNow, InCallNow
  <2> QED BY <1>3, <2>7
<1> QED BY <1>10, <1>11 DEF Unsupported

(* Before any trap there is one program, with the registers of its image.   *)
LEMMA InitMachine == Init => Machines!MachineInit
<1> SUFFICES ASSUME Init PROVE Machines!MachineInit
  OBVIOUS
<1>1. PICK f \in Frames, k \in Frames :
        /\ f # k
        /\ space = [p \in Pids |-> IF p = 0 THEN f ELSE None]
        /\ kstack = [p \in Pids |-> IF p = 0 THEN k ELSE None]
        /\ mem = [g \in Frames |-> IF g = f THEN AppInitContext(StackTop(0)) ELSE Junk]
  BY DEF Init
<1>2. at = "idle"
  BY DEF Init
<1>3. f # None
  BY PidsAssumption
<1>4. Live = {0}
  BY <1>1, <1>3, PidsAssumption DEF Live
<1>5. space[0] = f /\ kstack[0] = k /\ mem[f] = AppInitContext(StackTop(0)) /\ mem[k] = Junk
  BY <1>1, PidsAssumption
<1>6. RegOf(0) = AppRegs
  BY <1>2, <1>5 DEF RegOf, AppInitContext
<1>7. RegsNow = [p \in {0} |-> AppRegs]
  BY <1>4, <1>6 DEF RegsNow
<1>8. CalledNow = {}
  BY <1>4, <1>5, KindsDiffer DEF CalledNow, InCallNow
<1>9. tp \in Tps /\ (at = "halted") = FALSE
  BY <1>2 DEF Init
<1> QED BY <1>4, <1>7, <1>8, <1>9, Zenon
       DEF Machines!MachineInit, RegsNow, RegOf, CalledNow, InCallNow

(* The steps of the kernel and of the hardware while the kernel goes on.    *)
KernelStep ==
    \/ TlbFill \/ \E cause \in {"ecall", "timer", "fault", "other"} : Trap(cause)
    \/ Alltraps \/ HandleTimer \/ SysYield \/ SysGetpid \/ SysFork \/ SysExec
    \/ SysWaitpid \/ Exit \/ RunTasks \/ ResumeHandler \/ TrapReturn \/ Restore

(* None of them changes tp.                                                 *)
LEMMA KernelKeepsTp ==
  ASSUME TrapInv, KernelStep
  PROVE  tp' = tp /\ at # "halted" /\ at' # "halted"
<1>1. CASE TlbFill
  BY <1>1 DEF TlbFill
<1>2. ASSUME NEW cause, Trap(cause) PROVE tp' = tp /\ at # "halted" /\ at' # "halted"
  BY <1>2 DEF Trap
<1>3. CASE HandleTimer \/ SysYield
  BY <1>3 DEF HandleTimer, SysYield, InCall, Suspend, Schedule
<1>4. CASE Alltraps
  BY <1>4, AlltrapsInv DEF Alltraps
<1>5. CASE SysGetpid \/ SysFork \/ SysExec \/ SysWaitpid
  BY <1>5 DEF SysGetpid, SysFork, SysExec, SysWaitpid, InCall
<1>6. CASE Exit
  BY <1>6 DEF Exit, InCall
<1>7. CASE TrapReturn
  BY <1>7 DEF TrapReturn
<1>8. CASE ResumeHandler
  BY <1>8 DEF ResumeHandler
<1>9. CASE Restore
  BY <1>9 DEF Restore
<1>10. CASE RunTasks
  <2>1. Head(queue) \in Pids
    BY <1>10, TailFacts DEF RunTasks, TrapInv, Typed
  <2> QED BY <1>10, <2>1 DEF RunTasks, TrapInv, Typed
<1> QED BY <1>1, <1>2, <1>3, <1>4, <1>5, <1>6, <1>7, <1>8, <1>9, <1>10 DEF KernelStep

(* Every step of the trap and switch path is a step of one machine, or none *)
(* notices it.                                                              *)
LEMMA NextMachine ==
  TrapInv /\ [Next]_vars => [Machines!MachineNext]_(Machines!machineVars)
<1> SUFFICES ASSUME TrapInv, [Next]_vars
             PROVE  Machines!MachineNext \/ UNCHANGED Machines!machineVars
  OBVIOUS
<1> DEFINE Answers(p) == \/ Machines!Answer(p) \/ Machines!CallYield(p)
                         \/ Machines!AnswerYield(p) \/ Machines!Exit(p)
                         \/ \E d \in Pids : Machines!Fork(p, d)
<1>1. ASSUME UNCHANGED Machines!ownVars, tp' = tp, (at = "halted")' = (at = "halted")
      PROVE  UNCHANGED Machines!machineVars
  BY <1>1, Zenon DEF Machines!machineVars
<1>2. ASSUME at # "halted", tp' = tp, (at = "halted")' = (at = "halted"),
             \E p \in Live : Answers(p)
      PROVE  Machines!MachineNext
  BY <1>2, Zenon DEF Machines!MachineNext
<1>3. CASE KernelStep
  <2>1. /\ at # "halted" /\ tp' = tp
        /\ (at = "halted")' = (at = "halted")
    BY <1>3, KernelKeepsTp
  <2>2. CASE \/ TlbFill \/ TrapReturn \/ RunTasks \/ Restore
             \/ \E cause \in {"ecall", "timer", "fault", "other"} : Trap(cause)
    BY <1>1, <2>1, <2>2, QuietSteps
  <2>3. CASE Alltraps
    BY <1>1, <2>1, <2>3, AlltrapsQuiet
  <2>4. CASE HandleTimer
    BY <1>1, <2>1, <2>4, HandleTimerQuiet
  <2>5. CASE SysYield
    BY <1>2, <2>1, <2>5, SysYieldMachine, Zenon
  <2>6. CASE ResumeHandler
    <3>1. (\E p \in Live : Answers(p)) \/ UNCHANGED Machines!ownVars
      BY <2>6, ResumeMachine, Zenon
    <3> QED BY <1>1, <1>2, <2>1, <3>1, Zenon
  <2>7. CASE SysGetpid
    BY <1>2, <2>1, <2>7, SysGetpidMachine, Zenon
  <2>8. CASE SysWaitpid
    BY <1>2, <2>1, <2>8, SysWaitpidMachine, Zenon
  <2>9. CASE SysExec
    BY <1>2, <2>1, <2>9, SysExecMachine, Zenon
  <2>10. CASE SysFork
    BY <1>2, <2>1, <2>10, SysForkMachine, Zenon
  <2>11. CASE Exit
    BY <1>2, <2>1, <2>11, ExitMachine, Zenon
  <2> HIDE DEF Answers
  <2> QED BY <1>3, <2>2, <2>3, <2>4, <2>5, <2>6, <2>7, <2>8, <2>9, <2>10, <2>11
          DEF KernelStep
<1>4. CASE UserRuns
  <2>1. /\ at # "halted" /\ tp' \in Tps
        /\ (at = "halted")' = (at = "halted")
    BY <1>4 DEF UserRuns
  <2> QED BY <1>4, <2>1, UserRunsMachine, Zenon DEF Machines!MachineNext
<1>5. CASE Unsupported
  <2>1. /\ at # "halted" /\ tp' = tp
        /\ (at = "halted")' = TRUE
    BY <1>5 DEF Unsupported
  <2> QED BY <1>5, <2>1, UnsupportedMachine, Zenon DEF Machines!MachineNext
<1>6. CASE Halted \/ UNCHANGED vars
  <2>1. UNCHANGED <<space, kstack, mem, current, at, cpu, tp>>
    BY <1>6 DEF Halted, vars
  <2>2. Live' = Live /\ tp' = tp /\ (at = "halted")' = (at = "halted")
    BY <2>1 DEF Live
  <2>3. \A p \in Live : RegOf(p)' = RegOf(p) /\ (InCallNow(p)' <=> InCallNow(p))
    BY <2>1 DEF RegOf, InCallNow
  <2> QED BY <1>1, <2>2, <2>3, Unnoticed
<1> HIDE DEF Answers
<1> QED BY <1>3, <1>4, <1>5, <1>6 DEF Next, KernelStep

(* trap.S, switch.S, trap_handler and the idle loop together give every     *)
(* program the registers of a processor of its own, all but tp: whatever    *)
(* runs between, it finds what it left, but for the answer to its own call. *)
(* tp is one register for all programs (trap.S neither saves nor restores   *)
(* it), and the kernel does not change it.                                  *)
THEOREM MachinesRefinement == Spec => ImplementsMachines
BY InitMachine, NextMachine, TrapInvariance, PTL
   DEF Spec, ImplementsMachines, Machines!MachineSpec

=============================================================================
