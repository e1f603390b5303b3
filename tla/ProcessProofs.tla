--------------------------- MODULE ProcessProofs ---------------------------
(***************************************************************************)
(* Theorems about Process, for any number of tasks, exit codes, wait       *)
(* arguments and executable files, and that it implements ProcTree.        *)
(***************************************************************************)
EXTENDS Process, SeqFacts

(* The pid handed out by PidAllocator::alloc, and what is left to recycle.  *)
LEMMA PidAllocType ==
  ASSUME pid_current \in Nat, recycled \in Seq(Nat)
  PROVE  /\ PidAlloc \in Nat
         /\ RecycledAfterAlloc \in Seq(Nat)
         /\ CurrentAfterAlloc \in Nat
BY PopFacts DEF PidAlloc, RecycledAfterAlloc, CurrentAfterAlloc

(* The answer of a system call is a well-formed reply.                      *)
LEMMA ReplyType ==
  ASSUME TypeOK, NEW t \in Tcb, NEW a \in Int, NEW v \in Int, NEW c \in Int,
         NEW call \in {"none", "fork", "exec", "waitpid", "read"}
  PROVE  Reply(t, call, a, v, c) \in Replies
BY DEF TypeOK, Reply, Replies

(* No answer is a reply, too.                                               *)
LEMMA NoRetType == NoRet \in Replies
BY DEF NoRet, Replies

(* The state the kernel boots into is well typed.                           *)
LEMMA InitTyped == Init => TypeOK
<1> SUFFICES ASSUME Init PROVE TypeOK
  OBVIOUS
<1> USE ProcessAssumption DEF Init
<1>1. pid_current \in Nat /\ recycled \in Seq(Nat) /\ kstacks \subseteq Nat
  OBVIOUS
<1>2. ready_queue \in Seq(Tcb) /\ current \in Tcb \cup {NoTask}
  OBVIOUS
<1>3. task_status \in [Tcb -> Status] /\ upc \in [Tcb -> UserPc]
  BY DEF Status, UserPc
<1>4. /\ pid \in [Tcb -> Nat] /\ parent \in [Tcb -> Tcb \cup {NoTask}]
      /\ exit_code \in [Tcb -> Int]
  OBVIOUS
<1>5. children \in [Tcb -> Seq(Tcb)]
  OBVIOUS
<1> QED BY <1>1, <1>2, <1>3, <1>4, <1>5, NoRetType DEF TypeOK

(* Every handler of the process subsystem keeps the types of the kernel's   *)
(* process state.                                                           *)
LEMMA NextTyped == TypeOK /\ [Next]_vars => TypeOK'
<1> SUFFICES ASSUME TypeOK, [Next]_vars PROVE TypeOK'
  OBVIOUS
<1> USE ProcessAssumption, NoRetType DEF TypeOK
<1>1. CASE RunTasks
  <2>1. Head(ready_queue) \in Tcb /\ Tail(ready_queue) \in Seq(Tcb)
    BY <1>1, TailFacts DEF RunTasks
  <2> QED BY <1>1, <2>1 DEF RunTasks, Status, pidVars
<1>2. ASSUME NEW t \in Tcb, Tick(t) PROVE TypeOK'
  <2>1. Append(ready_queue, t) \in Seq(Tcb)
    BY AppendFacts
  <2> QED BY <1>2, <2>1 DEF Tick, Suspend, Status, pidVars
<1>3. ASSUME NEW t \in Tcb, SysYield(t) PROVE TypeOK'
  <2>1. Append(ready_queue, t) \in Seq(Tcb)
    BY AppendFacts
  <2> QED BY <1>3, <2>1 DEF SysYield, Suspend, Status, UserPc, pidVars
<1>4. ASSUME NEW t \in Tcb, SysFork(t) PROVE TypeOK'
  <2> USE DEF SysFork
  <2>1. PICK c \in Tcb : SysFork(t)!3!(c)
    BY <1>4
  <2>2. PidAlloc \in Nat /\ RecycledAfterAlloc \in Seq(Nat) /\ CurrentAfterAlloc \in Nat
    BY PidAllocType
  <2>3. Append(ready_queue, c) \in Seq(Tcb) /\ Append(children[t], c) \in Seq(Tcb)
    BY AppendFacts
  <2>4. ret' \in Replies
    BY <2>1, <2>2, ReplyType, SMTT(30)
  <2>5. task_status' \in [Tcb -> Status] /\ upc' \in [Tcb -> UserPc]
    BY <2>1 DEF Status, UserPc
  <2>6. pid' \in [Tcb -> Nat] /\ parent' \in [Tcb -> Tcb \cup {NoTask}]
    BY <2>1, <2>2
  <2>7. children' \in [Tcb -> Seq(Tcb)]
    BY <2>1, <2>3
  <2>8. panicked' \in BOOLEAN
    BY <2>1
  <2> QED BY <2>1, <2>2, <2>3, <2>4, <2>5, <2>6, <2>7, <2>8
<1>5. ASSUME NEW t \in Tcb, NEW file \in Files, SysExec(t, file) PROVE TypeOK'
  <2>1. ret' \in Replies
    BY <1>5, ReplyType DEF SysExec
  <2> QED BY <1>5, <2>1 DEF SysExec, UserPc, pidVars, schedVars
<1>6. ASSUME NEW t \in Tcb, NEW code \in Int, ExitCurrent(t, code) PROVE TypeOK'
  <2>1. children[INITPROC] \o children[t] \in Seq(Tcb) /\ <<>> \in Seq(Tcb)
    BY ConcatFacts
  <2>2. children' \in [Tcb -> Seq(Tcb)]
    BY <1>6, <2>1 DEF ExitCurrent, ChildrenAfterExit
  <2>3. task_status' \in [Tcb -> Status] /\ parent' \in [Tcb -> Tcb \cup {NoTask}]
    BY <1>6 DEF ExitCurrent, ParentsAfterExit, Status
  <2>4. panicked' \in BOOLEAN
    BY <1>6 DEF ExitCurrent
  <2> QED BY <1>6, <2>2, <2>3, <2>4 DEF ExitCurrent, pidVars
<1>7. ASSUME NEW t \in Tcb, UserWait(t) PROVE TypeOK'
  BY <1>7 DEF UserWait, UserPc, pidVars, schedVars
<1>8. ASSUME NEW t \in Tcb, NEW w \in Int, NEW ptr, SysWaitpid(t, w, ptr) PROVE TypeOK'
  <2>0. \A v : AfterWait(t, v) \in UserPc
    BY DEF AfterWait, UserPc
  <2>1. ASSUME NEW v \in Int, WaitpidFails(t, w, v) PROVE TypeOK'
    <3>1. ret' \in Replies
      BY <2>1, ReplyType DEF WaitpidFails
    <3> QED BY <2>0, <2>1, <3>1 DEF WaitpidFails, pidVars, schedVars
  <2>2. ASSUME NEW i \in Zombies(t, w), Reap(t, w, i, ptr) PROVE TypeOK'
    <3> DEFINE c  == children[t][i]
    <3>1. i \in DOMAIN children[t]
      BY <2>2 DEF Zombies, Matching
    <3>2. c \in Tcb /\ RemoveAt(children[t], i) \in Seq(Tcb) /\ <<>> \in Seq(Tcb)
      BY <3>1, RemoveAtFacts
    <3>3. children' \in [Tcb -> Seq(Tcb)]
      BY <2>2, <3>2 DEF Reap
    <3>4. Append(recycled, pid[c]) \in Seq(Nat)
      BY <3>2, AppendFacts
    <3>5. ret' \in Replies
      <4>1. pid[c] \in Int /\ exit_code[c] \in Int
        BY <3>2
      <4> QED BY <2>2, <4>1, ReplyType DEF Reap
    <3>6. AfterWait(t, pid[c]) \in UserPc /\ "app" \in UserPc
      BY <2>0 DEF UserPc
    <3>7. panicked' \in BOOLEAN
      BY <2>2 DEF Reap
    <3>8. /\ task_status' \in [Tcb -> Status] /\ pid' \in [Tcb -> Nat]
          /\ parent' \in [Tcb -> Tcb \cup {NoTask}]
          /\ exit_code' \in [Tcb -> Int]
      <4>1. /\ task_status' = [task_status EXCEPT ![c] = "Free"]
            /\ pid' = [pid EXCEPT ![c] = 0]
            /\ parent' = [parent EXCEPT ![c] = NoTask]
            /\ exit_code' = [exit_code EXCEPT ![c] = 0]
        BY <2>2 DEF Reap
      <4>2. "Free" \in Status /\ 0 \in Nat /\ 0 \in Int
        BY DEF Status
      <4> HIDE DEF c
      <4>3. task_status' \in [Tcb -> Status]
        BY <4>1, <4>2
      <4>4. pid' \in [Tcb -> Nat]
        BY <4>1, <4>2
      <4>5. parent' \in [Tcb -> Tcb \cup {NoTask}]
        BY <4>1
      <4>6. exit_code' \in [Tcb -> Int]
        BY <4>1, <4>2
      <4> QED BY <4>3, <4>4, <4>5, <4>6
    <3>9. upc' \in [Tcb -> UserPc]
      BY <2>2, <3>2, <3>6 DEF Reap
    <3>10. recycled' \in Seq(Nat) /\ kstacks' \subseteq Nat
      BY <2>2, <3>4 DEF Reap, KernelStackDrop
    <3>11. UNCHANGED <<pid_current, ready_queue, current>>
      BY <2>2 DEF Reap, schedVars
    <3> QED BY <3>3, <3>5, <3>7, <3>8, <3>9, <3>10, <3>11
  <2>3. -1 \in Int /\ -2 \in Int
    OBVIOUS
  <2> QED BY <1>8, <2>1, <2>2, <2>3, Zenon DEF SysWaitpid
<1>9. ASSUME NEW t \in Tcb, GetChar(t) PROVE TypeOK'
  <2>1. Append(ready_queue, t) \in Seq(Tcb)
    BY AppendFacts
  <2>2. Reply(t, "read", 0, 1, 0) \in
           Replies
    BY ReplyType
  <2>3. /\ task_status' \in [Tcb -> Status] /\ upc' \in [Tcb -> UserPc]
        /\ ready_queue' \in Seq(Tcb) /\ current' \in Tcb \cup {NoTask}
        /\ ret' \in Replies
    BY <1>9, <2>1, <2>2 DEF GetChar, Suspend, Status, UserPc, schedVars
  <2> QED BY <1>9, <2>3 DEF GetChar, pidVars
<1>10. CASE UNCHANGED vars
  BY <1>10 DEF vars
<1>11. ASSUME NEW t \in Tcb, NEW what \in Unsupported, Panic(t, what) PROVE TypeOK'
  BY <1>11 DEF Panic, UserPc, pidVars, schedVars
<1>12. ASSUME NEW t \in Tcb, TaskStep(t) PROVE TypeOK'
  <2>1. ASSUME NEW code \in ExitCodes, SysExit(t, code) PROVE TypeOK'
    BY <1>6, <2>1 DEF SysExit
  <2>2. ASSUME NEW code \in {-2, -3}, Fault(t, code) PROVE TypeOK'
    <3>1. code \in Int
      OBVIOUS
    <3> QED BY <1>6, <2>2, <3>1 DEF Fault
  <2>3. ASSUME SysRead(t) \/ ResumeRead(t) PROVE TypeOK'
    BY <1>9, <2>3 DEF SysRead, ResumeRead
  <2> HIDE DEF TypeOK
  <2> QED BY <1>2, <1>3, <1>4, <1>5, <1>7, <1>8, <1>11, <1>12, <2>1, <2>2, <2>3,
             Zenon DEF TaskStep
<1> HIDE DEF TypeOK
<1> QED BY <1>1, <1>10, <1>12, Zenon DEF Next, Halted

(* The kernel's process state is well typed in every reachable state, for   *)
(* every number of tasks.                                                   *)
THEOREM TypeCorrect == Spec => []TypeOK
BY InitTyped, NextTyped, PTL DEF Spec

-----------------------------------------------------------------------------
(* The inductive invariant.  To what the runs check it adds that INITPROC   *)
(* never exits, because its program never leaves the wait loop, and that    *)
(* only a runnable task is inside Stdin::read.                              *)
InitprocAlive ==
    /\ task_status[INITPROC] \in {"Ready", "Running"}
    /\ upc[INITPROC] \in {"init_start", "wait", "wait_yield"}

ReadersRunnable ==
    \A t \in Tcb : upc[t] = "stdin" => task_status[t] \in {"Ready", "Running"}

FamilyInv ==
    /\ ChildrenMatchParents
    /\ RootedAtInitproc
    /\ PidsConserved
    /\ KernelStacksMatchTasks

ProcInv ==
    /\ TypeOK
    /\ InitprocAlive
    /\ ReadersRunnable
    /\ SchedulerOwnsRunnable
    /\ FamilyInv

(* Boot establishes the invariant: one task, pid 0, queued.                 *)
LEMMA InitInv == Init => ProcInv
<1> SUFFICES ASSUME Init PROVE ProcInv
  OBVIOUS
<1> USE ProcessAssumption DEF Init
<1>1. TypeOK
  BY InitTyped
<1>2. InitprocAlive /\ ReadersRunnable
  BY DEF InitprocAlive, ReadersRunnable
<1>3. Live = {INITPROC} /\ LivePids = {0}
  BY DEF Live, LivePids
<1>4. SchedulerOwnsRunnable
  <2>1. Range(ready_queue) = {INITPROC} /\ IsInjective(ready_queue)
    BY DEF Range, IsInjective
  <2> QED BY <2>1 DEF SchedulerOwnsRunnable
<1>5. ChildrenMatchParents
  <2>1. \A p \in Tcb : Range(children[p]) = {} /\ IsInjective(children[p])
    BY DEF Range, IsInjective
  <2> QED BY <1>3, <2>1 DEF ChildrenMatchParents
<1>6. RootedAtInitproc
  BY <1>3 DEF RootedAtInitproc
<1>7. PidsConserved
  <2>1. Range(recycled) = {} /\ IsInjective(recycled)
    BY DEF Range, IsInjective
  <2>2. 0 .. pid_current - 1 = {0}
    OBVIOUS
  <2> QED BY <1>3, <2>1, <2>2 DEF PidsConserved
<1>8. KernelStacksMatchTasks
  BY <1>3 DEF KernelStacksMatchTasks
<1> QED BY <1>1, <1>2, <1>4, <1>5, <1>6, <1>7, <1>8 DEF ProcInv, FamilyInv

(* A step that neither creates, reaps nor ends a task leaves families, pids *)
(* and kernel stacks alone.                                                 *)
LEMMA FamilyFrame ==
  ASSUME FamilyInv, UNCHANGED <<pid_current, recycled, kstacks, pid, parent, children>>,
         \A t \in Tcb : /\ task_status'[t] = "Free" <=> task_status[t] = "Free"
                        /\ task_status'[t] = "Zombie" <=> task_status[t] = "Zombie"
  PROVE  FamilyInv'
<1>1. Live' = Live /\ LivePids' = LivePids
  BY DEF Live, LivePids
<1>2. ChildrenMatchParents'
  <2>1. \A t \in Live : t \in Tcb
    BY DEF Live
  <2> QED BY <1>1, <2>1 DEF FamilyInv, ChildrenMatchParents, Live
<1>3. RootedAtInitproc'
  BY <1>1 DEF FamilyInv, RootedAtInitproc
<1>4. PidsConserved'
  BY <1>1 DEF FamilyInv, PidsConserved
<1>5. KernelStacksMatchTasks'
  BY <1>1 DEF FamilyInv, KernelStacksMatchTasks
<1> QED BY <1>2, <1>3, <1>4, <1>5 DEF FamilyInv

(* suspend_current_and_run_next moves the running task to the queue's end   *)
(* and nowhere else.                                                        *)
LEMMA SuspendInv ==
  ASSUME ProcInv, NEW t \in Tcb, current = t, Suspend(t)
  PROVE  /\ SchedulerOwnsRunnable'
         /\ \A u \in Tcb : /\ task_status'[u] = "Free" <=> task_status[u] = "Free"
                           /\ task_status'[u] = "Zombie" <=> task_status[u] = "Zombie"
                           /\ task_status[u] = "Ready" => task_status'[u] = "Ready"
         /\ task_status'[t] = "Ready"
<1> USE DEF ProcInv
<1>1. /\ task_status \in [Tcb -> Status] /\ ready_queue \in Seq(Tcb)
      /\ task_status' = [task_status EXCEPT ![t] = "Ready"]
      /\ ready_queue' = Append(ready_queue, t)
      /\ current' = NoTask /\ NoTask \notin Tcb
  BY ProcessAssumption DEF TypeOK, Suspend
<1>2. task_status[t] = "Running" /\ t \notin Range(ready_queue)
  BY DEF SchedulerOwnsRunnable
<1>3. /\ Range(ready_queue') = Range(ready_queue) \cup {t}
      /\ IsInjective(ready_queue')
  BY <1>1, <1>2, AppendFacts DEF SchedulerOwnsRunnable
<1>4. SchedulerOwnsRunnable'
  BY <1>1, <1>2, <1>3 DEF SchedulerOwnsRunnable
<1> QED BY <1>1, <1>2, <1>4

(* run_tasks moves the head of the queue to the processor.                  *)
LEMMA RunTasksInv ==
  ASSUME ProcInv, RunTasks
  PROVE  ProcInv'
<1> USE DEF ProcInv
<1> DEFINE h == Head(ready_queue)
<1>1. /\ task_status \in [Tcb -> Status] /\ ready_queue \in Seq(Tcb)
      /\ current = NoTask /\ NoTask \notin Tcb /\ ready_queue # <<>>
      /\ current' = h /\ ready_queue' = Tail(ready_queue)
      /\ task_status' = [task_status EXCEPT ![h] = "Running"]
      /\ UNCHANGED <<pid_current, recycled, kstacks, pid, parent, children, upc>>
  BY ProcessAssumption DEF TypeOK, RunTasks, pidVars
<1>2. /\ h \in Tcb /\ h \in Range(ready_queue)
      /\ Range(ready_queue) = Range(ready_queue') \cup {h}
      /\ IsInjective(ready_queue') /\ h \notin Range(ready_queue')
  BY <1>1, TailFacts DEF SchedulerOwnsRunnable
<1>3. task_status[h] = "Ready"
  BY <1>2 DEF SchedulerOwnsRunnable
<1> HIDE DEF h
<1>4. SchedulerOwnsRunnable'
  BY <1>1, <1>2, <1>3 DEF SchedulerOwnsRunnable
<1>5. \A t \in Tcb : /\ task_status'[t] = "Free" <=> task_status[t] = "Free"
                     /\ task_status'[t] = "Zombie" <=> task_status[t] = "Zombie"
  BY <1>1, <1>2, <1>3
<1>6. FamilyInv'
  BY <1>1, <1>5, FamilyFrame
<1>7. InitprocAlive' /\ ReadersRunnable'
  BY <1>1, <1>2, <1>3, ProcessAssumption DEF InitprocAlive, ReadersRunnable
<1>8. TypeOK'
  BY NextTyped DEF Next
<1> QED BY <1>4, <1>6, <1>7, <1>8

(* A timer tick, yield and an empty stdin suspend the task; they and the    *)
(* end of a read change nothing but who runs next.                          *)
LEMMA SuspendingStepInv ==
  ASSUME ProcInv, NEW t \in Tcb,
         Tick(t) \/ SysYield(t) \/ SysRead(t) \/ ResumeRead(t)
  PROVE  ProcInv'
<1> USE DEF ProcInv
<1>1. /\ current = t
      /\ UNCHANGED <<pid_current, recycled, kstacks, pid, parent, children>>
      /\ upc' \in [Tcb -> UserPc]
      /\ \A u \in Tcb \ {t} : upc'[u] = upc[u]
  BY DEF Tick, SysYield, SysRead, ResumeRead, GetChar, InUser, pidVars,
         TypeOK, UserPc
<1>2. t = INITPROC => upc'[t] \in {"init_start", "wait", "wait_yield"}
  BY DEF Tick, SysYield, SysRead, ResumeRead, GetChar, InUser, TypeOK,
         InitprocAlive
<1>3. TypeOK'
  BY NextTyped, Zenon DEF Next, TaskStep
<1>4. Suspend(t) \/ UNCHANGED <<task_status, ready_queue, current>>
  BY DEF Tick, SysYield, SysRead, ResumeRead, GetChar, schedVars
<1>5. CASE Suspend(t)
  <2>1. FamilyInv' /\ SchedulerOwnsRunnable'
    BY <1>1, <1>5, SuspendInv, FamilyFrame
  <2>2. \A u \in Tcb : u # t => task_status'[u] = task_status[u]
    BY <1>5 DEF Suspend, TypeOK
  <2>3. task_status'[t] = "Ready"
    BY <1>1, <1>5, SuspendInv
  <2>4. InitprocAlive' /\ ReadersRunnable'
    BY <1>1, <1>2, <2>2, <2>3, ProcessAssumption
       DEF InitprocAlive, ReadersRunnable
  <2> QED BY <1>3, <2>1, <2>4
<1>6. CASE UNCHANGED <<task_status, ready_queue, current>>
  <2>1. FamilyInv' /\ SchedulerOwnsRunnable'
    BY <1>1, <1>6, FamilyFrame DEF SchedulerOwnsRunnable
  <2>2. task_status[t] = "Running"
    BY <1>1 DEF SchedulerOwnsRunnable
  <2>3. InitprocAlive' /\ ReadersRunnable'
    BY <1>1, <1>2, <1>6, <2>2, ProcessAssumption
       DEF InitprocAlive, ReadersRunnable
  <2> QED BY <1>3, <2>1, <2>3
<1> QED BY <1>4, <1>5, <1>6

(* exec, entering user_lib::wait and an unsuccessful waitpid change only    *)
(* what the calling program does next.                                      *)
LEMMA ProgramStepInv ==
  ASSUME ProcInv, NEW t \in Tcb, InUser(t), TypeOK',
         UNCHANGED <<pid_current, recycled, kstacks, task_status, pid, parent,
                     children, ready_queue, current>>,
         NEW next \in UserPc \ {"stdin"}, upc' = [upc EXCEPT ![t] = next],
         t = INITPROC => next \in {"init_start", "wait", "wait_yield"}
  PROVE  ProcInv'
<1> USE DEF ProcInv
<1>1. FamilyInv' /\ SchedulerOwnsRunnable'
  BY FamilyFrame DEF SchedulerOwnsRunnable
<1>2. InitprocAlive' /\ ReadersRunnable'
  BY ProcessAssumption DEF InitprocAlive, ReadersRunnable, TypeOK
<1> QED BY <1>1, <1>2

(* The pid a fork gets is held by nobody and not mapped as a kernel stack.  *)
LEMMA FreshPid ==
  ASSUME TypeOK, PidsConserved
  PROVE  /\ PidAlloc \notin LivePids
         /\ IsInjective(RecycledAfterAlloc)
         /\ PidAlloc \notin Range(RecycledAfterAlloc)
         /\ Range(RecycledAfterAlloc) \subseteq Range(recycled)
         /\ Range(RecycledAfterAlloc) \cup LivePids \cup {PidAlloc}
               = 0 .. CurrentAfterAlloc - 1
<1> USE DEF TypeOK, PidsConserved
<1>1. CASE recycled # <<>>
  <2>1. /\ Range(recycled) = Range(RecycledAfterAlloc) \cup {PidAlloc}
        /\ IsInjective(RecycledAfterAlloc)
        /\ PidAlloc \notin Range(RecycledAfterAlloc)
    BY <1>1, PopFacts DEF PidAlloc, RecycledAfterAlloc
  <2> QED BY <1>1, <2>1 DEF CurrentAfterAlloc
<1>2. CASE recycled = <<>>
  <2>1. /\ RecycledAfterAlloc = recycled /\ PidAlloc = pid_current
        /\ CurrentAfterAlloc = pid_current + 1
    BY <1>2 DEF PidAlloc, RecycledAfterAlloc, CurrentAfterAlloc
  <2>2. pid_current \notin 0 .. pid_current - 1
    OBVIOUS
  <2>3. (0 .. pid_current - 1) \cup {pid_current} = 0 .. (pid_current + 1) - 1
    OBVIOUS
  <2> QED BY <2>1, <2>2, <2>3
<1> QED BY <1>1, <1>2

(* fork adds one task to the caller's vector, the queue, the pids and the   *)
(* kernel stacks at once.                                                   *)
LEMMA ForkInv ==
  ASSUME ProcInv, NEW t \in Tcb, SysFork(t)
  PROVE  ProcInv'
<1> USE DEF ProcInv
<1>1. PICK c \in Tcb : SysFork(t)!3!(c)
  BY DEF SysFork
<1>2. /\ current = t /\ current' = t /\ upc[t] \in {"app", "init_start"}
      /\ pid \in [Tcb -> Nat] /\ children \in [Tcb -> Seq(Tcb)]
      /\ parent \in [Tcb -> Tcb \cup {NoTask}] /\ ready_queue \in Seq(Tcb)
      /\ task_status \in [Tcb -> Status] /\ upc \in [Tcb -> UserPc]
      /\ INITPROC \in Tcb
  BY <1>1, ProcessAssumption DEF SysFork, InUser, TypeOK
<1>3. /\ task_status[c] = "Free" /\ task_status[t] = "Running" /\ c # t
      /\ c # INITPROC /\ c \notin Range(ready_queue)
  BY <1>1, <1>2 DEF SchedulerOwnsRunnable, InitprocAlive
<1>4. /\ Live' = Live \cup {c} /\ c \notin Live /\ t \in Live
  BY <1>1, <1>2, <1>3 DEF Live
<1>5. SchedulerOwnsRunnable'
  <2>1. /\ Range(ready_queue') = Range(ready_queue) \cup {c}
        /\ IsInjective(ready_queue')
    BY <1>1, <1>2, <1>3, AppendFacts DEF SchedulerOwnsRunnable
  <2> QED BY <1>1, <1>2, <1>3, <2>1 DEF SchedulerOwnsRunnable
<1>6. ChildrenMatchParents'
  <2>1. \A p \in Tcb : c \notin Range(children[p])
    BY <1>4 DEF FamilyInv, ChildrenMatchParents
  <2>2. /\ Range(children'[t]) = Range(children[t]) \cup {c}
        /\ IsInjective(children'[t])
        /\ \A p \in Tcb \ {t} : children'[p] = children[p]
    BY <1>1, <1>2, <2>1, AppendFacts DEF FamilyInv, ChildrenMatchParents
  <2>3. parent'[c] = t /\ \A u \in Tcb \ {c} : parent'[u] = parent[u]
    BY <1>1, <1>2
  <2>4. task_status'[t] = "Running"
    BY <1>1, <1>2, <1>3
  <2>5. \A u \in Tcb \ {c} : task_status'[u] = task_status[u]
    BY <1>1, <1>2
  <2>6. \A p, u \in Tcb : u \in Range(children'[p]) <=>
          (u \in Live' \ {INITPROC} /\ parent'[u] = p)
    <3> SUFFICES ASSUME NEW p \in Tcb, NEW u \in Tcb
                 PROVE  u \in Range(children'[p]) <=>
                          (u \in Live' \ {INITPROC} /\ parent'[u] = p)
      OBVIOUS
    <3>1. CASE u = c
      BY <1>3, <1>4, <2>1, <2>2, <2>3, <3>1
    <3>2. CASE u # c
      BY <1>4, <2>2, <2>3, <3>2 DEF FamilyInv, ChildrenMatchParents
    <3> QED BY <3>1, <3>2
  <2>7. \A u \in Live' \ {INITPROC} :
          parent'[u] \in Live' /\ task_status'[parent'[u]] # "Zombie"
    <3> SUFFICES ASSUME NEW u \in Live' \ {INITPROC}
                 PROVE  parent'[u] \in Live' /\ task_status'[parent'[u]] # "Zombie"
      OBVIOUS
    <3>1. CASE u = c
      BY <1>4, <2>3, <2>4, <3>1
    <3>2. CASE u # c
      <4>1. u \in Live \ {INITPROC} /\ u \in Tcb
        BY <1>4, <3>2 DEF Live
      <4>2. parent[u] \in Live /\ task_status[parent[u]] # "Zombie" /\ parent[u] \in Tcb
        BY <4>1 DEF FamilyInv, ChildrenMatchParents, Live
      <4> QED BY <1>4, <2>3, <2>5, <3>2, <4>1, <4>2
    <3> QED BY <3>1, <3>2
  <2>8. \A p \in Tcb : IsInjective(children'[p])
    BY <2>2 DEF FamilyInv, ChildrenMatchParents
  <2> QED BY <2>6, <2>7, <2>8 DEF ChildrenMatchParents
<1>7. RootedAtInitproc'
  <2> SUFFICES ASSUME NEW S \in SUBSET (Live' \ {INITPROC}), S # {}
               PROVE  \E u \in S : parent'[u] \notin S
    BY DEF RootedAtInitproc
  <2>1. /\ parent'[c] = t
        /\ \A u \in Live : parent'[u] = parent[u]
        /\ \A u \in Live \ {INITPROC} : parent[u] # c
    BY <1>1, <1>2, <1>4 DEF Live, FamilyInv, ChildrenMatchParents
  <2>2. CASE S = {c}
    BY <1>3, <2>1, <2>2
  <2>3. CASE S # {c}
    <3>1. S \ {c} \in SUBSET (Live \ {INITPROC}) /\ S \ {c} # {}
      BY <1>4, <2>3
    <3>2. PICK u \in S \ {c} : parent[u] \notin S \ {c}
      BY <3>1 DEF FamilyInv, RootedAtInitproc
    <3> QED BY <2>1, <3>1, <3>2
  <2> QED BY <2>2, <2>3
<1>8. /\ LivePids' = LivePids \cup {PidAlloc}
      /\ pid'[c] = PidAlloc /\ \A u \in Live : pid'[u] = pid[u]
  <2>1. /\ pid'[c] = PidAlloc /\ \A u \in Live : pid'[u] = pid[u]
    BY <1>1, <1>2, <1>4 DEF Live
  <2> QED BY <1>4, <2>1 DEF LivePids
<1>9. PidsConserved'
  <2>1. \A u, v \in Live' : pid'[u] = pid'[v] => u = v
    BY <1>4, <1>8, FreshPid DEF FamilyInv, PidsConserved, LivePids
  <2>2. pid_current' = CurrentAfterAlloc /\ recycled' = RecycledAfterAlloc
    BY <1>1
  <2>3. Range(recycled') \cap LivePids' = {}
    BY <1>8, <2>2, FreshPid DEF FamilyInv, PidsConserved
  <2>4. Range(recycled') \cup LivePids' = 0 .. pid_current' - 1
    BY <1>8, <2>2, FreshPid DEF FamilyInv
  <2>5. IsInjective(recycled')
    BY <2>2, FreshPid DEF FamilyInv
  <2> QED BY <2>1, <2>3, <2>4, <2>5 DEF PidsConserved
<1>10. KernelStacksMatchTasks'
  BY <1>1, <1>8 DEF FamilyInv, KernelStacksMatchTasks
<1>11. InitprocAlive' /\ ReadersRunnable'
  <2>1. /\ upc'[t] \in {"wait", "app"} /\ (upc[t] = "init_start" => upc'[t] = "wait")
        /\ upc'[c] # "stdin"
        /\ \A u \in Tcb \ {t, c} : upc'[u] = upc[u]
    BY <1>1, <1>2, <1>3
  <2>2. \A u \in Tcb \ {c} : task_status'[u] = task_status[u]
    BY <1>1, <1>2
  <2> QED BY <1>2, <1>3, <2>1, <2>2 DEF InitprocAlive, ReadersRunnable
<1>12. TypeOK'
  BY NextTyped, Zenon DEF Next, TaskStep
<1> QED BY <1>5, <1>6, <1>7, <1>9, <1>10, <1>11, <1>12 DEF FamilyInv

(* exit turns the running task into a zombie of its parent and hands its    *)
(* whole vector to INITPROC.                                                *)
LEMMA ExitInv ==
  ASSUME ProcInv, NEW t \in Tcb, NEW code, ExitCurrent(t, code), TypeOK',
         upc[t] \in {"app", "init_failed"}
  PROVE  ProcInv'
<1> USE DEF ProcInv
<1>1. /\ current = t /\ current' = NoTask /\ NoTask \notin Tcb
      /\ task_status' = [task_status EXCEPT ![t] = "Zombie"]
      /\ children' = [children EXCEPT ![INITPROC] = @ \o children[t], ![t] = <<>>]
      /\ parent' = [c \in Tcb |->
            IF c \in Range(children[t]) THEN INITPROC ELSE parent[c]]
      /\ UNCHANGED <<pid_current, recycled, kstacks, pid, upc, ready_queue>>
      /\ children \in [Tcb -> Seq(Tcb)] /\ INITPROC \in Tcb
      /\ task_status \in [Tcb -> Status]
  BY ProcessAssumption DEF ExitCurrent, ParentsAfterExit, ChildrenAfterExit, InUser, TypeOK, pidVars
<1>2. /\ t # INITPROC /\ task_status[t] = "Running" /\ t \in Live
  BY <1>1 DEF InitprocAlive, SchedulerOwnsRunnable, Live
<1>3. Live' = Live /\ LivePids' = LivePids
  BY <1>1, <1>2 DEF Live, LivePids
<1>4. \A u \in Tcb \ {t} : task_status'[u] = task_status[u]
  BY <1>1
<1>5. SchedulerOwnsRunnable'
  BY <1>1, <1>2, <1>4 DEF SchedulerOwnsRunnable
<1>6. ChildrenMatchParents'
  <2>1. /\ children'[t] = <<>>
        /\ children'[INITPROC] = children[INITPROC] \o children[t]
        /\ \A p \in Tcb \ {t, INITPROC} : children'[p] = children[p]
    BY <1>1, <1>2
  <2>2. Range(children[INITPROC]) \cap Range(children[t]) = {}
    <3>1. ASSUME NEW u \in Range(children[t]) PROVE u \notin Range(children[INITPROC])
      <4>1. u \in Tcb
        BY <1>1 DEF Range
      <4>2. parent[u] = t
        BY <4>1 DEF FamilyInv, ChildrenMatchParents
      <4> QED BY <1>1, <1>2, <4>1, <4>2 DEF FamilyInv, ChildrenMatchParents
    <3> QED BY <3>1
  <2>3. /\ Range(children'[INITPROC]) = Range(children[INITPROC]) \cup Range(children[t])
        /\ IsInjective(children'[INITPROC])
    <3>1. IsInjective(children[INITPROC]) /\ IsInjective(children[t])
      BY <1>1 DEF FamilyInv, ChildrenMatchParents
    <3>2. children[INITPROC] \in Seq(Tcb) /\ children[t] \in Seq(Tcb)
      BY <1>1
    <3> QED BY <2>1, <2>2, <3>1, <3>2, ConcatFacts
  <2>4. Range(children'[t]) = {} /\ IsInjective(children'[t])
    BY <2>1 DEF Range, IsInjective
  <2>5. \A p, u \in Tcb : u \in Range(children'[p]) <=>
          (u \in Live' \ {INITPROC} /\ parent'[u] = p)
    <3> SUFFICES ASSUME NEW p \in Tcb, NEW u \in Tcb
                 PROVE  u \in Range(children'[p]) <=>
                          (u \in Live' \ {INITPROC} /\ parent'[u] = p)
      OBVIOUS
    <3>1. \A q \in Tcb : u \in Range(children[q]) <=>
            (u \in Live \ {INITPROC} /\ parent[u] = q)
      BY DEF FamilyInv, ChildrenMatchParents
    <3>2. parent'[u] = IF u \in Range(children[t]) THEN INITPROC ELSE parent[u]
      BY <1>1
    <3>3. CASE p = t
      BY <1>2, <1>3, <2>4, <3>1, <3>2, <3>3
    <3>4. CASE p = INITPROC
      BY <1>1, <1>2, <1>3, <2>3, <3>1, <3>2, <3>4
    <3>5. CASE p \notin {t, INITPROC}
      BY <1>2, <1>3, <2>1, <3>1, <3>2, <3>5
    <3> QED BY <3>3, <3>4, <3>5
  <2>6. \A u \in Live' \ {INITPROC} :
          parent'[u] \in Live' /\ task_status'[parent'[u]] # "Zombie"
    <3> SUFFICES ASSUME NEW u \in Live \ {INITPROC}
                 PROVE  parent'[u] \in Live /\ task_status'[parent'[u]] # "Zombie"
      BY <1>3
    <3>1. u \in Tcb /\ parent[u] \in Live /\ parent[u] \in Tcb
          /\ task_status[parent[u]] # "Zombie"
          /\ (u \in Range(children[t]) <=> parent[u] = t)
      BY DEF Live, FamilyInv, ChildrenMatchParents
    <3>2. CASE parent[u] = t
      BY <1>1, <1>2, <1>4, <3>1, <3>2 DEF InitprocAlive, Live
    <3>3. CASE parent[u] # t
      BY <1>1, <1>4, <3>1, <3>3
    <3> QED BY <3>2, <3>3
  <2>7. \A p \in Tcb : IsInjective(children'[p])
    BY <2>1, <2>3, <2>4 DEF FamilyInv, ChildrenMatchParents
  <2> QED BY <2>5, <2>6, <2>7 DEF ChildrenMatchParents
<1>7. RootedAtInitproc'
  <2> SUFFICES ASSUME NEW S \in SUBSET (Live \ {INITPROC}), S # {}
               PROVE  \E u \in S : parent'[u] \notin S
    BY <1>3 DEF RootedAtInitproc
  <2>1. PICK u \in S : parent[u] \notin S
    BY DEF FamilyInv, RootedAtInitproc
  <2>2. u \in Tcb
    BY DEF Live
  <2> QED BY <1>1, <2>1, <2>2
<1>8. PidsConserved' /\ KernelStacksMatchTasks'
  BY <1>1, <1>3 DEF FamilyInv, PidsConserved, KernelStacksMatchTasks
<1>9. InitprocAlive' /\ ReadersRunnable'
  BY <1>1, <1>2, <1>4 DEF InitprocAlive, ReadersRunnable
<1> QED BY <1>5, <1>6, <1>7, <1>8, <1>9 DEF FamilyInv

(* The exiting task is still listed by its parent when exit drops the last  *)
(* reference it holds itself.                                               *)
LEMMA ExitNoPanic ==
  ASSUME ProcInv, NEW t \in Tcb, NEW code, ExitCurrent(t, code),
         upc[t] \in {"app", "init_failed"}
  PROVE  ~panicked'
<1> USE DEF ProcInv
<1>1. /\ t # INITPROC /\ t \in Live /\ INITPROC \in Tcb
      /\ children \in [Tcb -> Seq(Tcb)]
  BY ProcessAssumption
     DEF ExitCurrent, InUser, InitprocAlive, SchedulerOwnsRunnable, Live, TypeOK
<1> DEFINE p == parent[t]
<1>2. p \in Tcb /\ t \in Range(children[p])
  BY <1>1 DEF FamilyInv, ChildrenMatchParents, Live
<1>3. p # t
  <2>1. {t} \in SUBSET (Live \ {INITPROC}) /\ {t} # {}
    BY <1>1
  <2> QED BY <2>1 DEF FamilyInv, RootedAtInitproc
<1>4. children' = [children EXCEPT ![INITPROC] = @ \o children[t], ![t] = <<>>]
  BY DEF ExitCurrent, ChildrenAfterExit
<1> HIDE DEF p
<1>5. t \in Range(children'[p])
  <2>1. CASE p = INITPROC
    <3>1. children'[p] = children[p] \o children[t]
      BY <1>1, <1>2, <1>3, <1>4, <2>1
    <3>2. children[p] \in Seq(Tcb) /\ children[t] \in Seq(Tcb)
      BY <1>1, <1>2
    <3>3. Range(children'[p]) = Range(children[p]) \cup Range(children[t])
      BY <3>1, <3>2, ConcatFacts
    <3> QED BY <1>2, <3>3
  <2>2. CASE p # INITPROC
    BY <1>1, <1>2, <1>3, <1>4, <2>2
  <2> QED BY <2>1, <2>2
<1>6. Referenced(t, children', ready_queue, NoTask)
  BY <1>2, <1>5 DEF Referenced
<1> QED BY <1>1, <1>6 DEF ExitCurrent

(* waitpid takes one zombie out of its parent's vector and gives back its   *)
(* pid and its kernel stack; nothing else referred to it.                   *)
LEMMA ReapInv ==
  ASSUME ProcInv, NEW t \in Tcb, InUser(t), NEW w, NEW i \in Zombies(t, w),
         NEW ptr, Reap(t, w, i, ptr), TypeOK', upc[t] \in {"app", "wait"}
  PROVE  /\ ProcInv'
         /\ ptr # "null" => ~panicked'
<1> USE DEF ProcInv
<1> DEFINE c  == children[t][i]
           rest == RemoveAt(children[t], i)
           ch == [children EXCEPT ![t] = rest]
<1>1. /\ current = t /\ i \in DOMAIN children[t] /\ INITPROC \in Tcb
      /\ children \in [Tcb -> Seq(Tcb)] /\ pid \in [Tcb -> Nat]
      /\ parent \in [Tcb -> Tcb \cup {NoTask}] /\ recycled \in Seq(Nat)
      /\ task_status \in [Tcb -> Status] /\ upc \in [Tcb -> UserPc]
      /\ children[t] \in Seq(Tcb)
      /\ task_status[c] = "Zombie"
  BY ProcessAssumption DEF InUser, Zombies, Matching, TypeOK
<1>2. /\ c \in Tcb /\ rest \in Seq(Tcb)
      /\ Range(children[t]) = Range(rest) \cup {c}
      /\ IsInjective(rest) /\ c \notin Range(rest)
  BY <1>1, RemoveAtFacts DEF FamilyInv, ChildrenMatchParents
<1>3. /\ children' = [ch EXCEPT ![c] = <<>>]
      /\ panicked' = \/ Referenced(c, ch, ready_queue, current)
                     \/ ptr = "null"
                     \/ ~DeallocOK(pid[c])
      /\ recycled' = Append(recycled, pid[c]) /\ kstacks' = kstacks \ {pid[c]}
      /\ task_status' = [task_status EXCEPT ![c] = "Free"]
      /\ pid' = [pid EXCEPT ![c] = 0]
      /\ parent' = [parent EXCEPT ![c] = NoTask]
      /\ upc' = [upc EXCEPT ![t] = AfterWait(t, pid[c]), ![c] = "app"]
      /\ UNCHANGED <<pid_current, ready_queue, current>>
  BY DEF Reap, KernelStackDrop, schedVars
<1> HIDE DEF c, rest
<1>4. /\ c \in Live /\ c # INITPROC /\ parent[c] = t /\ c # t
      /\ task_status[t] = "Running" /\ t \in Live
  <2>1. c \in Range(children[t])
    BY <1>2
  <2>2. c \in Live /\ c # INITPROC /\ parent[c] = t
    BY <1>2, <2>1 DEF FamilyInv, ChildrenMatchParents
  <2>3. task_status[t] = "Running"
    BY <1>1 DEF SchedulerOwnsRunnable
  <2> QED BY <1>1, <2>2, <2>3 DEF Live
<1>5. /\ Live' = Live \ {c}
      /\ \A u \in Tcb \ {c} : /\ task_status'[u] = task_status[u]
                              /\ pid'[u] = pid[u] /\ parent'[u] = parent[u]
  <2>1. \A u \in Tcb \ {c} : /\ task_status'[u] = task_status[u]
                             /\ pid'[u] = pid[u] /\ parent'[u] = parent[u]
    BY <1>1, <1>2, <1>3
  <2>2. task_status'[c] = "Free"
    BY <1>1, <1>2, <1>3
  <2> QED BY <1>2, <2>1, <2>2 DEF Live
<1>6. /\ children'[t] = rest /\ children'[c] = <<>>
      /\ \A p \in Tcb \ {t, c} : children'[p] = children[p]
      /\ ch[t] = rest /\ \A p \in Tcb \ {t} : ch[p] = children[p]
  BY <1>1, <1>2, <1>3, <1>4
<1> HIDE DEF ch
<1>7. \A u \in Live \ {INITPROC} :
        u \in Tcb /\ parent[u] # c /\ parent[u] \in Live /\ parent[u] \in Tcb
        /\ task_status[parent[u]] # "Zombie"
  BY <1>1 DEF Live, FamilyInv, ChildrenMatchParents
<1>8. SchedulerOwnsRunnable'
  <2>1. task_status'[c] = "Free"
    BY <1>1, <1>2, <1>3
  <2> QED BY <1>1, <1>2, <1>3, <1>4, <1>5, <2>1 DEF SchedulerOwnsRunnable
<1>9. ChildrenMatchParents'
  <2>1. Range(children'[c]) = {} /\ IsInjective(children'[c])
    BY <1>6 DEF Range, IsInjective
  <2>2. \A p, u \in Tcb : u \in Range(children'[p]) <=>
          (u \in Live' \ {INITPROC} /\ parent'[u] = p)
    <3> SUFFICES ASSUME NEW p \in Tcb, NEW u \in Tcb
                 PROVE  u \in Range(children'[p]) <=>
                          (u \in Live' \ {INITPROC} /\ parent'[u] = p)
      OBVIOUS
    <3>1. \A q \in Tcb : u \in Range(children[q]) <=>
            (u \in Live \ {INITPROC} /\ parent[u] = q)
      BY DEF FamilyInv, ChildrenMatchParents
    <3>2. CASE p = c
      BY <1>5, <1>7, <2>1, <3>2
    <3>3. CASE p = t
      BY <1>2, <1>4, <1>5, <1>6, <3>1, <3>3
    <3>4. CASE p \notin {t, c}
      <4>1. u = c => u \notin Range(children[p])
        BY <1>4, <3>1, <3>4
      <4> QED BY <1>5, <1>6, <3>1, <3>4, <4>1
    <3> QED BY <3>2, <3>3, <3>4
  <2>3. \A u \in Live' \ {INITPROC} :
          parent'[u] \in Live' /\ task_status'[parent'[u]] # "Zombie"
    BY <1>5, <1>7
  <2>4. \A p \in Tcb : IsInjective(children'[p])
    BY <1>2, <1>6, <2>1 DEF FamilyInv, ChildrenMatchParents
  <2> QED BY <2>2, <2>3, <2>4 DEF ChildrenMatchParents
<1>10. RootedAtInitproc'
  <2> SUFFICES ASSUME NEW S \in SUBSET (Live' \ {INITPROC}), S # {}
               PROVE  \E u \in S : parent'[u] \notin S
    BY DEF RootedAtInitproc
  <2>1. S \in SUBSET (Live \ {INITPROC}) /\ c \notin S
    BY <1>5
  <2>2. PICK u \in S : parent[u] \notin S
    BY <2>1 DEF FamilyInv, RootedAtInitproc
  <2>3. u \in Tcb \ {c}
    BY <1>7, <2>1
  <2> QED BY <1>5, <2>2, <2>3
<1>11. LivePids' = LivePids \ {pid[c]} /\ pid[c] \in LivePids
  <2>1. \A u \in Live' : pid'[u] = pid[u] /\ u \in Live /\ u # c
    BY <1>5 DEF Live
  <2>2. \A u \in Live : u # c => pid[u] # pid[c]
    BY <1>4 DEF FamilyInv, PidsConserved
  <2> QED BY <1>4, <1>5, <2>1, <2>2 DEF LivePids
<1>12. PidsConserved'
  <2>1. \A u, v \in Live' : pid'[u] = pid'[v] => u = v
    <3>1. \A u \in Live' : u \in Live /\ u \in Tcb \ {c}
      BY <1>5 DEF Live
    <3> QED BY <1>5, <3>1 DEF FamilyInv, PidsConserved
  <2>2. pid[c] \notin Range(recycled) /\ IsInjective(recycled) /\ pid[c] \in Nat
    BY <1>1, <1>2, <1>11 DEF FamilyInv, PidsConserved
  <2>3. Range(recycled') = Range(recycled) \cup {pid[c]} /\ IsInjective(recycled')
    BY <1>1, <1>3, <2>2, AppendFacts, SMTT(30)
  <2>4. Range(recycled') \cap LivePids' = {}
    BY <1>11, <2>3 DEF FamilyInv, PidsConserved
  <2>5. Range(recycled') \cup LivePids' = Range(recycled) \cup LivePids
    BY <1>11, <2>3
  <2> QED BY <1>3, <2>1, <2>3, <2>4, <2>5 DEF FamilyInv, PidsConserved
<1>13. KernelStacksMatchTasks'
  BY <1>3, <1>11 DEF FamilyInv, KernelStacksMatchTasks
<1>14. InitprocAlive' /\ ReadersRunnable'
  <2>1. /\ upc'[c] = "app" /\ upc'[t] = AfterWait(t, pid[c])
        /\ \A u \in Tcb \ {t, c} : upc'[u] = upc[u]
    BY <1>1, <1>2, <1>3, <1>4
  <2>2. /\ AfterWait(t, pid[c]) # "stdin"
        /\ t = INITPROC => AfterWait(t, pid[c]) \in {"wait", "wait_yield"}
    BY <1>1 DEF AfterWait, InitprocAlive
  <2> QED BY <1>1, <1>4, <1>5, <2>1, <2>2 DEF InitprocAlive, ReadersRunnable
<1>15. ASSUME ptr # "null" PROVE ~panicked'
  <2>1. DeallocOK(pid[c])
    <3>1. pid[c] \in 0 .. pid_current - 1 /\ pid[c] \notin Range(recycled)
      BY <1>11 DEF FamilyInv, PidsConserved
    <3>2. pid_current \in Nat
      BY DEF TypeOK
    <3> QED BY <3>1, <3>2 DEF DeallocOK
  <2>2. c \notin Range(ready_queue) /\ upc[c] # "stdin"
    BY <1>1, <1>2 DEF SchedulerOwnsRunnable, ReadersRunnable
  <2>3. ASSUME NEW p \in Tcb PROVE c \notin Range(ch[p])
    <3>1. CASE p = t
      BY <1>2, <1>6, <3>1
    <3>2. CASE p # t
      BY <1>2, <1>4, <1>6, <3>2 DEF FamilyInv, ChildrenMatchParents
    <3> QED BY <3>1, <3>2
  <2>4. ~Referenced(c, ch, ready_queue, current)
    BY <1>1, <1>4, <2>2, <2>3 DEF Referenced
  <2> QED BY <1>3, <1>15, <2>1, <2>4
<1> QED BY <1>8, <1>9, <1>10, <1>12, <1>13, <1>14, <1>15 DEF FamilyInv

(* The calls user programs make are well formed: the executable is an ELF   *)
(* file or missing, and the exit code goes to mapped memory.                *)
WellFormedCalls == "other" \notin Files /\ "null" \notin ExitCodePtrs

(* The three outcomes of waitpid keep the invariant; with a mapped address  *)
(* for the code none of its asserts fails.                                  *)
LEMMA WaitpidInv ==
  ASSUME ProcInv, NEW t \in Tcb, NEW w, NEW ptr, SysWaitpid(t, w, ptr), TypeOK'
  PROVE  /\ ProcInv'
         /\ (~panicked /\ ptr # "null") => ~panicked'
<1>1. InUser(t) /\ upc[t] \in {"app", "wait"}
  BY DEF SysWaitpid
<1>2. ASSUME NEW v \in {-1, -2}, WaitpidFails(t, w, v)
      PROVE  ProcInv' /\ panicked' = panicked
  <2>1. /\ AfterWait(t, v) \in UserPc \ {"stdin"}
        /\ t = INITPROC => AfterWait(t, v) \in {"init_start", "wait", "wait_yield"}
    BY DEF AfterWait, UserPc, ProcInv, InitprocAlive
  <2>2. /\ upc' = [upc EXCEPT ![t] = AfterWait(t, v)]
        /\ UNCHANGED <<pid_current, recycled, kstacks, task_status, pid, parent,
                       children, ready_queue, current, panicked>>
    BY <1>2 DEF WaitpidFails, pidVars, schedVars
  <2> QED BY <1>1, <2>1, <2>2, ProgramStepInv
<1>3. ASSUME NEW i \in Zombies(t, w), Reap(t, w, i, ptr)
      PROVE  ProcInv' /\ (ptr # "null" => ~panicked')
  BY <1>1, <1>3, ReapInv
<1> QED BY <1>2, <1>3, Zenon DEF SysWaitpid

(* Every step keeps the invariant, and a step of well-formed calls fails no *)
(* assert, unwrap or borrow: it panics only for what is unsupported.        *)
LEMMA NextInv ==
  ASSUME ProcInv, [Next]_vars
  PROVE  /\ ProcInv'
         /\ (~panicked /\ WellFormedCalls) => NoPanic'
<1> DEFINE Goal == /\ ProcInv'
                   /\ (~panicked /\ WellFormedCalls) => NoPanic'
<1>4. ~panicked' => NoPanic'
  BY DEF NoPanic
<1>0. TypeOK'
  BY NextTyped DEF ProcInv
<1>1. CASE RunTasks
  BY <1>1, <1>4, RunTasksInv DEF RunTasks
<1>2. ASSUME NEW t \in Tcb, TaskStep(t) PROVE Goal
  <2>1. CASE Tick(t) \/ SysYield(t) \/ SysRead(t) \/ ResumeRead(t)
    <3>1. panicked' = panicked
      BY <2>1 DEF Tick, SysYield, SysRead, ResumeRead, GetChar
    <3> QED BY <1>4, <2>1, <3>1, SuspendingStepInv
  <2>2. CASE SysFork(t)
    <3>1. PidAlloc \notin kstacks
      BY FreshPid DEF ProcInv, FamilyInv, KernelStacksMatchTasks
    <3>2. ~panicked'
      BY <2>2, <3>1 DEF SysFork
    <3> QED BY <1>4, <2>2, <3>2, ForkInv
  <2>3. ASSUME NEW file \in Files, SysExec(t, file) PROVE Goal
    <3> DEFINE next == IF file = "missing" /\ upc[t] = "init_child"
                       THEN "init_failed" ELSE "app"
    <3>1. /\ next \in UserPc \ {"stdin"} /\ t # INITPROC
          /\ InUser(t) /\ upc' = [upc EXCEPT ![t] = next]
          /\ UNCHANGED <<pid_current, recycled, kstacks, task_status, pid, parent,
                         children, ready_queue, current>>
      BY <2>3 DEF SysExec, UserPc, pidVars, schedVars, ProcInv, InitprocAlive
    <3>2. ProcInv'
      BY <1>0, <3>1, ProgramStepInv
    <3>3. WellFormedCalls => ~panicked'
      BY <2>3 DEF SysExec, WellFormedCalls
    <3> QED BY <1>4, <3>2, <3>3
  <2>4. ASSUME NEW code, SysExit(t, code) \/ Fault(t, code) PROVE Goal
    <3>1. ExitCurrent(t, code) /\ upc[t] \in {"app", "init_failed"}
      BY <2>4 DEF SysExit, Fault
    <3> QED BY <1>0, <1>4, <3>1, ExitInv, ExitNoPanic
  <2>5. CASE UserWait(t)
    <3>1. /\ "wait" \in UserPc \ {"stdin"} /\ t # INITPROC
          /\ InUser(t) /\ upc' = [upc EXCEPT ![t] = "wait"]
          /\ UNCHANGED <<pid_current, recycled, kstacks, task_status, pid, parent,
                         children, ready_queue, current, panicked>>
      BY <2>5 DEF UserWait, UserPc, pidVars, schedVars, ProcInv, InitprocAlive
    <3> QED BY <1>0, <1>4, <3>1, ProgramStepInv
  <2>6. ASSUME NEW w \in WaitPids, NEW ptr \in ExitCodePtrs, SysWaitpid(t, w, ptr)
        PROVE  Goal
    <3>1. WellFormedCalls => ptr # "null"
      BY DEF WellFormedCalls
    <3> QED BY <1>0, <1>4, <2>6, <3>1, WaitpidInv
  <2>7. ASSUME NEW what \in Unsupported, Panic(t, what) PROVE Goal
    <3>1. /\ what \in UserPc \ {"stdin"} /\ t # INITPROC
          /\ InUser(t) /\ upc' = [upc EXCEPT ![t] = what]
          /\ UNCHANGED <<pid_current, recycled, kstacks, task_status, pid, parent,
                         children, ready_queue, current>>
      BY <2>7, ProcessAssumption
         DEF Panic, UserPc, pidVars, schedVars, ProcInv, InitprocAlive
    <3>2. ProcInv'
      BY <1>0, <3>1, ProgramStepInv
    <3>3. NoPanic'
      BY <2>7, <3>1, ProcessAssumption DEF NoPanic, ProcInv, TypeOK
    <3> QED BY <3>2, <3>3
  <2> HIDE DEF Goal
  <2> QED BY <1>2, <2>1, <2>2, <2>3, <2>4, <2>5, <2>6, <2>7, Zenon DEF TaskStep
<1>3. CASE UNCHANGED vars
  <2> USE DEF vars
  <2>1. UNCHANGED <<pid_current, recycled, kstacks, task_status, pid, parent,
                    children, upc, ready_queue, current, panicked>>
    BY <1>3
  <2>2. FamilyInv'
    BY <2>1, FamilyFrame DEF ProcInv
  <2>3. SchedulerOwnsRunnable' /\ InitprocAlive' /\ ReadersRunnable'
    BY <2>1 DEF ProcInv, SchedulerOwnsRunnable, InitprocAlive, ReadersRunnable
  <2> QED BY <1>0, <1>4, <2>1, <2>2, <2>3 DEF ProcInv
<1> QED BY <1>1, <1>2, <1>3, Zenon DEF Next, Halted

(* Nothing runs after a panic.                                              *)
LEMMA PanicIsFinal ==
  ASSUME panicked, [Next]_vars
  PROVE  UNCHANGED vars
<1>1. ~RunTasks
  BY DEF RunTasks
<1>2. ASSUME NEW t \in Tcb PROVE ~TaskStep(t)
  <2>1. ~InUser(t)
    BY DEF InUser
  <2>2. ~ResumeRead(t)
    BY DEF ResumeRead
  <2> QED BY <2>1, <2>2, Zenon
          DEF TaskStep, Tick, SysYield, SysFork, SysExec, SysExit, Fault,
              ExitCurrent, Panic, UserWait, SysWaitpid, SysRead
<1> QED BY <1>1, <1>2, Zenon DEF Next, Halted

(* The invariant holds in every reachable state.                            *)
THEOREM Invariance == Spec => []ProcInv
<1>1. ProcInv /\ [Next]_vars => ProcInv'
  BY NextInv
<1> QED BY InitInv, <1>1, PTL DEF Spec

(* However many tasks there are and however they interleave, each runnable  *)
(* task is queued or running exactly once and no zombie is scheduled.       *)
THEOREM SchedulerCorrect == Spec => []SchedulerOwnsRunnable
<1>1. ProcInv => SchedulerOwnsRunnable
  BY DEF ProcInv
<1> QED BY Invariance, <1>1, PTL

(* In every reachable state each task but INITPROC is listed once, by a     *)
(* parent that has not exited.                                              *)
THEOREM FamiliesCorrect == Spec => []ChildrenMatchParents
<1>1. ProcInv => ChildrenMatchParents
  BY DEF ProcInv, FamilyInv
<1> QED BY Invariance, <1>1, PTL

(* The parent references alone: following them from any task ends at        *)
(* INITPROC, so that every exited task has a parent able to reap it.        *)
THEOREM RootedCorrect == Spec => []RootedAtInitproc
<1>1. ProcInv => RootedAtInitproc
  BY DEF ProcInv, FamilyInv
<1> QED BY Invariance, <1>1, PTL

(* No pid is shared, lost or recycled twice.                                *)
THEOREM PidsCorrect == Spec => []PidsConserved
<1>1. ProcInv => PidsConserved
  BY DEF ProcInv, FamilyInv
<1> QED BY Invariance, <1>1, PTL

(* Kernel stacks are mapped for the existing tasks and for no others.       *)
THEOREM KernelStacksCorrect == Spec => []KernelStacksMatchTasks
<1>1. ProcInv => KernelStacksMatchTasks
  BY DEF ProcInv, FamilyInv
<1> QED BY Invariance, <1>1, PTL

(* If user programs exec only ELF files and give waitpid mapped addresses,  *)
(* no assert, unwrap or borrow of the process code can fail; strong_count   *)
(* in sys_waitpid is 1.  What panics the kernel is then an unsupported trap *)
(* or call, and nothing else.                                               *)
THEOREM KernelNeverPanics ==
  ASSUME WellFormedCalls
  PROVE  Spec => []NoPanic
<1>1. Init => NoPanic
  BY DEF Init, NoPanic
<1>2. ASSUME ProcInv, NoPanic, [Next]_vars PROVE NoPanic'
  <2>1. CASE panicked
    BY <1>2, <2>1, PanicIsFinal DEF NoPanic, vars
  <2>2. CASE ~panicked
    BY <1>2, <2>2, NextInv
  <2> QED BY <2>1, <2>2
<1> QED BY <1>1, <1>2, Invariance, PTL DEF Spec

(* A TCB is freed only by its parent's waitpid, after it exited, and the    *)
(* parent is told its pid and exit code.                                    *)
THEOREM ReapingCorrect == Spec => OnlyParentReaps
<1>1. ASSUME ProcInv, Next PROVE \A c \in Tcb : ReapedByParent(c)
  <2> SUFFICES ASSUME NEW c \in Tcb, task_status[c] # "Free", task_status'[c] = "Free"
               PROVE  /\ task_status[c] = "Zombie" /\ current = parent[c]
                      /\ ret'.call = "waitpid" /\ ret'.val = pid[c]
                      /\ ret'.code = exit_code[c]
    BY DEF ReapedByParent
  <2>0. task_status \in [Tcb -> Status] /\ ready_queue \in Seq(Tcb)
    BY <1>1 DEF ProcInv, TypeOK
  <2>1. ~RunTasks /\ ~Halted
    <3>1. RunTasks => task_status' = [task_status EXCEPT ![Head(ready_queue)] = "Running"]
      BY DEF RunTasks
    <3>2. ~Halted
      BY DEF Halted, vars
    <3> QED BY <2>0, <3>1, <3>2
  <2>2. PICK t \in Tcb : TaskStep(t)
    BY <1>1, <2>1 DEF Next
  <2>3. ~(Tick(t) \/ SysYield(t) \/ SysRead(t) \/ ResumeRead(t))
    BY <2>0 DEF Tick, SysYield, SysRead, ResumeRead, GetChar, Suspend
  <2>4. ~SysFork(t)
    BY <2>0 DEF SysFork
  <2>5. \A code : ~ExitCurrent(t, code)
    BY <2>0 DEF ExitCurrent
  <2>6. ~UserWait(t) /\ \A x : ~SysExec(t, x) /\ ~Panic(t, x)
    BY DEF UserWait, SysExec, Panic
  <2>7. PICK w \in WaitPids, ptr \in ExitCodePtrs : SysWaitpid(t, w, ptr)
    BY <2>2, <2>3, <2>4, <2>5, <2>6 DEF TaskStep, SysExit, Fault
  <2>8. \A v : ~WaitpidFails(t, w, v)
    BY DEF WaitpidFails
  <2>9. PICK i \in Zombies(t, w) : Reap(t, w, i, ptr)
    BY <2>7, <2>8 DEF SysWaitpid
  <2>10. c = children[t][i]
    <3>1. task_status' = [task_status EXCEPT ![children[t][i]] = "Free"]
      BY <2>9 DEF Reap
    <3> QED BY <2>0, <3>1
  <2>11. /\ ret' = Reply(t, "waitpid", w, pid[c], exit_code[c])
    BY <2>9, <2>10 DEF Reap
  <2>12. task_status[c] = "Zombie" /\ i \in DOMAIN children[t]
    BY <2>9, <2>10 DEF Zombies, Matching
  <2>13. c \in Range(children[t])
    BY <2>10, <2>12 DEF Range
  <2>14. parent[c] = t
    BY <1>1, <2>13 DEF ProcInv, FamilyInv, ChildrenMatchParents
  <2>15. current = t
    BY <2>7 DEF SysWaitpid, InUser
  <2> QED BY <2>11, <2>12, <2>14, <2>15 DEF Reply
<1>2. ProcInv /\ [Next]_vars => [\A c \in Tcb : ReapedByParent(c)]_vars
  BY <1>1
<1> QED BY Invariance, <1>2, PTL DEF Spec, OnlyParentReaps

-----------------------------------------------------------------------------
(***************************************************************************)
(* Process implements ProcTree, for any number of tasks: every handler is  *)
(* a step of the process tree that user programs are promised, or none.    *)
(***************************************************************************)

(* INITPROC keeps pid 0, the root of the tree.                              *)
RootPid == pid[INITPROC] = 0

RefInv == ProcInv /\ RootPid

(* The slot of a pid is the task that has it.                               *)
LEMMA TaskOfFacts ==
  ASSUME ProcInv
  PROVE  \A t \in Live : TaskOf(pid[t]) = t
<1> SUFFICES ASSUME NEW t \in Live PROVE TaskOf(pid[t]) = t
  OBVIOUS
<1>1. \A u \in Live : pid[u] = pid[t] => u = t
  BY DEF ProcInv, FamilyInv, PidsConserved
<1> QED BY <1>1 DEF TaskOf

(* What the mapping says of a task, by its pid.                             *)
Mapped ==
    /\ TreeZombie = [p \in DOMAIN TreeZombie |-> TreeZombie[p]]
    /\ TreeParent = [p \in DOMAIN TreeParent |-> TreeParent[p]]
    /\ \A p : p \in TreeAlive <=>
          \E t \in Live : task_status[t] # "Zombie" /\ p = pid[t]
    /\ \A p : p \in DOMAIN TreeZombie <=>
          \E t \in Live : task_status[t] = "Zombie" /\ p = pid[t]
    /\ \A p : p \in DOMAIN TreeParent <=> \E t \in Live \ {INITPROC} : p = pid[t]
    /\ \A t \in Live : task_status[t] = "Zombie" => TreeZombie[pid[t]] = exit_code[t]
    /\ \A t \in Live \ {INITPROC} : TreeParent[pid[t]] = pid[parent[t]]

(* As pids are unique, the mapping carries each task to one process.        *)
LEMMA MapFacts == ProcInv => Mapped
<1> SUFFICES ASSUME ProcInv PROVE Mapped
  OBVIOUS
<1>1. \A t \in Live : TaskOf(pid[t]) = t
  BY TaskOfFacts
<1>2. \A p : p \in TreeAlive <=> \E t \in Live : task_status[t] # "Zombie" /\ p = pid[t]
  BY DEF TreeAlive
<1>3. /\ TreeZombie = [p \in DOMAIN TreeZombie |-> TreeZombie[p]]
      /\ \A p : p \in DOMAIN TreeZombie <=>
            \E t \in Live : task_status[t] = "Zombie" /\ p = pid[t]
  BY DEF TreeZombie
<1>4. /\ TreeParent = [p \in DOMAIN TreeParent |-> TreeParent[p]]
      /\ \A p : p \in DOMAIN TreeParent <=> \E t \in Live \ {INITPROC} : p = pid[t]
  BY DEF TreeParent
<1>5. ASSUME NEW t \in Live, task_status[t] = "Zombie"
      PROVE  TreeZombie[pid[t]] = exit_code[t]
  <2>1. pid[t] \in {pid[u] : u \in {v \in Live : task_status[v] = "Zombie"}}
    BY <1>5
  <2> QED BY <1>1, <2>1, Zenon DEF TreeZombie
<1>6. ASSUME NEW t \in Live \ {INITPROC}
      PROVE  TreeParent[pid[t]] = pid[parent[t]]
  <2>1. pid[t] \in {pid[u] : u \in Live \ {INITPROC}}
    OBVIOUS
  <2> QED BY <1>1, <2>1, Zenon DEF TreeParent
<1> QED BY <1>2, <1>3, <1>4, <1>5, <1>6 DEF Mapped

(* The same after a step.                                                   *)
LEMMA MapFactsNext == ProcInv' => Mapped'
BY MapFacts, PTL

-----------------------------------------------------------------------------
(* A step that creates, ends and reaps no task leaves the tree as it is.    *)
LEMMA TreeFrame ==
  ASSUME ProcInv, ProcInv', UNCHANGED <<pid, parent, exit_code>>,
         \A t \in Tcb : /\ task_status'[t] = "Free" <=> task_status[t] = "Free"
                        /\ task_status'[t] = "Zombie" <=> task_status[t] = "Zombie"
  PROVE  UNCHANGED <<TreeAlive, TreeZombie, TreeParent>>
<1>1. Live' = Live /\ \A t \in Live : t \in Tcb
  BY DEF Live
<1>2. pid' = pid /\ parent' = parent /\ exit_code' = exit_code
  OBVIOUS
<1>3. Mapped /\ Mapped'
  BY MapFacts, MapFactsNext
<1>4. /\ TreeAlive' = TreeAlive /\ DOMAIN TreeZombie' = DOMAIN TreeZombie
      /\ DOMAIN TreeParent' = DOMAIN TreeParent
  <2>1. TreeAlive' = TreeAlive
    <3>1. \A p : p \in TreeAlive' <=> \E t \in Live : task_status'[t] # "Zombie" /\ p = pid[t]
      BY <1>1, <1>2, <1>3 DEF Mapped
    <3>2. \A p : p \in TreeAlive <=> \E t \in Live : task_status[t] # "Zombie" /\ p = pid[t]
      BY <1>3 DEF Mapped
    <3>3. \A p : p \in TreeAlive' <=> p \in TreeAlive
      BY <1>1, <3>1, <3>2
    <3> QED BY <3>3
  <2>2. DOMAIN TreeZombie' = DOMAIN TreeZombie
    BY <1>1, <1>2, <1>3 DEF Mapped
  <2>3. DOMAIN TreeParent' = DOMAIN TreeParent
    BY <1>1, <1>2, <1>3 DEF Mapped
  <2> QED BY <2>1, <2>2, <2>3
<1>5. \A p \in DOMAIN TreeZombie : TreeZombie'[p] = TreeZombie[p]
  BY <1>1, <1>2, <1>3 DEF Mapped
<1>6. \A p \in DOMAIN TreeParent : TreeParent'[p] = TreeParent[p]
  BY <1>1, <1>2, <1>3 DEF Mapped
<1>7. TreeZombie' = TreeZombie
  BY <1>3, <1>4, <1>5 DEF Mapped
<1>8. TreeParent' = TreeParent
  BY <1>3, <1>4, <1>6 DEF Mapped
<1> QED BY <1>4, <1>7, <1>8

(* Scheduling, exec, reads and what the caller does next are no steps of    *)
(* the tree; only the answer of the call shows.                             *)
LEMMA OtherTree ==
  ASSUME UNCHANGED <<TreeAlive, TreeZombie, TreeParent>>,
         \/ ret' = NoRet
         \/ \E p \in TreeAlive, call \in {"exec", "read"}, val \in {-1, 0, 1} :
               ret' = [pid |-> p, call |-> call, arg |-> 0, val |-> val, code |-> 0]
  PROVE  Tree!TreeNext
<1>1. Tree!Other
  BY Zenon DEF Tree!Other, Tree!Silent, Tree!Answer, NoRet
<1> QED BY <1>1, Zenon DEF Tree!TreeNext

(* The running task is alive in the tree.                                   *)
LEMMA CurrentAlive ==
  ASSUME ProcInv, NEW t \in Tcb, current = t
  PROVE  t \in Live /\ task_status[t] = "Running" /\ pid[t] \in TreeAlive
<1>1. t \in Live /\ task_status[t] = "Running"
  BY DEF ProcInv, SchedulerOwnsRunnable, Live
<1> QED BY <1>1, MapFacts DEF Mapped

(* fork adds a process with a pid that no process has.                      *)
LEMMA ForkTree ==
  ASSUME ProcInv, ProcInv', NEW t \in Tcb, SysFork(t)
  PROVE  Tree!Fork(pid[t])
<1>1. PICK c \in Tcb : SysFork(t)!3!(c)
  BY DEF SysFork
<1>2. PICK n \in Nat : n = PidAlloc
  BY PidAllocType DEF ProcInv, TypeOK
<1>3. /\ task_status[c] = "Free" /\ c # INITPROC /\ t # c /\ t \in Live /\ c \notin Live
      /\ Live' = Live \cup {c}
      /\ \A u \in Live : u \in Tcb /\ u # c
  <2>1. current = t
    BY DEF SysFork, InUser
  <2>2. t \in Live /\ task_status[t] = "Running"
    BY <2>1, CurrentAlive
  <2>3. task_status[c] = "Free" /\ task_status' = [task_status EXCEPT ![c] = "Ready"]
    BY <1>1
  <2>4. c # INITPROC /\ t # c /\ c \notin Live
    BY <2>2, <2>3 DEF ProcInv, InitprocAlive, Live
  <2>5. \A u \in Tcb : task_status'[u] = IF u = c THEN "Ready" ELSE task_status[u]
    BY <2>3 DEF ProcInv, TypeOK
  <2>6. \A u : u \in Live' <=> u \in Live \/ u = c
    BY <2>5 DEF Live
  <2>7. \A u \in Live : u \in Tcb /\ u # c
    BY <2>4 DEF Live
  <2> QED BY <2>2, <2>3, <2>4, <2>6, <2>7
<1>4. /\ pid'[c] = n /\ parent'[c] = t /\ task_status'[c] = "Ready" /\ exit_code' = exit_code
      /\ \A u \in Live : /\ pid'[u] = pid[u] /\ parent'[u] = parent[u]
                          /\ task_status'[u] = task_status[u]
      /\ ret' = [pid |-> pid[t], call |-> "fork", arg |-> 0, val |-> n, code |-> 0]
  BY <1>1, <1>2, <1>3 DEF ProcInv, TypeOK, Reply
<1>5. \A u \in Live : pid[u] # n
  BY <1>2, FreshPid DEF ProcInv, FamilyInv, LivePids
<1>6. \A u \in Live \ {INITPROC} : parent[u] \in Live
  BY DEF ProcInv, FamilyInv, ChildrenMatchParents
<1>7. Mapped /\ Mapped'
  BY MapFacts, MapFactsNext
<1>8. n \notin TreeAlive /\ n \notin DOMAIN TreeZombie
  BY <1>5, <1>7 DEF Mapped
<1>9. TreeAlive' = TreeAlive \cup {n}
  BY <1>3, <1>4, <1>7 DEF Mapped
<1>10. TreeZombie' = TreeZombie
  <2>1. DOMAIN TreeZombie' = DOMAIN TreeZombie
    BY <1>3, <1>4, <1>7 DEF Mapped
  <2>2. \A p \in DOMAIN TreeZombie : TreeZombie'[p] = TreeZombie[p]
    BY <1>3, <1>4, <1>7 DEF Mapped
  <2> QED BY <1>7, <2>1, <2>2 DEF Mapped
<1>11. TreeParent' = [q \in DOMAIN TreeParent \cup {n} |->
                        IF q = n THEN pid[t] ELSE TreeParent[q]]
  <2>1. DOMAIN TreeParent' = DOMAIN TreeParent \cup {n}
    <3>1. \A q : q \in DOMAIN TreeParent' <=> \E u \in Live' \ {INITPROC} : q = pid'[u]
      BY <1>7 DEF Mapped
    <3>2. \A q : q \in DOMAIN TreeParent <=> \E u \in Live \ {INITPROC} : q = pid[u]
      BY <1>7 DEF Mapped
    <3>3. \A q : q \in DOMAIN TreeParent' <=> q \in DOMAIN TreeParent \/ q = n
      BY <1>3, <1>4, <3>1, <3>2
    <3> QED BY <3>3
  <2>2. TreeParent'[n] = pid[t]
    <3>1. TreeParent'[pid'[c]] = pid'[parent'[c]]
      BY <1>3, <1>7 DEF Mapped
    <3> QED BY <1>3, <1>4, <3>1
  <2>3. \A u \in Live \ {INITPROC} : TreeParent'[pid[u]] = TreeParent[pid[u]]
    <3> SUFFICES ASSUME NEW u \in Live \ {INITPROC}
                 PROVE  TreeParent'[pid[u]] = TreeParent[pid[u]]
      OBVIOUS
    <3>1. TreeParent'[pid'[u]] = pid'[parent'[u]]
      BY <1>3, <1>7 DEF Mapped
    <3>2. TreeParent[pid[u]] = pid[parent[u]]
      BY <1>7 DEF Mapped
    <3> QED BY <1>4, <1>6, <3>1, <3>2
  <2>4. \A q \in DOMAIN TreeParent : q # n /\ TreeParent'[q] = TreeParent[q]
    BY <1>5, <1>7, <2>3 DEF Mapped
  <2> QED BY <1>7, <2>1, <2>2, <2>4 DEF Mapped
<1>12. ret'.val = n
  BY <1>4
<1> QED
  BY <1>4, <1>8, <1>9, <1>10, <1>11, <1>12, Zenon DEF Tree!Fork, Tree!Answer, Tree!Processes

(* exit makes the caller a zombie and its children those of INITPROC.       *)
LEMMA ExitTree ==
  ASSUME RefInv, ProcInv', NEW t \in Tcb, NEW code \in ExitCodes \cup {-2, -3, 0},
         ExitCurrent(t, code), upc[t] \in {"app", "init_failed"}
  PROVE  Tree!Exit(pid[t])
<1> USE DEF RefInv
<1>1. /\ current = t /\ INITPROC \in Tcb
      /\ task_status' = [task_status EXCEPT ![t] = "Zombie"]
      /\ exit_code' = [exit_code EXCEPT ![t] = code]
      /\ parent' = [c \in Tcb |-> IF c \in Range(children[t]) THEN INITPROC ELSE parent[c]]
      /\ pid' = pid /\ ret' = NoRet
  BY ProcessAssumption DEF ExitCurrent, ParentsAfterExit, InUser
<1>2. /\ t # INITPROC /\ t \in Live /\ task_status[t] = "Running"
      /\ INITPROC \in Live
      /\ \A u \in Live : u \in Tcb
  BY <1>1, CurrentAlive DEF ProcInv, InitprocAlive, Live
<1>3. /\ Live' = Live /\ task_status'[t] = "Zombie" /\ exit_code'[t] = code
      /\ \A u \in Live \ {t} : task_status'[u] = task_status[u] /\ exit_code'[u] = exit_code[u]
  BY <1>1, <1>2 DEF Live, ProcInv, TypeOK
<1>4. \A u \in Live \ {INITPROC} :
         /\ parent'[u] = IF parent[u] = t THEN INITPROC ELSE parent[u]
         /\ parent[u] \in Live
  BY <1>1, <1>2 DEF ProcInv, FamilyInv, ChildrenMatchParents
<1>5. \A u, v \in Live : pid[u] = pid[v] => u = v
  BY DEF ProcInv, FamilyInv, PidsConserved
<1>6. Mapped /\ Mapped'
  BY MapFacts, MapFactsNext
<1>7. pid[t] # 0 /\ pid[INITPROC] = 0
  BY <1>2, <1>5 DEF RootPid
<1>8. TreeAlive' = TreeAlive \ {pid[t]}
  <2>1. \A p : p \in TreeAlive' <=> \E u \in Live : task_status'[u] # "Zombie" /\ p = pid[u]
    BY <1>1, <1>3, <1>6 DEF Mapped
  <2>2. \A p : p \in TreeAlive <=> \E u \in Live : task_status[u] # "Zombie" /\ p = pid[u]
    BY <1>6 DEF Mapped
  <2>3. \A p : p \in TreeAlive' <=> p \in TreeAlive /\ p # pid[t]
    BY <1>2, <1>3, <1>5, <2>1, <2>2
  <2> QED BY <2>3
<1>9. TreeZombie' = [q \in DOMAIN TreeZombie \cup {pid[t]} |->
                       IF q = pid[t] THEN code ELSE TreeZombie[q]]
  <2>1. \A p : p \in DOMAIN TreeZombie' <=>
               \E u \in Live : task_status'[u] = "Zombie" /\ p = pid[u]
    BY <1>1, <1>3, <1>6 DEF Mapped
  <2>2. \A p : p \in DOMAIN TreeZombie <=>
               \E u \in Live : task_status[u] = "Zombie" /\ p = pid[u]
    BY <1>6 DEF Mapped
  <2>3. \A p : p \in DOMAIN TreeZombie' <=> p \in DOMAIN TreeZombie \/ p = pid[t]
    BY <1>2, <1>3, <1>5, <2>1, <2>2
  <2>4. DOMAIN TreeZombie' = DOMAIN TreeZombie \cup {pid[t]}
    BY <2>3
  <2>5. TreeZombie'[pid[t]] = code
    BY <1>1, <1>2, <1>3, <1>6 DEF Mapped
  <2>6. ASSUME NEW u \in Live, task_status[u] = "Zombie"
        PROVE  pid[u] # pid[t] /\ TreeZombie'[pid[u]] = TreeZombie[pid[u]]
    <3>1. u # t /\ task_status'[u] = "Zombie" /\ exit_code'[u] = exit_code[u]
      BY <1>2, <1>3, <2>6
    <3>2. TreeZombie'[pid'[u]] = exit_code'[u]
      BY <1>3, <1>6, <3>1 DEF Mapped
    <3>3. TreeZombie[pid[u]] = exit_code[u]
      BY <1>6, <2>6 DEF Mapped
    <3> QED BY <1>1, <1>2, <1>5, <3>1, <3>2, <3>3
  <2>7. \A q \in DOMAIN TreeZombie : q # pid[t] /\ TreeZombie'[q] = TreeZombie[q]
    BY <2>2, <2>6
  <2> QED BY <1>6, <2>4, <2>5, <2>7 DEF Mapped
<1>10. TreeParent' = [q \in DOMAIN TreeParent |->
                        IF TreeParent[q] = pid[t] THEN 0 ELSE TreeParent[q]]
  <2>1. \A p : p \in DOMAIN TreeParent' <=> p \in DOMAIN TreeParent
    BY <1>1, <1>3, <1>6 DEF Mapped
  <2>2. DOMAIN TreeParent' = DOMAIN TreeParent
    BY <2>1 DEF TreeParent
  <2>3. ASSUME NEW u \in Live \ {INITPROC}
        PROVE  TreeParent'[pid[u]] = IF TreeParent[pid[u]] = pid[t] THEN 0
                                     ELSE TreeParent[pid[u]]
    <3>1. TreeParent'[pid'[u]] = pid'[parent'[u]] /\ TreeParent[pid[u]] = pid[parent[u]]
      BY <1>3, <1>6 DEF Mapped
    <3>2. pid[parent[u]] = pid[t] <=> parent[u] = t
      BY <1>2, <1>4, <1>5
    <3> QED BY <1>1, <1>4, <1>7, <3>1, <3>2
  <2>4. \A q \in DOMAIN TreeParent :
          TreeParent'[q] = IF TreeParent[q] = pid[t] THEN 0 ELSE TreeParent[q]
    BY <1>6, <2>3 DEF Mapped
  <2> QED BY <1>6, <2>2, <2>4 DEF Mapped
<1> QED
  BY <1>1, <1>7, <1>8, <1>9, <1>10, Zenon DEF Tree!Exit, Tree!Silent, NoRet

(* The children of a process are those its vector lists.                    *)
LEMMA ChildrenTree ==
  ASSUME ProcInv, NEW t \in Live
  PROVE  \A q : q \in Tree!ChildrenOf(pid[t]) <=>
            \E i \in DOMAIN children[t] : q = pid[children[t][i]]
<1>1. Mapped
  BY MapFacts
<1>2. t \in Tcb /\ children[t] \in Seq(Tcb)
  BY DEF ProcInv, TypeOK, Live
<1>3. \A q : q \in Tree!ChildrenOf(pid[t]) <=>
             q \in DOMAIN TreeParent /\ TreeParent[q] = pid[t]
  BY Zenon DEF Tree!ChildrenOf
<1>4. \A u \in Live \ {INITPROC} :
         /\ u \in Tcb /\ parent[u] \in Live
         /\ pid[parent[u]] = pid[t] => parent[u] = t
  BY DEF ProcInv, FamilyInv, ChildrenMatchParents, PidsConserved, Live
<1>5. \A u \in Tcb : u \in Range(children[t]) <=> u \in Live \ {INITPROC} /\ parent[u] = t
  BY <1>2 DEF ProcInv, FamilyInv, ChildrenMatchParents
<1>6. \A u : u \in Range(children[t]) <=>
            \E i \in DOMAIN children[t] : u = children[t][i]
  BY DEF Range
<1>7. \A q : (q \in DOMAIN TreeParent /\ TreeParent[q] = pid[t]) <=>
             \E u \in Live \ {INITPROC} : q = pid[u] /\ parent[u] = t
  BY <1>1, <1>4 DEF Mapped
<1>8. Range(children[t]) \subseteq Tcb
  BY <1>2, <1>6
<1>9. \A q : (\E u \in Live \ {INITPROC} : q = pid[u] /\ parent[u] = t) <=>
             \E i \in DOMAIN children[t] : q = pid[children[t][i]]
  BY <1>4, <1>5, <1>6, <1>8
<1>10. ASSUME NEW q
       PROVE  q \in Tree!ChildrenOf(pid[t]) <=>
                 \E i \in DOMAIN children[t] : q = pid[children[t][i]]
  <2>1. q \in Tree!ChildrenOf(pid[t]) <=> q \in DOMAIN TreeParent /\ TreeParent[q] = pid[t]
    BY <1>3
  <2>2. (q \in DOMAIN TreeParent /\ TreeParent[q] = pid[t]) <=>
           \E u \in Live \ {INITPROC} : q = pid[u] /\ parent[u] = t
    BY <1>7
  <2>3. (\E u \in Live \ {INITPROC} : q = pid[u] /\ parent[u] = t) <=>
           \E i \in DOMAIN children[t] : q = pid[children[t][i]]
    BY <1>9
  <2> QED BY <2>1, <2>2, <2>3
<1> QED BY <1>10

(* A waitpid that finds no child, or only running ones, changes nothing and *)
(* says which of the two it was.                                            *)
LEMMA WaitpidFailsTree ==
  ASSUME ProcInv, ProcInv', NEW t \in Tcb, current = t, NEW w \in Int, NEW val \in {-1, -2},
         WaitpidFails(t, w, val),
         val = -1 => Matching(t, w) = {},
         val = -2 => Matching(t, w) # {} /\ Zombies(t, w) = {}
  PROVE  Tree!Waitpid(pid[t])
<1>1. /\ UNCHANGED <<pid, parent, exit_code, task_status>>
      /\ ret' = [pid |-> pid[t], call |-> "waitpid", arg |-> w, val |-> val, code |-> 0]
  BY DEF WaitpidFails, Reply
<1>2. UNCHANGED <<TreeAlive, TreeZombie, TreeParent>>
  BY <1>1, TreeFrame
<1>3. t \in Live
  BY CurrentAlive
<1> DEFINE match == {q \in Tree!ChildrenOf(pid[t]) : w = -1 \/ q = w}
<1>4. \A q : q \in match <=> \E i \in Matching(t, w) : q = pid[children[t][i]]
  <2>1. \A q : q \in Tree!ChildrenOf(pid[t]) <=>
              \E i \in DOMAIN children[t] : q = pid[children[t][i]]
    BY <1>3, ChildrenTree
  <2> QED BY <2>1, Zenon DEF Matching
<1>5. Matching(t, w) = {} <=> match = {}
  BY <1>4
<1>6. Zombies(t, w) = {} => match \cap DOMAIN TreeZombie = {}
  <2> SUFFICES ASSUME Zombies(t, w) = {}, NEW q \in match, q \in DOMAIN TreeZombie
               PROVE  FALSE
    OBVIOUS
  <2>1. PICK i \in Matching(t, w) : q = pid[children[t][i]]
    BY <1>4
  <2>2. PICK u \in Live : task_status[u] = "Zombie" /\ q = pid[u]
    BY MapFacts DEF Mapped
  <2>3. children[t][i] \in Live
    <3>1. i \in DOMAIN children[t] /\ children[t] \in Seq(Tcb)
      BY <2>1 DEF Matching, ProcInv, TypeOK
    <3>2. children[t][i] \in Tcb /\ children[t][i] \in Range(children[t])
      BY <3>1 DEF Range
    <3> QED BY <3>2 DEF ProcInv, FamilyInv, ChildrenMatchParents
  <2>4. children[t][i] = u
    BY <2>1, <2>2, <2>3 DEF ProcInv, FamilyInv, PidsConserved
  <2> QED BY <2>1, <2>2, <2>4 DEF Zombies
<1>7. ret'.arg = w
  BY <1>1
<1> HIDE DEF match
<1>8. \/ /\ match = {} /\ val = -1
      \/ /\ match # {} /\ match \cap DOMAIN TreeZombie = {} /\ val = -2
  BY <1>5, <1>6
<1>9. CASE match = {} /\ val = -1
  BY <1>1, <1>2, <1>7, <1>9, Zenon DEF Tree!Waitpid, Tree!Answer, match
<1>10. CASE match # {} /\ match \cap DOMAIN TreeZombie = {} /\ val = -2
  BY <1>1, <1>2, <1>7, <1>10, Zenon DEF Tree!Waitpid, Tree!Answer, match
<1> QED BY <1>8, <1>9, <1>10

(* A waitpid that reaps tells the zombie's pid and code, and forgets it.    *)
LEMMA ReapTree ==
  ASSUME ProcInv, ProcInv', NEW t \in Tcb, current = t, NEW w \in Int,
         NEW i \in Zombies(t, w), NEW ptr, Reap(t, w, i, ptr)
  PROVE  Tree!Waitpid(pid[t])
<1>1. PICK c : c = children[t][i]
  OBVIOUS
<1>2. /\ i \in DOMAIN children[t] /\ (w = -1 \/ pid[c] = w) /\ task_status[c] = "Zombie"
      /\ children[t] \in Seq(Tcb)
  BY <1>1 DEF Zombies, Matching, ProcInv, TypeOK
<1>3. /\ c \in Tcb /\ c \in Range(children[t])
  BY <1>1, <1>2 DEF Range
<1>4. c \in Live /\ c # INITPROC /\ t \in Live
  BY <1>3, CurrentAlive DEF ProcInv, FamilyInv, ChildrenMatchParents
<1>5. /\ task_status' = [task_status EXCEPT ![c] = "Free"]
      /\ pid' = [pid EXCEPT ![c] = 0] /\ parent' = [parent EXCEPT ![c] = NoTask]
      /\ exit_code' = [exit_code EXCEPT ![c] = 0]
      /\ ret' = [pid |-> pid[t], call |-> "waitpid", arg |-> w, val |-> pid[c],
                 code |-> exit_code[c]]
  BY <1>1, Zenon DEF Reap, Reply
<1>6. /\ Live' = Live \ {c}
      /\ \A u \in Live \ {c} : /\ task_status'[u] = task_status[u] /\ pid'[u] = pid[u]
                               /\ parent'[u] = parent[u] /\ exit_code'[u] = exit_code[u]
  BY <1>3, <1>5 DEF Live, ProcInv, TypeOK
<1>7. \A u, v \in Live : pid[u] = pid[v] => u = v
  BY DEF ProcInv, FamilyInv, PidsConserved
<1>8. \A u \in Live \ {INITPROC} : parent[u] \in Live \ {c}
  BY <1>2 DEF ProcInv, FamilyInv, ChildrenMatchParents
<1>9. Mapped /\ Mapped'
  BY MapFacts, MapFactsNext
<1>10. TreeAlive' = TreeAlive
  <2>1. \A p : p \in TreeAlive' <=> \E u \in Live' : task_status'[u] # "Zombie" /\ p = pid'[u]
    BY <1>9 DEF Mapped
  <2>2. \A p : p \in TreeAlive <=> \E u \in Live : task_status[u] # "Zombie" /\ p = pid[u]
    BY <1>9 DEF Mapped
  <2>3. \A p : p \in TreeAlive' <=> p \in TreeAlive
    BY <1>2, <1>6, <2>1, <2>2
  <2> QED BY <2>3
<1>11. TreeZombie' = [r \in DOMAIN TreeZombie \ {pid[c]} |-> TreeZombie[r]]
  <2>1. \A p : p \in DOMAIN TreeZombie' <=>
               \E u \in Live' : task_status'[u] = "Zombie" /\ p = pid'[u]
    BY <1>9 DEF Mapped
  <2>2. \A p : p \in DOMAIN TreeZombie <=>
               \E u \in Live : task_status[u] = "Zombie" /\ p = pid[u]
    BY <1>9 DEF Mapped
  <2>3. \A p : p \in DOMAIN TreeZombie' <=> p \in DOMAIN TreeZombie /\ p # pid[c]
    BY <1>4, <1>6, <1>7, <2>1, <2>2
  <2>4. DOMAIN TreeZombie' = DOMAIN TreeZombie \ {pid[c]}
    BY <2>3
  <2>5. ASSUME NEW u \in Live \ {c}, task_status[u] = "Zombie"
        PROVE  TreeZombie'[pid[u]] = TreeZombie[pid[u]]
    <3>1. TreeZombie'[pid'[u]] = exit_code'[u]
      BY <1>6, <1>9, <2>5 DEF Mapped
    <3>2. TreeZombie[pid[u]] = exit_code[u]
      BY <1>9, <2>5 DEF Mapped
    <3> QED BY <1>6, <3>1, <3>2
  <2>6. \A q \in DOMAIN TreeZombie \ {pid[c]} : TreeZombie'[q] = TreeZombie[q]
    BY <2>2, <2>5
  <2> QED BY <1>9, <2>4, <2>6 DEF Mapped
<1>12. TreeParent' = [r \in DOMAIN TreeParent \ {pid[c]} |-> TreeParent[r]]
  <2>1. \A p : p \in DOMAIN TreeParent' <=> \E u \in Live' \ {INITPROC} : p = pid'[u]
    BY <1>9 DEF Mapped
  <2>2. \A p : p \in DOMAIN TreeParent <=> \E u \in Live \ {INITPROC} : p = pid[u]
    BY <1>9 DEF Mapped
  <2>3. \A p : p \in DOMAIN TreeParent' <=> p \in DOMAIN TreeParent /\ p # pid[c]
    BY <1>4, <1>6, <1>7, <2>1, <2>2
  <2>4. DOMAIN TreeParent' = DOMAIN TreeParent \ {pid[c]}
    BY <2>3
  <2>5. ASSUME NEW u \in Live \ {c, INITPROC}
        PROVE  TreeParent'[pid[u]] = TreeParent[pid[u]]
    <3>1. TreeParent'[pid'[u]] = pid'[parent'[u]]
      BY <1>6, <1>9 DEF Mapped
    <3>2. TreeParent[pid[u]] = pid[parent[u]]
      BY <1>9 DEF Mapped
    <3> QED BY <1>6, <1>8, <3>1, <3>2
  <2>6. \A q \in DOMAIN TreeParent \ {pid[c]} : TreeParent'[q] = TreeParent[q]
    BY <2>2, <2>5
  <2> QED BY <1>9, <2>4, <2>6 DEF Mapped
<1>13. pid[c] \in Tree!ChildrenOf(pid[t])
  BY <1>1, <1>2, <1>4, ChildrenTree
<1>14. pid[c] \in DOMAIN TreeZombie /\ TreeZombie[pid[c]] = exit_code[c]
  BY <1>2, <1>4, <1>9 DEF Mapped
<1>15. ret'.arg = w
  BY <1>5
<1> QED
  BY <1>2, <1>5, <1>10, <1>11, <1>12, <1>13, <1>14, <1>15, Zenon DEF Tree!Waitpid, Tree!Answer

-----------------------------------------------------------------------------
(* INITPROC is neither created by fork nor reaped.                          *)
LEMMA RootPidNext ==
  ASSUME RefInv, [Next]_vars
  PROVE  RootPid'
<1> USE ProcessAssumption DEF RefInv, RootPid
<1>1. pid \in [Tcb -> Nat] /\ task_status[INITPROC] \in {"Ready", "Running"}
  BY DEF ProcInv, TypeOK, InitprocAlive
<1>2. ASSUME NEW t \in Tcb, SysFork(t) PROVE RootPid'
  BY <1>1, <1>2 DEF SysFork
<1>3. ASSUME NEW t \in Tcb, NEW w, NEW ptr, SysWaitpid(t, w, ptr) PROVE RootPid'
  <2>1. ASSUME NEW i \in Zombies(t, w), Reap(t, w, i, ptr) PROVE RootPid'
    <3>1. task_status[children[t][i]] = "Zombie"
      BY <2>1 DEF Zombies
    <3>2. pid' = [pid EXCEPT ![children[t][i]] = 0]
      BY <2>1 DEF Reap
    <3> QED BY <1>1, <3>1, <3>2
  <2>2. ASSUME NEW v, WaitpidFails(t, w, v) PROVE RootPid'
    BY <2>2 DEF WaitpidFails
  <2> QED BY <1>3, <2>1, <2>2, Zenon DEF SysWaitpid
<1>4. ASSUME NEW t \in Tcb,
             \/ Tick(t) \/ SysYield(t) \/ UserWait(t) \/ SysRead(t) \/ ResumeRead(t)
             \/ (\E file : SysExec(t, file)) \/ (\E code : ExitCurrent(t, code))
             \/ (\E what : Panic(t, what))
      PROVE  RootPid'
  BY <1>4 DEF Tick, SysYield, UserWait, SysRead, ResumeRead, GetChar, SysExec, ExitCurrent,
              Panic
<1>5. ASSUME RunTasks \/ UNCHANGED vars PROVE RootPid'
  BY <1>5 DEF RunTasks, vars
<1>6. ASSUME NEW t \in Tcb, TaskStep(t) PROVE RootPid'
  <2> HIDE DEF RootPid
  <2> QED BY <1>2, <1>3, <1>4, <1>6, Zenon DEF TaskStep, SysExit, Fault
<1> QED BY <1>5, <1>6 DEF Next, Halted

(* Every handler is a step of the process tree.                             *)
LEMMA StepTree ==
  ASSUME RefInv, RefInv', Next, ~Halted
  PROVE  Tree!TreeNext
<1> USE DEF RefInv
<1>1. ASSUME RunTasks PROVE Tree!TreeNext
  <2>1. ret' = NoRet /\ UNCHANGED <<pid, parent, exit_code>>
    BY <1>1 DEF RunTasks
  <2>2. \A t \in Tcb : /\ task_status'[t] = "Free" <=> task_status[t] = "Free"
                       /\ task_status'[t] = "Zombie" <=> task_status[t] = "Zombie"
    <3>1. ready_queue \in Seq(Tcb) /\ task_status \in [Tcb -> Status] /\ ready_queue # <<>>
            /\ task_status' = [task_status EXCEPT ![Head(ready_queue)] = "Running"]
      BY <1>1 DEF RunTasks, ProcInv, TypeOK
    <3>2. Head(ready_queue) \in Range(ready_queue) /\ Head(ready_queue) \in Tcb
      BY <3>1, TailFacts DEF ProcInv, SchedulerOwnsRunnable
    <3>3. task_status[Head(ready_queue)] = "Ready"
      BY <3>2 DEF ProcInv, SchedulerOwnsRunnable
    <3> QED BY <3>1, <3>2, <3>3
  <2>3. UNCHANGED <<TreeAlive, TreeZombie, TreeParent>>
    BY <2>1, <2>2, TreeFrame
  <2> QED BY <2>1, <2>3, OtherTree
<1>2. ASSUME NEW t \in Tcb,
             Tick(t) \/ SysYield(t) \/ UserWait(t) \/ SysRead(t) \/ ResumeRead(t)
               \/ (\E file : SysExec(t, file)) \/ (\E what : Panic(t, what))
      PROVE  Tree!TreeNext
  <2>1. current = t /\ task_status \in [Tcb -> Status] /\ UNCHANGED <<pid, parent, exit_code>>
    BY <1>2 DEF Tick, SysYield, UserWait, SysRead, ResumeRead, GetChar, SysExec, Panic,
                InUser, ProcInv, TypeOK
  <2>2. task_status' = task_status \/ task_status' = [task_status EXCEPT ![t] = "Ready"]
    BY <1>2 DEF Tick, SysYield, UserWait, SysRead, ResumeRead, GetChar, SysExec, Panic,
                Suspend
  <2>3. t \in Live /\ task_status[t] = "Running" /\ pid[t] \in TreeAlive
    BY <2>1, CurrentAlive
  <2>4. \A u \in Tcb : /\ task_status'[u] = "Free" <=> task_status[u] = "Free"
                       /\ task_status'[u] = "Zombie" <=> task_status[u] = "Zombie"
    BY <2>1, <2>2, <2>3
  <2>5. UNCHANGED <<TreeAlive, TreeZombie, TreeParent>>
    BY <2>1, <2>4, TreeFrame
  <2>6. \/ ret' = NoRet
        \/ \E call \in {"exec", "read"}, val \in {-1, 0, 1} :
              ret' = [pid |-> pid[t], call |-> call, arg |-> 0, val |-> val, code |-> 0]
    BY <1>2 DEF Tick, SysYield, UserWait, SysRead, ResumeRead, GetChar, SysExec, Panic,
                Reply
  <2> QED BY <2>3, <2>5, <2>6, OtherTree
<1>3. ASSUME NEW t \in Tcb, SysFork(t) PROVE Tree!TreeNext
  <2>1. pid[t] \in TreeAlive
    BY <1>3, CurrentAlive DEF SysFork, InUser
  <2>2. Tree!Fork(pid[t])
    BY <1>3, ForkTree
  <2> QED BY <2>1, <2>2, Zenon DEF Tree!TreeNext
<1>4. ASSUME NEW t \in Tcb, NEW code \in ExitCodes \cup {-2, -3, 0},
             SysExit(t, code) \/ Fault(t, code)
      PROVE  Tree!TreeNext
  <2>1. ExitCurrent(t, code) /\ upc[t] \in {"app", "init_failed"}
    BY <1>4 DEF SysExit, Fault
  <2>2. pid[t] \in TreeAlive
    BY <2>1, CurrentAlive DEF ExitCurrent, InUser
  <2>3. Tree!Exit(pid[t])
    BY <2>1, ExitTree
  <2> QED BY <2>2, <2>3, Zenon DEF Tree!TreeNext
<1>5. ASSUME NEW t \in Tcb, NEW w \in Int, NEW ptr, SysWaitpid(t, w, ptr) PROVE Tree!TreeNext
  <2>1. current = t /\ pid[t] \in TreeAlive
    BY <1>5, CurrentAlive DEF SysWaitpid, InUser
  <2>2. Tree!Waitpid(pid[t])
    <3>1. CASE Matching(t, w) = {} /\ WaitpidFails(t, w, -1)
      <4>1. -1 \in {-1, -2} /\ -1 # -2
        OBVIOUS
      <4> QED BY <2>1, <3>1, <4>1, WaitpidFailsTree
    <3>2. CASE Matching(t, w) # {} /\ Zombies(t, w) = {} /\ WaitpidFails(t, w, -2)
      <4>1. -2 \in {-1, -2} /\ -1 # -2
        OBVIOUS
      <4> QED BY <2>1, <3>2, <4>1, WaitpidFailsTree
    <3>3. ASSUME NEW i \in Zombies(t, w), Reap(t, w, i, ptr) PROVE Tree!Waitpid(pid[t])
      BY <2>1, <3>3, ReapTree
    <3> QED BY <1>5, <3>1, <3>2, <3>3, Zenon DEF SysWaitpid
  <2> QED BY <2>1, <2>2, Zenon DEF Tree!TreeNext
<1>6. ASSUME NEW t \in Tcb, TaskStep(t) PROVE Tree!TreeNext
  <2>1. WaitPids \subseteq Int
    BY ProcessAssumption
  <2> QED BY <1>2, <1>3, <1>4, <1>5, <1>6, <2>1, Zenon DEF TaskStep
<1> QED BY <1>1, <1>6, Zenon DEF Next

(* At boot the tree is the root alone.                                      *)
LEMMA InitTree == Init => RefInv /\ Tree!TreeInit
<1> SUFFICES ASSUME Init PROVE RefInv /\ Tree!TreeInit
  OBVIOUS
<1>1. RefInv
  BY InitInv, ProcessAssumption DEF RefInv, RootPid, Init
<1>2. Live = {INITPROC} /\ task_status[INITPROC] # "Zombie" /\ pid[INITPROC] = 0
  BY ProcessAssumption DEF Init, Live
<1>3. Mapped
  BY <1>1, MapFacts DEF RefInv
<1>4. TreeAlive = {0}
  BY <1>2, <1>3 DEF Mapped
<1>5. DOMAIN TreeZombie = {} /\ DOMAIN TreeParent = {}
  BY <1>2, <1>3, ZenonT(30) DEF Mapped
<1>6. TreeZombie = [p \in {} |-> 0] /\ TreeParent = [p \in {} |-> 0]
  BY <1>3, <1>5 DEF Mapped
<1>7. ret = NoRet
  BY DEF Init
<1> QED BY <1>1, <1>4, <1>6, <1>7, Zenon DEF Tree!TreeInit, Tree!Silent, NoRet

(* The kernel with its queues, vectors and recycled pids is the process     *)
(* tree that fork, exec, exit and waitpid promise, for any number of tasks. *)
THEOREM TreeRefinement == Spec => ImplementsTree
<1>1. RefInv /\ [Next]_vars => RefInv'
  BY NextInv, RootPidNext DEF RefInv
<1>2. RefInv /\ RefInv' /\ [Next]_vars => [Tree!TreeNext]_(Tree!treeVars)
  <2> SUFFICES ASSUME RefInv, RefInv', [Next]_vars
               PROVE  Tree!TreeNext \/ UNCHANGED Tree!treeVars
    BY Zenon
  <2>1. CASE Next /\ ~Halted
    BY <2>1, StepTree
  <2>2. CASE UNCHANGED vars
    <3>1. UNCHANGED <<pid, parent, exit_code, task_status, ret>>
      BY <2>2 DEF vars
    <3>2. UNCHANGED <<TreeAlive, TreeZombie, TreeParent>>
      BY <3>1, TreeFrame DEF RefInv
    <3> QED BY <3>1, <3>2, Zenon DEF Tree!treeVars
  <2> QED BY <2>1, <2>2 DEF Halted
<1>3. Init => RefInv
  BY InitTree
<1>4. Init => Tree!TreeInit
  BY InitTree
<1> QED BY <1>1, <1>2, <1>3, <1>4, PTL DEF Spec, ImplementsTree, Tree!TreeSpec

=============================================================================
