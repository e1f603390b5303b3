---------------------------- MODULE UserMachines ----------------------------
(***************************************************************************)
(* What the kernel promises a program about the processor: registers of    *)
(* its own, which only its own instructions and the answers to its own     *)
(* calls change, however often it is interrupted and whatever ran between. *)
(* The register tp is not among them: there is one, which every program    *)
(* that runs may change.  A call or a trap the kernel does not support     *)
(* stops all programs.                                                     *)
(***************************************************************************)
EXTENDS Integers

CONSTANTS Pids, UserRegs, AppRegs, Tps

VARIABLES alive, regs,
          called,  \* processes inside a call that has not answered
          tp, stopped

ownVars == <<alive, regs, called>>

machineVars == <<ownVars, tp, stopped>>

Calls == {"getpid", "yield", "fork", "exec", "waitpid", "exit"}

MachineInit ==
    /\ alive = {0} /\ called = {}
    /\ regs = [p \in {0} |-> AppRegs]
    /\ tp \in Tps /\ stopped = FALSE

(* Instructions of the program, with whatever registers they leave.         *)
Run(p) ==
    /\ p \notin called
    /\ \E r \in UserRegs : regs' = [regs EXCEPT ![p] = r]
    /\ UNCHANGED <<alive, called>>

Answered(p, a0) == [regs EXCEPT ![p].pc = @ + 1, ![p].a0 = a0]

(* A call that is answered at once.                                         *)
Answer(p) ==
    /\ p \notin called
    /\ \/ regs[p].x = "getpid" /\ regs' = Answered(p, p)
       \/ regs[p].x = "waitpid" /\ \E a0 \in Pids \cup {-1, -2} : regs' = Answered(p, a0)
       \/ regs[p].x = "exec" /\ regs' = Answered(p, -1)
       \/ regs[p].x = "exec" /\ regs' = [regs EXCEPT ![p] = [AppRegs EXCEPT !.a0 = 0]]
    /\ UNCHANGED <<alive, called>>

(* A call that gives up the processor, and its answer.                      *)
CallYield(p) ==
    /\ p \notin called /\ regs[p].x = "yield"
    /\ regs' = [regs EXCEPT ![p].pc = @ + 1]
    /\ called' = called \cup {p}
    /\ UNCHANGED alive

AnswerYield(p) ==
    /\ p \in called
    /\ regs' = [regs EXCEPT ![p].a0 = 0]
    /\ called' = called \ {p}
    /\ UNCHANGED alive

(* The child starts with the registers of its parent, but for the answer.   *)
Fork(p, c) ==
    /\ p \notin called /\ regs[p].x = "fork" /\ c \notin alive
    /\ alive' = alive \cup {c}
    /\ regs' = [q \in alive' |->
                  IF q = c THEN Answered(p, 0)[p] ELSE Answered(p, c)[q]]
    /\ UNCHANGED called

Exit(p) ==
    /\ p \notin called
    /\ alive' = alive \ {p}
    /\ regs' = [q \in alive' |-> regs[q]]
    /\ UNCHANGED called

(* A trap that is not supported, or a call that is not known.               *)
Stop(p) ==
    /\ p \notin called
    /\ \/ UNCHANGED regs
       \/ regs[p].x \notin Calls /\ regs' = [regs EXCEPT ![p].pc = @ + 1]
    /\ UNCHANGED <<alive, called>>

MachineNext ==
    /\ ~stopped
    /\ \E p \in alive :
         \/ Run(p) /\ tp' \in Tps /\ UNCHANGED stopped
         \/ /\ \/ Answer(p) \/ CallYield(p) \/ AnswerYield(p) \/ Exit(p)
               \/ \E c \in Pids : Fork(p, c)
            /\ UNCHANGED <<tp, stopped>>
         \/ Stop(p) /\ stopped' = TRUE /\ UNCHANGED tp

MachineSpec == MachineInit /\ [][MachineNext]_machineVars

=============================================================================
