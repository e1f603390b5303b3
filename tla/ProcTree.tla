------------------------------ MODULE ProcTree ------------------------------
(***************************************************************************)
(* What the process system calls promise to user programs, without task    *)
(* control blocks, reference counts, kernel stacks or queues: processes    *)
(* are pids; a process is alive or a zombie that remembers its exit code;  *)
(* each has a parent; fork, exit and waitpid are the only ways the set of  *)
(* processes changes, and ret is what the last call told its caller.       *)
(***************************************************************************)
EXTENDS Integers

CONSTANTS InitPid, ExitCodes

VARIABLES alive,    \* pids of the processes that can still run
          zombie,   \* exit code of every exited, not yet reaped process
          parentOf, \* parent of every process but the initial one
          ret       \* answer of the last call: [pid, call, arg, val, code]

treeVars == <<alive, zombie, parentOf, ret>>

Answer(p, call, arg, val, code) ==
    [pid |-> p, call |-> call, arg |-> arg, val |-> val, code |-> code]

Silent == [pid |-> -1, call |-> "none", arg |-> 0, val |-> 0, code |-> 0]

Processes == alive \cup DOMAIN zombie

TreeInit ==
    /\ alive = {InitPid}
    /\ zombie = [p \in {} |-> 0]
    /\ parentOf = [p \in {} |-> InitPid]
    /\ ret = Silent

(* The child gets a pid no process has, alive or zombie.                    *)
Fork(p) ==
    LET c == ret'.val
    IN  /\ ret' = Answer(p, "fork", 0, c, 0)
        /\ c \in Nat /\ c \notin Processes
        /\ alive' = alive \cup {c}
        /\ parentOf' = [q \in DOMAIN parentOf \cup {c} |->
                          IF q = c THEN p ELSE parentOf[q]]
        /\ UNCHANGED zombie

(* All children of p, zombies included, become children of the initial      *)
(* process.  The initial process never exits.                               *)
Exit(p) ==
    \E code \in ExitCodes :
        /\ p # InitPid
        /\ alive' = alive \ {p}
        /\ zombie' = [q \in DOMAIN zombie \cup {p} |->
                        IF q = p THEN code ELSE zombie[q]]
        /\ parentOf' = [q \in DOMAIN parentOf |->
                          IF parentOf[q] = p THEN InitPid ELSE parentOf[q]]
        /\ ret' = Silent

ChildrenOf(p) == {q \in DOMAIN parentOf : parentOf[q] = p}

(* waitpid(w) answers -1 when no child matches, -2 when every match is      *)
(* alive, and otherwise hands over one zombie with its code and forgets it. *)
Waitpid(p) ==
    LET w     == ret'.arg
        match == {q \in ChildrenOf(p) : w = -1 \/ q = w}
        dead  == match \cap DOMAIN zombie
    IN  \/ /\ match = {}
           /\ ret' = Answer(p, "waitpid", w, -1, 0)
           /\ UNCHANGED <<alive, zombie, parentOf>>
        \/ /\ match # {} /\ dead = {}
           /\ ret' = Answer(p, "waitpid", w, -2, 0)
           /\ UNCHANGED <<alive, zombie, parentOf>>
        \/ \E q \in dead :
           /\ ret' = Answer(p, "waitpid", w, q, zombie[q])
           /\ zombie' = [r \in DOMAIN zombie \ {q} |-> zombie[r]]
           /\ parentOf' = [r \in DOMAIN parentOf \ {q} |-> parentOf[r]]
           /\ UNCHANGED alive

(* Any other call, or a scheduling step: the processes stay as they are.    *)
Other ==
    /\ \/ ret' = Silent
       \/ \E p \in alive, call \in {"exec", "read"}, val \in {-1, 0, 1} :
             ret' = Answer(p, call, 0, val, 0)
    /\ UNCHANGED <<alive, zombie, parentOf>>

TreeNext ==
    \/ Other
    \/ \E p \in alive : Fork(p) \/ Exit(p) \/ Waitpid(p)

TreeSpec == TreeInit /\ [][TreeNext]_treeVars

=============================================================================
