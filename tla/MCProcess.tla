----------------------------- MODULE MCProcess -----------------------------
(***************************************************************************)
(* Instances of Process for TLC.                                           *)
(***************************************************************************)
EXTENDS Process, TLC

CONSTANTS init, t1, t2, t3, MaxPid

(* waitpid(-1) and waitpid of every pid that can exist, plus one no task    *)
(* can have.                                                                *)
MCWaitPids == -1 .. MaxPid

(* The slots a fork can take are interchangeable.                           *)
MCSymmetry == Permutations(Tcb \ {INITPROC})

=============================================================================
