---------------------------- MODULE MCTrapSwitch ----------------------------
(***************************************************************************)
(* An instance of TrapSwitch for TLC.                                      *)
(***************************************************************************)
EXTENDS TrapSwitch, TLC

(* A program gets to any call, also one that syscall does not know, with    *)
(* registers that tell it from another.                                     *)
MCUserRegs ==
    {[x |-> call, sp |-> UserSp(v), a0 |-> v, pc |-> 0] :
        call \in Calls \cup {"unknown"}, v \in {7, 8}}

MCAppRegs == [x |-> "entry", sp |-> UserSp(0), a0 |-> 0, pc |-> 0]

(* Frames are interchangeable, and so are the values of tp.                 *)
Symmetry == Permutations(Frames) \cup Permutations(Tps)

=============================================================================
