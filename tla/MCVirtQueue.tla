---------------------------- MODULE MCVirtQueue ----------------------------
(***************************************************************************)
(* Instances of VirtQueue for TLC.                                         *)
(***************************************************************************)
EXTENDS VirtQueue, TLC

(* Requests, sectors and values are interchangeable.                        *)
Symmetry == Permutations(Requests) \cup Permutations(Sectors) \cup Permutations(Values)

=============================================================================
