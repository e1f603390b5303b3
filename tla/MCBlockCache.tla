---------------------------- MODULE MCBlockCache ----------------------------
(***************************************************************************)
(* An instance of BlockCache for TLC.                                      *)
(***************************************************************************)
EXTENDS BlockCache, TLC

(* Blocks, heap slots and clients are interchangeable.                      *)
MCSymmetry ==
    Permutations(Block) \cup Permutations(Obj) \cup Permutations(Client)

=============================================================================
