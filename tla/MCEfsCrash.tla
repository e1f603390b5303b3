----------------------------- MODULE MCEfsCrash -----------------------------
(***************************************************************************)
(* An instance of EfsCrash for TLC: blocks of two words, one direct block. *)
(***************************************************************************)
EXTENDS EfsCrash

Write(off, data) == [off |-> off, data |-> data]

(* Into the first block; through the indirect and the doubly indirect one.  *)
(* The words are numbers of blocks in use: data taken for an index shows.   *)
MCWrites == {Write(1, <<8>>), Write(7, <<8, 9>>)}

MCReads == {[off |-> 0, len |-> 1]}

=============================================================================
