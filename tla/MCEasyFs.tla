------------------------------ MODULE MCEasyFs ------------------------------
(***************************************************************************)
(* An instance of EasyFs for TLC: blocks of two words, one direct block,   *)
(* so that a file of eight words uses every level of the index.            *)
(***************************************************************************)
EXTENDS EasyFs

Write(off, data) == [off |-> off, data |-> data]

(* Across the direct boundary; behind a gap, across the indirect boundary;  *)
(* up to the last block a file can have; one word too many.                 *)
MCWrites == {Write(1, <<1, 2>>), Write(5, <<3, 4, 5>>), Write(13, <<6>>),
             Write(14, <<7>>)}

(* Through every level of the index, from the middle of a block.            *)
MCReads == {[off |-> 1, len |-> 13]}

=============================================================================
