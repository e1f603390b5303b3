---------------------------- MODULE MCFileTable ----------------------------
(***************************************************************************)
(* Instances of FileTable for TLC: pages of two bytes, so that a buffer of *)
(* three lies in two or three pages.                                       *)
(***************************************************************************)
EXTENDS FileTable

(* An empty image.                                                          *)
MCInitFiles == [n \in {} |-> <<>>]

MCTexts == {<<2, 3>>}

(* To append, to truncate, to create; and flags that do not exist.          *)
MCFlagSets == {{"WRONLY"}, {"TRUNC"}, {"CREATE", "WRONLY"}, {"APPEND"}}

=============================================================================
