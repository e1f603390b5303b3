------------------------------ MODULE MCMemory ------------------------------
(***************************************************************************)
(* An instance of Memory for TLC: page-table nodes of four entries, so     *)
(* that a user space needs five of them, and two programs, one of them     *)
(* with two segments.                                                      *)
(***************************************************************************)
EXTENDS Memory

Segment(start, perm, data) == [start |-> start, perm |-> perm, data |-> data]

One == <<Segment(1, {"R", "W"}, <<2>>)>>

Two == <<Segment(1, {"R", "X"}, <<3>>), Segment(2, {"R", "W"}, <<4>>)>>

MCPrograms == {One, Two}

=============================================================================
