---------------------------- MODULE MCNodeTable ----------------------------
(* Small instances of NodeTable: all nodes fall into one bucket. *)
EXTENDS NodeTable

OneBin == {1}
SameBin == [n \in Nodes |-> 1]
=============================================================================
