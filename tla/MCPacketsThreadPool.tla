------------------------ MODULE MCPacketsThreadPool ------------------------
(* Instances of PacketsThreadPool for TLC. *)
EXTENDS PacketsThreadPool

Packet(type, from, level, block) == [type |-> type, from |-> from, level |-> level, block |-> block]

\* Two peers, DAG blocks of two levels, one of them sent by both peers.
MCKinds == {
    Packet("Vote", 1, 0, "-"),
    Packet("Transaction", 1, 0, "-"),
    Packet("DagBlock", 1, 2, "a"),
    Packet("DagBlock", 2, 2, "a"),
    Packet("DagBlock", 2, 1, "b"),
    Packet("PbftSync", 1, 0, "-"),
    Packet("PbftBlocksBundle", 2, 0, "-")}

=============================================================================
