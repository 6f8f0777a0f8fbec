------------------------------ MODULE MCLedger ------------------------------
(***************************************************************************)
(* Five periods.  The rewards are distributed in every second period, from *)
(* period 5 on in every one; the dynamic lambda starts in period 3; the    *)
(* VRF threshold changes every second non-empty block.                     *)
(***************************************************************************)
EXTENDS Ledger

MCFrequency == (1 :> 2) @@ (5 :> 1)
MCTargets == <<6900, 7100>>

Block(anchor, round, dags, listed, trxs) ==
  [anchor |-> anchor, round |-> round, dags |-> dags, listed |-> listed, trxs |-> trxs]

MCBlocks ==
  { Block(NullAnchor, 1, 0, 0, 0), Block("a", 1, 2, 2, 2), Block("a", 2, 2, 4, 2) }
=============================================================================
