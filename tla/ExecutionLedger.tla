-------------------------- MODULE ExecutionLedger --------------------------
(***************************************************************************)
(* What a node promises about finalized blocks, whatever crashes it        *)
(* suffers: the chain only grows, its blocks are executed once each and in *)
(* the order of the chain, and the rewards of every executed block are     *)
(* paid exactly once, in the first distribution that follows it.           *)
(***************************************************************************)
EXTENDS Integers, Sequences

CONSTANTS
  PbftBlocks,           \* the blocks consensus may decide on
  DistributionPeriods   \* the periods in which rewards are distributed

VARIABLES
  chain,     \* the blocks decided so far
  executed,  \* how many of them the state reflects
  unpaid,    \* the executed periods whose rewards are not distributed yet
  paid       \* what each executed period distributed: a set of periods

vars == <<chain, executed, unpaid, paid>>

Init == chain = <<>> /\ executed = 0 /\ unpaid = {} /\ paid = <<>>

Decide(b) == chain' = Append(chain, b) /\ UNCHANGED <<executed, unpaid, paid>>

Execute ==
  LET period == executed + 1
      due == unpaid \cup {period}
  IN  /\ executed < Len(chain)
      /\ executed' = period
      /\ unpaid' = IF period \in DistributionPeriods THEN {} ELSE due
      /\ paid' = Append(paid, IF period \in DistributionPeriods THEN due ELSE {})
      /\ UNCHANGED chain

Next == Execute \/ \E b \in PbftBlocks : Decide(b)

Spec == Init /\ [][Next]_vars
=============================================================================
