--------------------------- MODULE SortitionParams ---------------------------
(***************************************************************************)
(* SortitionParamsManager: the VRF threshold of DAG block proposals        *)
(* follows the efficiency of the DAG.  Its state is a record of            *)
(*   changes  params_changes_, the last changes of the threshold,          *)
(*   effs     dag_efficiencies_, the efficiencies since the last change,   *)
(*   ignored  ignored_efficiency_counter_.                                 *)
(* A block that has an anchor is a record with fields listed (transactions *)
(* over all its DAG blocks) and trxs (distinct ones).                      *)
(***************************************************************************)
EXTENDS Integers, Sequences, FiniteSetsExt

CONSTANTS
  ChangingInterval,        \* config changing_interval, in non-empty blocks
  ComputationInterval,     \* config computation_interval
  ChangesCountForAverage,  \* config changes_count_for_average
  EfficiencyTargets,       \* config dag_efficiency_targets: <<low, high>>
  InitialThreshold,        \* threshold_upper of the genesis configuration
  NullAnchor               \* kNullBlockHash as the pivot of a PBFT block

UINT16_MAX == 65535
kThresholdUpperMinValue == 80
kOnePercent == 100

ASSUME SortitionAssumption ==
  /\ ChangingInterval \in Nat \ {0} /\ ComputationInterval \in 1..ChangingInterval
  /\ ChangesCountForAverage \in Nat \ {0}
  /\ EfficiencyTargets[1] \in 1..(100 * kOnePercent - 1)
  /\ EfficiencyTargets[2] \in EfficiencyTargets[1]..(100 * kOnePercent - 1)
  /\ InitialThreshold \in kThresholdUpperMinValue..UINT16_MAX

targetEfficiency == (EfficiencyTargets[1] + EfficiencyTargets[2]) \div 2

DefaultChange == [period |-> 0, efficiency |-> targetEfficiency, upper |-> InitialThreshold]

calculateDagEfficiency(block) ==
  IF block.listed = 0 THEN 100 * kOnePercent
                      ELSE (block.trxs * 100 * kOnePercent) \div block.listed

averageDagEfficiency(effs) == SumFunction(effs) \div Len(effs)

\* The distance from the target, in percent of the range on that side of it.
deviation(efficiency) ==
  IF efficiency > targetEfficiency
  THEN ((efficiency - targetEfficiency) * 100) \div (100 * kOnePercent - targetEfficiency)
  ELSE ((targetEfficiency - efficiency) * 100) \div targetEfficiency

getThresholdChange(efficiency, upper) ==
  CASE efficiency = targetEfficiency -> 0
    [] OTHER -> CASE deviation(efficiency) < 20 -> upper \div 100
                  [] deviation(efficiency) \in 20..39 -> UINT16_MAX \div 50
                  [] OTHER -> UINT16_MAX \div 20

\* The efficiency of a change was reached under the threshold of the one before
\* it; a later change with the same efficiency overrides an earlier one.
getEfficienciesToUpperRange(changes, efficiency) ==
  LET known == {changes[i].efficiency : i \in 2..Len(changes)}
      latest(e) == changes[Max({i \in 2..Len(changes) : changes[i].efficiency = e}) - 1].upper
      last == changes[Len(changes)].upper
  IN  IF Len(changes) = 1 THEN <<>>
      ELSE [e \in known \cup {efficiency} |-> IF e = efficiency THEN last ELSE latest(e)]

getClosestThreshold(ranges, over) ==
  IF over THEN ranges[Max({e \in DOMAIN ranges : e < targetEfficiency})]
          ELSE ranges[Min({e \in DOMAIN ranges : e >= targetEfficiency})]

getNewUpperRange(changes, efficiency) ==
  LET last == changes[Len(changes)].upper
      over == efficiency >= targetEfficiency
      step == getThresholdChange(efficiency, last)
      moved == IF over THEN last + step ELSE last - step
      ranges == getEfficienciesToUpperRange(changes, efficiency)
      reached == /\ \E e \in DOMAIN ranges : e >= targetEfficiency
                 /\ \E e \in DOMAIN ranges : e < targetEfficiency
      closest == getClosestThreshold(ranges, over)
  IN  CASE efficiency \in EfficiencyTargets[1]..EfficiencyTargets[2] -> last
        [] efficiency \notin EfficiencyTargets[1]..EfficiencyTargets[2] ->
             IF reached /\ over = (closest >= last) THEN (closest + last) \div 2 ELSE moved

calculateChange(s, period) ==
  LET average == averageDagEfficiency(s.effs)
      upper == getNewUpperRange(s.changes, average)
  IN  [period |-> period, efficiency |-> average,
       upper |-> Min({Max({upper, kThresholdUpperMinValue}), UINT16_MAX})]

LastOf(seq, n) == IF Len(seq) <= n THEN seq ELSE SubSeq(seq, Len(seq) - n + 1, Len(seq))

\* Whether the next non-empty block counts towards the average.
Counts(s) == s.ignored >= ChangingInterval - ComputationInterval

\* One more non-empty block in the loop of the constructor.
Observe(s, block) ==
  IF Counts(s) THEN [s EXCEPT !.effs = Append(@, calculateDagEfficiency(block))]
               ELSE [s EXCEPT !.ignored = @ + 1]

\* Mutant: the counter of ignored blocks is not reset by a change.
CounterKept(s, block, period, nonEmpty) ==
  LET seen == Observe(s, block)
      changes == Append(s.changes, calculateChange(seen, period))
  IN  IF Counts(s) /\ nonEmpty % ChangingInterval = 0
      THEN [seen EXCEPT !.changes = LastOf(changes, ChangesCountForAverage), !.effs = <<>>]
      ELSE seen

\* The state after a block with an anchor is pushed; nonEmpty counts it.
pbftBlockPushed(s, block, period, nonEmpty) ==
  LET seen == Observe(s, block)
      changes == Append(s.changes, calculateChange(seen, period))
  IN  IF Counts(s) /\ nonEmpty % ChangingInterval = 0
      THEN [changes |-> LastOf(changes, ChangesCountForAverage), effs |-> <<>>, ignored |-> 0]
      ELSE seen

\* The constructor: the changes of the database, then the blocks after the last.
Restored(rows, chain) ==
  LET changes == LastOf(rows, ChangesCountForAverage)
      blocks == SelectSeq(SubSeq(chain, changes[Len(changes)].period + 1, Len(chain)),
                          LAMBDA b : b.anchor # NullAnchor)
      seen[i \in 0..Len(blocks)] ==
        IF i = 0 THEN [changes |-> changes, effs |-> <<>>, ignored |-> 0]
                 ELSE Observe(seen[i - 1], blocks[i])
  IN  seen[Len(blocks)]
=============================================================================
