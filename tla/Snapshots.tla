------------------------------ MODULE Snapshots ------------------------------
(***************************************************************************)
(* The two databases of a node on disk, db and state_db, their snapshots,   *)
(* and what the start of a node does with them: DbStorage loads the         *)
(* snapshots it finds, reverts to one when asked to, and FinalChain takes   *)
(* db back to the block of state_db.  Every change of the file system is a  *)
(* step of its own and the process may die between any two.                 *)
(***************************************************************************)
EXTENDS Naturals, FiniteSets, FiniteSetsExt

CONSTANTS
  kDbSnapshotsEachNblock, kDbSnapshotsMaxCount,
  MaxBlock,    \* bound: executed blocks
  MaxCrashes   \* bound: deaths of the process

VARIABLES
  disk,    \* the blocks of db and state_db, and the folders of the snapshots
  node     \* the process: where it is, snapshots_, the period to revert to

vars == <<disk, node>>

Blocks == 1..MaxBlock
Nothing == 0

Init ==
  /\ disk = [db |-> 0, state_db |-> 0, db_folders |-> {}, state_folders |-> {}]
  /\ node = [pc |-> "down", snapshots |-> {}, revert |-> Nothing, doomed |-> {}, crashes |-> 0]

Go(pc) == node' = [node EXCEPT !.pc = pc]

-----------------------------------------------------------------------------
(* The constructor of DbStorage.                                            *)

(* loadSnapshots: every folder with one of the two prefixes. *)
loadSnapshots == disk.db_folders \cup disk.state_folders

(* The operator asks for a revert with an option of the command line, which *)
(* stays until the node has come up.                                        *)
Start(revert) ==
  /\ node.pc = "down"
  /\ node.revert # Nothing => revert = node.revert
  /\ node' = [node EXCEPT
       !.pc = IF revert \in disk.db_folders THEN "revert" ELSE "recover",
       !.snapshots = loadSnapshots, !.revert = revert]
  /\ UNCHANGED disk

(* Mutant: state_db is only replaced, not removed before. *)
StateDbKept(pc) ==
  CASE pc = "revert" -> "removed"
    [] pc = "removed" -> "renamed"
    [] pc = "renamed" -> "newer"

(* The order of recoverToPeriod: both databases are removed, the snapshot   *)
(* of db is renamed, then the one of state_db.                              *)
RevertOrder(pc) ==
  CASE pc = "revert" -> "state_removed"
    [] pc = "state_removed" -> "removed"
    [] pc = "removed" -> "renamed"
    [] pc = "renamed" -> "newer"

recoverToPeriod ==
  LET p == node.revert
      then == RevertOrder(node.pc)
  IN  \/ /\ node.pc = "revert"
         /\ disk' = [disk EXCEPT !.db = 0]
         /\ Go(then)
      \/ /\ node.pc = "state_removed"
         /\ disk' = [disk EXCEPT !.state_db = 0]
         /\ Go(then)
      \/ /\ node.pc = "removed"
         /\ disk' = [disk EXCEPT !.db = p, !.db_folders = @ \ {p}]
         /\ Go(then)
      \/ /\ node.pc = "renamed"
         /\ IF p \in disk.state_folders
            THEN /\ disk' = [disk EXCEPT !.state_db = p, !.state_folders = @ \ {p}]
                 /\ node' = [node EXCEPT !.pc = then,
                                         !.doomed = {s \in node.snapshots : s > p}]
            ELSE Go("down") /\ UNCHANGED disk
      \/ /\ node.pc = "newer"
         /\ node.doomed = {}
         /\ Go("recover")
         /\ UNCHANGED disk

(* The constructor of FinalChain: the last block is the one of state_db. *)
Recover ==
  /\ node.pc = "recover"
  /\ disk' = [disk EXCEPT !.db = disk.state_db]
  /\ node' = [node EXCEPT !.pc = "running", !.revert = Nothing]

-----------------------------------------------------------------------------
(* finalize_: the batch of the block, then its state, then the snapshot.    *)
commitWriteBatch ==
  /\ node.pc = "running"
  /\ disk.db < MaxBlock
  /\ disk' = [disk EXCEPT !.db = @ + 1]
  /\ Go("executed")

transition_state_commit ==
  /\ node.pc = "executed"
  /\ disk' = [disk EXCEPT !.state_db = @ + 1]
  /\ Go("committed")

(* createSnapshot: the checkpoint of db; the snapshots above the limit go.  *)
createSnapshot ==
  LET period == disk.db
  IN  /\ node.pc = "committed"
      /\ IF period % kDbSnapshotsEachNblock # 0 \/ period \in node.snapshots
         THEN Go("running") /\ UNCHANGED disk
         ELSE LET all == node.snapshots \cup {period}
              IN  /\ disk' = [disk EXCEPT !.db_folders = @ \cup {period}]
                  /\ node' = [node EXCEPT
                       !.pc = "limit", !.snapshots = all,
                       !.doomed = {s \in all : Cardinality({t \in all : t > s})
                                                 >= kDbSnapshotsMaxCount}]

(* deleteSnapshot, for the oldest of the snapshots to delete: first the     *)
(* folder of db, then the one of state_db.                                  *)
deleteSnapshot ==
  /\ node.pc \in {"limit", "newer"}
  /\ node.doomed # {}
  /\ LET s == Min(node.doomed)
     IN  IF s \in disk.db_folders
         THEN disk' = [disk EXCEPT !.db_folders = @ \ {s}] /\ UNCHANGED node
         ELSE /\ disk' = [disk EXCEPT !.state_folders = @ \ {s}]
              /\ node' = [node EXCEPT !.doomed = @ \ {s}, !.snapshots = @ \ {s}]

(* state_api_.create_snapshot follows when createSnapshot returned true. *)
StateSnapshot ==
  /\ node.pc = "limit"
  /\ node.doomed = {}
  /\ disk' = [disk EXCEPT !.state_folders = @ \cup {disk.state_db}]
  /\ Go("running")

(* The process dies, or is stopped. *)
Crash ==
  /\ node.pc # "down"
  /\ node.crashes < MaxCrashes
  /\ node' = [node EXCEPT !.pc = "down", !.snapshots = {}, !.doomed = {}, !.crashes = @ + 1]
  /\ UNCHANGED disk

Next ==
  \/ \E revert \in Blocks \cup {Nothing} : Start(revert)
  \/ recoverToPeriod
  \/ Recover
  \/ commitWriteBatch
  \/ transition_state_commit
  \/ createSnapshot
  \/ deleteSnapshot
  \/ StateSnapshot
  \/ Crash

Spec == Init /\ [][Next]_vars

-----------------------------------------------------------------------------
(* When FinalChain compares the two databases state_db is never ahead, for  *)
(* it only counts blocks down (final_chain.cpp:66), and at most the block    *)
(* of an interrupted finalize_ behind.  The state is lost, and every block   *)
(* to be executed again, only by a revert that was interrupted or that met a *)
(* snapshot without its half of state_db.                                    *)
StateFollows ==
  node.pc = "recover" =>
    /\ disk.state_db <= disk.db
    /\ disk.db - disk.state_db <= 1 \/ (disk.state_db = 0 /\ node.revert # Nothing)

(* Each death of the process leaves at most one snapshot of db without its   *)
(* half of state_db, one to which a revert would lose the state.             *)
FewSnapshotsTorn ==
  node.pc \in {"down", "running"} => Cardinality(disk.db_folders \ disk.state_folders) <= node.crashes
==============================================================================
