---------------------------- MODULE MCController ----------------------------
(***************************************************************************)
(* A network of a few blocks around one node, for TLC.  A behaviour is one *)
(* of a node that gets blocks, stops and starts ("blocks"), of a node      *)
(* whose writes to the block log may fail ("writes fail"), or of a node    *)
(* that takes snapshots ("snapshots").                                     *)
(***************************************************************************)
EXTENDS Snapshots, TLC

VARIABLE world

Blocks == INSTANCE Controller WITH MaxBlocks <- 5, MaxStops <- 1, WritesFail <- FALSE
Writes == INSTANCE Controller WITH MaxBlocks <- 4, MaxStops <- 1, WritesFail <- TRUE

Symmetry == Permutations(Requests)

MCInit ==
    \/ world = "snapshots" /\ SnapshotInit
    \/ /\ world \in {"blocks", "writes fail"} /\ Init
       /\ pending_snapshots = {} /\ final = {}
       /\ answer = [r \in Requests |-> Result(genesis, "none")]

MCNext ==
    /\ \/ world = "blocks" /\ Blocks!Next /\ UNCHANGED snapshot_vars
       \/ world = "writes fail" /\ Writes!Next /\ UNCHANGED snapshot_vars
       \/ world = "snapshots" /\ SnapshotNext
    /\ UNCHANGED world

MCSpec == MCInit /\ [][MCNext]_<<world, vars, snapshot_vars>>

\* The state of the node is the one of the best branch: the blocks that were applied
\* are the branch of the head, also after a fork switch, a switch that failed half way,
\* a restart or a replay, and no block in the fork database is preferred to the head
\* but for ancestors of it that a lower irreversible number followed.
StateIsBest == StateIsHead /\ (world = "blocks" => NothingBetter)

\* The reversible blocks are the ones between the block log and the head.  A node that
\* stopped, or crashed, can always be replayed from them, and after a stop gets back to
\* its head; it starts again from its fork_db.dat too when that has the head of the node
\* and irreversible numbers that rise along every branch.  Where they rise, a switch of
\* forks that fails finds the old branch to return to.  What is said of the head excepts
\* a node whose commit_block moved it to a block that is not applied.
StartsAgainFromBlocks ==
    world = "blocks" => /\ ReversibleIsBranch
                        /\ Blocks!StartsAgain
                        /\ OldBranchExists

\* Of a snapshot every caller is answered once, with "forked out" only when the block is
\* not irreversible; and when blocks become irreversible, no snapshot as high as one of
\* them stays pending.
SnapshotsAnswered == [](EveryCallIsAnswered /\ ForkedOutIsForkedOut) /\ PromotedAtOnce
=============================================================================
