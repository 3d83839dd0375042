----------------------------- MODULE MCConsensus -----------------------------
(***************************************************************************)
(* Schedules and confirmations for TLC.  A behaviour is one of four        *)
(* producers on any number of branches (Dpos), or of one branch under      *)
(* schedules that change (ProducerSchedules): without or with standby      *)
(* schedules, or from four producers to three of which one is offline.     *)
(* The other variables keep their initial values.                          *)
(***************************************************************************)
EXTENDS Dpos

CONSTANTS alpha, beta, gamma, delta

Three == <<alpha, beta, gamma>>
Four  == <<alpha, beta, gamma, delta>>

VARIABLES world, branch, gpo, building, watermarks, confirmers, calls, restarts

schedules == <<branch, gpo, building, watermarks, confirmers, calls, restarts>>

MCProducers == {Genesis, alpha, beta, gamma}

MCProposals == {<<alpha, beta>>, <<beta, Genesis, gamma>>}

\* A producer may restart, and slots are skipped
OneBranch == INSTANCE ProducerSchedules WITH
    head <- branch, watermark <- watermarks, maximum_tracked_dpos_confirmations <- 3,
    Producers <- MCProducers, Online <- MCProducers, Proposals <- MCProposals, Standby <- {},
    standby_delay <- 3, MaxGap <- 1, MaxBlocks <- 12, MaxCalls <- 2, MaxRestarts <- 1,
    NoBlock <- [phase |-> "no block"]

\* A standby schedule is set, and enabled instead of a proposal or after it
WithStandby == INSTANCE ProducerSchedules WITH
    head <- branch, watermark <- watermarks, maximum_tracked_dpos_confirmations <- 3,
    Producers <- MCProducers, Online <- MCProducers, Proposals <- MCProposals,
    Standby <- {<<gamma, alpha>>},
    standby_delay <- 5, MaxGap <- 0, MaxBlocks <- 16, MaxCalls <- 4, MaxRestarts <- 0,
    NoBlock <- [phase |-> "no block"]

\* Four producers, one of them offline, and then three with that one among them
Shrinking == INSTANCE ProducerSchedules WITH
    head <- branch, watermark <- watermarks, maximum_tracked_dpos_confirmations <- 6,
    Producers <- MCProducers \cup {delta}, Online <- MCProducers,
    Proposals <- {Four, <<alpha, beta, delta>>}, Standby <- {},
    standby_delay <- 3, MaxGap <- 0, MaxBlocks <- 20, MaxCalls <- 2, MaxRestarts <- 0,
    NoBlock <- [phase |-> "no block"]

MCInit == Init /\ OneBranch!Init /\ world \in {"dpos", "plain", "standby", "shrinking"}

MCNext ==
    /\ \/ world = "dpos" /\ Next /\ UNCHANGED schedules
       \/ world = "plain" /\ OneBranch!Next /\ UNCHANGED vars
       \/ world = "standby" /\ WithStandby!Next /\ UNCHANGED vars
       \/ world = "shrinking" /\ Shrinking!Next /\ UNCHANGED vars
    /\ UNCHANGED world

MCSpec == MCInit /\ [][MCNext]_<<world, vars, schedules>>

\* A node can always build the next block, and the block becomes the head: the
\* asserts of start_block, next, _finish_next and commit_block hold of the headers
\* the node makes, whatever schedules were proposed, enabled or left, and whether or
\* not the producer lost its watermark.  The one exception is the block after a schedule
\* shrank across a multiple of three, here from four to three with one that lags: it
\* may lower the irreversible number.  And what is left of a block's confirm_count is
\* what different producers still have to confirm.
BlocksCanBeBuilt ==
    /\ world = "plain" =>
           /\ OneBranch!BlocksCanBeBuilt /\ OneBranch!CommitBecomesHead
           /\ OneBranch!NeverRefused /\ OneBranch!ConfirmsCounted
    /\ world = "standby" => WithStandby!BlocksCanBeBuilt /\ WithStandby!CommitBecomesHead
    /\ world = "shrinking" =>
           /\ Shrinking!BlocksCanBeBuilt /\ Shrinking!CommitBecomesHead
           /\ Shrinking!NeverRefused /\ Shrinking!ConfirmsCounted

\* A version names one schedule: whatever mixture of proposals and standby schedules,
\* the active schedule changes only together with its version, which never goes back.
VersionsName == WithStandby!VersionsName

\* A proposal made in an earlier block can become pending: a switch to standby whose
\* block has passed is not waiting for a version that no schedule carries any more.
ProposalCanMove == world = "standby" => WithStandby!ProposalCanMove
=============================================================================
