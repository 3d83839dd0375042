----------------------------- MODULE MCResources -----------------------------
(***************************************************************************)
(* The resource limits for TLC.  A behaviour is one of RAM billing with    *)
(* new accounts ("ram") or of limits that three accounts set ("totals"),   *)
(* of NET and CPU billing in whole blocks ("bandwidth"), of one account's  *)
(* usage over two windows ("window"), or of the elastic limit of a         *)
(* resource ("elastic").                                                   *)
(***************************************************************************)
EXTENDS RamBilling

VARIABLES world,
          tables, config, block_slot, block_num, stage, block_undo,
          usage, slot, billed,
          average_block_usage, virtual_limit

bandwidth_vars == <<tables, config, block_slot, block_num, stage, block_undo>>
window_vars == <<usage, slot, billed>>
elastic_vars == <<average_block_usage, virtual_limit>>

\* Limits of every kind: none, equal ones, and different ones per resource
MCLimits ==
    {Unlimited,
     [r \in Limited |-> 1],
     [r \in Limited |-> IF r = "ram" THEN 0 ELSE max_int(MaxUint)]}

\* A free and a store
MCDeltas == {-1, 1}

\* Three accounts with the largest limit are more than a total can hold
Totals == INSTANCE RamBilling WITH
    Accounts <- 1..3, Genesis <- 1..3, Deltas <- {}, MaxSets <- 3, MaxUint <- 7,
    Limits <- {Unlimited} \cup {[r \in Limited |-> IF r = "ram" THEN -1 ELSE l] : l \in {1, 3}}

PerResource(net, cpu) == [r \in Bandwidths |-> IF r = "net" THEN net ELSE cpu]

\* Two configurations that satisfy chain_config::validate
MCConfigs ==
    {[max_block |-> PerResource(5, 5), target |-> PerResource(2, 1),
      max_transaction |-> PerResource(4, 2), min_cpu |-> 2],
     [max_block |-> PerResource(4, 7), target |-> PerResource(1, 3),
      max_transaction |-> PerResource(3, 3), min_cpu |-> 3]}

\* Weights that a contract sets: a larger and a smaller share than the other account
MCWeights ==
    {[r \in Limited |-> IF r = "ram" THEN -1 ELSE 2],
     [r \in Limited |-> IF r = "cpu" THEN 1 ELSE 0]}

MCTrx(payer, net, elapsed, max_net_words, max_cpu, limits) ==
    [payer |-> payer, net |-> net, elapsed |-> elapsed,
     max_net_words |-> max_net_words, max_cpu |-> max_cpu, sets |-> limits]

\* Account 1 sends one with limits in the header, and one that sets its own limits to less;
\* account 2, which has no limits, sets those of account 1; account 3 only has weights
MCTransactions ==
    {MCTrx(1, 3, 3, 2, 3, {}),
     MCTrx(1, 1, 0, 0, 0, {<<1, [r \in Limited |-> IF r = "cpu" THEN 1 ELSE 0]>>})}
    \cup {MCTrx(2, 1, 0, 0, 0, {<<1, w>>}) : w \in MCWeights}

Blocks == INSTANCE Bandwidth WITH
    db <- tables, slot <- block_slot, phase <- stage, block_start <- block_undo,
    Accounts <- 1..3, MaxUint <- 65535, Precision <- 4, WindowSize <- 3, Periods <- 2,
    MaxMultiplier <- 3, ContractRate <- <<1, 2>>, ExpandRate <- <<3, 2>>, Word <- 2,
    NetLeeway <- 2, Configs <- MCConfigs, Transactions <- MCTransactions,
    Deferred <- {MCTrx(1, 0, 3, 0, 0, {})}, Greylists <- {1, 3}, MaxBlock <- 2, MaxSkipped <- 1,
    InitialLimits <- [a \in 1..3 |-> [r \in Limited |-> IF r = "ram" \/ a = 2 THEN -1 ELSE 1]]

Window == INSTANCE UsageWindow WITH
    Accounts <- {1}, MaxUint <- 65535, Precision <- 9, WindowSize <- 5, Capacity <- 3,
    Weight <- 1, Total <- 2, MaxSlot <- 11

\* The code's rates are 99/100 and 1000/999
Elastic == INSTANCE ElasticLimit WITH
    Accounts <- {1}, MaxUint <- 65535, Precision <- 10, BlockMax <- 5, Target <- 2,
    Periods <- 4, MaxMultiplier <- 5, ContractRate <- <<3, 4>>, ExpandRate <- <<6, 5>>

-----------------------------------------------------------------------------

MCInit ==
    /\ world \in {"ram", "totals", "bandwidth", "window", "elastic"}
    /\ \/ world # "totals" /\ Init
       \/ world = "totals" /\ Totals!Init
    /\ Blocks!Init /\ Window!Init /\ Elastic!Init
    /\ world # "bandwidth" => config = CHOOSE c \in MCConfigs : TRUE

MCNext ==
    /\ \/ /\ world = "ram" /\ Next
          /\ UNCHANGED <<bandwidth_vars, window_vars, elastic_vars>>
       \/ /\ world = "totals" /\ Totals!Next
          /\ UNCHANGED <<bandwidth_vars, window_vars, elastic_vars>>
       \/ /\ world = "bandwidth" /\ Blocks!Next
          /\ UNCHANGED <<vars, window_vars, elastic_vars>>
       \/ /\ world = "window" /\ Window!Next
          /\ UNCHANGED <<vars, bandwidth_vars, elastic_vars>>
       \/ /\ world = "elastic" /\ Elastic!Next
          /\ UNCHANGED <<vars, bandwidth_vars, window_vars>>
    /\ UNCHANGED world

all == <<world, vars, bandwidth_vars, window_vars, elastic_vars>>

\* The chain goes on, as in ElasticLimit
MCSpec ==
    /\ MCInit /\ [][MCNext]_all
    /\ WF_all(/\ world = "elastic" /\ Elastic!Next
              /\ UNCHANGED <<world, vars, bandwidth_vars, window_vars>>)

\* The room left in a block is never negative and no transaction that the limits let
\* through fails in add_transaction_usage ("Should never fail"), although limits and
\* parameters change in the middle of blocks that are later finalized or aborted.
ShouldNeverFail ==
    /\ world = "bandwidth" => Blocks!RoomInBlock /\ Blocks!ShouldNeverFail
    /\ world = "window" => Window!ShouldNeverFail

\* What a producer put into a block under its greylist, every other node accepts, and
\* ends with the same tables.
ValidatorAgrees == world = "bandwidth" => Blocks!ValidatorAgrees

\* An account never gets more than twice its share out of a window: all of it at once,
\* and what the average forgets of it while the window lasts.
TwiceItsShare == world = "window" => Window!TwiceItsShare

\* The limit of a congested resource never rises and comes down to its floor, the one of
\* an idle resource never falls and reaches its cap, whatever the rounding, when the
\* floor is large enough for one step to be felt (section 5 of the README).
FollowsLoad ==
    /\ Elastic!MovesByAverage
    /\ world = "elastic" => Elastic!Expands /\ Elastic!Contracts
=============================================================================
