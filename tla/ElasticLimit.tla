----------------------------- MODULE ElasticLimit -----------------------------
(***************************************************************************)
(* The elastic limit of one resource over an endless chain of blocks:      *)
(* process_block_usage adds each block's usage to the moving average and   *)
(* then lets the virtual limit contract or expand.  A block follows a      *)
(* block, so the average is always of the block before: its ordinals are   *)
(* kept relative to it, and the state is finite.                           *)
(***************************************************************************)
EXTENDS ResourceLimits

CONSTANTS
    BlockMax,                  \* max_block_cpu_usage
    Target,                    \* the target usage of a block
    Periods, MaxMultiplier,    \* the other parameters of set_block_parameters
    ContractRate, ExpandRate

VARIABLES
    average_block_usage,   \* the usage_accumulator of the blocks
    virtual_limit          \* virtual_cpu_limit

vars == <<average_block_usage, virtual_limit>>

params ==
    [target |-> Target, max |-> BlockMax, periods |-> Periods, max_multiplier |-> MaxMultiplier,
     contract_rate |-> ContractRate, expand_rate |-> ExpandRate]

\* initialize_database: slow-start
Init ==
    /\ average_block_usage = NoUsage
    /\ virtual_limit = BlockMax

Average == average(average_block_usage.value_ex)

\* Mistake: the limit is updated by the average before the block
process_block_usage_late(used) ==
    \E a \in add(average_block_usage, used, 1, Periods) :
        /\ average_block_usage' = [a EXCEPT !.last_ordinal = 0]
        /\ virtual_limit' \in update_elastic_limit(virtual_limit, Average, params)

process_block_usage(used) ==
    \E a \in add(average_block_usage, used, 1, Periods) :
        /\ average_block_usage' = [a EXCEPT !.last_ordinal = 0]
        /\ virtual_limit' \in update_elastic_limit(virtual_limit, average(a.value_ex), params)

Next == \E used \in 0..BlockMax : process_block_usage(used)

\* The chain goes on
Spec == Init /\ [][Next]_vars /\ WF_vars(Next)

----------------------------------------------------------------------------
\* Type invariant, and the bounds of the virtual limit
TypeOK ==
    /\ average_block_usage.value_ex \in 0..BlockMax * Precision + Periods
    /\ virtual_limit \in BlockMax..BlockMax * MaxMultiplier

\* Congestion is noticed: as long as the average is over the target, the limit
\* never rises, and otherwise it never falls, whatever the rounding.
MovesByAverage ==
    [][IF Average' > Target THEN virtual_limit' <= virtual_limit
                            ELSE virtual_limit' >= virtual_limit]_vars

\* "Increases when average_block_size < target_block_size, [...] with a cap at
\* 1000x max_block_size": on a chain that is not congested any more the limit
\* reaches its cap.
Expands == <>[](Average <= Target) => <>[](virtual_limit = BlockMax * MaxMultiplier)

\* And on one that stays congested it comes down to its floor.
Contracts == <>[](Average > Target) => <>[](virtual_limit = BlockMax)
=============================================================================
