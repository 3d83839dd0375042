--------------------------- MODULE ResourceLimits ---------------------------
(***************************************************************************)
(* resource_limits_manager (libraries/chain/resource_limits.cpp): the RAM, *)
(* NET and CPU limits of the accounts, the moving averages of what was     *)
(* used, and the elastic limits of a block.  Every operation is an         *)
(* operator on the manager's tables; the modules RamBilling, UsageWindow   *)
(* and Bandwidth are the state machines that call them.                    *)
(*                                                                         *)
(* An operation that can throw has the set of its results as its value:    *)
(* one result, or none when an EOS_ASSERT fails.  What the callers do with *)
(* the throw (undo the transaction, abort the block) is theirs to model.   *)
(* An account name is a number, as it is in the code, and the tables are   *)
(* ordered by it.                                                          *)
(***************************************************************************)
EXTENDS Integers, FiniteSets, Sequences, SequencesExt

CONSTANTS
    Accounts,      \* the accounts (account_name is a uint64)
    MaxUint,       \* UINT64_MAX
    Precision      \* config::rate_limiting_precision

ASSUME AccountsAssumption == Accounts \subseteq Nat /\ IsFiniteSet(Accounts)
ASSUME NumbersAssumption == MaxUint \in Nat \ {0} /\ Precision \in Nat \ {0}

\* INT64_MAX, of UINT64_MAX
max_int(max_uint) == max_uint \div 2

\* The two resources that are rate limited, and all three that have a limit
Bandwidths == {"net", "cpu"}
Limited == Bandwidths \cup {"ram"}

Throws == {}

\* ceil(num / den)
integer_divide_ceil(num, den) == (num \div den) + (IF num % den > 0 THEN 1 ELSE 0)

----------------------------------------------------------------------------
(* Account limits: a row per account, and at most one pending row *)

Unlimited == [r \in Limited |-> -1]

\* The limits an operation sees: the pending row when there is one
get_account_limits(limits, pending, a) ==
    IF a \in DOMAIN pending THEN pending[a] ELSE limits[a]

\* Writes the pending row, which starts as a copy of the row in force
set_account_limits(pending, a, new) ==
    [b \in DOMAIN pending \cup {a} |-> IF b = a THEN new ELSE pending[b]]

\* Mistake: compares with the row in force only
decreased_limit_in_force(limits, pending, a, new) ==
    new["ram"] >= 0 /\ (limits[a]["ram"] < 0 \/ new["ram"] < limits[a]["ram"])

\* Its result: the RAM limit is more restrictive than the one set before
decreased_limit(limits, pending, a, new) ==
    LET old == get_account_limits(limits, pending, a)
    IN  new["ram"] >= 0 /\ (old["ram"] < 0 \/ new["ram"] < old["ram"])

\* Mistake: the old value is reverted only when there is a new one
update_state_and_value_kept(total, value, pending_value) ==
    LET reverted == IF value > 0 /\ pending_value > 0 THEN total - value ELSE total
        applied  == IF pending_value > 0 THEN reverted + pending_value ELSE reverted
    IN  IF reverted < 0 \/ applied > MaxUint THEN Throws ELSE {applied}

\* The total of one resource when an account's value becomes its pending one
update_state_and_value(total, value, pending_value) ==
    LET reverted == IF value > 0 THEN total - value ELSE total
        applied  == IF pending_value > 0 THEN reverted + pending_value ELSE reverted
    IN  IF reverted < 0 \/ applied > MaxUint THEN Throws ELSE {applied}

\* The accounts with a pending row, in the order of the index
PendingOrder(pending) == SetToSortSeq(DOMAIN pending, <)

\* The totals after every pending row was applied, one account at a time
process_account_limit_updates(limits, pending, totals) ==
    LET Apply(results, a) ==
            UNION {LET of(r) == update_state_and_value(t[r], limits[a][r], pending[a][r])
                   IN  {u \in [Limited -> UNION {of(r) : r \in Limited}] :
                            \A r \in Limited : u[r] \in of(r)} : t \in results}
    IN  FoldLeft(Apply, {totals}, PendingOrder(pending))

\* The rows in force after them; no pending row is left
updated_limits(limits, pending) ==
    [a \in DOMAIN limits |-> get_account_limits(limits, pending, a)]

----------------------------------------------------------------------------
(* RAM *)

add_pending_ram_usage(used, ram_delta) ==
    IF used + ram_delta \in 0..MaxUint THEN {used + ram_delta} ELSE Throws

verify_account_ram_usage(used, ram_bytes) == ram_bytes >= 0 => used <= ram_bytes

----------------------------------------------------------------------------
(* The exponential moving average of what was used *)

NoUsage == [last_ordinal |-> 0, value_ex |-> 0, consumed |-> 0]

average(value_ex) == integer_divide_ceil(value_ex, Precision)

\* value * numerator / denominator, which throws instead of overflowing
times_ratio(value, numerator, denominator) ==
    IF numerator # 0 /\ MaxUint \div numerator < value
    THEN Throws
    ELSE {(value * numerator) \div denominator}

\* Mistake: the average does not decay, it starts again
decayed_at_once(acc, ordinal, window_size) == {0}

\* The average when `ordinal' begins, if no period between contributed to it
decayed(acc, ordinal, window_size) ==
    IF acc.last_ordinal + window_size > ordinal
    THEN times_ratio(acc.value_ex, window_size - (ordinal - acc.last_ordinal), window_size)
    ELSE {0}

\* Starts the period `ordinal', unless the average is of it already
rolled(acc, ordinal, window_size) ==
    CASE acc.last_ordinal = ordinal -> {acc}
      [] acc.last_ordinal > ordinal -> Throws
      [] acc.last_ordinal < ordinal ->
            {[last_ordinal |-> ordinal, value_ex |-> v, consumed |-> average(v)] :
                v \in decayed(acc, ordinal, window_size)}

add(acc, units, ordinal, window_size) ==
    LET contrib == integer_divide_ceil(units * Precision, window_size)
    IN  IF \/ units > MaxUint \div Precision
           \/ MaxUint - acc.consumed < units
           \/ contrib > MaxUint
           \/ MaxUint - acc.value_ex < contrib
        THEN Throws
        ELSE {[r EXCEPT !.consumed = (@ + units) % (MaxUint + 1),
                        !.value_ex = (@ + contrib) % (MaxUint + 1)] :
                 r \in rolled(acc, ordinal, window_size)}

----------------------------------------------------------------------------
(* What an account may use in a window *)

\* The account's share of the capacity of a whole window
max_user_use_in_window(limit, window_size, weight, total) ==
    (limit * window_size * weight) \div total

\* add_transaction_usage's comparison, after the usage was added
used_within_share(value_ex, limit, window_size, weight, total) ==
    weight >= 0 /\ total > 0 =>
        (value_ex * window_size) \div Precision
            <= max_user_use_in_window(limit, window_size, weight, total)

\* What get_account_cpu_limit and get_account_net_limit say is available: -1
\* means no limit
get_account_limit(value_ex, limit, window_size, weight, total) ==
    LET most == max_user_use_in_window(limit, window_size, weight, total)
        used == integer_divide_ceil(value_ex * window_size, Precision)
    IN  CASE weight < 0 \/ total = 0 -> {-1}
          [] ~(weight < 0 \/ total = 0) /\ (most > max_int(MaxUint) \/ used > max_int(MaxUint)) -> Throws
          [] OTHER -> {IF most <= used THEN 0 ELSE most - used}

----------------------------------------------------------------------------
(* The elastic limit of a block *)

\* p: an elastic_limit_parameters, the rates as <<numerator, denominator>>
update_elastic_limit(current_limit, average_usage, p) ==
    LET rate == IF average_usage > p.target THEN p.contract_rate ELSE p.expand_rate
        larger(m, n) == IF m > n THEN m ELSE n
        smaller(m, n) == IF m < n THEN m ELSE n
    IN  {smaller(larger(result, p.max), p.max * p.max_multiplier) :
            result \in times_ratio(current_limit, rate[1], rate[2])}
=============================================================================
