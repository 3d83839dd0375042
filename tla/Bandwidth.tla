------------------------------ MODULE Bandwidth ------------------------------
(***************************************************************************)
(* Billing NET and CPU: transaction_context (init, finalize), the          *)
(* retirement of a failed deferred transaction, and the end of a block,    *)
(* over the tables of ResourceLimits.  A producer bills the time it        *)
(* measured and may lower limits by a greylist; every other node gets the  *)
(* billed time with the block (explicit_billed_cpu_time) and has to come   *)
(* to the same tables.                                                     *)
(*                                                                         *)
(* A transaction that throws leaves the tables as they were: it is no step *)
(* of the model.  That covers every subjective failure too: deadlines, and *)
(* the estimate of the CPU time checked by init.                           *)
(***************************************************************************)
EXTENDS ResourceLimits, FiniteSetsExt

CONSTANTS
    WindowSize,      \* account_cpu_usage_average_window, and the same for NET
    Periods,         \* periods of the averages of blocks
    MaxMultiplier,   \* config::maximum_elastic_resource_multiplier
    ContractRate,    \* the rates of update_elastic_limit, <<numerator, denominator>>
    ExpandRate,
    Word,            \* the unit NET is billed in: 8 bytes
    NetLeeway,       \* net_usage_leeway
    Configs,         \* the chain_configs the producers agree on
    Transactions,    \* the transactions; `sets' is empty or holds one account and its
                     \* new limits, which the transaction sets
    Deferred,        \* the deferred transactions whose actions fail
    InitialLimits,   \* the limits of the accounts at the start
    Greylists,       \* the greylist limits of a producer
    MaxBlock,        \* bound: blocks
    MaxSkipped       \* bound: slots without a block before one

VARIABLES
    db,            \* the tables of the resource limits manager
    config,        \* chain_config, in the global properties
    slot,          \* the slot of the pending block's timestamp
    block_num,     \* its number
    phase,         \* "idle" or "block"
    block_start    \* db and config when it was started: its undo session

vars == <<db, config, slot, block_num, phase, block_start>>

\* The parameters finalize_block makes of a chain_config
elastic_parameters(c, r) ==
    [target |-> c.target[r], max |-> c.max_block[r], periods |-> Periods,
     max_multiplier |-> MaxMultiplier,
     contract_rate |-> ContractRate, expand_rate |-> ExpandRate]

Positive(n) == IF n > 0 THEN n ELSE 0

\* initialize_database; the accounts were created and given limits since
initialize_database(c) ==
    [limits |-> InitialLimits, pending |-> [a \in {} |-> Unlimited],
     totals |-> [r \in Limited |->
                    MapThenSumSet(LAMBDA a : Positive(InitialLimits[a][r]), Accounts)],
     usage |-> [a \in Accounts |-> [r \in Bandwidths |-> NoUsage]],
     average |-> [r \in Bandwidths |-> NoUsage],
     virtual |-> [r \in Bandwidths |-> c.max_block[r]],
     used |-> [r \in Bandwidths |-> 0],
     params |-> [r \in Bandwidths |-> elastic_parameters(c, r)]]

NoSession == <<>>

Init ==
    /\ config \in Configs
    /\ db = initialize_database(config)
    /\ slot = 0 /\ block_num = 0
    /\ phase = "idle"
    /\ block_start = NoSession

----------------------------------------------------------------------------
(* The manager's tables *)

\* Billing an account in both resources
add_usage(d, a, net, cpu) ==
    {[d EXCEPT !.usage[a] = [r \in Bandwidths |-> IF r = "net" THEN n ELSE c]] :
        n \in add(d.usage[a]["net"], net, slot, WindowSize),
        c \in add(d.usage[a]["cpu"], cpu, slot, WindowSize)}

update_account_usage(d, a) == add_usage(d, a, 0, 0)

weight(d, a, r) == get_account_limits(d.limits, d.pending, a)[r]

\* get_block_net_limit, get_block_cpu_limit: an unsigned difference
get_block_limit(d, r) == (d.params[r].max - d.used[r]) % (MaxUint + 1)

\* The limit a greylisted account sees instead of the elastic one
greylisted_limit(d, r, greylist) ==
    IF greylist < MaxMultiplier /\ d.params[r].max * greylist < d.virtual[r]
    THEN d.params[r].max * greylist
    ELSE d.virtual[r]

\* max_bandwidth_billed_accounts_can_pay for the one account that is billed
can_pay(d, a, r, greylist) ==
    {IF l >= 0 THEN l ELSE max_int(MaxUint) \div 2 :
        l \in get_account_limit(d.usage[a][r].value_ex, greylisted_limit(d, r, greylist),
                                WindowSize, weight(d, a, r), d.totals[r])}

add_transaction_usage(d, a, cpu, net) ==
    {[u EXCEPT !.used = [r \in Bandwidths |-> @[r] + (IF r = "net" THEN net ELSE cpu)]] :
        u \in {v \in add_usage(d, a, net, cpu) :
                  /\ \A r \in Bandwidths :
                        used_within_share(v.usage[a][r].value_ex, v.virtual[r],
                                          WindowSize, weight(v, a, r), v.totals[r])
                  /\ v.used["cpu"] + cpu <= v.params["cpu"].max
                  /\ v.used["net"] + net <= v.params["net"].max}}

----------------------------------------------------------------------------
(* transaction_context *)

\* The least of the block's room, the chain's maximum and the header's limit
transaction_limit(d, r, header) ==
    Min({get_block_limit(d, r), config.max_transaction[r]}
            \cup IF header > 0 THEN {header} ELSE {})

round_up(net) == ((net + Word - 1) \div Word) * Word
round_down(net) == (net \div Word) * Word

\* init: what it leaves behind is the updated usage and the two limits.
\* `billed' is the explicit CPU time, or -1 when the time is to be measured.
init(d, t, greylist, billed) ==
    LET net_limit == transaction_limit(d, "net", t.max_net_words * Word)
        objective == transaction_limit(d, "cpu", t.max_cpu)
    IN  IF billed > objective
        THEN Throws
        ELSE UNION {{[db |-> u, net_limit |-> net_limit, objective |-> objective,
                      eager |-> round_down(Min({net_limit, n + NetLeeway}))] :
                        n \in can_pay(u, t.payer, "net", greylist)} :
                    u \in update_account_usage(d, t.payer)}

\* The actions: NET is billed up to the eager limit, and limits may be set
exec(x, t) ==
    CASE t.net > x.eager -> Throws
      [] t.net <= x.eager /\ t.sets = {} -> {x}
      [] OTHER -> {[x EXCEPT !.db.pending = set_account_limits(@, s[1], s[2])] : s \in t.sets}

\* The CPU time billed: what was measured, and not less than the minimum
billed_cpu_time(t, billed) ==
    IF billed >= 0 THEN billed ELSE Max({t.elapsed, config.min_cpu})

\* finalize, up to the call that should never fail
finalize(x, t, greylist, billed) ==
    LET net == round_up(t.net)
        cpu == billed_cpu_time(t, billed)
    IN  {[db |-> x.db, net |-> net, cpu |-> cpu] :
            p \in {q \in can_pay(x.db, t.payer, "net", greylist)
                         \X can_pay(x.db, t.payer, "cpu", greylist) :
                     /\ net <= Min({x.net_limit, q[1]})
                     /\ cpu >= config.min_cpu
                     /\ cpu > 0 => cpu <= Min({x.objective, q[2]})}}

\* init, exec and finalize
accepted(d, t, greylist, billed) ==
    UNION {finalize(y, t, greylist, billed) :
        y \in UNION {exec(x, t) : x \in init(d, t, greylist, billed)}}

billed_to(f, a) == add_transaction_usage(f.db, a, f.cpu, f.net)

\* Mistake: the room in the block is forgotten
limited_cpu_time_payer(d, t, x) ==
    {Min({billed_cpu_time(t, -1), p}) :
        p \in UNION {can_pay(u, t.payer, "cpu", MaxMultiplier) :
                        u \in update_account_usage(d, t.payer)}}

\* What a hard failure of a deferred transaction bills: no more than the payer
\* can pay, and than init found room for
limited_cpu_time(d, t, x) ==
    {Min({billed_cpu_time(t, -1), p, x.objective}) :
        p \in UNION {can_pay(u, t.payer, "cpu", MaxMultiplier) :
                        u \in update_account_usage(d, t.payer)}}

hard_failed(d, t, greylist) ==
    {[db |-> u, net |-> 0, cpu |-> c] :
        u \in update_account_usage(d, t.payer),
        c \in UNION {limited_cpu_time(d, t, x) : x \in init(d, t, greylist, -1)}}

----------------------------------------------------------------------------
(* The block *)

start_block(slots) ==
    /\ phase = "idle"
    /\ block_num < MaxBlock
    /\ phase' = "block"
    /\ slot' = slot + slots
    /\ block_num' = block_num + 1
    /\ block_start' = <<db, config, slot>>
    /\ UNCHANGED <<db, config>>

push_transaction(t, greylist) ==
    /\ phase = "block"
    /\ \E f \in accepted(db, t, greylist, -1) : db' \in billed_to(f, t.payer)
    /\ UNCHANGED <<config, slot, block_num, phase, block_start>>

\* A deferred transaction whose actions fail: only its CPU time is billed
push_scheduled_transaction(t, greylist) ==
    /\ phase = "block"
    /\ \E f \in hard_failed(db, t, greylist) : db' \in billed_to(f, t.payer)
    /\ UNCHANGED <<config, slot, block_num, phase, block_start>>

\* In a transaction of the system contract, which no limit holds for
set_blockchain_parameters(c) ==
    /\ phase = "block"
    /\ config' = c
    /\ UNCHANGED <<db, slot, block_num, phase, block_start>>

\* Mistake: the parameters are set after the usage of the block was processed
process_block_usage_before(d, r) ==
    {[average |-> a, virtual |-> v] :
        <<a, v>> \in UNION
            {{<<b, w>> : w \in update_elastic_limit(d.virtual[r], average(b.value_ex), db.params[r])} :
                b \in add(d.average[r], d.used[r], block_num, db.params[r].periods)}}

\* process_block_usage, for one resource: the average, then the virtual limit
process_block_usage(d, r) ==
    {[average |-> a, virtual |-> v] :
        <<a, v>> \in UNION
            {{<<b, w>> : w \in update_elastic_limit(d.virtual[r], average(b.value_ex), d.params[r])} :
                b \in add(d.average[r], d.used[r], block_num, d.params[r].periods)}}

\* finalize_block: the pending limits, the parameters, the usage of the block
finalize_block ==
    /\ phase = "block"
    /\ \E t \in process_account_limit_updates(db.limits, db.pending, db.totals) :
       LET d == [db EXCEPT !.limits = updated_limits(@, db.pending),
                           !.pending = [a \in {} |-> Unlimited],
                           !.totals = t,
                           !.params = [r \in Bandwidths |-> elastic_parameters(config, r)]]
       IN  \E net \in process_block_usage(d, "net"), cpu \in process_block_usage(d, "cpu") :
             LET new == [r \in Bandwidths |-> IF r = "net" THEN net ELSE cpu]
             IN  db' = [d EXCEPT !.average = [r \in Bandwidths |-> new[r].average],
                                 !.virtual = [r \in Bandwidths |-> new[r].virtual],
                                 !.used = [r \in Bandwidths |-> 0]]
    /\ phase' = "idle"
    /\ block_start' = NoSession
    /\ UNCHANGED <<config, slot, block_num>>

abort_block ==
    /\ phase = "block"
    /\ phase' = "idle"
    /\ db' = block_start[1] /\ config' = block_start[2] /\ slot' = block_start[3]
    /\ block_num' = block_num - 1
    /\ block_start' = NoSession

Next ==
    \/ \E slots \in 1..1 + MaxSkipped : start_block(slots)
    \/ \E t \in Transactions, g \in Greylists : push_transaction(t, g)
    \/ \E t \in Deferred, g \in Greylists : push_scheduled_transaction(t, g)
    \/ \E c \in Configs : set_blockchain_parameters(c)
    \/ finalize_block
    \/ abort_block

Spec == Init /\ [][Next]_vars

----------------------------------------------------------------------------
\* Type invariant
TypeOK ==
    /\ \A a \in Accounts, r \in Bandwidths :
            /\ db.usage[a][r].value_ex \in 0..MaxUint
            /\ db.usage[a][r].last_ordinal \in 0..slot
    /\ \A r \in Bandwidths : db.average[r].last_ordinal \in 0..block_num
    /\ config \in Configs
    /\ phase \in {"idle", "block"}

\* The room left in a block is never negative (an unsigned difference would make
\* it huge), and the virtual limits stay between the block's limit and its
\* multiple, although transactions change the parameters in the middle of blocks
\* that are later finalized or aborted.
RoomInBlock ==
    \A r \in Bandwidths :
        /\ db.used[r] <= db.params[r].max
        /\ db.virtual[r] \in db.params[r].max..db.params[r].max * MaxMultiplier
        /\ phase = "idle" => db.used[r] = 0

\* "Should never fail" (transaction_context::finalize): what the limits let
\* through, add_transaction_usage accepts, also when limits were lowered since the
\* payer was last billed, by the elastic limit, by a contract, or by the
\* transaction itself.
ShouldNeverFail ==
    phase = "block" =>
        \A t \in Transactions, g \in Greylists :
            \A f \in accepted(db, t, g, -1) : billed_to(f, t.payer) # {}

\* "Should never fail" (push_scheduled_transaction): a deferred transaction whose
\* actions failed is retired, because it is billed no more than its payer can pay.
\* The code does not keep this (README, section 5).
FailureIsBilled ==
    phase = "block" =>
        \A t \in Deferred, g \in Greylists :
            \A f \in hard_failed(db, t, g) : billed_to(f, t.payer) # {}

\* What a producer put into a block with the CPU time it measured, under its
\* greylist, every other node accepts with the time it is told, and ends with the
\* same tables.
ValidatorAgrees ==
    phase = "block" =>
        \A g \in Greylists :
            /\ \A t \in Transactions : \A f \in accepted(db, t, g, -1) :
                    UNION {billed_to(v, t.payer) : v \in accepted(db, t, MaxMultiplier, f.cpu)}
                        = billed_to(f, t.payer)
            /\ \A t \in Deferred : \A f \in hard_failed(db, t, g) :
                    /\ init(db, t, MaxMultiplier, f.cpu) # {}
                    /\ add_transaction_usage(db, t.payer, f.cpu, 0) = billed_to(f, t.payer)
=============================================================================
