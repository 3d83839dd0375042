----------------------------- MODULE RamBilling -----------------------------
(***************************************************************************)
(* RAM limits across transactions and blocks.  While a block is built, the *)
(* contracts of its transactions store and free data (add_ram_usage),      *)
(* create accounts, and - the privileged ones - set limits, which become   *)
(* pending rows; the RAM of the accounts that were touched is verified     *)
(* once, when the transaction is finalized; the pending rows are applied   *)
(* when the block is.  A transaction that throws is undone, and so is a    *)
(* block that is aborted or whose finalization throws.                     *)
(***************************************************************************)
EXTENDS ResourceLimits

CONSTANTS
    Genesis,     \* the accounts that exist from the start
    Limits,      \* the limits contracts set: values of [Limited -> Int]
    Deltas,      \* the changes of RAM usage
    MaxSets      \* bound: calls of set_resource_limits in a block

ASSUME GenesisAssumption == Genesis \subseteq Accounts
ASSUME LimitsAssumption == Limits \subseteq [Limited -> -1..max_int(MaxUint)]
ASSUME DeltasAssumption == Deltas \subseteq Int

VARIABLES
    db,                  \* the tables: limits, pending, totals, ram
    phase,               \* "idle", "block" or "transaction"
    validate_ram_usage,  \* the accounts the transaction has to verify
    block_start,         \* db when the block was started: its undo session
    trx_start,           \* db when the transaction was: its undo session
    sets                 \* bound: the limits set in this block

vars == <<db, phase, validate_ram_usage, block_start, trx_start, sets>>

NoRows == [a \in {} |-> Unlimited]

\* create_native_account: no limits, and some RAM used already
Genesis_db ==
    [limits |-> [a \in Genesis |-> Unlimited], pending |-> NoRows,
     totals |-> [r \in Limited |-> 0], ram |-> [a \in Genesis |-> 0]]

\* No undo session
NoSession == [Genesis_db EXCEPT !.limits = NoRows, !.ram = [a \in {} |-> 0]]

Init ==
    /\ db = Genesis_db
    /\ phase = "idle"
    /\ validate_ram_usage = {}
    /\ block_start = NoSession /\ trx_start = NoSession
    /\ sets = 0

Known == DOMAIN db.limits

(* The writes to the tables *)
WithUsage(d, a, used) == [d EXCEPT !.ram = [@ EXCEPT ![a] = used]]

WithPending(d, a, new) == [d EXCEPT !.pending = set_account_limits(@, a, new)]

\* initialize_account, and the RAM usage the new account starts with
WithAccount(d, a, used) ==
    LET rows == DOMAIN d.limits \cup {a}
    IN  [limits |-> [b \in rows |-> IF b = a THEN Unlimited ELSE d.limits[b]],
         pending |-> d.pending,
         totals |-> d.totals,
         ram |-> [b \in rows |-> IF b = a THEN used ELSE d.ram[b]]]

\* Every pending row becomes the row in force
WithUpdates(d, totals) ==
    [limits |-> updated_limits(d.limits, d.pending), pending |-> NoRows,
     totals |-> totals, ram |-> d.ram]

start_block ==
    /\ phase = "idle"
    /\ phase' = "block"
    /\ block_start' = db
    /\ UNCHANGED <<db, validate_ram_usage, trx_start, sets>>

\* push_scheduled_transaction gives back the RAM of the transaction it retires
remove_scheduled_transaction(payer, ram_delta) ==
    /\ phase = "block"
    /\ ram_delta < 0
    /\ \E used \in add_pending_ram_usage(db.ram[payer], ram_delta) :
            db' = WithUsage(db, payer, used)
    /\ UNCHANGED <<phase, validate_ram_usage, block_start, trx_start, sets>>

\* The constructor of transaction_context
start_transaction ==
    /\ phase = "block"
    /\ phase' = "transaction"
    /\ trx_start' = db
    /\ validate_ram_usage' = {}
    /\ UNCHANGED <<db, block_start, sets>>

add_ram_usage(account, ram_delta) ==
    /\ phase = "transaction"
    /\ ram_delta # 0
    /\ \E used \in add_pending_ram_usage(db.ram[account], ram_delta) :
            db' = WithUsage(db, account, used)
    /\ validate_ram_usage' =
            IF ram_delta > 0 THEN validate_ram_usage \cup {account} ELSE validate_ram_usage
    /\ UNCHANGED <<phase, block_start, trx_start, sets>>

\* newaccount: initialize_account, then the RAM of the account itself
apply_eosio_newaccount(account, ram_delta) ==
    /\ phase = "transaction"
    /\ ram_delta > 0
    /\ \E used \in add_pending_ram_usage(0, ram_delta) :
            db' = WithAccount(db, account, used)
    /\ validate_ram_usage' = validate_ram_usage \cup {account}
    /\ UNCHANGED <<phase, block_start, trx_start, sets>>

set_resource_limits(account, new) ==
    /\ phase = "transaction"
    /\ sets < MaxSets
    /\ sets' = sets + 1
    /\ db' = WithPending(db, account, new)
    /\ validate_ram_usage' =
            IF decreased_limit(db.limits, db.pending, account, new)
            THEN validate_ram_usage \cup {account}
            ELSE validate_ram_usage
    /\ UNCHANGED <<phase, block_start, trx_start>>

RamLimit(d, a) == get_account_limits(d.limits, d.pending, a)["ram"]

\* transaction_context::finalize, then squash
finalize_transaction ==
    /\ phase = "transaction"
    /\ \A a \in validate_ram_usage :
            verify_account_ram_usage(db.ram[a], RamLimit(db, a))
    /\ phase' = "block"
    /\ validate_ram_usage' = {}
    /\ trx_start' = NoSession
    /\ UNCHANGED <<db, block_start, sets>>

\* Anything in it threw
undo_transaction ==
    /\ phase = "transaction"
    /\ phase' = "block"
    /\ db' = trx_start
    /\ validate_ram_usage' = {}
    /\ trx_start' = NoSession
    /\ UNCHANGED <<block_start, sets>>

finalize_block ==
    /\ phase = "block"
    /\ \E t \in process_account_limit_updates(db.limits, db.pending, db.totals) :
            db' = WithUpdates(db, t)
    /\ phase' = "idle"
    /\ block_start' = NoSession
    /\ sets' = 0
    /\ UNCHANGED <<validate_ram_usage, trx_start>>

\* abort_block, and a finalize_block that throws
abort_block ==
    /\ phase = "block"
    /\ phase' = "idle"
    /\ db' = block_start
    /\ block_start' = NoSession
    /\ sets' = 0
    /\ UNCHANGED <<validate_ram_usage, trx_start>>

Next ==
    \/ start_block
    \/ \E a \in Known, d \in Deltas : remove_scheduled_transaction(a, d)
    \/ start_transaction
    \/ \E a \in Known, d \in Deltas : add_ram_usage(a, d)
    \/ \E a \in Accounts \ Known, d \in Deltas : apply_eosio_newaccount(a, d)
    \/ \E a \in Known, l \in Limits : set_resource_limits(a, l)
    \/ finalize_transaction
    \/ undo_transaction
    \/ finalize_block
    \/ abort_block

Spec == Init /\ [][Next]_vars

----------------------------------------------------------------------------
\* The shape of a set of tables: pending rows and usage belong to accounts
WellFormed(d) ==
    /\ DOMAIN d.limits \subseteq Accounts
    /\ DOMAIN d.pending \subseteq DOMAIN d.limits
    /\ DOMAIN d.ram = DOMAIN d.limits

\* Type invariant: a pending row and a usage row always have a row in force,
\* in the tables and in the copies the undo sessions keep.
TypeOK ==
    /\ phase \in {"idle", "block", "transaction"}
    /\ validate_ram_usage \subseteq Accounts
    /\ \A d \in {db, block_start, trx_start} :
            /\ WellFormed(d)
            /\ \A r \in Limited : d.totals[r] \in 0..MaxUint
            /\ \A a \in DOMAIN d.ram : d.ram[a] \in 0..MaxUint
    /\ sets \in 0..MaxSets

\* No account holds more RAM than its limit.  Inside a transaction an account may
\* do so for a while, but then it is in validate_ram_usage; whatever mixture of
\* stores, frees, new accounts and limits the transaction and the block contain,
\* and whatever is undone, no account is over its limit between transactions.
RamWithinLimit ==
    \A a \in Known :
        \/ verify_account_ram_usage(db.ram[a], RamLimit(db, a))
        \/ phase = "transaction" /\ a \in validate_ram_usage

Positive(n) == IF n > 0 THEN n ELSE 0

SumOver(f, S) == FoldSeq(LAMBDA a, sum : f[a] + sum, 0, SetToSeq(S))

\* total_ram_bytes, total_net_weight and total_cpu_weight are the sums of the
\* positive limits of the accounts, so that "underflow when reverting old value"
\* can not be thrown, whatever was set, aborted or undone before.
TotalsAreSums ==
    \A r \in Limited :
        db.totals[r] = SumOver([a \in Known |-> Positive(db.limits[a][r])], Known)

\* No pending row outlives its block: between blocks every account is billed by
\* the limits in force, also after aborted blocks.
NothingPending == phase = "idle" => DOMAIN db.pending = {}

\* "These new values will not take effect until the next resource tick"
\* (set_resource_limits): the RAM of a transaction is verified against the rows
\* in force, and not against the ones set in its own block.
\* The code does not keep this (README, section 5).
TakesEffectLater ==
    [][finalize_transaction =>
         \A a \in validate_ram_usage :
            verify_account_ram_usage(db.ram[a], db.limits[a]["ram"])]_vars

=============================================================================
