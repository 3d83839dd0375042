---------------------------- MODULE BillingProofs ---------------------------
(***************************************************************************)
(* Proofs about what a transaction is billed: its RAM (RamBilling) first,  *)
(* then its time (TransactionTimer).                                       *)
(*                                                                         *)
(* RamWithinLimit and NothingPending hold for any accounts, limits, stores *)
(* and number of operations.  The inductive invariant says of the tables   *)
(* that they are Sound (every account within its limit, which is what an   *)
(* undo session must bring back) except, inside a transaction, for the     *)
(* accounts in validate_ram_usage.                                         *)
(***************************************************************************)
EXTENDS RamBilling, TLAPS

Rows == UNION {[S -> [Limited -> Int]] : S \in SUBSET Accounts}
Usage == UNION {[S -> 0..MaxUint] : S \in SUBSET Accounts}

\* A well-formed set of tables, the totals left open
IsTables(d) ==
    /\ d = [limits |-> d.limits, pending |-> d.pending, totals |-> d.totals, ram |-> d.ram]
    /\ d.limits \in Rows
    /\ d.pending \in Rows
    /\ d.ram \in Usage
    /\ WellFormed(d)

Within(d, a) == verify_account_ram_usage(d.ram[a], RamLimit(d, a))

Sound(d) == IsTables(d) /\ \A a \in DOMAIN d.limits : Within(d, a)

\* The inductive invariant
IInv ==
    /\ phase \in {"idle", "block", "transaction"}
    /\ IsTables(db)
    /\ phase # "transaction" => Sound(db)
    /\ phase = "idle" => DOMAIN db.pending = {}
    /\ phase # "idle" => Sound(block_start) /\ DOMAIN block_start.pending = {}
    /\ phase = "transaction" =>
            /\ Sound(trx_start)
            /\ \A a \in Known \ validate_ram_usage : Within(db, a)

----------------------------------------------------------------------------
\* What a write to one usage row does to a set of tables
LEMMA UsageWritten ==
    ASSUME NEW d, IsTables(d), NEW a \in DOMAIN d.limits, NEW u \in 0..MaxUint
    PROVE  LET e == WithUsage(d, a, u)
           IN  /\ IsTables(e)
               /\ e.limits = d.limits /\ e.pending = d.pending
               /\ e.ram[a] = u
               /\ \A b \in DOMAIN d.limits \ {a} : Within(e, b) <=> Within(d, b)
<1> DEFINE e == WithUsage(d, a, u)
<1>1. PICK S \in SUBSET Accounts : d.ram \in [S -> 0..MaxUint]
  BY DEF IsTables, Usage
<1>2. /\ e.limits = d.limits /\ e.pending = d.pending /\ e.totals = d.totals
      /\ e.ram = [d.ram EXCEPT ![a] = u]
      /\ e = [limits |-> e.limits, pending |-> e.pending, totals |-> e.totals, ram |-> e.ram]
  BY DEF IsTables, WithUsage
<1> HIDE DEF e
<1>3. S = DOMAIN d.limits /\ e.ram \in [S -> 0..MaxUint]
  BY <1>1, <1>2 DEF IsTables, WellFormed
<1>4. IsTables(e)
  BY <1>1, <1>2, <1>3 DEF IsTables, WellFormed, Usage
<1>5. \A b \in DOMAIN d.limits \ {a} : e.ram[b] = d.ram[b]
  BY <1>1, <1>2, <1>3
<1>6. \A b \in DOMAIN d.limits \ {a} : Within(e, b) <=> Within(d, b)
  BY <1>2, <1>5 DEF Within, RamLimit
<1>7. e.ram[a] = u
  BY <1>1, <1>2, <1>3
<1> QED BY <1>2, <1>4, <1>6, <1>7 DEF e

\* Its operands are integers, and so is a limit
LEMMA LimitIsInt ==
    ASSUME NEW d, IsTables(d), NEW a \in DOMAIN d.limits
    PROVE  RamLimit(d, a) \in Int /\ d.ram[a] \in 0..MaxUint
<1>1. PICK S \in SUBSET Accounts : d.limits \in [S -> [Limited -> Int]]
  BY DEF IsTables, Rows
<1>2. PICK T \in SUBSET Accounts : d.pending \in [T -> [Limited -> Int]]
  BY DEF IsTables, Rows
<1>3. PICK U \in SUBSET Accounts : d.ram \in [U -> 0..MaxUint]
  BY DEF IsTables, Usage
<1>4. get_account_limits(d.limits, d.pending, a) \in [Limited -> Int]
  BY <1>1, <1>2 DEF get_account_limits
<1> QED BY <1>3, <1>4 DEF IsTables, WellFormed, RamLimit, Limited

\* Usage that does not grow stays within the limit
LEMMA FreeingKeeps ==
    ASSUME NEW d, IsTables(d), NEW a \in DOMAIN d.limits, NEW ram_delta \in Int,
           ram_delta < 0, NEW u \in add_pending_ram_usage(d.ram[a], ram_delta),
           Within(d, a)
    PROVE  Within(WithUsage(d, a, u), a)
<1> DEFINE e == WithUsage(d, a, u)
<1>1. u \in 0..MaxUint /\ u = d.ram[a] + ram_delta
  BY LimitIsInt DEF add_pending_ram_usage, Throws
<1>2. e.limits = d.limits /\ e.pending = d.pending /\ e.ram[a] = u
  BY <1>1, UsageWritten
<1> HIDE DEF e
<1>3. RamLimit(e, a) = RamLimit(d, a) /\ RamLimit(d, a) \in Int /\ d.ram[a] \in Int
  BY <1>2, LimitIsInt, NumbersAssumption DEF RamLimit
<1>4. RamLimit(d, a) >= 0 => d.ram[a] <= RamLimit(d, a)
  BY DEF Within, verify_account_ram_usage
<1>5. RamLimit(d, a) >= 0 => u <= RamLimit(d, a)
  BY <1>1, <1>3, <1>4
<1>6. Within(e, a)
  BY <1>2, <1>3, <1>5 DEF Within, verify_account_ram_usage
<1> QED BY <1>6 DEF e

----------------------------------------------------------------------------
\* The pending row of one account is written: the others are as they were, and a
\* limit that is not decreased keeps its account within it
LEMMA LimitsWritten ==
    ASSUME NEW d, IsTables(d), NEW a \in DOMAIN d.limits, NEW new \in Limits
    PROVE  LET e == WithPending(d, a, new)
           IN  /\ IsTables(e)
               /\ e.limits = d.limits
               /\ \A b \in DOMAIN d.limits \ {a} : Within(e, b) <=> Within(d, b)
               /\ Within(d, a) /\ ~decreased_limit(d.limits, d.pending, a, new)
                    => Within(e, a)
<1> DEFINE e == WithPending(d, a, new)
<1>1. PICK T \in SUBSET Accounts : d.pending \in [T -> [Limited -> Int]]
  BY DEF IsTables, Rows
<1>2. new \in [Limited -> Int]
  BY LimitsAssumption, NumbersAssumption DEF Limited, max_int
<1>3. /\ e.limits = d.limits /\ e.ram = d.ram /\ e.totals = d.totals
      /\ e.pending = set_account_limits(d.pending, a, new)
      /\ e = [limits |-> e.limits, pending |-> e.pending, totals |-> e.totals, ram |-> e.ram]
  BY DEF IsTables, WithPending
<1> HIDE DEF e
<1>4. /\ a \in Accounts
      /\ e.pending \in [T \cup {a} -> [Limited -> Int]]
      /\ T \cup {a} \in SUBSET Accounts
  BY <1>1, <1>2, <1>3 DEF set_account_limits, IsTables, WellFormed
<1>5. IsTables(e)
  BY <1>1, <1>3, <1>4 DEF IsTables, WellFormed, Rows
<1>6. /\ get_account_limits(e.limits, e.pending, a) = new
      /\ \A b \in DOMAIN d.limits \ {a} :
            get_account_limits(e.limits, e.pending, b) = get_account_limits(d.limits, d.pending, b)
  BY <1>1, <1>3 DEF get_account_limits, set_account_limits
<1>7. \A b \in DOMAIN d.limits \ {a} : Within(e, b) <=> Within(d, b)
  BY <1>3, <1>6 DEF Within, RamLimit
<1>8. ASSUME Within(d, a), ~decreased_limit(d.limits, d.pending, a, new)
      PROVE  Within(e, a)
  <2>1. new["ram"] \in Int /\ RamLimit(d, a) \in Int /\ d.ram[a] \in Int
    BY <1>2, LimitIsInt, NumbersAssumption DEF Limited
  <2>2. new["ram"] >= 0 => RamLimit(d, a) >= 0 /\ RamLimit(d, a) <= new["ram"]
    BY <1>8, <2>1 DEF decreased_limit, RamLimit
  <2>3. RamLimit(d, a) >= 0 => d.ram[a] <= RamLimit(d, a)
    BY <1>8 DEF Within, verify_account_ram_usage
  <2>4. new["ram"] >= 0 => d.ram[a] <= new["ram"]
    BY <2>1, <2>2, <2>3
  <2> QED BY <1>3, <1>6, <2>4 DEF Within, RamLimit, verify_account_ram_usage
<1> QED BY <1>3, <1>5, <1>7, <1>8 DEF e

\* A new account: unlimited, and the others are as they were
LEMMA AccountWritten ==
    ASSUME NEW d, IsTables(d), NEW a \in Accounts \ DOMAIN d.limits, NEW u \in 0..MaxUint
    PROVE  LET e == WithAccount(d, a, u)
           IN  /\ IsTables(e)
               /\ DOMAIN e.limits = DOMAIN d.limits \cup {a}
               /\ \A b \in DOMAIN d.limits : Within(e, b) <=> Within(d, b)
<1> DEFINE e == WithAccount(d, a, u)
<1>1. PICK S \in SUBSET Accounts : d.limits \in [S -> [Limited -> Int]]
  BY DEF IsTables, Rows
<1>2. d.ram \in [S -> 0..MaxUint] /\ DOMAIN d.limits = S
  BY <1>1 DEF IsTables, Usage, WellFormed
<1>3. /\ e.pending = d.pending /\ e.totals = d.totals
      /\ e.limits = [b \in S \cup {a} |-> IF b = a THEN Unlimited ELSE d.limits[b]]
      /\ e.ram = [b \in S \cup {a} |-> IF b = a THEN u ELSE d.ram[b]]
      /\ e = [limits |-> e.limits, pending |-> e.pending, totals |-> e.totals, ram |-> e.ram]
  BY <1>2 DEF WithAccount
<1> HIDE DEF e
<1>4. Unlimited \in [Limited -> Int]
  BY DEF Unlimited
<1>5. /\ e.limits \in [S \cup {a} -> [Limited -> Int]]
      /\ e.ram \in [S \cup {a} -> 0..MaxUint]
      /\ S \cup {a} \in SUBSET Accounts
  BY <1>1, <1>2, <1>3, <1>4
<1>6. IsTables(e)
  <2>1. e.limits \in Rows /\ e.ram \in Usage
    BY <1>5 DEF Rows, Usage
  <2>2. e.pending \in Rows /\ DOMAIN e.pending \subseteq S
    BY <1>1, <1>3 DEF IsTables, WellFormed
  <2>3. WellFormed(e)
    BY <1>5, <2>2 DEF WellFormed
  <2> QED BY <1>3, <2>1, <2>2, <2>3 DEF IsTables
<1>7. \A b \in S : e.ram[b] = d.ram[b] /\ e.limits[b] = d.limits[b]
  BY <1>1, <1>3
<1>8. \A b \in S : Within(e, b) <=> Within(d, b)
  BY <1>3, <1>7 DEF Within, RamLimit, get_account_limits
<1> QED BY <1>1, <1>3, <1>6, <1>8 DEF e

\* The pending rows are applied: no account's limit changes by that
LEMMA UpdatesWritten ==
    ASSUME NEW d, IsTables(d), NEW totals
    PROVE  LET e == WithUpdates(d, totals)
           IN  /\ IsTables(e)
               /\ DOMAIN e.limits = DOMAIN d.limits
               /\ DOMAIN e.pending = {}
               /\ \A b \in DOMAIN d.limits : Within(e, b) <=> Within(d, b)
<1> DEFINE e == WithUpdates(d, totals)
<1>1. PICK S \in SUBSET Accounts : d.limits \in [S -> [Limited -> Int]]
  BY DEF IsTables, Rows
<1>2. PICK T \in SUBSET Accounts : d.pending \in [T -> [Limited -> Int]]
  BY DEF IsTables, Rows
<1>3. /\ e.pending = NoRows /\ e.ram = d.ram /\ e.totals = totals
      /\ e.limits = [b \in S |-> get_account_limits(d.limits, d.pending, b)]
      /\ e = [limits |-> e.limits, pending |-> e.pending, totals |-> e.totals, ram |-> e.ram]
  BY <1>1 DEF WithUpdates, updated_limits
<1> HIDE DEF e
<1>4. e.limits \in [S -> [Limited -> Int]]
  BY <1>1, <1>2, <1>3 DEF get_account_limits
<1>5. NoRows \in [{} -> [Limited -> Int]] /\ DOMAIN NoRows = {}
  BY DEF NoRows
<1>6. IsTables(e)
  BY <1>1, <1>3, <1>4, <1>5 DEF IsTables, WellFormed, Rows
<1>7. \A b \in S : get_account_limits(e.limits, e.pending, b)
                        = get_account_limits(d.limits, d.pending, b)
  BY <1>3, <1>5 DEF get_account_limits
<1>8. \A b \in S : Within(e, b) <=> Within(d, b)
  BY <1>3, <1>7 DEF Within, RamLimit
<1> QED BY <1>1, <1>3, <1>4, <1>5, <1>6, <1>8, SMTT(30) DEF e

----------------------------------------------------------------------------
\* Genesis: no account has a limit
LEMMA InitHolds == Init => IInv
<1> SUFFICES ASSUME Init PROVE IInv
  OBVIOUS
<1>1. /\ db.limits = [a \in Genesis |-> Unlimited] /\ db.pending = NoRows
      /\ db.ram = [a \in Genesis |-> 0]
      /\ db = [limits |-> db.limits, pending |-> db.pending,
               totals |-> db.totals, ram |-> db.ram]
  BY DEF Init, Genesis_db
<1>2. Unlimited \in [Limited -> Int] /\ Unlimited["ram"] = -1
  BY DEF Unlimited, Limited
<1>3. /\ db.limits \in [Genesis -> [Limited -> Int]]
      /\ db.ram \in [Genesis -> 0..MaxUint]
      /\ db.pending \in [{} -> [Limited -> Int]]
  BY <1>1, <1>2, NumbersAssumption DEF NoRows
<1>4. IsTables(db)
  BY <1>1, <1>3, GenesisAssumption, Zenon DEF IsTables, WellFormed, Rows, Usage
<1>5. \A a \in Genesis : RamLimit(db, a) = -1
  BY <1>1, <1>2, <1>3 DEF RamLimit, get_account_limits
<1>6. Sound(db)
  BY <1>3, <1>4, <1>5, SMTT(30) DEF Sound, Within, verify_account_ram_usage
<1> QED BY <1>3, <1>4, <1>6 DEF Init, IInv

\* Every operation of a transaction or a block keeps the invariant
LEMMA StepHolds == IInv /\ [Next]_vars => IInv'
<1> SUFFICES ASSUME IInv, [Next]_vars PROVE IInv'
  OBVIOUS
<1> USE DEF IInv
<1>1. CASE start_block
  BY <1>1 DEF start_block, Known, Sound, Within, IsTables, WellFormed, RamLimit
<1>2. ASSUME NEW a \in Known, NEW d \in Deltas, remove_scheduled_transaction(a, d)
      PROVE  IInv'
  <2>1. phase = "block" /\ phase' = "block" /\ d \in Int /\ d < 0 /\ block_start' = block_start
    BY <1>2, DeltasAssumption DEF remove_scheduled_transaction
  <2>2. PICK u \in add_pending_ram_usage(db.ram[a], d) : db' = WithUsage(db, a, u)
    BY <1>2 DEF remove_scheduled_transaction
  <2>3. u \in 0..MaxUint /\ Sound(db) /\ a \in DOMAIN db.limits
    BY <2>1, <2>2 DEF add_pending_ram_usage, Throws, Known
  <2>4. IsTables(db') /\ db'.limits = db.limits
        /\ \A b \in DOMAIN db.limits \ {a} : Within(db', b) <=> Within(db, b)
    BY <2>2, <2>3, UsageWritten DEF Sound
  <2>5. Within(db', a)
    BY <2>1, <2>2, <2>3, FreeingKeeps DEF Sound
  <2>6. Sound(db')
    BY <2>3, <2>4, <2>5 DEF Sound
  <2>7. Sound(block_start') /\ DOMAIN block_start'.pending = {}
    BY <2>1
  <2> QED BY <2>1, <2>4, <2>6, <2>7
<1>3. CASE start_transaction
  <2>1. /\ phase = "block" /\ phase' = "transaction" /\ db' = db /\ trx_start' = db
        /\ block_start' = block_start
    BY <1>3 DEF start_transaction
  <2>2. Sound(db) /\ Sound(trx_start') /\ IsTables(db')
        /\ \A a \in DOMAIN db'.limits : Within(db', a)
    BY <2>1 DEF Sound
  <2> QED BY <2>1, <2>2 DEF Known
<1>4. ASSUME NEW a \in Known, NEW d \in Deltas, add_ram_usage(a, d)
      PROVE  IInv'
  <2>1. /\ phase = "transaction" /\ phase' = "transaction" /\ d \in Int /\ d # 0
        /\ block_start' = block_start /\ trx_start' = trx_start
        /\ validate_ram_usage' =
              IF d > 0 THEN validate_ram_usage \cup {a} ELSE validate_ram_usage
    BY <1>4, DeltasAssumption DEF add_ram_usage
  <2>2. PICK u \in add_pending_ram_usage(db.ram[a], d) : db' = WithUsage(db, a, u)
    BY <1>4 DEF add_ram_usage
  <2>3. u \in 0..MaxUint /\ a \in DOMAIN db.limits
    BY <2>2 DEF add_pending_ram_usage, Throws, Known
  <2>4. IsTables(db') /\ db'.limits = db.limits
        /\ \A b \in DOMAIN db.limits \ {a} : Within(db', b) <=> Within(db, b)
    BY <2>2, <2>3, UsageWritten
  <2>5. a \notin validate_ram_usage' => Within(db', a)
    BY <2>1, <2>2, <2>3, FreeingKeeps DEF Known
  <2>6. \A b \in DOMAIN db'.limits \ validate_ram_usage' : Within(db', b)
    BY <2>1, <2>4, <2>5 DEF Known
  <2> QED BY <2>1, <2>4, <2>6 DEF Known
<1>5. ASSUME NEW a \in Accounts \ Known, NEW d \in Deltas, apply_eosio_newaccount(a, d)
      PROVE  IInv'
  <2>1. /\ phase = "transaction" /\ phase' = "transaction"
        /\ block_start' = block_start /\ trx_start' = trx_start
        /\ validate_ram_usage' = validate_ram_usage \cup {a}
    BY <1>5 DEF apply_eosio_newaccount
  <2>2. PICK u \in add_pending_ram_usage(0, d) : db' = WithAccount(db, a, u)
    BY <1>5 DEF apply_eosio_newaccount
  <2>3. u \in 0..MaxUint /\ a \in Accounts \ DOMAIN db.limits
    BY <2>2 DEF add_pending_ram_usage, Throws, Known
  <2>4. IsTables(db') /\ DOMAIN db'.limits = DOMAIN db.limits \cup {a}
        /\ \A b \in DOMAIN db.limits : Within(db', b) <=> Within(db, b)
    BY <2>2, <2>3, AccountWritten
  <2>5. \A b \in DOMAIN db'.limits \ validate_ram_usage' : Within(db', b)
    BY <2>1, <2>4 DEF Known
  <2> QED BY <2>1, <2>4, <2>5 DEF Known
<1>6. ASSUME NEW a \in Known, NEW l \in Limits, set_resource_limits(a, l)
      PROVE  IInv'
  <2>1. /\ phase = "transaction" /\ phase' = "transaction"
        /\ block_start' = block_start /\ trx_start' = trx_start
        /\ db' = WithPending(db, a, l)
        /\ validate_ram_usage' = IF decreased_limit(db.limits, db.pending, a, l)
                                 THEN validate_ram_usage \cup {a}
                                 ELSE validate_ram_usage
    BY <1>6 DEF set_resource_limits
  <2>2. /\ IsTables(db') /\ db'.limits = db.limits
        /\ \A b \in DOMAIN db.limits \ {a} : Within(db', b) <=> Within(db, b)
        /\ Within(db, a) /\ ~decreased_limit(db.limits, db.pending, a, l) => Within(db', a)
    BY <2>1, LimitsWritten DEF Known
  <2>3. a \notin validate_ram_usage' => Within(db', a)
    BY <2>1, <2>2 DEF Known
  <2>4. \A b \in DOMAIN db'.limits \ validate_ram_usage' : Within(db', b)
    BY <2>1, <2>2, <2>3 DEF Known
  <2> QED BY <2>1, <2>2, <2>4 DEF Known
<1>7. CASE finalize_transaction
  <2>1. /\ phase = "transaction" /\ phase' = "block" /\ db' = db
        /\ block_start' = block_start
        /\ \A a \in validate_ram_usage : Within(db, a)
    BY <1>7 DEF finalize_transaction, Within
  <2>2. Sound(db)
    BY <2>1 DEF Sound, Known
  <2> QED BY <2>1, <2>2
<1>8. CASE undo_transaction
  <2>1. /\ phase = "transaction" /\ phase' = "block" /\ db' = trx_start
        /\ block_start' = block_start
    BY <1>8 DEF undo_transaction
  <2> QED BY <2>1 DEF Sound
<1>9. CASE finalize_block
  <2>1. phase = "block" /\ phase' = "idle" /\ Sound(db)
    BY <1>9 DEF finalize_block
  <2>2. PICK t \in process_account_limit_updates(db.limits, db.pending, db.totals) :
              db' = WithUpdates(db, t)
    BY <1>9 DEF finalize_block
  <2>3. /\ IsTables(db') /\ DOMAIN db'.limits = DOMAIN db.limits
        /\ DOMAIN db'.pending = {}
        /\ \A b \in DOMAIN db.limits : Within(db', b) <=> Within(db, b)
    BY <2>1, <2>2, UpdatesWritten DEF Sound
  <2>4. Sound(db')
    BY <2>1, <2>3 DEF Sound
  <2> QED BY <2>1, <2>3, <2>4
<1>10. CASE abort_block
  <2>1. phase = "block" /\ phase' = "idle" /\ db' = block_start
    BY <1>10 DEF abort_block
  <2> QED BY <2>1 DEF Sound
<1>11. CASE UNCHANGED vars
  BY <1>11 DEF vars, Known, Sound, Within, IsTables, WellFormed, RamLimit
<1> QED
  BY <1>1, <1>2, <1>3, <1>4, <1>5, <1>6, <1>7, <1>8, <1>9, <1>10, <1>11, SMTT(30) DEF Next

\* The inductive invariant holds in every reachable state
LEMMA Inductive == Spec => []IInv
  BY InitHolds, StepHolds, PTL DEF Spec

\* No account is over its RAM limit outside a transaction, nor inside one unless
\* transaction_context::finalize will look at it
THEOREM RamStaysWithinLimit == Spec => []RamWithinLimit
<1>1. IInv => RamWithinLimit
  BY DEF IInv, RamWithinLimit, Sound, Within, Known
<1> QED BY <1>1, Inductive, PTL

\* process_account_limit_updates and the undo session leave no pending row behind
THEOREM NothingStaysPending == Spec => []NothingPending
<1>1. IInv => NothingPending
  BY DEF IInv, NothingPending
<1> QED BY <1>1, Inductive, PTL

----------------------------------------------------------------------------
(* The timer of a transaction.                                             *)

CONSTANTS Durations, Deadlines, Maximum, Second, Wrap, MaxPauses, MaxPosted, Posix
VARIABLES pc, trx, expired, armed, posted, raced

Timer == INSTANCE TransactionTimer WITH Limits <- Durations

\* The transactions.
Trxs == [billable : 0 .. Maximum, caller : 0 .. Maximum, explicit : BOOLEAN, paused : BOOLEAN,
         pauses : Int, long : BOOLEAN, x : 0 .. Maximum]

\* What holds when no expiration of an earlier start() is under way: the timer is at work
\* only between start() and stop(), never below the deadline that is left, and what it
\* posted is of this start().
Orderly ==
    /\ pc \in {"idle", "init", "start", "set", "paused"} => armed = Timer!Off
    /\ pc \in {"init", "set"} => posted = 0 /\ ~expired
    /\ expired \/ posted > 0 => armed = Timer!Off
    /\ pc = "running" /\ ~trx.long =>
           /\ armed # Timer!Off => armed >= Timer!deadline(trx)
           /\ expired \/ posted > 0 => Timer!deadline(trx) = 0

\* The inductive invariant.
TimerInv ==
    /\ trx \in Trxs
    /\ pc \in {"idle", "init", "start", "set", "running", "pause", "paused", "destroy",
               "stop", "stop_paused"}
    /\ posted \in Nat
    /\ armed = Timer!Off \/ armed \in 0 .. Maximum - 1
    /\ pc \in {"stop", "stop_paused"} => armed = Timer!Off
    /\ pc \in {"init", "start", "set", "running"} => ~trx.paused
    /\ pc = "set" => /\ trx.x \in 1 .. Maximum - 1 /\ trx.x >= Timer!deadline(trx)
                     /\ ~trx.long => ~Posix \/ trx.x < Second
    /\ raced \/ Orderly

\* Below a second the nanoseconds fit an int.
LEMMA NanosecondsFit ==
    ASSUME Timer!TimesInOrder, NEW x \in Nat, ~Posix \/ x < Second
    PROVE  Timer!nanoseconds(x) = x
<1>1. CASE ~Posix
  BY <1>1 DEF Timer!nanoseconds
<1>2. CASE Posix
  <2>1. /\ Wrap \in Nat /\ Wrap > 0 /\ Wrap \div 2 \in Nat /\ x + (Wrap \div 2) \in 0 .. Wrap - 1
    BY <1>2 DEF Timer!TimesInOrder
  <2>2. (x + (Wrap \div 2)) % Wrap = x + (Wrap \div 2)
    BY <2>1
  <2> QED
    BY <1>2, <2>1, <2>2 DEF Timer!nanoseconds
<1> QED
  BY <1>1, <1>2

\* A moment of time takes no more of the timer than of the deadline.
LEMMA DeadlineLowers ==
    ASSUME Maximum \in Nat, NEW t \in Trxs, NEW u \in Trxs, u.explicit = t.explicit,
           u.caller = Timer!Lower(t.caller),
           u.billable = IF t.paused THEN t.billable ELSE Timer!Lower(t.billable)
    PROVE  /\ Timer!deadline(t) \in 0 .. Maximum /\ Timer!deadline(u) \in 0 .. Maximum
           /\ Timer!deadline(u) <= Timer!deadline(t)
           /\ ~t.paused => \A a \in 0 .. Maximum - 1 :
                               a >= Timer!deadline(t) => Timer!Lower(a) >= Timer!deadline(u)
BY DEF Trxs, Timer!deadline, Timer!Least, Timer!Lower, Timer!Off

\* TimerInv is inductive.
LEMMA TimerInvStep ==
    ASSUME Timer!TimesInOrder, TimerInv, [Timer!Next]_Timer!vars
    PROVE  TimerInv'
<1>m. Maximum \in Nat /\ Timer!Off \in Int /\ Timer!Off < 0
  BY DEF Timer!Off, Timer!TimesInOrder
<1>t. /\ Timer!deadline(trx) \in 0 .. Maximum
  BY DEF TimerInv, Trxs, Timer!deadline, Timer!Least, Timer!TimesInOrder
<1>i. /\ trx \in Trxs /\ posted \in Nat
      /\ armed = Timer!Off \/ armed \in 0 .. Maximum - 1
      /\ raced \/ Orderly
  BY DEF TimerInv
<1>1. CASE Timer!begin
  <2>1. /\ pc = "idle" /\ pc' = "init" /\ ~expired' /\ armed' = armed /\ posted' = posted
        /\ raced' <=> posted > 0 \/ (armed # Timer!Off /\ raced)
    BY <1>1, Zenon DEF Timer!begin, Timer!OnItsWay
  <2>2. trx' \in Trxs /\ ~trx'.paused
    BY <1>1 DEF Timer!begin, Trxs, Timer!TimesInOrder
  <2>3. raced' \/ Orderly'
    BY <2>1, <1>i DEF Orderly
  <2> QED
    BY <2>1, <2>2, <2>3, <1>i DEF TimerInv
<1>2. CASE Timer!finish
  <2>1. /\ pc' = "destroy" /\ trx' = trx /\ (expired' <=> expired) /\ armed' = armed /\ posted' = posted
        /\ (raced' <=> raced)
    BY <1>2, Zenon DEF Timer!finish
  <2>2. raced' \/ Orderly'
    BY <2>1, <1>i DEF Orderly
  <2> QED
    BY <2>1, <2>2, <1>i DEF TimerInv
<1>3. CASE Timer!pause_billing_timer
  <2>1. /\ pc' = "pause" /\ (expired' <=> expired) /\ armed' = armed /\ posted' = posted
        /\ (raced' <=> raced)
    BY <1>3, Zenon DEF Timer!pause_billing_timer
  <2>2. trx' = [trx EXCEPT !.paused = TRUE, !.pauses = trx.pauses - 1]
    BY <1>3 DEF Timer!pause_billing_timer
  <2>3. trx.pauses - 1 \in Int
    BY <1>i DEF Trxs
  <2>4. trx' \in Trxs
    BY <2>2, <2>3, <1>i, Zenon DEF Trxs
  <2>5. raced' \/ Orderly'
    BY <2>1, <1>i DEF Orderly
  <2> QED
    BY <2>1, <2>4, <2>5, <1>i DEF TimerInv
<1>4. CASE Timer!init
  <2>1. /\ pc = "init" /\ pc' \in {"destroy", "start"} /\ trx' = trx /\ (expired' <=> expired)
        /\ armed' = armed /\ posted' = posted /\ (raced' <=> raced)
    <3>1. pc' \in {"destroy", "start"}
      BY <1>4 DEF Timer!init
    <3> QED
      BY <1>4, <3>1, Zenon DEF Timer!init
  <2>2. raced' \/ Orderly'
    BY <2>1, <1>i DEF Orderly
  <2> QED
    BY <2>1, <2>2, <1>i DEF TimerInv
<1>5. CASE Timer!start
  <2>1. /\ pc = "start" /\ armed' = armed /\ posted' = posted
        /\ raced' <=> posted > 0 \/ (armed # Timer!Off /\ raced)
    BY <1>5, Zenon DEF Timer!start, Timer!OnItsWay
  <2>p. ~trx.paused
    BY <2>1 DEF TimerInv
  <2>o. raced' \/ (posted' = 0 /\ armed' = Timer!Off)
    BY <2>1, <1>i DEF Orderly
  <2>2. CASE /\ Timer!deadline(trx) = Maximum \/ Timer!deadline(trx) = 0
             /\ expired' = (Timer!deadline(trx) = 0) /\ pc' = "running"
             /\ trx' = [trx EXCEPT !.long = FALSE]
    <3>1. /\ trx' \in Trxs /\ trx'.paused = trx.paused /\ trx'.explicit = trx.explicit
          /\ trx'.caller = trx.caller /\ trx'.billable = trx.billable
      BY <2>2, <1>i DEF Trxs
    <3>2. expired' <=> Timer!deadline(trx) = 0
      BY <2>2, Zenon
    <3>3. Timer!deadline(trx') = Timer!deadline(trx)
      BY <3>1 DEF Timer!deadline
    <3>4. pc' = "running"
      BY <2>2
    <3>5. raced' \/ Orderly'
      BY <2>o, <3>2, <3>3, <3>4, <1>m DEF Orderly
    <3> QED
      BY <2>1, <2>p, <3>1, <3>4, <3>5, <1>i DEF TimerInv
  <2>3. CASE /\ Timer!deadline(trx) \notin {0, Maximum}
             /\ expired' = FALSE /\ pc' = "set"
             /\ trx' = [trx EXCEPT !.x = Timer!deadline(trx),
                                   !.long = Posix /\ Timer!deadline(trx) >= Second]
    <3>1. /\ trx' \in Trxs /\ trx'.paused = trx.paused /\ trx'.explicit = trx.explicit
          /\ trx'.caller = trx.caller /\ trx'.billable = trx.billable /\ trx'.x = Timer!deadline(trx)
          /\ trx'.long <=> (Posix /\ Timer!deadline(trx) >= Second)
      BY <2>3, <1>i, <1>t DEF Trxs
    <3>2. ~expired' /\ pc' = "set"
      BY <2>3, Zenon
    <3>3. Timer!deadline(trx') = Timer!deadline(trx)
      BY <3>1 DEF Timer!deadline
    <3>4. Timer!deadline(trx) \in 1 .. Maximum - 1 /\ Second \in Nat
      BY <2>3, <1>t DEF Timer!TimesInOrder
    <3>5. raced' \/ Orderly'
      BY <2>o, <3>2, <1>m DEF Orderly
    <3>6. ~trx'.long => ~Posix \/ trx'.x < Second
      BY <3>1, <3>4
    <3> QED
      BY <2>1, <2>p, <3>1, <3>2, <3>3, <3>4, <3>5, <3>6, <1>i DEF TimerInv
  <2> QED
    BY <1>5, <2>2, <2>3, Zenon DEF Timer!start
<1>6. CASE Timer!set
  <2>1. pc = "set" /\ pc' = "running" /\ posted' = posted /\ trx' = trx
    BY <1>6 DEF Timer!set
  <2>2. /\ ~trx.paused /\ trx.x \in 1 .. Maximum - 1 /\ trx.x >= Timer!deadline(trx)
        /\ ~trx.long => ~Posix \/ trx.x < Second
    BY <2>1 DEF TimerInv
  <2>n. ~trx.long => Timer!nanoseconds(trx.x) = trx.x
    BY <2>2, <1>m, NanosecondsFit
  <2>3. CASE /\ Timer!valid(trx.x)
             /\ armed' = IF Timer!nanoseconds(trx.x) = 0 THEN Timer!Off ELSE Timer!nanoseconds(trx.x)
             /\ raced' = (posted > 0 \/ expired)
             /\ UNCHANGED expired
    <3>1. (raced' <=> posted > 0 \/ expired) /\ (expired' <=> expired)
      BY <2>3, Zenon
    <3>2. armed' = Timer!Off \/ armed' \in 0 .. Maximum - 1
      <4>1. CASE ~Posix
        BY <2>2, <2>3, <4>1 DEF Timer!nanoseconds
      <4>2. CASE Posix
        BY <2>3, <4>2, <1>m DEF Timer!valid, Timer!TimesInOrder
      <4> QED
        BY <4>1, <4>2
    <3>3. ~trx.long => armed' = trx.x
      BY <2>2, <2>3, <2>n
    <3>4. raced' \/ (posted' = 0 /\ ~expired')
      BY <2>1, <3>1, <1>i
    <3>5. raced' \/ Orderly'
      BY <2>1, <2>2, <3>3, <3>4 DEF Orderly
    <3> QED
      BY <2>1, <2>2, <3>2, <3>5, <1>i DEF TimerInv
  <2>4. CASE /\ ~Timer!valid(trx.x)
             /\ expired' = TRUE
             /\ UNCHANGED <<armed, raced>>
    <3>1. expired' /\ armed' = armed /\ (raced' <=> raced)
      BY <2>4, Zenon
    <3>2. trx.long
      <4>1. SUFFICES ASSUME ~trx.long PROVE FALSE
        OBVIOUS
      <4>2. Posix /\ ~(Timer!nanoseconds(trx.x) \in 0 .. Second - 1)
        BY <2>4, Zenon DEF Timer!valid
      <4>3. Timer!nanoseconds(trx.x) = trx.x /\ trx.x < Second
        BY <2>n, <2>2, <4>1, <4>2
      <4> QED
        BY <2>2, <4>2, <4>3 DEF Timer!TimesInOrder
    <3>3. raced' \/ Orderly'
      BY <2>1, <3>1, <3>2, <1>i DEF Orderly
    <3> QED
      BY <2>1, <2>2, <3>1, <3>3, <1>i DEF TimerInv
  <2> QED
    BY <1>6, <2>3, <2>4, Zenon DEF Timer!set
<1>7. CASE Timer!checktime
  <2>1. /\ pc' = "destroy" /\ trx' = trx /\ (expired' <=> expired) /\ armed' = armed /\ posted' = posted
        /\ (raced' <=> raced)
    BY <1>7, Zenon DEF Timer!checktime
  <2>2. raced' \/ Orderly'
    BY <2>1, <1>i DEF Orderly
  <2> QED
    BY <2>1, <2>2, <1>i DEF TimerInv
<1>8. CASE Timer!resume_billing_timer
  <2>1. /\ pc = "paused" /\ pc' = "start" /\ (expired' <=> expired) /\ armed' = armed
        /\ posted' = posted /\ (raced' <=> raced)
    BY <1>8, Zenon DEF Timer!resume_billing_timer
  <2>2. trx' = [trx EXCEPT !.paused = FALSE]
    BY <1>8, Zenon DEF Timer!resume_billing_timer
  <2>3. trx' \in Trxs /\ ~trx'.paused
    BY <2>2, <1>i DEF Trxs
  <2>4. raced' \/ Orderly'
    BY <2>1, <1>i DEF Orderly
  <2> QED
    BY <2>1, <2>3, <2>4, <1>i DEF TimerInv
<1>9. CASE Timer!stop
  <2>1. PICK then \in {<<"pause", "paused">>, <<"destroy", "idle">>} :
            /\ pc = then[1]
            /\ IF expired THEN pc' = then[2] /\ UNCHANGED armed
               ELSE pc' = (IF then[1] = "pause" THEN "stop_paused" ELSE "stop") /\ armed' = Timer!Off
            /\ UNCHANGED <<trx, expired, posted, raced>>
    BY <1>9, Zenon DEF Timer!stop
  <2>2. trx' = trx /\ (expired' <=> expired) /\ posted' = posted /\ (raced' <=> raced)
    BY <2>1, Zenon
  <2>3. CASE expired
    <3>1. pc' \in {"paused", "idle"} /\ armed' = armed
      BY <2>1, <2>3
    <3>2. raced' \/ Orderly'
      BY <2>2, <2>3, <3>1, <1>i DEF Orderly
    <3> QED
      BY <2>2, <3>1, <3>2, <1>i DEF TimerInv
  <2>4. CASE ~expired
    <3>1. pc' \in {"stop_paused", "stop"} /\ armed' = Timer!Off
      BY <2>1, <2>4
    <3>2. Orderly'
      BY <2>2, <2>4, <3>1, <1>i DEF Orderly
    <3> QED
      BY <2>2, <3>1, <3>2, <1>i DEF TimerInv
  <2> QED
    BY <2>3, <2>4
<1>10. CASE Timer!stopped
  <2>1. /\ pc \in {"stop", "stop_paused"} /\ pc' \in {"idle", "paused"}
    BY <1>10 DEF Timer!stopped
  <2>2. trx' = trx /\ expired' /\ armed' = armed /\ posted' = posted
    BY <1>10, Zenon DEF Timer!stopped
  <2>3. armed = Timer!Off
    BY <2>1 DEF TimerInv
  <2>4. Orderly'
    BY <2>1, <2>2, <2>3 DEF Orderly
  <2> QED
    BY <2>1, <2>2, <2>4, <1>i DEF TimerInv
<1>11. CASE Timer!tick
  <2>a. Timer!Lower(trx.caller) \in 0 .. Maximum /\ Timer!Lower(trx.billable) \in 0 .. Maximum
    BY <1>i, <1>m DEF Trxs, Timer!Lower
  <2>1. trx' \in Trxs
    BY <1>11, <1>i, <2>a DEF Timer!tick, Trxs
  <2>2. /\ trx'.explicit = trx.explicit /\ trx'.paused = trx.paused
        /\ trx'.long = trx.long /\ trx'.x = trx.x
        /\ trx'.caller = Timer!Lower(trx.caller)
        /\ trx'.billable = IF trx.paused THEN trx.billable ELSE Timer!Lower(trx.billable)
    BY <1>11, <1>i DEF Timer!tick, Trxs
  <2>3. /\ Timer!deadline(trx') \in 0 .. Maximum /\ Timer!deadline(trx') <= Timer!deadline(trx)
        /\ ~trx.paused => \A a \in 0 .. Maximum - 1 :
                            a >= Timer!deadline(trx) => Timer!Lower(a) >= Timer!deadline(trx')
    BY <2>1, <2>2, <1>i, <1>m, DeadlineLowers
  <2>4. armed' = Timer!Lower(armed) /\ (armed' = Timer!Off \/ armed' \in 0 .. Maximum - 1) /\ (armed' = Timer!Off <=> armed = Timer!Off)
    BY <1>11, <1>i, <1>m DEF Timer!tick, Timer!Lower
  <2>5. pc' = pc /\ posted' = posted /\ (expired' <=> expired) /\ (raced' <=> raced)
    BY <1>11, Zenon DEF Timer!tick
  <2>6. CASE raced
    BY <2>1, <2>2, <2>3, <2>4, <2>5, <2>6, <1>t, <1>i, SMTT(30) DEF TimerInv, Trxs
  <2>7. CASE ~raced
    <3>1. Orderly
      BY <2>7, <1>i
    <3>2. pc = "running" /\ ~trx.long /\ armed # Timer!Off => armed' >= Timer!deadline(trx')
      BY <2>3, <2>4, <3>1, <1>i, SMTT(30) DEF TimerInv, Orderly
    <3>3. pc = "running" /\ ~trx.long /\ (expired \/ posted > 0) => Timer!deadline(trx') = 0
      BY <2>3, <3>1, <1>t, SMTT(30) DEF Orderly
    <3>4. Orderly'
      BY <2>2, <2>4, <2>5, <3>1, <3>2, <3>3 DEF Orderly
    <3> QED
      BY <2>1, <2>2, <2>3, <2>4, <2>5, <3>4, <1>t, <1>i, SMTT(30) DEF TimerInv, Trxs
  <2> QED
    BY <2>6, <2>7
<1>12. CASE Timer!run_out
  <2>1. /\ armed = 0 /\ armed' = Timer!Off /\ posted' = posted + 1
    BY <1>12 DEF Timer!run_out
  <2>2. pc' = pc /\ trx' = trx /\ (expired' <=> expired) /\ (raced' <=> raced)
    BY <1>12, Zenon DEF Timer!run_out
  <2>3. posted' \in Nat /\ armed # Timer!Off
    BY <2>1, <1>i, <1>m
  <2>4. raced' \/ Orderly'
    BY <2>1, <2>2, <2>3, <1>i, <1>t DEF Orderly
  <2> QED
    BY <2>1, <2>2, <2>3, <2>4, <1>i DEF TimerInv
<1>13. CASE Timer!sig_handler
  <2>1. posted > 0 /\ posted' = posted - 1
    BY <1>13 DEF Timer!sig_handler
  <2>2. pc' = pc /\ trx' = trx /\ armed' = armed /\ expired' /\ (raced' <=> raced)
    BY <1>13, Zenon DEF Timer!sig_handler
  <2>3. posted' \in Nat
    BY <2>1, <1>i
  <2>4. raced' \/ Orderly'
    BY <2>1, <2>2, <2>3, <1>i DEF Orderly
  <2> QED
    BY <2>1, <2>2, <2>3, <2>4, <1>i DEF TimerInv
<1>14. CASE UNCHANGED Timer!vars
  <2>1. /\ pc' = pc /\ trx' = trx /\ armed' = armed /\ posted' = posted
        /\ (expired' <=> expired) /\ (raced' <=> raced)
    BY <1>14, Zenon DEF Timer!vars
  <2> QED
    BY <2>1 DEF TimerInv, Orderly
<1> QED
  BY <1>1, <1>2, <1>3, <1>4, <1>5, <1>6, <1>7, <1>8, <1>9, <1>10, <1>11, <1>12, <1>13, <1>14, SMTT(30)
  DEF Timer!Next, Timer!Running

\* checktime() does not throw before the deadline, however the expirations fall between
\* the steps of start(), stop() and the pauses, unless one of an earlier start() was on
\* its way when the flag was cleared: NotBeforeDeadline, for either timer, all durations
\* and any number of pauses.
THEOREM TimerNotBeforeDeadline == Timer!TimesInOrder /\ Timer!Spec => Timer!NotBeforeDeadline
<1> SUFFICES ASSUME Timer!TimesInOrder PROVE Timer!Spec => [][Timer!CutsEarly => raced]_Timer!vars
  BY DEF Timer!NotBeforeDeadline
<1>1. Timer!Init => TimerInv
  <2> SUFFICES ASSUME Timer!Init PROVE TimerInv
    OBVIOUS
  <2>1. pc = "idle" /\ armed = Timer!Off /\ posted = 0
    BY DEF Timer!Init
  <2>2. trx \in Trxs
    BY DEF Timer!Init, Trxs, Timer!TimesInOrder
  <2> QED
    BY <2>1, <2>2 DEF TimerInv, Orderly
<1>2. TimerInv /\ [Timer!Next]_Timer!vars => TimerInv'
  BY TimerInvStep
<1>3. TimerInv => (Timer!CutsEarly => raced)
  <2> SUFFICES ASSUME TimerInv, Timer!CutsEarly PROVE raced
    OBVIOUS
  <2>1. expired /\ pc \in {"running", "init"} /\ Timer!deadline(trx) # 0 /\ ~trx.long
    BY DEF Timer!CutsEarly, Timer!checktime, Timer!init
  <2> QED
    BY <2>1 DEF TimerInv, Orderly
<1> QED
  BY <1>1, <1>2, <1>3, PTL DEF Timer!Spec
=============================================================================
