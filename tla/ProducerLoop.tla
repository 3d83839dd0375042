---------------------------- MODULE ProducerLoop ----------------------------
(***************************************************************************)
(* The production loop of producer_plugin: when a block is started, when a *)
(* timer is set, and what a callback does that was already queued when its *)
(* timer was cancelled.  The chipcounter timer runs beside it.             *)
(*                                                                         *)
(* Time is relative, so that it can go on for ever: the clock is a phase   *)
(* of the round of the schedule, in halves of a slot, and every other time *)
(* is a number of halves from now.  A callback carries, instead of its     *)
(* correlation number, whether that number is still the current one.       *)
(* Transactions are in TransactionQueues.                                  *)
(***************************************************************************)
EXTENDS Integers, Sequences, FiniteSetsExt

CONSTANTS Schedule,       \* active_schedule: a sequence of producers
          Reps,           \* config::producer_repetitions
          Local,          \* _producers
          Early,          \* how early a block is produced: minus _produce_time_offset_us
          EarlyLast,      \* the last one of a turn: minus _last_block_time_offset_us
          None,           \* no block, no timer, no wake-up time
          MaxHeadAge,     \* a head older than this is too old to speculate on
          MaxLag,         \* bound: how late a callback runs
          MaxLead,        \* bound: of watermark block numbers over the head
          MaxFaults       \* bound: failures, pauses, API calls and switches of forks

ASSUME LoopAssumption ==
    /\ Schedule \in Seq(Range(Schedule)) /\ Schedule # <<>> /\ Reps \in Nat \ {0}
    /\ Early \in Int /\ EarlyLast \in Int /\ MaxHeadAge \in Nat /\ MaxLag \in 0..MaxHeadAge
    /\ MaxLag - Early <= MaxHeadAge /\ MaxLag - EarlyLast <= MaxHeadAge
    /\ None \notin Int /\ None \notin [kind : {"loop", "produce"}, left : Int]

VARIABLES n,              \* the state of the plugin and of the controller
          produced,       \* history: the last step produced a block
          faults

vars == <<n, produced, faults>>

Cycle == 2 * Reps * Len(Schedule)

TooOld == -(MaxHeadAge + 1)

Positive(x) == IF x > 0 THEN x ELSE 0

-----------------------------------------------------------------------------
(* When                                                                    *)

SlotIn(m, lead) == ((m.phase + lead) % Cycle) \div 2

\* block_header_state::get_scheduled_producer
get_scheduled_producer(m, lead) == Schedule[SlotIn(m, lead) \div Reps + 1]

production_disabled_by_policy(m) == ~m.enabled \/ m.paused \/ m.old_lib

calculate_pending_block_time(m) ==
    LET base == IF m.head > 0 THEN m.head ELSE 0 IN base + 2 - ((m.phase + base) % 2)

calculate_block_deadline(m, lead) ==
    lead - (IF SlotIn(m, lead) % Reps = Reps - 1 THEN EarlyLast ELSE Early)

\* The slots to wait at least, because of the watermark.
minimum_offset(m, p, current) ==
    LET ahead == m.watermark[p].num - (IF m.pending # None THEN 1 ELSE 0)
        later == m.watermark[p].time - current
    IN  Max({1} \cup (IF ahead > 0 THEN {ahead + 1} ELSE {})
                \cup (IF later > 0 THEN {(later \div 2) + 1} ELSE {}))

IndexOf(p) == CHOOSE i \in 1..Len(Schedule) : Schedule[i] = p

calculate_next_block_time(m, p, current) ==
    LET minimum  == current + 2 * minimum_offset(m, p, current)
        there    == SlotIn(m, minimum) \div Reps
        distance == (IndexOf(p) - 1 - there) % Len(Schedule)
    IN  IF distance = 0 THEN minimum
        ELSE minimum - 2 * (SlotIn(m, minimum) % Reps) + 2 * distance * Reps

\* Mutant of calculate_producer_wake_up_time: at the last block of the turn.
wake_up_late(m, current) ==
    LET S == {calculate_next_block_time(m, p, current) + 2 * (Reps - 1) : p \in Local \cap Range(Schedule)}
    IN  IF S = {} THEN None ELSE Min(S)

\* A full slot before the next block of the first of the local producers.
calculate_producer_wake_up_time(m, current) ==
    LET S == {calculate_next_block_time(m, p, current) - 2 : p \in Local \cap Range(Schedule)}
    IN  IF S = {} THEN None ELSE Min(S)

-----------------------------------------------------------------------------
(* Timers                                                                  *)

\* expires_at and async_wait with a new correlation number.
Arm(m, kind, lead) ==
    [m EXCEPT !.timer = [kind |-> kind, left |-> Positive(lead)],
              !.posted = {[kind |-> h.kind, fresh |-> FALSE, left |-> 0] : h \in @}]

schedule_delayed_production_loop(m, lead) == IF lead = None THEN m ELSE Arm(m, "loop", lead)

schedule_maybe_produce_block(m, exhausted) ==
    Arm(m, "produce", IF exhausted THEN 0 ELSE calculate_block_deadline(m, m.pending))

-----------------------------------------------------------------------------
(* schedule_production_loop                                                *)

barred(m, p, bt) == m.watermark[p].num > 0 \/ m.watermark[p].time >= bt

\* Mutant of chosen_mode: the watermark is not looked at.
chosen_mode_unmarked(m, bt) ==
    IF ~production_disabled_by_policy(m) /\ get_scheduled_producer(m, bt) \in Local
    THEN "producing" ELSE "speculating"

chosen_mode(m, bt) ==
    LET p == get_scheduled_producer(m, bt)
    IN  IF ~production_disabled_by_policy(m) /\ p \in Local /\ ~barred(m, p, bt)
        THEN "producing" ELSE "speculating"

\* The results of start_block: the plugin after it, and what it returns.
start_block(m) ==
    LET bt   == calculate_pending_block_time(m)
        mode == chosen_mode(m, bt)
        k    == [m EXCEPT !.mode = mode]
    IN  IF mode = "speculating" /\ m.head < -MaxHeadAge
        THEN {[n |-> k, result |-> "waiting_for_block"]}
        ELSE IF mode = "producing" /\ bt - 2 > 0
        THEN {[n |-> schedule_delayed_production_loop(k, calculate_producer_wake_up_time(k, bt - 2)),
               result |-> "waiting_for_production"]}
        ELSE IF mode = "speculating" /\ m.mode = "producing"
        THEN {[n |-> schedule_delayed_production_loop(k, bt - 2), result |-> "waiting_for_production"]}
        ELSE {[n |-> [k EXCEPT !.pending = bt], result |-> r] : r \in {"succeeded", "exhausted"}}
             \cup {[n |-> [k EXCEPT !.pending = None], result |-> "failed"]}

\* What schedule_production_loop does about a result.
Reacted(m, result) ==
    CASE result = "failed" -> Arm(m, "loop", 0)
      [] result = "waiting_for_block" ->
            IF Local # {} /\ ~production_disabled_by_policy(m)
            THEN schedule_delayed_production_loop(m,
                     calculate_producer_wake_up_time(m, calculate_pending_block_time(m)))
            ELSE m
      [] result = "waiting_for_production" -> m
      [] result \in {"succeeded", "exhausted"} ->
            IF m.mode = "producing" THEN schedule_maybe_produce_block(m, result = "exhausted")
            ELSE IF Local # {} /\ ~production_disabled_by_policy(m)
            THEN schedule_delayed_production_loop(m, calculate_producer_wake_up_time(m, m.pending))
            ELSE m

\* _timer.cancel() leaves a callback alone that is already posted.
Cancelled(m) == [m EXCEPT !.timer = None]

\* The plugins it can lead to; ok leaves out the failures.
schedule_production_loop(m, ok) ==
    {Reacted(x.n, x.result) : x \in {y \in start_block(Cancelled(m)) : ok => y.result # "failed"}}

\* plugin_startup, on a head that may be old.
Init ==
    /\ \E enabled \in BOOLEAN, head \in {TooOld, 0} :
          n \in schedule_production_loop(
                   [phase |-> 0, head |-> head, pending |-> None, mode |-> "speculating",
                    enabled |-> enabled, paused |-> FALSE, old_lib |-> FALSE,
                    watermark |-> [p \in Local |-> [num |-> 0, time |-> TooOld]],
                    timer |-> None, posted |-> {}, chip_armed |-> TRUE, chip_posted |-> 0], TRUE)
    /\ produced = FALSE
    /\ faults = 0

-----------------------------------------------------------------------------
(* Blocks.  The last argument says whether it fails.                       *)

\* abort_block, and on_block_header: the watermark of the producer, and all of them against the new head.
Headed(m, lead) ==
    LET p == get_scheduled_producer(m, lead)
    IN  [m EXCEPT !.head = lead, !.pending = None,
                  !.watermark = [q \in Local |->
                     [num  |-> Positive(@[q].num - 1),
                      time |-> IF q = p THEN Max({@[q].time, lead}) ELSE @[q].time]]]

\* produce_block asserts that it is producing and that there is a block.
produce_block(m) == IF m.mode = "producing" /\ m.pending # None THEN Headed(m, m.pending) ELSE m

\* Mutant of maybe_produce_block: the loop is not scheduled again after a failure.
maybe_produce_block_once(m, ok) ==
    IF ok THEN schedule_production_loop(produce_block(m), TRUE)
    ELSE {[m EXCEPT !.pending = None]}

maybe_produce_block(m, ok) ==
    schedule_production_loop([(IF ok THEN produce_block(m) ELSE m) EXCEPT !.pending = None], ok)

enables(lead) == lead + 2 >= 0

\* A block that extends the head, of a producer that is elsewhere; it may make a block
\* irreversible.
on_incoming_block(lead, lib) ==
    /\ n.mode # "producing"
    /\ lead > n.head
    /\ (n.phase + lead) % 2 = 0
    /\ get_scheduled_producer(n, lead) \notin Local
    /\ n' \in schedule_production_loop(
                [Headed(n, lead) EXCEPT !.enabled = @ \/ enables(lead), !.old_lib = @ /\ ~lib], TRUE)
    /\ UNCHANGED faults

\* A block that fails, or one that makes another branch the head: the watermarks may then
\* be ahead of the head.
on_incoming_fork ==
    /\ n.mode # "producing"
    /\ \/ n' \in schedule_production_loop([n EXCEPT !.pending = None], TRUE)
       \/ \E lead \in TooOld..0, num \in 0..MaxLead :
             /\ (n.phase + lead) % 2 = 0
             /\ n' \in schedule_production_loop(
                          [n EXCEPT !.head = lead, !.pending = None, !.enabled = @ \/ enables(lead),
                                    !.watermark = [p \in Local |-> [num |-> num, time |-> @[p].time]]], TRUE)
    /\ faults' = faults + 1

-----------------------------------------------------------------------------
(* API calls, and the policy on the age of the irreversible block          *)

pause == n' = [n EXCEPT !.paused = TRUE]

Rescheduled(m) ==
    IF m.mode = "speculating" THEN schedule_production_loop([m EXCEPT !.pending = None], TRUE) ELSE {m}

\* It schedules the chipcounter loop too.
resume ==
    n' \in Rescheduled([n EXCEPT !.paused = FALSE, !.chip_armed = @ \/ n.mode = "speculating"])

\* A new max_irreversible_block_age.
update_runtime_options == \E old \in BOOLEAN : n' \in Rescheduled([n EXCEPT !.old_lib = old])

\* get_integrity_hash and create_snapshot abort the block; without one nothing is scheduled.
write_snapshot ==
    /\ n.pending # None
    /\ n' \in schedule_production_loop([n EXCEPT !.pending = None], TRUE)

\* The irreversible block becomes too old.
lib_ages == n' = [n EXCEPT !.old_lib = TRUE]

\* The callbacks of the timer have priority high and run before API calls, which have
\* priority medium_high, and before transactions, which have priority low.
nothing_ready == n.posted = {}

Api ==
    /\ faults < MaxFaults
    /\ faults' = faults + 1
    /\ \/ nothing_ready /\ (pause \/ resume \/ update_runtime_options \/ write_snapshot)
       \/ lib_ages

-----------------------------------------------------------------------------
(* Time and callbacks                                                      *)

Due(m) == {h.left : h \in {x \in m.posted : x.fresh}} \cup (IF m.timer = None THEN {} ELSE {m.timer.left})

\* An incoming transaction does not fit and the block is full.  The timer is set to now
\* only once: the callback comes before the next transaction.
incoming_exhausts ==
    /\ n.mode = "producing"
    /\ n.pending # None
    /\ nothing_ready
    /\ \A left \in Due(n) : left > 0
    /\ n' = schedule_maybe_produce_block(n, TRUE)
    /\ UNCHANGED faults

Later(h) == [h EXCEPT !.left = IF h.fresh THEN @ - 1 ELSE @]

\* The application thread runs a callback before it is later than MaxLag.
Tick ==
    /\ \A left \in Due(n) : left > -MaxLag
    /\ n' = [n EXCEPT !.phase = (@ + 1) % Cycle,
                      !.head = Max({@ - 1, TooOld}),
                      !.pending = IF @ = None THEN None ELSE Max({@ - 1, TooOld}),
                      !.timer = IF @ = None THEN None ELSE [kind |-> @.kind, left |-> @.left - 1],
                      !.posted = {Later(h) : h \in @},
                      !.watermark = [p \in Local |-> [num |-> @[p].num, time |-> Max({@[p].time - 1, TooOld})]]]
    /\ UNCHANGED faults

\* The timer expires: from now on cancel() does not reach its callback.
Expire ==
    /\ n.timer # None
    /\ n.timer.left <= 0
    /\ n' = [n EXCEPT !.timer = None,
                      !.posted = @ \cup {[kind |-> n.timer.kind, fresh |-> TRUE, left |-> n.timer.left]}]
    /\ UNCHANGED faults

acts(h) == h.fresh

\* A callback.  A failure of start_block or produce_block is one of the faults.
Callback(h, ok) ==
    LET m == [n EXCEPT !.posted = @ \ {h}]
    IN  /\ h \in n.posted
        /\ ok \/ faults < MaxFaults
        /\ faults' = IF ok THEN faults ELSE faults + 1
        /\ IF ~acts(h) THEN n' = m
           ELSE IF h.kind = "produce" THEN n' \in maybe_produce_block(m, ok)
           ELSE n' \in schedule_production_loop(m, ok)

\* The chipcounter timer, without a correlation number.
ChipExpire ==
    /\ n.chip_armed
    /\ n.chip_posted < 2
    /\ n' = [n EXCEPT !.chip_armed = FALSE, !.chip_posted = @ + 1]
    /\ UNCHANGED faults

schedule_chipcounter_loop(m) == [m EXCEPT !.chip_armed = TRUE]

ChipCallback ==
    /\ n.chip_posted > 0
    /\ n' = schedule_chipcounter_loop([n EXCEPT !.chip_posted = @ - 1])
    /\ UNCHANGED faults

Callbacks == \E h \in n.posted, ok \in BOOLEAN : Callback(h, ok)

Next ==
    /\ \/ Tick
       \/ Expire
       \/ Callbacks
       \/ incoming_exhausts
       \/ \E lead \in TooOld..2, lib \in BOOLEAN : on_incoming_block(lead, lib)
       \/ faults < MaxFaults /\ on_incoming_fork
       \/ Api
       \/ ChipExpire
       \/ ChipCallback
    /\ produced' = (n'.head > n.head /\ n.mode = "producing")

Spec == Init /\ [][Next]_vars

\* The clock goes on, the reactor completes expired timers and the application thread
\* runs what is posted.
FairSpec ==
    /\ Spec
    /\ WF_vars(Tick /\ produced' = FALSE)
    /\ WF_vars(Expire /\ produced' = FALSE)
    /\ WF_vars(Callbacks /\ produced' = (n'.head > n.head /\ n.mode = "producing"))
    /\ WF_vars(ChipExpire /\ produced' = FALSE)
    /\ WF_vars(ChipCallback /\ produced' = FALSE)

-----------------------------------------------------------------------------

TypeOK ==
    /\ n.phase \in 0..(Cycle - 1)
    /\ n.head \in TooOld..2
    /\ n.pending \in {None} \cup TooOld..4
    /\ n.mode \in {"producing", "speculating"}
    /\ n.timer = None \/ n.timer.left \in -MaxLag..(2 * Cycle)
    /\ \A h \in n.posted : h.left \in -MaxLag..0
    /\ n.chip_posted \in 0..2

\* A callback of the production timer that is armed, or posted and still current.
Alive == n.timer # None \/ \E h \in n.posted : h.fresh

\* on_incoming_block drops every block while the mode is producing.  The node is never
\* left in that mode without a callback to come that ends it.
ProducingHasTimer == n.mode = "producing" => Alive

\* While the policy lets a node of a scheduled producer produce, a callback is to come,
\* whatever pauses, failures, switches of forks and late callbacks came before.
LoopIsAlive == Local \cap Range(Schedule) # {} /\ ~production_disabled_by_policy(n) => Alive

\* The block being built is later than the head.
PendingAfterHead == n.pending # None /\ n.head > TooOld => n.pending > n.head

\* "pending_block_state expected, but can't assert inside async_wait": when the callback
\* that produces a block passes the check of its number, there is a block to produce.
ProduceFindsBlock ==
    \A h \in n.posted : h.fresh /\ h.kind = "produce" => n.mode = "producing" /\ n.pending # None

\* While the policy lets the node produce, or its mode drops the blocks of others, a
\* callback of the production timer is to come; the callback that produces finds the
\* block it is for, which is later than the head.
LoopStaysAlive == LoopIsAlive /\ ProducingHasTimer /\ ProduceFindsBlock /\ PendingAfterHead

\* A block is produced in a slot of a local producer, not before the slot begins, and
\* after everything this producer signed before.
OwnSlots ==
    [][produced' => LET p == get_scheduled_producer(n', n'.head)
                    IN  /\ p \in Local
                        /\ n'.head <= 2
                        /\ n.watermark[p].num = 0
                        /\ n.watermark[p].time < n'.head]_vars

\* A node that may produce from some time on, and whose head is no longer below what its
\* producers signed, produces again and again, whatever the other producers do.
ProducesForever ==
    <>[](~production_disabled_by_policy(n) /\ \A p \in Local : n.watermark[p].num = 0) => []<>produced

\* The chipcounter loop never ends.
ChipcounterForever == []<>(n.chip_posted > 0)
=============================================================================
