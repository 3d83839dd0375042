-------------------------- MODULE BlockHeaderState --------------------------
(***************************************************************************)
(* eosio::chain::block_header_state: what a node derives from the headers  *)
(* of a branch.  next() computes the header state of the following block   *)
(* before its content is known, finish_next() completes it with the header *)
(* of the block.  Ids, signatures and merkle roots are left out.           *)
(*                                                                         *)
(* A schedule is a record [version, producers]; optional block numbers are *)
(* 0 when they are not set; the maps from producers to block numbers are   *)
(* functions on the producers they have an entry for.                      *)
(***************************************************************************)
EXTENDS Integers, Sequences, FiniteSets

CONSTANTS producer_repetitions,               \* slots a producer has in a row
          maximum_tracked_dpos_confirmations  \* length bound of confirm_count

ASSUME ConfigAssumption ==
    /\ producer_repetitions \in Nat \ {0}
    /\ maximum_tracked_dpos_confirmations \in Nat \ {0}

SetOf(s) == {s[i] : i \in 1 .. Len(s)}

get_scheduled_producer(b, slot) ==
    LET n == Len(b.active.producers)
    IN  b.active.producers[(slot % (n * producer_repetitions)) \div producer_repetitions + 1]

required_confs(b) == (Len(b.active.producers) * 2) \div 3 + 1

-----------------------------------------------------------------------------

\* The member of values (one per producer) that nth_element puts at index i, which
\* counts from 0.
nth_element(values, i) ==
    CHOOSE v \in {values[p] : p \in DOMAIN values} :
        /\ Cardinality({p \in DOMAIN values : values[p] < v}) <= i
        /\ i < Cardinality({p \in DOMAIN values : values[p] <= v})

calc_dpos_last_irreversible(b, p) ==
    LET irb == [q \in DOMAIN b.last_implied_irb |->
                   IF q = p THEN b.dpos_proposed ELSE b.last_implied_irb[q]]
    IN  IF irb = << >> THEN 0
        ELSE nth_element(irb, (Cardinality(DOMAIN irb) - 1) \div 3)

\* confirm_count with a counter for the new block; at the bound the oldest is dropped.
Grown(b) ==
    Append(IF Len(b.confirm_count) < maximum_tracked_dpos_confirmations
           THEN b.confirm_count ELSE Tail(b.confirm_count), required_confs(b))

\* The new block, which is last, and the confirm blocks before it.
Touched(size, confirm) == {i \in 1 .. size : i > size - (confirm + 1)}

\* The loop over confirm_count: the new block and the confirm blocks before it get a
\* confirmation each; the newest one that needs no more is proposed irreversible,
\* and it and all blocks before it are no longer tracked.
Confirm(b, confirm) ==
    LET count   == Grown(b)
        size    == Len(count)
        touched == Touched(size, confirm)
        zero    == {i \in touched : count[i] = 1}
    IN  IF zero = {}
        THEN [confirm_count |-> [i \in 1 .. size |-> IF i \in touched
                                                     THEN count[i] - 1 ELSE count[i]],
              dpos_proposed |-> b.dpos_proposed]
        ELSE LET last == CHOOSE i \in zero : \A j \in zero : j <= i
             IN  [confirm_count |-> [i \in 1 .. size - last |-> count[last + i] - 1],
                  dpos_proposed |-> b.block_num + 1 - (size - last)]

\* Whether next() replaces the active schedule by the pending one.
promotes(b, irr) ==
    /\ b.pending.producers # << >>
    /\ \/ irr >= b.pending.lib_num
       \/ b.enable_standby /\ b.standby_num # 0 /\ b.standby_num <= b.block_num

\* Mutant of Rebuilt: a new producer starts at 0.
RebuiltFromZero(map, S, default, p, value) ==
    [q \in S |-> IF q = p THEN value ELSE IF q \in DOMAIN map THEN map[q] ELSE 0]

\* A map for the producers in S: value for p, else the entry of the old map, else
\* the default.
Rebuilt(map, S, default, p, value) ==
    [q \in S |-> IF q = p THEN value ELSE IF q \in DOMAIN map THEN map[q] ELSE default]

\* The asserts of next(); confirm is not above the number of the block.
can_next(b, when, confirm) ==
    LET p == get_scheduled_producer(b, when)
    IN  /\ when > b.slot
        /\ p \in DOMAIN b.last_produced => b.last_produced[p] < b.block_num + 1 - confirm

next(b, when, confirm) ==
    LET p   == get_scheduled_producer(b, when)
        c   == Confirm(b, confirm)
        irr == calc_dpos_last_irreversible(b, p)
        promoted == promotes(b, irr)
        S == IF promoted THEN SetOf(b.pending.producers) ELSE DOMAIN b.last_implied_irb \cup {p}
        T == IF promoted THEN SetOf(b.pending.producers) ELSE DOMAIN b.last_produced
    IN  [block_num |-> b.block_num + 1, slot |-> when, producer |-> p, confirmed |-> confirm,
         active_schedule_version |-> b.active.version,
         confirm_count |-> c.confirm_count,
         dpos_proposed |-> c.dpos_proposed,
         dpos_irr      |-> irr,
         prev_pending  |-> b.pending,
         active |-> IF promoted THEN [version |-> b.pending.version,
                                      producers |-> b.pending.producers]
                    ELSE b.active,
         last_produced    |-> Rebuilt(b.last_produced, T \cup {p}, irr, p, b.block_num + 1),
         last_implied_irb |-> Rebuilt(b.last_implied_irb, S, irr, p, b.dpos_proposed),
         was_pending_promoted |-> promoted /\ ~b.enable_standby]

-----------------------------------------------------------------------------

\* The asserts of _finish_next() about a schedule in the header h; h.new_producers
\* has no producers when the header has none.
can_finish_next(p, h) ==
    h.new_producers.producers # << >> =>
        /\ ~p.was_pending_promoted
        /\ h.enable_standby \/ h.new_producers.version = p.active.version + 1
        /\ h.enable_standby \/ p.prev_pending.producers = << >>

NextPending(p, h) ==
    IF h.new_producers.producers # << >>
    THEN [version |-> h.new_producers.version, producers |-> h.new_producers.producers,
          lib_num |-> p.block_num]
    ELSE IF p.was_pending_promoted THEN [p.prev_pending EXCEPT !.producers = << >>]
    ELSE p.prev_pending

finish_next(p, h) ==
    [block_num |-> p.block_num, slot |-> p.slot,
     confirm_count |-> p.confirm_count, dpos_proposed |-> p.dpos_proposed,
     dpos_irr |-> p.dpos_irr, active |-> p.active, pending |-> NextPending(p, h),
     last_produced |-> p.last_produced, last_implied_irb |-> p.last_implied_irb,
     enable_standby |-> h.enable_standby, standby_num |-> h.standby_num]

\* The header state of the genesis block, whose pending schedule is the initial one.
genesis_state(sch) ==
    [block_num |-> 1, slot |-> 0,
     confirm_count |-> << >>, dpos_proposed |-> 0, dpos_irr |-> 0,
     active  |-> sch,
     pending |-> [version |-> sch.version, producers |-> sch.producers, lib_num |-> 0],
     last_produced |-> << >>, last_implied_irb |-> << >>,
     enable_standby |-> FALSE, standby_num |-> 0]
=============================================================================
