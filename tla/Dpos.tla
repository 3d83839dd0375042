-------------------------------- MODULE Dpos --------------------------------
(***************************************************************************)
(* Block producers of one schedule that build on diverging branches.  Time *)
(* advances in slots; the producer of a slot may build one block on the    *)
(* head of its node, or miss the slot.  Blocks reach the other nodes at    *)
(* any later time or never.  A node moves its head to any branch that its  *)
(* fork database prefers and that contains its last irreversible block;    *)
(* where its head is matters, and is chosen, when the node produces.  A    *)
(* block is named by its slot.                                             *)
(***************************************************************************)
EXTENDS BlockHeaderState, ProducerWatermark

CONSTANTS Genesis,       \* the producer of the initial schedule
          Schedule,      \* the schedule the blocks are built under
          MaxSlots,      \* bound: slots
          MaxRestarts    \* bound: producers whose node restarts

ASSUME ScheduleAssumption ==
    /\ Schedule \in Seq(SetOf(Schedule)) /\ Schedule # << >>
    /\ Cardinality(SetOf(Schedule)) = Len(Schedule)

VARIABLES slot,          \* the current slot
          blocks,        \* all blocks built: [previous, producer, confirmed, state]
          head,          \* the last block each producer's node built, Start at first
          watermark,     \* _producer_watermarks of each node
          restarted      \* history: the producers whose node lost its watermark

vars == <<slot, blocks, head, watermark, restarted>>

Producers == SetOf(Schedule)

Plain == [new_producers |-> [version |-> 0, producers |-> << >>],
          enable_standby |-> FALSE, standby_num |-> 0]

\* The next block of the initial schedule, in the next slot.
Following(b, h) == finish_next(next(b, b.slot + 1, 0), h)

\* The block in which Schedule becomes active: Genesis built the blocks 2 and 3, the
\* second one with Schedule in its header, and 4, whose parent makes 3 irreversible.
Start ==
    LET gen == genesis_state([version |-> 0, producers |-> <<Genesis>>])
        b2  == Following(gen, Plain)
        b3  == Following(b2, [Plain EXCEPT !.new_producers = [version |-> 1,
                                                              producers |-> Schedule]])
    IN  Following(b3, Plain)

Init ==
    /\ slot = Start.slot
    /\ blocks = [s \in {Start.slot} |-> [previous |-> s, producer |-> Genesis,
                                         confirmed |-> 0, state |-> Start]]
    /\ head = [p \in Producers |-> Start.slot]
    /\ watermark = [p \in Producers |-> NoWatermark]
    /\ restarted = {}

state(s) == blocks[s].state

\* The block of number n on the branch of block s, Start for the blocks before it.
AncestorAt(s, n) ==
    LET at[x \in DOMAIN blocks] == IF state(x).block_num <= n \/ x = Start.slot
                                   THEN x ELSE at[blocks[x].previous]
    IN  at[s]

\* The last irreversible block of a node with head s, the root of its fork database.
Lib(s) == AncestorAt(s, state(s).dpos_irr)

preferred(x, y) ==
    \/ state(x).dpos_irr > state(y).dpos_irr
    \/ state(x).dpos_irr = state(y).dpos_irr /\ state(x).block_num > state(y).block_num

-----------------------------------------------------------------------------

\* The head of p's node may be s: it is the last head that mattered, or blocks up to s
\* reached the node since, which prefers them and has no other irreversible block.
may_be_head(p, s) ==
    \/ s = head[p]
    \/ /\ preferred(s, head[p])
       /\ AncestorAt(s, state(head[p]).dpos_irr) = Lib(head[p])

\* The producer of the next slot builds a block on the head s of its node.
produce_block(p, s) ==
    LET when == slot + 1
        h    == state(s)
        confirm == blocks_to_confirm(watermark[p], h)
        b == finish_next(next(h, when, confirm), Plain)
    IN  /\ slot < MaxSlots
        /\ p = get_scheduled_producer(h, when)
        /\ may_be_head(p, s)
        /\ may_produce(watermark[p], h, when)
        /\ can_next(h, when, confirm)
        /\ slot' = when
        /\ blocks' = [x \in DOMAIN blocks \cup {when} |->
                         IF x = when THEN [previous |-> s, producer |-> p,
                                           confirmed |-> confirm, state |-> b]
                         ELSE blocks[x]]
        /\ head' = [head EXCEPT ![p] = when]
        /\ watermark' = [watermark EXCEPT ![p] = consider_new_watermark(@, b.block_num, when)]
        /\ UNCHANGED restarted

miss_slot ==
    /\ slot < MaxSlots
    /\ slot' = slot + 1
    /\ UNCHANGED <<blocks, head, watermark, restarted>>

\* The node of p restarts: the head is durable, the watermark is not.
restart(p) ==
    /\ Cardinality(restarted) < MaxRestarts
    /\ watermark[p] # NoWatermark
    /\ watermark' = [watermark EXCEPT ![p] = NoWatermark]
    /\ restarted' = restarted \cup {p}
    /\ UNCHANGED <<slot, blocks, head>>

Next ==
    \/ \E p \in Producers, s \in DOMAIN blocks : produce_block(p, s)
    \/ miss_slot
    \/ \E p \in Producers : restart(p)

Spec == Init /\ [][Next]_vars

-----------------------------------------------------------------------------

TypeOK ==
    /\ slot \in Nat
    /\ DOMAIN blocks \subseteq 0 .. slot
    /\ head \in [Producers -> DOMAIN blocks]
    /\ \A s \in DOMAIN blocks :
           /\ blocks[s].previous \in DOMAIN blocks
           /\ blocks[s].producer \in Producers \cup {Genesis}
           /\ blocks[s].confirmed \in 0 .. state(s).block_num
           /\ state(s).dpos_irr <= state(s).dpos_proposed
           /\ Len(state(s).confirm_count) <= maximum_tracked_dpos_confirmations

\* No producer signs two blocks of the same number, on whatever branches its node was.
NoDoubleSign ==
    \A s, t \in DOMAIN blocks :
        blocks[s].producer = blocks[t].producer /\ s # t =>
            state(s).block_num # state(t).block_num

\* The numbers that two blocks of a producer confirm are disjoint: over all branches a
\* producer whose node did not restart confirms at most one block of each number.
ConfirmsOnce ==
    \A s, t \in DOMAIN blocks :
        blocks[s].producer = blocks[t].producer /\ s < t /\ blocks[s].producer \notin restarted =>
            state(s).block_num < state(t).block_num - blocks[t].confirmed

\* The block that block s proposes as irreversible.
Proposed(s) == AncestorAt(s, state(s).dpos_proposed)

\* Two branches never propose different blocks of the same number as irreversible:
\* each took more than two thirds of the producers, and fewer than one third, those
\* whose node restarted, may have confirmed both.
OneProposed ==
    3 * Cardinality(restarted) < Len(Schedule) =>
        LET proposed == {Proposed(s) : s \in DOMAIN blocks}
        IN  \A x, y \in proposed : state(x).block_num = state(y).block_num => x = y

\* Over all branches a producer whose node did not restart confirms at most one block of
\* each number; so no two branches propose different blocks of the same number as
\* irreversible, while the nodes of fewer than one third of the producers restarted.
ConfirmationsAgree == ConfirmsOnce /\ OneProposed
=============================================================================
