-------------------------- MODULE ProducerSchedules -------------------------
(***************************************************************************)
(* How the producer schedule of a chain changes: one branch of blocks, the *)
(* global property object of the controller and the block being built on   *)
(* the head.  A contract proposes a schedule, sets the standby schedule or *)
(* switches to it inside a block; start_block moves a proposal on and the  *)
(* header state promotes it.  The producers are nodes that follow the      *)
(* branch and compute with their watermarks how many blocks they confirm.  *)
(***************************************************************************)
EXTENDS BlockHeaderState, ProducerWatermark

CONSTANTS Producers,
          Genesis,          \* the producer of the initial schedule
          Proposals,        \* schedules that a contract proposes
          Standby,          \* schedules that a contract sets as standby
          Online,           \* producers whose nodes run
          standby_delay,    \* blocks from switching to standby to its activation
          MaxGap,           \* bound: slots skipped between two blocks
          MaxBlocks,        \* bound: blocks of the branch
          MaxCalls,         \* bound: calls that change a schedule
          MaxRestarts,      \* bound: restarts of producers
          NoBlock           \* no block is being built

VARIABLES head,             \* header state of the head block
          gpo,              \* schedules in the global_property_object
          building,         \* the pending block of the controller
          watermark,        \* _producer_watermarks
          confirmers,       \* history: per block, the size of the schedule that signed
                            \* it and who confirmed it
          calls, restarts   \* bounded counters

vars == <<head, gpo, building, watermark, confirmers, calls, restarts>>

NoProducers == [version |-> 0, producers |-> << >>]

Init ==
    /\ head = genesis_state([version |-> 0, producers |-> <<Genesis>>])
    /\ gpo = [proposed_num |-> 0, proposed |-> NoProducers, standby |-> NoProducers,
              enable_standby |-> FALSE, standby_num |-> 0]
    /\ building = NoBlock
    /\ watermark = [p \in Producers |-> NoWatermark]
    /\ confirmers = << >>
    /\ calls = 0
    /\ restarts = 0

-----------------------------------------------------------------------------

\* Whether start_block promotes the proposed schedule to pending.
promotes_proposal(p) ==
    /\ gpo.proposed_num # 0
    /\ \/ gpo.proposed_num <= p.dpos_irr /\ p.prev_pending.producers = << >>
       \/ gpo.enable_standby /\ p.block_num = gpo.standby_num

\* The assert on the version of the promoted schedule.
can_start(p) ==
    promotes_proposal(p) =>
        gpo.enable_standby \/ gpo.proposed.version = p.active_schedule_version + 1

\* The standby schedule is active, so the switch to it is over.
standby_done(p) == gpo.enable_standby /\ p.active.version = gpo.standby.version

Started(p) ==
    LET g == IF promotes_proposal(p)
             THEN [gpo EXCEPT !.proposed_num = 0, !.proposed = NoProducers]
             ELSE gpo
    IN  [pbhs |-> p,
         new_producers |-> IF promotes_proposal(p) THEN gpo.proposed ELSE NoProducers,
         gpo |-> IF standby_done(p)
                 THEN [g EXCEPT !.enable_standby = FALSE, !.standby_num = 0]
                 ELSE g]

\* The slots the next block may take: those of running producers, at most MaxGap of
\* which are left unused.
Slots ==
    {when \in head.slot + 1 .. head.slot + MaxGap + 1 + Cardinality(Producers) :
        /\ get_scheduled_producer(head, when) \in Online
        /\ Cardinality({w \in head.slot + 1 .. when - 1 :
                           get_scheduled_producer(head, w) \in Online}) <= MaxGap}

\* The blocks that the producer of slot when confirms.
confirm_at(when) == blocks_to_confirm(watermark[get_scheduled_producer(head, when)], head)

start_block(when) ==
    LET p == next(head, when, confirm_at(when))
    IN  /\ building = NoBlock
        /\ head.block_num < MaxBlocks
        /\ can_next(head, when, confirm_at(when))
        /\ can_start(p)
        /\ building' = Started(p)
        /\ UNCHANGED <<head, gpo, watermark, confirmers, calls, restarts>>

-----------------------------------------------------------------------------

pending_producers ==
    IF building.new_producers.producers # << >> THEN building.new_producers
    ELSE building.pbhs.prev_pending

\* Mutant of proposal_version: a pending schedule is not looked at.
proposal_version_active(g, producers) ==
    LET current == building.pbhs.active
    IN  IF producers = << >> THEN -1
        ELSE IF g.proposed_num # 0 /\ g.proposed_num # building.pbhs.block_num THEN -2
        ELSE IF g.proposed_num # 0 /\ producers = g.proposed.producers THEN -3
        ELSE IF producers = current.producers THEN -1
        ELSE current.version + 1

\* What set_proposed_producers returns with the properties g; not positive when it
\* changes nothing.
proposal_version(g, producers) ==
    LET current == IF pending_producers.producers = << >> THEN building.pbhs.active
                   ELSE pending_producers
    IN  IF producers = << >> THEN -1
        ELSE IF g.proposed_num # 0 /\ g.proposed_num # building.pbhs.block_num THEN -2
        ELSE IF g.proposed_num # 0 /\ producers = g.proposed.producers THEN -3
        ELSE IF producers = current.producers THEN -1
        ELSE current.version + 1

WithProposal(g, producers) ==
    [g EXCEPT !.proposed_num = building.pbhs.block_num,
              !.proposed = [version |-> proposal_version(g, producers),
                            producers |-> producers]]

Called(g) ==
    /\ calls < MaxCalls
    /\ calls' = calls + 1
    /\ building' = [building EXCEPT !.gpo = g]
    /\ UNCHANGED <<head, gpo, watermark, confirmers, restarts>>

set_proposed_producers(producers) ==
    /\ building # NoBlock
    /\ proposal_version(building.gpo, producers) > 0
    /\ Called(WithProposal(building.gpo, producers))

set_standby_producers(producers) ==
    /\ building # NoBlock
    /\ Called([building.gpo EXCEPT !.standby = [version |-> 0, producers |-> producers]])

enable_standby_producers ==
    /\ building # NoBlock
    /\ ~building.gpo.enable_standby
    /\ LET g == [building.gpo EXCEPT !.enable_standby = TRUE,
                                     !.standby_num = head.block_num + standby_delay,
                                     !.proposed_num = 0]
           version == proposal_version(g, g.standby.producers)
       IN  /\ version > 0
           /\ Called([WithProposal(g, g.standby.producers) EXCEPT !.standby.version = version])

-----------------------------------------------------------------------------

\* The header that finalize_block makes of the pending block.
header ==
    [new_producers |-> building.new_producers,
     enable_standby |-> building.gpo.enable_standby,
     standby_num |-> building.gpo.standby_num]

\* The block and the confirm blocks before it are confirmed by its producer.
Confirmed(p) ==
    LET known == {n \in DOMAIN confirmers : n > p.dpos_proposed}
    IN  [n \in known \cup {p.block_num} |->
            LET old == IF n \in known THEN confirmers[n]
                       ELSE [size |-> Len(head.active.producers), by |-> {}]
            IN  IF n >= p.block_num - p.confirmed
                THEN [old EXCEPT !.by = @ \cup {p.producer}] ELSE old]

\* finalize_block, the signature and commit_block; the block becomes the head of the
\* fork database only if it is not less irreversible than its parent.  Otherwise
\* commit_block throws and aborts the block (abort_block; what it leaves in the fork
\* database is in Controller).
commit_block ==
    LET p == building.pbhs
    IN  /\ building # NoBlock
        /\ can_finish_next(p, header)
        /\ p.dpos_irr >= head.dpos_irr
        /\ head' = finish_next(p, header)
        /\ gpo' = building.gpo
        /\ building' = NoBlock
        /\ watermark' = [watermark EXCEPT
                            ![p.producer] = consider_new_watermark(@, p.block_num, p.slot)]
        /\ confirmers' = Confirmed(p)
        /\ UNCHANGED <<calls, restarts>>

abort_block ==
    /\ building # NoBlock
    /\ building' = NoBlock
    /\ UNCHANGED <<head, gpo, watermark, confirmers, calls, restarts>>

\* The node of a producer restarts: its watermark is not durable.
restart(p) ==
    /\ restarts < MaxRestarts
    /\ watermark[p] # NoWatermark
    /\ building = NoBlock
    /\ restarts' = restarts + 1
    /\ watermark' = [watermark EXCEPT ![p] = NoWatermark]
    /\ UNCHANGED <<head, gpo, building, confirmers, calls>>

Next ==
    \/ \E when \in Slots : start_block(when)
    \/ \E producers \in Proposals : set_proposed_producers(producers)
    \/ \E producers \in Standby : set_standby_producers(producers)
    \/ enable_standby_producers
    \/ commit_block
    \/ abort_block
    \/ \E p \in Producers : restart(p)

Spec == Init /\ [][Next]_vars
-----------------------------------------------------------------------------

Schedules == Proposals \cup Standby \cup {<<Genesis>>, << >>}

HasSchedule(x) == x.version \in Nat /\ x.producers \in Schedules

HasProperties(g) ==
    /\ HasSchedule(g.proposed) /\ HasSchedule(g.standby)
    /\ g.proposed_num \in 0 .. MaxBlocks
    /\ g.enable_standby \in BOOLEAN
    /\ g.standby_num \in 0 .. MaxBlocks + standby_delay

TypeOK ==
    /\ head.block_num \in 1 .. MaxBlocks
    /\ HasSchedule(head.active) /\ HasSchedule(head.pending)
    /\ head.active.producers # << >>
    /\ HasProperties(gpo)
    /\ building # NoBlock => HasProperties(building.gpo) /\ HasSchedule(building.new_producers)
    /\ \A p \in Producers : watermark[p].num <= head.block_num /\ watermark[p].slot <= head.slot
    /\ calls \in 0 .. MaxCalls
    /\ restarts \in 0 .. MaxRestarts

\* A node can always build the next block: the asserts on schedules, in start_block
\* and in _finish_next, hold of the header the node itself makes.
BlocksCanBeBuilt ==
    /\ building # NoBlock => can_finish_next(building.pbhs, header)
    /\ building = NoBlock =>
           \A when \in Slots :
               can_next(head, when, confirm_at(when)) =>
                   can_start(next(head, when, confirm_at(when)))

\* Where calc_dpos_last_irreversible looks in the sorted numbers of n producers.
Third(n) == (n - 1) \div 3

\* The size of the schedule that signed the head.
HeadSize == IF head.block_num \in DOMAIN confirmers THEN confirmers[head.block_num].size ELSE 1

\* A block built on the head becomes the new head of the fork database (the assert of
\* commit_block): the block number it makes irreversible is not below its parent's,
\* whatever schedules were promoted, unless the schedule has just shrunk across a
\* multiple of three and a producer that lags behind is no longer passed over.
CommitBecomesHead ==
    building # NoBlock /\ Third(Len(head.active.producers)) >= Third(HeadSize) =>
        building.pbhs.dpos_irr >= head.dpos_irr

\* A producer that computes its confirmations with its watermark, known or lost, is
\* never refused by the double-confirm assert of next(): neither after it left the
\* schedule and returned, nor after a restart.
NeverRefused ==
    building = NoBlock =>
        \A when \in Slots :
            can_next(head, when, confirm_at(when))

\* The counters of confirm_count count distinct producers: what is left of the number
\* required when the block was built is what different producers still have to confirm.
ConfirmsCounted ==
    \A i \in 1 .. Len(head.confirm_count) :
        LET n == head.block_num - (Len(head.confirm_count) - i)
        IN  head.confirm_count[i] = (confirmers[n].size * 2) \div 3 + 1
                                          - Cardinality(confirmers[n].by)

\* A version names one schedule: the active schedule changes only together with its
\* version, which never goes back.
VersionsName ==
    [][head'.active # head.active => head'.active.version > head.active.version]_vars

\* A proposal made in an earlier block can become pending: a switch to standby whose
\* block has passed is not waiting for a version that no schedule carries any more.
ProposalCanMove ==
    gpo.proposed_num # 0 /\ gpo.enable_standby /\ gpo.standby_num < head.block_num =>
        gpo.standby.version \in {gpo.proposed.version, head.pending.version, head.active.version}
=============================================================================
