------------------------- MODULE TransactionQueues -------------------------
(***************************************************************************)
(* The life of a transaction in producer_plugin: key recovery on a thread, *)
(* the queue of incoming transactions, the block being built, and the      *)
(* unapplied_transaction_queue that holds what an abandoned block leaves   *)
(* behind.  Every handler ends by starting a block again, so a handler is  *)
(* given as the set of the nodes it can lead to.                           *)
(*                                                                         *)
(* A call is one request to accept a transaction, with its own callback;   *)
(* two calls may bring the same transaction.  Deferred transactions are    *)
(* left out.                                                               *)
(***************************************************************************)
EXTENDS Integers, SequencesExt

CONSTANTS Calls,          \* requests to accept a transaction
          Trx,            \* the transaction of a call
          Persist,        \* its persist_until_expired
          Expiry,         \* expiration of a transaction
          Size,           \* calc_size of a transaction
          MaxQueue,       \* max_incoming_transaction_queue_size
          ProcessMode,    \* mode of the unapplied_transaction_queue
          NoBlock,        \* no block is being built
          MaxTime         \* bound: block times

VARIABLES made,           \* calls made so far
          recovering,     \* calls whose keys are being recovered on the thread pool
          node            \* what the application thread owns

vars == <<made, recovering, node>>

Trxs == {Trx[c] : c \in Calls}

Modes == IF ProcessMode = "speculative_producer"
         THEN {"producing", "speculating"} ELSE {"speculating"}

\* What push_transaction says: the transaction does not fit, and the block is full or not.
Outcomes == {"applies", "fails", "full", "exhausted"}

Nothing == [t \in {} |-> "aborted"]

Init ==
    /\ made = {}
    /\ recovering = {}
    /\ node = [chain |-> <<[time |-> 0, trxs |-> {}]>>, pending |-> NoBlock,
               mode |-> "speculating", unapplied |-> Nothing, incoming |-> <<>>,
               bytes |-> 0, answers |-> [c \in Calls |-> <<>>], dropped |-> {}]

InBlocks(blocks) == UNION {blocks[i].trxs : i \in DOMAIN blocks}

Building(n) == n.pending # NoBlock

\* controller::is_known_unexpired_transaction
is_known(n, t) == t \in InBlocks(n.chain) \cup (IF Building(n) THEN n.pending.trxs ELSE {})

-----------------------------------------------------------------------------
(* unapplied_transaction_queue: a type for every transaction it holds.     *)

clear_applied(u, block) ==
    Restrict(u, {t \in DOMAIN u : t \in block.trxs => u[t] = "persisted"})

\* Inserting a transaction that is already there changes nothing.
add_forked(u, branch) ==
    IF ProcessMode # "speculative_producer" THEN u
    ELSE u @@ [t \in InBlocks(branch) |-> "forked"]

add_aborted(u, trxs) ==
    IF ProcessMode # "speculative_producer" THEN u
    ELSE u @@ [t \in trxs |-> "aborted"]

add_persisted(u, t) ==
    IF ProcessMode = "non_speculative" THEN u ELSE (t :> "persisted") @@ u

Erased(n, S) == [n EXCEPT !.unapplied = Restrict(@, DOMAIN @ \ S)]

\* clear_expired goes by expiry and may run out of time.
clear_expired(n) ==
    LET E == {t \in DOMAIN n.unapplied : Expiry[t] <= n.pending.time}
    IN  {[Erased(n, S) EXCEPT !.dropped = @ \cup S] :
            S \in {R \in SUBSET E : \A t \in R, u \in E : Expiry[u] < Expiry[t] => u \in R}}

none_expired(n) == \A t \in DOMAIN n.unapplied : Expiry[t] > n.pending.time

-----------------------------------------------------------------------------
(* incoming_transaction_queue and process_incoming_transaction_async       *)

send_response(n, c, ok) == [n EXCEPT !.answers[c] = Append(@, ok)]

\* Mutant of add: a full queue drops the transaction without an answer.
add_silent(n, c) ==
    IF n.bytes + Size[Trx[c]] < MaxQueue
    THEN [n EXCEPT !.bytes = @ + Size[Trx[c]], !.incoming = Append(@, c)]
    ELSE n

\* add_size throws when the queue is full, and the handler sends the exception.
add(n, c) ==
    IF n.bytes + Size[Trx[c]] < MaxQueue
    THEN [n EXCEPT !.bytes = @ + Size[Trx[c]], !.incoming = Append(@, c)]
    ELSE send_response(n, c, FALSE)

pop_front(n) ==
    [n EXCEPT !.bytes = @ - Size[Trx[Head(n.incoming)]], !.incoming = Tail(@)]

BlockTime(n) == IF Building(n) THEN n.pending.time ELSE Last(n.chain).time

\* Expired, or a duplicate.
refused(n, c) == Expiry[Trx[c]] < BlockTime(n) \/ is_known(n, Trx[c])

Applied(n, t) == [n EXCEPT !.pending.trxs = @ \cup {t}, !.dropped = @ \ {t}]

process_incoming_transaction_async(n, c, outcome) ==
    CASE refused(n, c) -> send_response(n, c, FALSE)
      [] ~refused(n, c) /\ (~Building(n) \/ outcome \in {"full", "exhausted"}) -> add(n, c)
      [] ~refused(n, c) /\ Building(n) /\ outcome = "fails" -> send_response(n, c, FALSE)
      [] ~refused(n, c) /\ Building(n) /\ outcome = "applies" ->
            LET m == Applied(n, Trx[c])
            IN  send_response(IF Persist[c] THEN [m EXCEPT !.unapplied = add_persisted(@, Trx[c])]
                                            ELSE m, c, TRUE)

\* When it returns false.
returns_false(n, c, outcome) == ~refused(n, c) /\ Building(n) /\ outcome = "exhausted"

-----------------------------------------------------------------------------
(* start_block                                                             *)

\* add_aborted(chain.abort_block())
abort_block(n) ==
    IF Building(n)
    THEN [n EXCEPT !.unapplied = add_aborted(@, n.pending.trxs), !.pending = NoBlock]
    ELSE n

\* The transactions process_unapplied_trxs goes through, persisted ones first.
Candidates(n) ==
    {t \in DOMAIN n.unapplied : n.mode = "producing" \/ n.unapplied[t] = "persisted"}

Rank(n, t) == IF n.unapplied[t] = "persisted" THEN 1 ELSE IF n.unapplied[t] = "forked" THEN 2 ELSE 3

\* The transactions of D are pushed before time or the block runs out: those of A apply,
\* those of B fail, and the others do not fit and stay.
process_unapplied_trxs(n, D) ==
    UNION {{[Erased(n, A \cup B) EXCEPT !.pending.trxs = @ \cup A, !.dropped = @ \cup B] :
               A \in SUBSET {t \in D \ B : ~is_known(n, t)}} :
           B \in {S \in SUBSET D : \A t \in D : is_known(n, t) => t \in S}}

ProcessedFirst(n) ==
    {D \in SUBSET Candidates(n) :
        \A t \in D, u \in Candidates(n) : Rank(n, u) < Rank(n, t) => u \in D}

\* One round of process_incoming_trxs: S holds nodes, and whether they go on.
IncomingRound(S, c) ==
    UNION {IF ~x.more THEN {x}
           ELSE {[x EXCEPT !.more = FALSE]} \cup
                {[node |-> process_incoming_transaction_async(pop_front(x.node), c, o),
                  more |-> ~returns_false(x.node, c, o)] : o \in Outcomes} : x \in S}

\* As many rounds as there are transactions at the start.
process_incoming_trxs(n) ==
    {x.node : x \in FoldLeft(IncomingRound, {[node |-> n, more |-> TRUE]}, n.incoming)}

\* From chain.start_block() on.
fill_block(n) ==
    UNION {IF ~none_expired(m) THEN {m}
           ELSE UNION {IF D # Candidates(m) THEN process_unapplied_trxs(m, D)
                       ELSE UNION {process_incoming_trxs(k) : k \in process_unapplied_trxs(m, D)} :
                       D \in ProcessedFirst(m)} : m \in clear_expired(n)}

\* It waits and leaves the block as it is, fails after abort_block(), or starts a block.
start_block(n) ==
    UNION {{[n EXCEPT !.mode = m], [abort_block(n) EXCEPT !.mode = m]} \cup
           UNION {fill_block([abort_block(n) EXCEPT !.mode = m,
                                 !.pending = [time |-> bt, trxs |-> {}]]) :
                  bt \in (Last(n.chain).time + 1)..MaxTime} : m \in Modes}

-----------------------------------------------------------------------------
(* Blocks                                                                  *)

\* commit_block or apply_block, with on_block of the accepted_block signal.
accepted_block(n, b) ==
    [n EXCEPT !.chain = Append(@, b), !.unapplied = clear_applied(@, b)]

accepted_blocks(n, branch) == FoldLeft(accepted_block, n, branch)

\* Blocks that can follow a chain, and branches of len of them.
Successors(blocks) ==
    UNION {{[time |-> bt, trxs |-> S] :
               S \in SUBSET {t \in Trxs \ InBlocks(blocks) : Expiry[t] >= bt}} :
           bt \in (Last(blocks).time + 1)..MaxTime}

BranchesOn(n, len) ==
    FoldLeft(LAMBDA S, i : UNION {{Append(br, b) : b \in Successors(n.chain \o br)} : br \in S},
             {<<>>}, [i \in 1..len |-> i])

Popped(n, k) == [n EXCEPT !.chain = SubSeq(@, 1, Len(@) - k)]

Tip(n, k) == SubSeq(n.chain, Len(n.chain) - k + 1, Len(n.chain))

\* Mutant of switched: the old branch is put back after the new one is applied.
switched_late(n, k, branch) ==
    LET m == accepted_blocks(Popped(n, k), branch)
    IN  [m EXCEPT !.unapplied = add_forked(@, Tip(n, k))]

\* maybe_switch_forks pops k blocks, calls forked_branch_cb and applies the new branch.
switched(n, k, branch) ==
    accepted_blocks([Popped(n, k) EXCEPT !.unapplied = add_forked(@, Tip(n, k))], branch)

\* A block after those of the new branch fails: they are popped, "discarding their
\* transactions", and the old branch is applied again.
switched_back(n, k, branch) ==
    LET m == switched(n, k, branch)
    IN  [accepted_blocks([Popped(n, k) EXCEPT !.unapplied = m.unapplied], Tip(n, k))
            EXCEPT !.dropped = @ \cup InBlocks(branch)]

\* The block extends the head, makes its branch the better one, or changes nothing
\* because it fails or its branch is not better.
push_block(n) ==
    {n} \cup {accepted_blocks(n, br) : br \in BranchesOn(n, 1)} \cup
    UNION {UNION {{switched(n, k, br), switched_back(n, k, SubSeq(br, 1, k))} :
                  br \in BranchesOn(Popped(n, k), k + 1)} : k \in 1..(Len(n.chain) - 1)}

-----------------------------------------------------------------------------
(* Handlers                                                                *)

on_incoming_transaction_async(c) ==
    /\ made' = made \cup {c}
    /\ recovering' = recovering \cup {c}
    /\ UNCHANGED node

\* The keys are recovered and the transaction is posted to the application thread.
\* Returning false only reschedules the timer.
process(c) ==
    /\ recovering' = recovering \ {c}
    /\ \E o \in Outcomes : node' = process_incoming_transaction_async(node, c, o)
    /\ UNCHANGED made

\* The timer, pause, resume, a snapshot, an integrity hash: a block is started again.
schedule_production_loop ==
    /\ node' \in start_block(node)
    /\ UNCHANGED <<made, recovering>>

\* Blocks are dropped while producing.
on_incoming_block ==
    /\ node.mode # "producing"
    /\ \E n \in push_block(abort_block(node)) : node' \in start_block(n)
    /\ UNCHANGED <<made, recovering>>

\* produce_block throws, or commits the block.
maybe_produce_block ==
    /\ node.mode = "producing"
    /\ Building(node)
    /\ \/ node' \in start_block(abort_block(node))
       \/ node' \in start_block(accepted_block([node EXCEPT !.pending = NoBlock], node.pending))
    /\ UNCHANGED <<made, recovering>>

Next ==
    \/ \E c \in Calls \ made : on_incoming_transaction_async(c)
    \/ \E c \in recovering : process(c)
    \/ schedule_production_loop
    \/ on_incoming_block
    \/ maybe_produce_block

Spec == Init /\ [][Next]_vars

-----------------------------------------------------------------------------

TypeOK ==
    /\ made \subseteq Calls
    /\ recovering \subseteq made
    /\ node.pending = NoBlock \/ node.pending \in [time : 1..MaxTime, trxs : SUBSET Trxs]
    /\ node.mode \in Modes
    /\ DOMAIN node.unapplied \subseteq Trxs
    /\ \A t \in DOMAIN node.unapplied : node.unapplied[t] \in {"persisted", "forked", "aborted"}
    /\ node.incoming \in Seq(Calls)
    /\ node.dropped \subseteq Trxs

\* Every call is answered exactly once: until then its keys are being recovered or it
\* waits in the incoming queue once, through any number of tries in blocks that are full.
AnsweredOnce ==
    \A c \in made :
        Len(node.answers[c]) + (IF c \in recovering THEN 1 ELSE 0)
            + Cardinality({i \in DOMAIN node.incoming : node.incoming[i] = c}) = 1

\* size_in_bytes is the size of what the incoming queue holds, and below its maximum.
SizeIsSum ==
    /\ node.bytes = FoldLeft(LAMBDA s, c : s + Size[Trx[c]], 0, node.incoming)
    /\ node.bytes < MaxQueue

\* The node of a producer does not lose a transaction it has accepted: it is in a block
\* of the chain, in the block being built or in the unapplied queue, unless it expired,
\* failed when it was tried again, or was in a branch that a failed switch popped.
AcceptedNotLost ==
    ProcessMode = "speculative_producer" =>
    \A c \in made : TRUE \in ToSet(node.answers[c]) =>
        \/ is_known(node, Trx[c])
        \/ Trx[c] \in DOMAIN node.unapplied \cup node.dropped

\* The block being built holds no transaction of the chain it is built on, and is later
\* than its head, whatever switch of forks came between.
PendingIsNew ==
    Building(node) => /\ node.pending.trxs \cap InBlocks(node.chain) = {}
                      /\ node.pending.time > Last(node.chain).time

\* The unapplied queue holds no transaction of the chain except persisted ones:
\* forked_branch_cb runs before the new branch is applied and on_block after it.
QueueIsNew ==
    \A t \in DOMAIN node.unapplied : t \in InBlocks(node.chain) => node.unapplied[t] = "persisted"

\* "ensure its applied to all future speculative blocks as well": a transaction accepted
\* with persist_until_expired stays persisted, or in the block being built, until it
\* expires, fails or is in a block of the chain.
\* The code does not keep this (README, section 5).
PersistedStays ==
    \A c \in made : Persist[c] /\ TRUE \in ToSet(node.answers[c]) =>
        \/ is_known(node, Trx[c])
        \/ Trx[c] \in node.dropped
        \/ Trx[c] \in DOMAIN node.unapplied /\ node.unapplied[Trx[c]] = "persisted"
=============================================================================
