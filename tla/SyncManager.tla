---------------------------- MODULE SyncManager -----------------------------
(***************************************************************************)
(* How a node of the peer-to-peer network catches up: the sync_manager of  *)
(* net_plugin with the handlers of a connection that drive it.             *)
(*                                                                         *)
(* One node is modelled in full.  Its peers have all blocks of one chain,  *)
(* which grows; they run the other side of the same code: they answer a    *)
(* handshake with a notice, serve the blocks that are requested one by one *)
(* and broadcast new ones.  A block is its number.  What the node sends is *)
(* answered at once, and what a peer sends waits in the connection.  A     *)
(* block then passes the queue of the main thread, which applies it, and   *)
(* the strand of its connection, which tells the sync manager.             *)
(***************************************************************************)
EXTENDS Integers, SequencesExt

CONSTANTS PeerList,     \* the connections, in the order of the set of connections
          NoPeer,
          Span,         \* sync_req_span
          Lag,          \* how far the last irreversible block is behind the head
          MaxRejected,  \* def_max_consecutive_rejected_blocks
          StartTops,    \* the height of the chain of the peers at first
          MaxTop,       \* bound: the height of the chain
          Faults,       \* of "disconnect", "stall", "timeout" and "refuse"
          MaxFaults,    \* bound: how many of them happen
          Room          \* bound: messages of one peer that are under way

VARIABLES top,          \* the height of the chain of the peers
          head,         \* the height of the node's chain
          sync,         \* known_lib, last_requested, next_expected, source and state
          conn,         \* of each peer: the connection at the node
          peer,         \* of each peer: its side of the connection
          inbound,      \* of each peer: what it sent
          app,          \* blocks posted to the main thread
          posted,       \* of each peer: results posted to the strand of its connection
          faults

vars == <<top, head, sync, conn, peer, inbound, app, posted, faults>>

Peers == ToSet(PeerList)

lib(h) == Max({1, h - Lag})

NoneServed == [last |-> 0, end |-> 0]

\* A connection when its socket is closed; the fork head survives.
closed(fh) ==
    [open |-> FALSE, connecting |-> FALSE, syncing |-> FALSE, sent |-> 0, lib |-> 0,
     fork_head |-> fh, rejected |-> 0, timer |-> FALSE]

away == [serving |-> NoneServed, syncing |-> FALSE, sent |-> 0]

Init ==
    /\ top \in StartTops
    /\ head = 1
    /\ sync = [known_lib |-> 0, last_requested |-> 0, next_expected |-> 1,
               source |-> NoPeer, state |-> "in_sync"]
    /\ conn = [p \in Peers |-> closed(0)]
    /\ peer = [p \in Peers |-> away]
    /\ inbound = [p \in Peers |-> <<>>]
    /\ app = <<>>
    /\ posted = [p \in Peers |-> <<>>]
    /\ faults = 0

\* What the handlers change, as one record.  A handler is an operator from such a record
\* to the set of the records it may lead to.
World == [sync |-> sync, conn |-> conn, peer |-> peer, inbound |-> inbound, head |-> head]

\* A handler after another one.
Then(S, Handler(_)) == UNION {Handler(w) : w \in S}

Becomes(S) == \E w \in S :
    /\ sync' = w.sync
    /\ conn' = w.conn
    /\ peer' = w.peer
    /\ inbound' = w.inbound
    /\ head' = w.head

current(w, p) == w.conn[p].open /\ ~w.conn[p].connecting /\ ~w.conn[p].syncing

-----------------------------------------------------------------------------
(* The other side of a connection.                                         *)

Message(type, num) == [type |-> type, num |-> num]

Sends(w, p, m) == [w EXCEPT !.inbound[p] = Append(@, m)]

\* send_handshake() at the peer, which sends only news.
peer_handshake(w, p) ==
    {IF w.peer[p].sent = top THEN w
     ELSE [Sends(w, p, Message("handshake", top)) EXCEPT !.peer[p].sent = top]}

\* recv_handshake() at the peer of a node with head h.
answer_handshake(w, p, h) ==
    {CASE h = top -> [w EXCEPT !.peer[p].syncing = FALSE]
       [] lib(top) > h -> [Sends(w, p, Message("last_irr_catch_up", lib(top)))
                           EXCEPT !.peer[p].syncing = TRUE]
       [] OTHER -> [Sends(w, p, Message("catch_up", top)) EXCEPT !.peer[p].syncing = FALSE]}

\* The answer to the first handshake is followed by one.
answer_first(w, p, h) == Then(answer_handshake(w, p, h), LAMBDA x : peer_handshake(x, p))

\* blk_send_branch() and blk_send_branch_impl() for a node with head h.
answer_catch_up(w, p, h) ==
    LET end == Max({w.peer[p].serving.end, top})
    IN  {[w EXCEPT !.peer[p].serving = IF h < end THEN [last |-> h, end |-> end] ELSE NoneServed]}

\* sync_request_message, and the empty one.
answer_request(w, p, start, end) ==
    {[w EXCEPT !.peer[p].serving = [last |-> start - 1, end |-> end]]}

answer_cancel(w, p) == {[w EXCEPT !.peer[p].serving = NoneServed]}

-----------------------------------------------------------------------------
(* send_handshake, request_next_chunk, start_sync                          *)

send_handshake(w, p, force) ==
    IF w.conn[p].open /\ (force \/ w.conn[p].sent # w.head)
    THEN answer_handshake([w EXCEPT !.conn[p].sent = w.head], p, w.head)
    ELSE {w}

send_handshakes(w) ==
    FoldLeft(LAMBDA S, p : Then(S, LAMBDA x : IF current(x, p) THEN send_handshake(x, p, FALSE)
                                              ELSE {x}),
             {w}, PeerList)

\* The connections from the one after the source, round robin; all of them if there
\* is no source.
ring(source) ==
    LET n == Len(PeerList)
        k == IF source = NoPeer THEN 0 ELSE CHOOSE i \in 1 .. n : PeerList[i] = source
    IN  [i \in 1 .. n |-> PeerList[((k + i - 1) % n) + 1]]

next_source(w) ==
    LET s == w.sync.source
        ready == SelectSeq(ring(s), LAMBDA p : current(w, p))
    IN  IF Len(PeerList) = 1 THEN PeerList[1]
        ELSE IF ready = <<>> THEN s ELSE Head(ready)

busy(w) ==
    /\ w.head < w.sync.last_requested
    /\ w.sync.source # NoPeer /\ current(w, w.sync.source)

\* No connection is current.
give_up(w) ==
    {[w EXCEPT !.sync.known_lib = lib(w.head), !.sync.last_requested = 0,
               !.sync.state = "in_sync"]}

\* Mutant: what is requested is no longer expected.
request_from_ahead(w, p) ==
    LET start == w.sync.next_expected
        end   == Min({start + Span - 1, w.sync.known_lib})
    IN  IF w.sync.last_requested # w.sync.known_lib /\ end >= start
        THEN answer_request([w EXCEPT !.sync.last_requested = end, !.conn[p].timer = TRUE,
                                      !.sync.next_expected = end + 1], p, start, end)
        ELSE send_handshake(w, p, FALSE)

\* request_sync_blocks starts the response timer.
request_from(w, p) ==
    LET start == w.sync.next_expected
        end   == Min({start + Span - 1, w.sync.known_lib})
    IN  IF w.sync.last_requested # w.sync.known_lib /\ end >= start
        THEN answer_request([w EXCEPT !.sync.last_requested = end, !.conn[p].timer = TRUE],
                            p, start, end)
        ELSE send_handshake(w, p, FALSE)

request_next_chunk(w, hint) ==
    IF busy(w) THEN {w}
    ELSE Then({[w EXCEPT !.sync.source = IF hint # NoPeer /\ current(w, hint) THEN hint
                                         ELSE next_source(w)]},
              LAMBDA x : IF x.sync.source # NoPeer /\ current(x, x.sync.source)
                         THEN request_from(x, x.sync.source) ELSE give_up(x))

is_sync_required(w) ==
    \/ w.sync.last_requested < w.sync.known_lib
    \/ w.head < w.sync.last_requested

catch_up_with_lib(w, p) ==
    request_next_chunk([w EXCEPT !.sync.state = IF @ = "in_sync" THEN "lib_catchup" ELSE @,
                                 !.sync.next_expected = Max({lib(w.head) + 1, @})], p)

start_sync(w, p, target) ==
    Then({[w EXCEPT !.sync.known_lib = Max({@, target})]},
         LAMBDA x : IF is_sync_required(x) /\ target > lib(x.head)
                    THEN catch_up_with_lib(x, p) ELSE {x})

\* Mutant: the chunk still counts as requested.
reassign_requested(w) == request_next_chunk(w, NoPeer)

\* The chunk is requested from another connection.
reassign(w) == request_next_chunk([w EXCEPT !.sync.last_requested = 0], NoPeer)

sync_reset_lib_num(w, p) ==
    Then({[w EXCEPT !.sync.source = IF w.sync.state = "in_sync" THEN NoPeer ELSE @]},
         LAMBDA x : IF current(x, p)
                    THEN {[x EXCEPT !.sync.known_lib = Max({@, x.conn[p].lib})]}
                    ELSE IF x.sync.source = p THEN reassign(x) ELSE {x})

-----------------------------------------------------------------------------
(* Messages of a peer.                                                     *)

catching_up_from(w, num) == \E p \in Peers : w.conn[p].fork_head >= num

\* Somebody serves this block or a later one already: the request with mode none ends
\* the peer's syncing.
verify_catchup(w, p, num) ==
    IF catching_up_from(w, num)
    THEN {[w EXCEPT !.conn[p].fork_head = 0, !.peer[p].syncing = FALSE]}
    ELSE IF w.sync.state = "lib_catchup" \/ num < lib(w.head) THEN {w}
    ELSE answer_catch_up([w EXCEPT !.sync.state = "head_catchup", !.conn[p].fork_head = num],
                         p, w.head)

\* The cases of recv_handshake for a peer with head num.
compare_chains(w, p, num) ==
    LET Syncing(b) == [w EXCEPT !.conn[p].syncing = b]
    IN  CASE w.head = num -> {Syncing(FALSE)}
          [] w.head < lib(num) -> {Syncing(FALSE)}
          [] lib(w.head) > num -> {Syncing(TRUE)}
          [] w.head < num -> verify_catchup(Syncing(FALSE), p, num)
          [] OTHER -> peer_handshake(Syncing(FALSE), p)

Heard(w, p, irr) == [w EXCEPT !.conn[p].lib = irr, !.conn[p].connecting = FALSE]

recv_handshake(w, p, num) ==
    Then(sync_reset_lib_num(Heard(w, p, lib(num)), p), LAMBDA x : compare_chains(x, p, num))

last_irr_catch_up(w, p, num) ==
    Then(sync_reset_lib_num(Heard(w, p, num), p), LAMBDA x : start_sync(x, p, num))

\* A block that the node has may have expired from the dispatcher.
catch_up(w, p, num) ==
    Then({[w EXCEPT !.conn[p].connecting = FALSE]},
         LAMBDA x : verify_catchup(x, p, num) \cup
                        IF num <= x.head THEN send_handshake(x, p, FALSE) ELSE {})

-----------------------------------------------------------------------------
(* What the strand of a connection does with a block.                      *)

NoWait(S, p) == {[w EXCEPT !.conn[p].timer = FALSE] : w \in S}

\* _close(): the socket, then the sync manager, then the timer.
close(w, p) ==
    NoWait(sync_reset_lib_num([w EXCEPT !.conn[p] = closed(@.fork_head), !.peer[p] = away,
                                        !.inbound[p] = <<>>], p), p)

sync_update_expected(w, num, applied) ==
    {IF num <= w.sync.last_requested /\ (num = w.sync.next_expected \/ applied)
     THEN [w EXCEPT !.sync.next_expected = num + 1] ELSE w}

\* Mutant: nobody is told.
in_sync_silently(w) == {[w EXCEPT !.sync.state = "in_sync"]}

in_sync(w) == send_handshakes([w EXCEPT !.sync.state = "in_sync"])

\* The loop over the connections: a fork head that is reached clears the one of p, the
\* connection that the block came from.
forget_fork_heads(w, p, num) ==
    FoldLeft(LAMBDA s, q :
                LET fh == s.conn[q].fork_head
                IN  IF fh = 0 THEN s
                    ELSE IF fh <= num THEN [s EXCEPT !.conn[p].fork_head = 0]
                    ELSE [s EXCEPT !.more = TRUE],
             [conn |-> w.conn, more |-> FALSE], PeerList)

recv_in_head_catchup(w, p, num) ==
    Then({forget_fork_heads(w, p, num)},
         LAMBDA s : Then({[w EXCEPT !.conn = s.conn, !.sync.source = NoPeer]},
                         LAMBDA x : IF s.more THEN {x} ELSE in_sync(x)))

ends_chunk(w, num) ==
    w.sync.state = "lib_catchup" /\ num # w.sync.known_lib /\ num = w.sync.last_requested

recv_in_lib_catchup(w, p, num) ==
    IF num = w.sync.known_lib THEN in_sync(w)
    ELSE IF ends_chunk(w, num) THEN request_next_chunk(w, NoPeer)
    ELSE {[w EXCEPT !.conn[p].timer = TRUE]}

sync_recv_block(w, p, num, applied) ==
    Then(sync_update_expected([w EXCEPT !.conn[p].rejected = 0], num, applied),
         LAMBDA x : CASE x.sync.state = "head_catchup" -> recv_in_head_catchup(x, p, num)
                      [] x.sync.state = "lib_catchup" -> recv_in_lib_catchup(x, p, num)
                      [] OTHER -> {x})

\* The dispatcher knows the block: the wait that sync_recv_block starts is cancelled, but
\* a request for the next chunk is posted, and its wait starts after this.
already_received(w, p, num) ==
    IF ends_chunk(w, num) THEN Then(NoWait({w}, p), LAMBDA x : sync_recv_block(x, p, num, FALSE))
    ELSE NoWait(sync_recv_block(w, p, num, FALSE), p)

\* Blocks below the last irreversible block that nobody asked for.
is_old(w, num) == w.sync.state # "lib_catchup" /\ num < lib(w.head)

old_block(w, p, num) ==
    IF num < lib(w.conn[p].sent) THEN close(w, p)
    ELSE NoWait(Then(answer_cancel(w, p), LAMBDA x : send_handshake(x, p, FALSE)), p)

rejected_block(w, p) ==
    Then({[w EXCEPT !.conn[p].rejected = @ + 1]},
         LAMBDA x : IF x.conn[p].rejected > MaxRejected
                    THEN close([x EXCEPT !.sync.last_requested = 0, !.sync.source = NoPeer], p)
                    ELSE send_handshake(x, p, TRUE))

-----------------------------------------------------------------------------
(* Actions.                                                                *)

Received(p) == [World EXCEPT !.inbound[p] = Tail(@)]

Arrives(p, type) == inbound[p] # <<>> /\ Head(inbound[p]).type = type

num_of(p) == Head(inbound[p]).num

recv_message(p) ==
    /\ \/ Arrives(p, "handshake") /\ Becomes(recv_handshake(Received(p), p, num_of(p)))
       \/ /\ Arrives(p, "last_irr_catch_up")
          /\ Becomes(last_irr_catch_up(Received(p), p, num_of(p)))
       \/ /\ Arrives(p, "catch_up")
          /\ Becomes(catch_up(Received(p), p, num_of(p)))
    /\ UNCHANGED <<top, app, posted, faults>>

\* process_next_message of a block: the dispatcher knows it, it is too old, or it goes
\* to the main thread.
recv_block(p) ==
    /\ Arrives(p, "block")
    /\ \/ /\ num_of(p) <= head
          /\ Becomes(already_received(Received(p), p, num_of(p)))
          /\ UNCHANGED app
       \/ /\ is_old(World, num_of(p))
          /\ Becomes(old_block(Received(p), p, num_of(p)))
          /\ UNCHANGED app
       \/ /\ ~is_old(World, num_of(p))
          /\ app' = Append(app, [from |-> p, num |-> num_of(p)])
          /\ Becomes({Received(p)})
    /\ UNCHANGED <<top, posted, faults>>

Result(num) ==
    IF num <= head THEN "known" ELSE IF num = head + 1 THEN "applied" ELSE "rejected"

\* process_signed_block, on the main thread.
process_signed_block ==
    /\ app # <<>>
    /\ LET b == Head(app)
       IN  IF conn[b.from].open
           THEN /\ posted' = [posted EXCEPT ![b.from] =
                                 Append(@, [num |-> b.num, result |-> Result(b.num)])]
                /\ head' = IF Result(b.num) = "applied" THEN b.num ELSE head
           ELSE UNCHANGED <<posted, head>>
    /\ app' = Tail(app)
    /\ UNCHANGED <<top, sync, conn, peer, inbound, faults>>

\* What process_signed_block posted to the strand; an applied block cancels the wait.
run_posted(p) ==
    /\ posted[p] # <<>>
    /\ LET t == Head(posted[p])
       IN  Becomes(CASE t.result = "known" -> sync_recv_block(World, p, t.num, FALSE)
                     [] t.result = "applied" ->
                            Then(NoWait({World}, p), LAMBDA w : sync_recv_block(w, p, t.num, TRUE))
                     [] t.result = "rejected" -> rejected_block(World, p))
    /\ posted' = [posted EXCEPT ![p] = Tail(@)]
    /\ UNCHANGED <<top, app, faults>>

under_way(p) ==
    \/ inbound[p] # <<>> \/ posted[p] # <<>> \/ peer[p].serving # NoneServed
    \/ \E i \in DOMAIN app : app[i].from = p

Fault(kind) ==
    /\ kind \in Faults
    /\ faults < MaxFaults
    /\ faults' = faults + 1

\* sync_timeout and sync_reassign_fetch.  The timer is long: it runs out when nothing is
\* under way, or early.
sync_timeout(p) ==
    /\ conn[p].timer
    /\ \/ ~under_way(p) /\ UNCHANGED faults
       \/ under_way(p) /\ Fault("timeout")
    /\ Becomes(Then(NoWait({World}, p),
                    LAMBDA w : IF sync.source = p THEN Then(answer_cancel(w, p), reassign)
                               ELSE {w}))
    /\ UNCHANGED <<top, app, posted>>

\* connection_monitor, resolve_and_connect, connect and start_session.
connect(p) ==
    /\ ~conn[p].open
    /\ Becomes(answer_first([World EXCEPT !.conn[p].open = TRUE, !.conn[p].connecting = TRUE,
                                          !.conn[p].sent = head], p, head))
    /\ UNCHANGED <<top, app, posted, faults>>

\* enqueue_sync_block at the peer.
serve(p) ==
    LET s == peer[p].serving
    IN  /\ s # NoneServed
        /\ Len(inbound[p]) < Room
        /\ Becomes({[Sends(World, p, Message("block", s.last + 1))
                     EXCEPT !.peer[p].serving = IF s.last + 1 = s.end THEN NoneServed
                                                ELSE [s EXCEPT !.last = @ + 1]]})
        /\ UNCHANGED <<top, app, posted, faults>>

\* A new block, which the peers broadcast where they are not syncing.
grow ==
    /\ top < MaxTop
    /\ \A p \in Peers : Len(inbound[p]) < Room
    /\ top' = top + 1
    /\ inbound' = [p \in Peers |-> IF conn[p].open /\ ~peer[p].syncing
                                   THEN Append(inbound[p], Message("block", top + 1))
                                   ELSE inbound[p]]
    /\ UNCHANGED <<head, sync, conn, peer, app, posted, faults>>

disconnect(p) ==
    /\ Fault("disconnect")
    /\ conn[p].open
    /\ Becomes(close(World, p))
    /\ UNCHANGED <<top, app, posted>>

\* The peer stops serving.
stall(p) ==
    /\ Fault("stall")
    /\ peer[p].serving # NoneServed
    /\ Becomes(answer_cancel(World, p))
    /\ UNCHANGED <<top, app, posted>>

\* accept_block() returns false while a block is being produced.
refuse_block ==
    /\ Fault("refuse")
    /\ app # <<>>
    /\ app' = Tail(app)
    /\ UNCHANGED <<top, head, sync, conn, peer, inbound, posted>>

Next ==
    \/ \E p \in Peers : \/ recv_message(p) \/ recv_block(p) \/ run_posted(p)
                        \/ sync_timeout(p) \/ connect(p) \/ serve(p)
                        \/ disconnect(p) \/ stall(p)
    \/ process_signed_block
    \/ grow
    \/ refuse_block

Fairness ==
    /\ \A p \in Peers : /\ WF_vars(recv_message(p) \/ recv_block(p))
                        /\ WF_vars(run_posted(p))
                        /\ WF_vars(sync_timeout(p))
                        /\ WF_vars(connect(p))
                        /\ WF_vars(serve(p))
    /\ WF_vars(process_signed_block)
    /\ WF_vars(grow)

Spec == Init /\ [][Next]_vars /\ Fairness

-----------------------------------------------------------------------------
(* Properties.                                                             *)

\* The numbers of the sync manager stay within the chain, and it never asks for more
\* than the last irreversible block that a peer told it.
TypeOK ==
    /\ head \in 1 .. top
    /\ sync.source \in Peers \cup {NoPeer}
    /\ sync.state \in {"in_sync", "lib_catchup", "head_catchup"}
    /\ sync.known_lib \in 0 .. lib(top)
    /\ sync.last_requested \in 0 .. sync.known_lib
    /\ sync.next_expected \in 1 .. MaxTop
    /\ faults \in 0 .. MaxFaults

\* A chunk is requested from the first block on that the node lacks, or from an earlier
\* one: whatever is lost, refused, received twice or reassigned, sync_next_expected_num
\* skips no block.
NothingSkipped == sync.next_expected <= head + 1

\* A node that joins gets all of the chain of its peers: the chunks up to the last
\* irreversible block, then the blocks that its handshake makes them offer.
CatchesUp == <>[](head = top)

\* A chunk that is not answered, or whose blocks get lost, is requested again when the
\* response timer runs out, so that the node reaches the last irreversible block.
ReachesLib == <>[](head >= lib(top))
=============================================================================
