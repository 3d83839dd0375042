------------------------------ MODULE MCPlugins -------------------------------
(***************************************************************************)
(* Plugins, for TLC, each in behaviours of its own.  A node synchronises   *)
(* in three networks: with one peer and every fault ("faults"), with two   *)
(* peers and none ("join"), and with one peer that does not answer or      *)
(* whose blocks are refused ("timer").  Signals of three blocks, of which  *)
(* two become irreversible, are written to a database ("mongo").  Two      *)
(* wallets are used ("wallets").                                           *)
(***************************************************************************)
EXTENDS Wallets, Sequences

VARIABLES world, top, head, sync, conn, peer, inbound, app, posted, faults,
          emitted, thread, queues, consumer, process, done, written

sync_vars == <<top, head, sync, conn, peer, inbound, app, posted, faults>>
mongo_vars == <<emitted, thread, queues, consumer, process, done, written>>
all == <<world, sync_vars, mongo_vars, vars>>

AllFaults == INSTANCE SyncManager WITH
    PeerList <- <<"p">>, NoPeer <- "none", Span <- 2, Lag <- 1, MaxRejected <- 1,
    StartTops <- {1, 2}, MaxTop <- 4, MaxFaults <- 1, Room <- 2,
    Faults <- {"stall", "timeout", "refuse", "disconnect"}

Join == INSTANCE SyncManager WITH
    PeerList <- <<"p", "q">>, NoPeer <- "none", Span <- 2, Lag <- 1, MaxRejected <- 1,
    StartTops <- {6}, MaxTop <- 6, MaxFaults <- 0, Room <- 2, Faults <- {}

Timer == INSTANCE SyncManager WITH
    PeerList <- <<"p">>, NoPeer <- "none", Span <- 2, Lag <- 1, MaxRejected <- 1,
    StartTops <- {6}, MaxTop <- 6, MaxFaults <- 3, Room <- 2, Faults <- {"stall", "refuse"}

\* What the controller emits for three blocks, with a transaction each.
Blocks(n) == <<[kind |-> "trace", num |-> n], [kind |-> "metadata", num |-> n], [kind |-> "block", num |-> n]>>
Irreversible(n) == <<[kind |-> "irreversible", num |-> n]>>

Mongo == INSTANCE MongoQueues WITH
    Signals <- Blocks(1) \o Blocks(2) \o Irreversible(1) \o Blocks(3) \o Irreversible(2),
    max_queue_size <- 0, app <- thread

MCInit ==
    /\ \/ world \in {"faults", "mongo", "wallets"} /\ AllFaults!Init
       \/ world = "join" /\ Join!Init
       \/ world = "timer" /\ Timer!Init
    /\ world \in {"mongo", "wallets"} => top = 1
    /\ Mongo!Init /\ Init

MCNext ==
    /\ UNCHANGED world
    /\ \/ world = "faults" /\ AllFaults!Next /\ UNCHANGED <<mongo_vars, vars>>
       \/ world = "join" /\ Join!Next /\ UNCHANGED <<mongo_vars, vars>>
       \/ world = "timer" /\ Timer!Next /\ UNCHANGED <<mongo_vars, vars>>
       \/ world = "mongo" /\ Mongo!Next /\ UNCHANGED <<sync_vars, vars>>
       \/ world = "wallets" /\ Next /\ UNCHANGED <<sync_vars, mongo_vars>>

In(w, A) == world = w /\ A /\ UNCHANGED <<world, mongo_vars, vars>>

\* The fairness of SyncManager, in the behaviours of each network.
JoinFairness ==
    /\ \A p \in {"p", "q"} : /\ WF_all(In("join", Join!recv_message(p) \/ Join!recv_block(p)))
                             /\ WF_all(In("join", Join!run_posted(p)))
                             /\ WF_all(In("join", Join!sync_timeout(p)))
                             /\ WF_all(In("join", Join!connect(p)))
                             /\ WF_all(In("join", Join!serve(p)))
    /\ WF_all(In("join", Join!process_signed_block))
    /\ WF_all(In("join", Join!grow))

TimerFairness ==
    /\ WF_all(In("timer", Timer!recv_message("p") \/ Timer!recv_block("p")))
    /\ WF_all(In("timer", Timer!run_posted("p")))
    /\ WF_all(In("timer", Timer!sync_timeout("p")))
    /\ WF_all(In("timer", Timer!connect("p")))
    /\ WF_all(In("timer", Timer!serve("p")))
    /\ WF_all(In("timer", Timer!process_signed_block))
    /\ WF_all(In("timer", Timer!grow))

\* Both threads of the mongo_db_plugin run.
MongoFairness ==
    /\ WF_all(world = "mongo" /\ Mongo!Application /\ UNCHANGED <<world, sync_vars, vars>>)
    /\ WF_all(world = "mongo" /\ Mongo!Consumer /\ UNCHANGED <<world, sync_vars, vars>>)

MCSpec == MCInit /\ [][MCNext]_all /\ JoinFairness /\ TimerFairness /\ MongoFairness

\* A chunk is requested from the first block on that the node lacks, or from an earlier
\* one: whatever is lost, refused, received twice or reassigned, sync_next_expected_num
\* skips no block, and the chunk ends at the last irreversible block the peer told.
NothingSkipped == AllFaults!NothingSkipped /\ (world = "faults" => AllFaults!TypeOK)

\* A node that joins gets all of the chain of its two peers: the chunks up to the last
\* irreversible block, then the blocks that its handshake makes them offer, when the
\* chain does not grow meanwhile.  A chunk that is not answered, or whose blocks get lost,
\* is requested again when the response timer runs out, so that the node reaches the last
\* irreversible block.  (What breaks both when blocks also arrive twice or the chain
\* grows is in section 5 of the README.)
CatchesUp == (world = "join" => Join!CatchesUp) /\ (world = "timer" => Timer!ReachesLib)

\* Every signal that the mongo_db_plugin queued is written, also when the program is shut
\* down while the consumer has a backlog or waits; and what it looks up when it writes a
\* record was written before: a block after the traces and the transactions it contains,
\* its irreversibility after the block; the records of a kind in the order of the signals.
AllWritten == world = "mongo" => []Mongo!InOrder /\ Mongo!AllWritten
=============================================================================
