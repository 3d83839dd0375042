----------------------------- MODULE MCProducing -----------------------------
(***************************************************************************)
(* The producer plugin for TLC: a behaviour is one of its loop, with three *)
(* producers of which one is configured on the node (ProducerLoop), or one *)
(* of its queues (TransactionQueues), where three calls bring two          *)
(* transactions, the first one twice and once with persist_until_expired.  *)
(***************************************************************************)
EXTENDS ProducerLoop

MCSchedule == <<"p", "q", "r">>

VARIABLES world, made, recovering, node

queues == <<made, recovering, node>>

Queues == INSTANCE TransactionQueues WITH
    Calls <- 1..3, Trx <- <<1, 1, 2>>, Persist <- <<TRUE, FALSE, FALSE>>,
    Expiry <- <<3, 2>>, Size <- <<1, 2>>, MaxQueue <- 4, NoBlock <- None,
    ProcessMode <- "speculative_producer", MaxTime <- 3

MCInit ==
    /\ Init /\ Queues!Init
    /\ \/ world = "loop"
       \/ world = "queues" /\ ~n.enabled /\ n.head = 0

MCNext ==
    /\ \/ world = "loop" /\ Next /\ UNCHANGED queues
       \/ world = "queues" /\ Queues!Next /\ UNCHANGED vars
    /\ UNCHANGED world

all == <<world, vars, queues>>

\* The fairness of FairSpec, in the behaviours of the loop.
Looping(A) == world = "loop" /\ A /\ UNCHANGED <<world, queues>>

MCSpec ==
    /\ MCInit /\ [][MCNext]_all
    /\ WF_all(Looping(Tick /\ produced' = FALSE))
    /\ WF_all(Looping(Expire /\ produced' = FALSE))
    /\ WF_all(Looping(Callbacks /\ produced' = (n'.head > n.head /\ n.mode = "producing")))
    /\ WF_all(Looping(ChipExpire /\ produced' = FALSE))
    /\ WF_all(Looping(ChipCallback /\ produced' = FALSE))

\* Every call of on_incoming_transaction_async is answered exactly once, through any
\* number of tries in blocks that are full, and the bytes that bound the queue are the
\* ones of the transactions that wait in it.
AnsweredOnce == Queues!AnsweredOnce /\ Queues!SizeIsSum

\* A transaction that a producer's node accepted is in the chain, in the block being
\* built or in the unapplied queue until it expires or fails, and neither the block being
\* built nor the queue has it once more when the chain has it, whatever forks came between.
AcceptedNotLost == Queues!AcceptedNotLost /\ Queues!PendingIsNew /\ Queues!QueueIsNew

\* A node that may produce from some time on produces again and again, and the
\* chipcounter loop never ends.
LoopsForever == world = "loop" => ProducesForever /\ ChipcounterForever
=============================================================================
