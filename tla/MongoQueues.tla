----------------------------- MODULE MongoQueues ------------------------------
(***************************************************************************)
(* The queues between the application thread and the thread of the         *)
(* mongo_db_plugin that writes to the database: queue(), consume_blocks()  *)
(* and the destructor.  The signals of the controller are queued by kind;  *)
(* the consumer takes all four queues at once, and writes them one after   *)
(* the other.  The mutex is held from the test of the queues to the wait,  *)
(* but the destructor sets done without it.                                *)
(***************************************************************************)
EXTENDS Integers, SequencesExt

CONSTANTS Signals,         \* what the controller emits: [kind, num], in its order
          max_queue_size   \* a queue that is longer lets the application sleep

VARIABLES emitted,    \* the signals that were handed to queue()
          app,        \* where the application thread is
          queues,     \* the entries of each kind
          consumer,   \* where the consumer thread is
          process,    \* what it captured, by kind
          done,
          written     \* history: what was written to the database

vars == <<emitted, app, queues, consumer, process, done, written>>

\* Mistake: blocks are written before the traces of their transactions
KindsBlocksFirst == <<"block", "trace", "metadata", "irreversible">>

\* The order in which the kinds are written.
Kinds == <<"trace", "metadata", "block", "irreversible">>

Empty == [k \in {"trace", "metadata", "block", "irreversible"} |-> <<>>]

Init ==
    /\ emitted = 0 /\ app = "running" /\ done = FALSE
    /\ queues = Empty /\ process = Empty /\ written = <<>>
    /\ consumer = "start"

-----------------------------------------------------------------------------
(* The application thread.                                                 *)

\* A signal wakes the consumer if it waits, and is lost otherwise.
notify_one == consumer' = IF consumer = "waiting" THEN "start" ELSE consumer

\* The mutex is free: the consumer is not between its test and its wait.
unlocked == consumer # "deciding"

next_signal == Signals[emitted + 1]

add == queues' = [queues EXCEPT ![next_signal.kind] = Append(@, next_signal)]

\* queue(), up to the sleep when the queue is too long, or to the unlock.
queue ==
    /\ app = "running" /\ emitted < Len(Signals) /\ unlocked
    /\ \/ /\ Len(queues[next_signal.kind]) > max_queue_size
          /\ app' = "sleeping"
          /\ notify_one
          /\ UNCHANGED <<queues, emitted>>
       \/ /\ Len(queues[next_signal.kind]) <= max_queue_size
          /\ add /\ emitted' = emitted + 1
          /\ app' = "notifying"
          /\ UNCHANGED consumer
    /\ UNCHANGED <<process, done, written>>

\* It goes on after the sleep, however long the queue is.
wake_up ==
    /\ app = "sleeping" /\ unlocked
    /\ add /\ emitted' = emitted + 1
    /\ app' = "notifying"
    /\ UNCHANGED <<consumer, process, done, written>>

notified ==
    /\ app = "notifying"
    /\ notify_one /\ app' = "running"
    /\ UNCHANGED <<emitted, queues, process, done, written>>

\* plugin_shutdown() disconnects the signals; the destructor sets done,
shutdown ==
    /\ app = "running"
    /\ done' = TRUE /\ app' = "stopping"
    /\ UNCHANGED <<emitted, queues, consumer, process, written>>

\* notifies the consumer,
stop ==
    /\ app = "stopping"
    /\ notify_one /\ app' = "joining"
    /\ UNCHANGED <<emitted, queues, process, done, written>>

\* and waits for its end.
join ==
    /\ app = "joining" /\ consumer = "ended"
    /\ app' = "ended"
    /\ UNCHANGED <<emitted, queues, consumer, process, done, written>>

-----------------------------------------------------------------------------
(* The consumer thread.                                                    *)

nothing_queued == queues = Empty

\* With the mutex: the test of the queues and of done,
decide ==
    /\ consumer = "start"
    /\ nothing_queued /\ ~done
    /\ consumer' = "deciding"
    /\ UNCHANGED <<emitted, app, queues, process, done, written>>

\* the wait, which gives the mutex back,
wait ==
    /\ consumer = "deciding" /\ consumer' = "waiting"
    /\ UNCHANGED <<emitted, app, queues, process, done, written>>

\* or what is captured for processing.
capture ==
    /\ consumer = "start"
    /\ ~nothing_queued \/ done
    /\ process' = queues /\ queues' = Empty
    /\ consumer' = IF nothing_queued THEN "last round" ELSE "processing"
    /\ UNCHANGED <<emitted, app, done, written>>

\* One entry: the first of the first kind that is not written yet.
process_one ==
    LET left == SelectSeq(Kinds, LAMBDA k : process[k] # <<>>)
    IN  /\ consumer = "processing" /\ left # <<>>
        /\ written' = Append(written, Head(process[left[1]]))
        /\ process' = [process EXCEPT ![left[1]] = Tail(@)]
        /\ UNCHANGED <<emitted, app, queues, consumer, done>>

\* Mistake: the thread ends as soon as it is told to
next_round_or_end == IF done THEN "ended" ELSE "start"

\* After a round that found nothing, with done, the thread ends.
next_round == IF consumer = "last round" /\ done THEN "ended" ELSE "start"

round ==
    /\ consumer \in {"processing", "last round"} /\ process = Empty
    /\ consumer' = next_round
    /\ UNCHANGED <<emitted, app, queues, process, done, written>>

\* The wait may end by itself.
spurious ==
    /\ consumer = "waiting" /\ consumer' = "start"
    /\ UNCHANGED <<emitted, app, queues, process, done, written>>

Consumer == decide \/ wait \/ capture \/ process_one \/ round
Application == queue \/ wake_up \/ notified \/ stop \/ join

Next == Application \/ shutdown \/ Consumer \/ spurious

\* Both threads run; nobody need shut the program down, and no wait need end by itself.
Spec == Init /\ [][Next]_vars /\ WF_vars(Application) /\ WF_vars(Consumer)

-----------------------------------------------------------------------------
(* Properties.                                                             *)

Position(kind, num) == SelectInSeq(written, LAMBDA s : s.kind = kind /\ s.num = num)

\* What the writer of one record looks up was written before: a block after the traces
\* and the transactions it contains, and its irreversibility after the block; and the
\* records of a kind come in the order of the signals.
InOrder ==
    /\ \A i, j \in 1 .. Len(written) :
          written[i].kind = written[j].kind /\ i < j => written[i].num <= written[j].num
    /\ \A i \in 1 .. Len(written) :
          LET n == written[i].num
          IN  /\ written[i].kind = "block" => Position("trace", n) \in 1 .. i /\ Position("metadata", n) \in 1 .. i
              /\ written[i].kind = "irreversible" => Position("block", n) \in 1 .. i

\* Every signal that was queued is written, also when the program is shut down while the
\* consumer has a backlog or waits.
AllWritten == \A i \in 1 .. Len(Signals) : emitted >= i ~> \E j \in 1 .. Len(written) : written[j] = Signals[i]
=============================================================================
