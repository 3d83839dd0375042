------------------------------- MODULE MCLogs --------------------------------
(***************************************************************************)
(* The files of blocks and of their state history, for TLC.  A behaviour   *)
(* is one of the block log ("blocks"), of one that is longer than the      *)
(* buffer of its index writer ("long"), of the construction of its index   *)
(* ("index"), of a state history log ("history"), or of a session of the   *)
(* state history plugin ("session").                                       *)
(***************************************************************************)
EXTENDS HistorySession

VARIABLES world,
          blog, bindex, bmy, acked, bcrashes,
          slog, sindex, sflushed, smy, shead, scrashes, failures,
          log, lens, phase, iter, writer, file

block_vars   == <<blog, bindex, bmy, acked, bcrashes>>
history_vars == <<slog, sindex, sflushed, smy, shead, scrashes, failures>>
index_vars   == <<log, lens, phase, iter, writer, file>>

BlockFiles == INSTANCE BlockLog WITH
    log <- blog, index <- bindex, my <- bmy, crashes <- bcrashes, MaxNum <- 4, MaxCrashes <- 3,
    BufferLen <- 4

LongFiles == INSTANCE BlockLog WITH
    log <- blog, index <- bindex, my <- bmy, crashes <- bcrashes, MaxNum <- 4, MaxCrashes <- 3,
    BufferLen <- 2

\* A chain of three blocks and a branch that leaves it after the first, with payloads
\* of another length.
MCNoBlock == [num |-> 0, fork |-> 0]
MCBlocks == [num : 1 .. 3, fork : {0}] \cup [num : 2 .. 3, fork : {1}]
MCPrev(b) == IF b.num = 1 THEN MCNoBlock
             ELSE IF b.num = 2 THEN [num |-> 1, fork |-> 0] ELSE [b EXCEPT !.num = 2]
MCPayloadSize(b) == 1 - b.fork

History == INSTANCE StateHistoryLog WITH
    log <- slog, index <- sindex, flushed <- sflushed, my <- smy, head <- shead, crashes <- scrashes,
    Blocks <- MCBlocks, Prev <- MCPrev, NoBlock <- MCNoBlock, PayloadSize <- MCPayloadSize,
    MaxCrashes <- 3, MaxFailures <- 0

Index == INSTANCE LogIndex WITH
    Header <- 3, PosSize <- 2, Sizes <- {1, 4}, MaxBlocks <- 5,
    BufLens <- {3, 4, 7}, MaxLengths <- {1, 2, 3}, MaxEntries <- 8

\* The choices of an initial state are those of the world.
MCInit ==
    /\ world \in {"blocks", "long", "index", "history", "session"}
    /\ BlockFiles!Init /\ History!Init /\ Index!Init /\ Init
    /\ world # "index" => /\ log = [version |-> 1, sizes |-> <<1>>]
                          /\ lens = [buf_len |-> 3, max_length |-> 1]
    /\ world # "session" => view = <<>>

MCNext ==
    /\ \/ world = "blocks" /\ BlockFiles!Next /\ UNCHANGED <<vars, history_vars, index_vars>>
       \/ world = "long" /\ LongFiles!Next /\ UNCHANGED <<vars, history_vars, index_vars>>
       \/ world = "index" /\ Index!Next /\ UNCHANGED <<vars, block_vars, history_vars>>
       \/ world = "history" /\ History!Next /\ UNCHANGED <<vars, block_vars, index_vars>>
       \/ world = "session" /\ Next /\ UNCHANGED <<block_vars, history_vars, index_vars>>
    /\ UNCHANGED world

all == <<world, vars, block_vars, history_vars, index_vars>>

Indexing(A) == world = "index" /\ A /\ UNCHANGED <<world, vars, block_vars, history_vars>>
Serving(A) == world = "session" /\ A /\ UNCHANGED <<world, block_vars, history_vars, index_vars>>

\* The fairness of LogIndex and of HistorySession, in their worlds.
MCSpec ==
    /\ MCInit /\ [][MCNext]_all
    /\ WF_all(Indexing(Index!Next))
    /\ WF_all(Serving(written)) /\ WF_all(Serving(read))
    /\ WF_all(Serving(ask)) /\ WF_all(Serving(receive))

\* Whatever crash came in append(), reset() or construct_index() of the block log, no
\* block whose append() returned is lost, the log opens or can be repaired, the log of a
\* reset that did not come to its end is not taken for a log, and read_block_by_num()
\* finds exactly the blocks up to the head; but in a log longer than the buffer of
\* index_writer blocks further than a buffer below the head may be missing in the index.
\* A state history log can be opened again after any crash, and the index of a running
\* node leads to the complete entry of each block.  construct_index() of every
\* well-formed log reads only what is in its buffer, and has written the position of each
\* block when it ends.
LogsSurvive ==
    /\ world \in {"blocks", "long"} => /\ BlockFiles!NothingLost /\ BlockFiles!Recoverable
                                       /\ BlockFiles!NotHalfReset
    /\ world = "blocks" => BlockFiles!FindsBlocks
    /\ world = "long" => LongFiles!FindsBlocks
    /\ world = "history" => History!Reopens /\ History!FindsEntries
    /\ world = "index" => Index!ReadsInBuffer /\ Index!RightWhenWritten

\* Both pairs of files implement a log of blocks: what a log shows changes only by giving
\* up blocks at its end and by adding one that follows.
ImplementLogs == BlockFiles!Implements /\ History!Implements

\* When no more blocks come, a client that acknowledges what it receives ends with the
\* branch of the head, up to the end it asked for; and construct_index() of every
\* well-formed log comes to its end, with nothing it asserts refuted.
Delivers == /\ world = "session" => ClientCatchesUp
            /\ world = "index" => Index!Completes
=============================================================================
