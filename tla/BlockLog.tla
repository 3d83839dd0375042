------------------------------ MODULE BlockLog ------------------------------
(***************************************************************************)
(* The log of irreversible blocks: blocks.log and blocks.index on disk,    *)
(* and the block_log object of a running node.                             *)
(*                                                                         *)
(* A block is its number.  blocks.log is a header and a sequence of cells: *)
(* the separator npos, then each block followed by the position of the     *)
(* block.  A position is the number of a cell.  A crash may cut off the    *)
(* last write to each file; what was flushed before stays.                 *)
(***************************************************************************)
EXTENDS Integers, SequencesExt

CONSTANTS MaxNum,       \* bound: the blocks of the chain are 1 .. MaxNum
          MaxCrashes,   \* bound: how often the node crashes
          BufferLen     \* index_writer::_max_buffer_length, 2^19 entries in the code

VARIABLES log,        \* blocks.log
          index,      \* blocks.index
          my,         \* the object: running, head, first_block_num, genesis_written
          acked,      \* the blocks whose append() returned, since the last reset
          crashes

vars == <<log, index, my, acked, crashes>>

npos == 0
Hole == -1              \* an entry of blocks.index that was not written
Block(n) == [type |-> "block", num |-> n]
Pos(p) == [type |-> "pos", num |-> p]
Torn == [type |-> "torn", num |-> 0]
NoFile == [version |-> 0, first |-> 0, cells |-> <<>>]
Stopped == [running |-> FALSE, head |-> 0, first |-> 0, written |-> FALSE]

is_block(c) == c.type = "block"

\* The position at the end of the log.
end_pos(f) == Last(f.cells).num

Init ==
    /\ log = NoFile
    /\ index = <<>>
    /\ my = Stopped
    /\ acked = {}
    /\ crashes = 0

-----------------------------------------------------------------------------
(* Reading the files.                                                      *)

\* read_head(): the position at the end leads to the head block; what is torn leads nowhere.
readable(f) == /\ f.version # 0
               /\ Last(f.cells).type = "pos"

read_head(f) == IF end_pos(f) = npos THEN 0 ELSE f.cells[end_pos(f)].num

\* reverse_iterator::previous() until it finds npos.
construct_index(f) ==
    LET back[p \in 0 .. Len(f.cells)] == IF p = npos THEN <<>>
                                         ELSE Append(back[f.cells[p - 1].num], p)
    IN  back[end_pos(f)]

get_block_pos(n) ==
    IF my.head # 0 /\ n <= my.head /\ n >= my.first THEN index[n - my.first + 1] ELSE npos

-----------------------------------------------------------------------------
(* open()                                                                  *)

start(f, ix) ==
    /\ my' = [running |-> TRUE, head |-> IF f = NoFile THEN 0 ELSE read_head(f),
              first |-> f.first, written |-> f # NoFile]
    /\ index' = ix

\* An index without the log is deleted.
open_new ==
    /\ ~my.running
    /\ log = NoFile
    /\ start(log, <<>>)
    /\ UNCHANGED <<log, acked, crashes>>

\* The index is trusted when it ends with the position at the end of the log.
trusted(f, ix) == ix # <<>> /\ Last(ix) = end_pos(f)

checked_index(f, ix) == IF trusted(f, ix) THEN ix ELSE construct_index(f)

open_existing ==
    /\ ~my.running
    /\ readable(log)
    /\ start(log, checked_index(log, index))
    /\ UNCHANGED <<log, acked, crashes>>

stop ==
    /\ my.running
    /\ my' = Stopped
    /\ UNCHANGED <<log, index, acked, crashes>>

-----------------------------------------------------------------------------
(* append() and reset()                                                    *)

\* The assertions of append().
appends(n) == my.running /\ my.written /\ Len(index) = n - my.first

append(n) ==
    /\ appends(n)
    /\ LET pos == Len(log.cells) + 1
       IN  /\ log' = [log EXCEPT !.cells = @ \o <<Block(n), Pos(pos)>>]
           /\ index' = Append(index, pos)
    /\ my' = [my EXCEPT !.head = n]
    /\ acked' = acked \cup {n}
    /\ UNCHANGED crashes

fresh(n) == [version |-> 3, first |-> n, cells |-> <<Pos(npos)>>]

\* With the genesis block, or for a chain that starts after a snapshot; the controller
\* does this when the log has no block.
reset(n) ==
    /\ my.running /\ my.head = 0
    /\ my' = [my EXCEPT !.first = n, !.written = TRUE, !.head = IF n = 1 THEN 1 ELSE 0]
    /\ log' = [fresh(n) EXCEPT !.cells = IF n = 1 THEN @ \o <<Block(1), Pos(2)>> ELSE @]
    /\ index' = IF n = 1 THEN <<2>> ELSE <<>>
    /\ acked' = IF n = 1 THEN {1} ELSE {}
    /\ UNCHANGED crashes

Crash ==
    /\ crashes < MaxCrashes
    /\ crashes' = crashes + 1
    /\ my' = Stopped

\* A crash in append(): some of the writes have reached the files.
crash_in_append(n) ==
    /\ appends(n)
    /\ LET pos == Len(log.cells) + 1
       IN  /\ \E w \in {<<>>, <<Torn>>, <<Block(n)>>, <<Block(n), Torn>>, <<Block(n), Pos(pos)>>} :
                  log' = [log EXCEPT !.cells = @ \o w]
           /\ index' \in {index, Append(index, pos)}
    /\ Crash
    /\ UNCHANGED acked

\* A crash in construct_index(): the old index is gone, and index_writer has written
\* none, some or all of its buffers, the one at the end of the file first.
crash_in_construct_index ==
    /\ ~my.running
    /\ readable(log) /\ ~trusted(log, index)
    /\ LET full == construct_index(log)
           Written(m) == [i \in DOMAIN full |-> IF i > Len(full) - m THEN full[i] ELSE Hole]
       IN  index' \in {<<>>} \cup {Written(m) : m \in {k \in DOMAIN full : \/ k % BufferLen = 0
                                                                         \/ k = Len(full)}}
    /\ Crash
    /\ UNCHANGED <<log, acked>>

\* What a reset leaves until it writes the version.
unfinished(n) == [fresh(n) EXCEPT !.version = 0]

\* A crash in reset(): the old files are gone.
crash_in_reset(n) ==
    /\ my.running /\ my.head = 0
    /\ \E w \in {<<>>} \cup IF n = 1 THEN {<<Torn>>, <<Block(1)>>, <<Block(1), Pos(2)>>} ELSE {} :
          log' \in {NoFile, [unfinished(n) EXCEPT !.cells = @ \o w]}
    /\ index' \in {<<>>} \cup IF n = 1 THEN {<<2>>} ELSE {}
    /\ acked' = {}
    /\ Crash

-----------------------------------------------------------------------------
(* repair_log(), for --hard-replay-blockchain                              *)

\* Mutant: the last position of the file is not read.
undamaged_not_last(cells, k) == is_block(cells[k]) /\ k + 1 < Len(cells) /\ cells[k + 1] = Pos(k)

\* The block at k is complete and followed by its position.
undamaged(cells, k) == is_block(cells[k]) /\ k < Len(cells) /\ cells[k + 1] = Pos(k)

\* The blocks up to the first one that is damaged, or to the last one that is wanted.
recovered(f, last) ==
    LET cells == f.cells
        ends  == {k \in 1 .. Len(cells) :
                     /\ k % 2 = 1
                     /\ \A j \in 1 .. k : j % 2 = 0 =>
                            /\ undamaged(cells, j)
                            /\ last # 0 => cells[j].num <= last}
    IN  [f EXCEPT !.cells = SubSeq(@, 1, Max(ends))]

\* truncate-at-block 0 is none.  The index is left in the backup.
repair_log(last) ==
    /\ ~my.running
    /\ log.version # 0
    /\ log.first = 1
    /\ log' = recovered(log, last)
    /\ index' = <<>>
    /\ acked' = IF last = 0 THEN acked ELSE acked \cap 1 .. last
    /\ UNCHANGED <<my, crashes>>

Next ==
    \/ open_new \/ open_existing \/ stop
    \/ \E n \in 1 .. MaxNum : append(n) \/ reset(n) \/ crash_in_append(n) \/ crash_in_reset(n)
    \/ crash_in_construct_index
    \/ \E n \in 0 .. MaxNum : repair_log(n)

Spec == Init /\ [][Next]_vars

-----------------------------------------------------------------------------
(* Properties.                                                             *)

TypeOK ==
    /\ log.version \in {0, 3}
    /\ log.first \in 0 .. MaxNum
    /\ \A i \in DOMAIN log.cells : is_block(log.cells[i]) => log.cells[i].num \in 1 .. MaxNum
    /\ \A i \in DOMAIN index : index[i] \in {Hole} \cup 1 .. 2 * MaxNum
    /\ my.head \in 0 .. MaxNum
    /\ crashes \in 0 .. MaxCrashes

\* What the node reads: read_block_by_num(n) finds block n for every block from the first
\* one to the head, whatever a crash left in the index; but of a log that is longer than
\* the buffer of index_writer a crash while the index is rebuilt leaves an index that is
\* trusted, and has no entry for blocks further than a buffer below the head.
FindsBlocks ==
    my.running => \A n \in 1 .. MaxNum :
        LET pos == get_block_pos(n)
        IN  IF my.head # 0 /\ n \in my.first .. my.head
            THEN \/ pos \in DOMAIN log.cells /\ log.cells[pos] = Block(n)
                 \/ pos = Hole /\ n <= my.head - BufferLen
            ELSE pos = npos

\* The blocks that can be read from the front, as repair_log() does.
stored == LET cells == IF log.version = 0 THEN <<>> ELSE recovered(log, 0).cells
          IN  SelectSeq(cells, is_block)

\* No block whose append() returned is lost, and the log of a running node has no other.
NothingLost ==
    /\ \A n \in acked : Contains(stored, Block(n))
    /\ my.running => \A i \in DOMAIN stored : stored[i].num <= my.head

\* After a crash in append() the log opens, or does when repair_log() has run.
Recoverable == log.version # 0 => readable(recovered(log, 0))

\* The log of a reset that did not come to its end is not taken for a log.
NotHalfReset == readable(log) /\ log.first = 1 => log.cells # <<Pos(npos)>>

Consecutive(a, b) == b.num = a.num + 1

Simple == INSTANCE LogOfBlocks WITH Blocks <- [type : {"block"}, num : 1 .. MaxNum], Follows <- Consecutive,
                                    blocks <- stored

\* The files implement a log in which the blocks are consecutive.
Implements == Simple!Spec
=============================================================================
