-------------------------- MODULE StateHistoryLog ---------------------------
(***************************************************************************)
(* state_history_log: the entries of the blocks of one branch in a log     *)
(* file, found through an index file, cut back when the branch changes.    *)
(*                                                                         *)
(* The log is a sequence of cells: the header of an entry, its payload and *)
(* its suffix, which repeats the position of the header.  A position is    *)
(* the number of cells before it.  A crash keeps any part of what was      *)
(* written since the files were flushed.                                   *)
(***************************************************************************)
EXTENDS Integers, SequencesExt

CONSTANTS Blocks,       \* records with a num
          Prev(_),      \* the block before a block
          NoBlock,      \* the block before the first one
          PayloadSize(_),
          MaxCrashes,   \* bound: how often the node crashes
          MaxFailures   \* bound: how often a payload cannot be written

VARIABLES log, index,   \* the contents of the two files
          flushed,      \* how much of each is flushed
          my,           \* the object: running, begin, end, last
          head,         \* the last accepted block of the controller
          crashes, failures

vars == <<log, index, flushed, my, head, crashes, failures>>

Hdr(b) == [type |-> "header", block |-> b, pos |-> 0]
Pay == [type |-> "payload", block |-> NoBlock, pos |-> 0]
Suf(p) == [type |-> "suffix", block |-> NoBlock, pos |-> p]
Torn == [type |-> "torn", block |-> NoBlock, pos |-> 0]

entry(b, pos) == <<Hdr(b)>> \o [i \in 1 .. PayloadSize(b) |-> Pay] \o <<Suf(pos)>>

Stopped == [running |-> FALSE, begin |-> 0, end |-> 0, last |-> NoBlock]

Cut(s, n) == SubSeq(s, 1, n)

Init ==
    /\ log = <<>> /\ index = <<>>
    /\ flushed = [log |-> 0, index |-> 0]
    /\ my = [Stopped EXCEPT !.running = TRUE]
    /\ head = NoBlock
    /\ crashes = 0 /\ failures = 0

-----------------------------------------------------------------------------
(* Reading the files.                                                      *)

whole(f) == SelectSeq(f, LAMBDA c : c # Torn)

is_header(f, pos) == pos < Len(f) /\ f[pos + 1].type = "header"

\* The position behind the entry at pos.
next_pos(f, pos) == pos + 2 + PayloadSize(f[pos + 1].block)

\* The whole entry is in the file.
fits(f, pos) == is_header(f, pos) /\ next_pos(f, pos) <= Len(whole(f))

\* An entry with the suffix that belongs to it.
complete(f, pos) == fits(f, pos) /\ f[next_pos(f, pos)] = Suf(pos)

\* recover_blocks(): the length of the entries that are complete, from the start.
recovered(f) ==
    LET walk[pos \in 0 .. Len(f)] == IF complete(f, pos) THEN walk[next_pos(f, pos)] ELSE pos
    IN  walk[0]

\* get_last_block(): the entry that the suffix at the end leads to.
has_last_block(f) ==
    LET c == Last(f)
    IN  /\ c.type = "suffix"
        /\ is_header(f, c.pos)
        /\ next_pos(f, c.pos) = Len(f)
        /\ f[1].block.num <= f[c.pos + 1].block.num

last_block(f) == f[Last(f).pos + 1].block

\* open_index() writes the positions of all the entries, or finds the log corrupt.
positions(f) ==
    LET walk[pos \in 0 .. Len(f)] == IF complete(f, pos) THEN <<pos>> \o walk[next_pos(f, pos)] ELSE <<>>
    IN  walk[0]

\* The log after open_log().
opened_log == IF log = <<>> \/ has_last_block(log) THEN log ELSE Cut(log, recovered(log))

\* open_log() finds nothing corrupt.
opens == log = <<>> \/ /\ fits(log, 0)
                       /\ has_last_block(log) \/ complete(log, 0)

-----------------------------------------------------------------------------
(* Opening and closing.                                                    *)

\* Mutant: an index that is longer than the log is taken as it is.
opened_index_long(f, n) == IF Len(index) >= n THEN index ELSE positions(f)

\* open_index(): only the size is compared.
opened_index(f, n) == IF Len(index) = n THEN index ELSE positions(f)

\* Regenerating the index walks the entries to the end of the log, or finds it corrupt.
regenerates(f, n) == Len(index) = n \/ recovered(f) = Len(f)

openable ==
    LET f == opened_log
    IN  /\ opens
        /\ f # <<>> => regenerates(f, last_block(f).num + 1 - f[1].block.num)

branch[b \in Blocks \cup {NoBlock}] == {b} \cup IF b = NoBlock THEN {} ELSE branch[Prev(b)]

\* The constructor, and the controller starts at any block: it may have loaded a snapshot,
\* replay its blocks, or have run without the plugin.
open ==
    /\ ~my.running
    /\ openable
    /\ LET f     == opened_log
           begin == IF f = <<>> THEN 0 ELSE f[1].block.num
           end   == IF f = <<>> THEN 0 ELSE last_block(f).num + 1
           ix    == opened_index(f, end - begin)
       IN  /\ log' = f /\ index' = ix
           /\ my' = [running |-> TRUE, begin |-> begin, end |-> end,
                     last |-> IF f = <<>> THEN NoBlock ELSE last_block(f)]
           /\ flushed' = [log |-> Len(f),
                          index |-> IF Len(index) = end - begin THEN Len(ix) ELSE 0]
    /\ head' \in Blocks \cup {NoBlock}
    /\ UNCHANGED <<crashes, failures>>

\* The destructor closes the files.
stop ==
    /\ my.running
    /\ my' = Stopped
    /\ flushed' = [log |-> Len(log), index |-> Len(index)]
    /\ UNCHANGED <<log, index, head, crashes, failures>>

\* Someone deletes files that cannot be opened.
delete ==
    /\ ~my.running
    /\ ~openable
    /\ log' = <<>> /\ index' = <<>>
    /\ flushed' = [log |-> 0, index |-> 0]
    /\ UNCHANGED <<my, head, crashes, failures>>

-----------------------------------------------------------------------------
(* write_entry()                                                           *)

get_pos(n) == index[n - my.begin + 1]

block_id(n) == log[get_pos(n) + 1].block

\* Mutant: the link to an entry before the last one is not checked.
links_to_last(b) ==
    my.begin # my.end /\ b.num > my.begin /\ b.num = my.end => Prev(b) = my.last

\* The block before it is the one in the log.
links(b) ==
    my.begin # my.end /\ b.num > my.begin =>
        Prev(b) = IF b.num = my.end THEN my.last ELSE block_id(b.num - 1)

\* No block and no fork change was missed.
accepts(b) == (my.begin = my.end \/ b.num <= my.end) /\ links(b)

\* truncate(), when the block is not the next one.
truncated(b) ==
    IF b.num >= my.end THEN [log |-> log, index |-> index, begin |-> my.begin, end |-> my.end]
    ELSE IF b.num <= my.begin THEN [log |-> <<>>, index |-> <<>>, begin |-> 0, end |-> 0]
    ELSE [log |-> Cut(log, get_pos(b.num)), index |-> Cut(index, b.num - my.begin),
          begin |-> my.begin, end |-> b.num]

flushed_by_truncate(b) ==
    IF b.num < my.end THEN [log |-> Len(truncated(b).log), index |-> Len(truncated(b).index)]
    ELSE flushed

\* The controller applies a block on one of its branch.
applied(b) == my.running /\ Prev(b) \in branch[head] /\ head' = b

write_entry(b) ==
    /\ applied(b)
    /\ accepts(b)
    /\ LET t   == truncated(b)
           pos == Len(t.log)
       IN  /\ log' = t.log \o entry(b, pos)
           /\ index' = Append(t.index, pos)
           /\ my' = [my EXCEPT !.begin = IF t.begin = t.end THEN b.num ELSE t.begin,
                               !.end = b.num + 1, !.last = b]
    /\ flushed' = flushed_by_truncate(b)
    /\ UNCHANGED <<crashes, failures>>

\* Writing the payload throws: the log is truncated and has a part of the entry.
write_fails(b) ==
    /\ failures < MaxFailures
    /\ applied(b)
    /\ accepts(b)
    /\ LET t == truncated(b)
       IN  /\ log' \in {t.log, Append(t.log, Hdr(b))}
           /\ index' = t.index
           /\ my' = [my EXCEPT !.begin = t.begin, !.end = t.end]
    /\ flushed' = flushed_by_truncate(b)
    /\ failures' = failures + 1
    /\ UNCHANGED crashes

\* The assertions throw, which the signal of the controller logs; the chain goes on.
refuse(b) ==
    /\ applied(b)
    /\ ~accepts(b)
    /\ UNCHANGED <<log, index, flushed, my, crashes, failures>>

-----------------------------------------------------------------------------
(* Crashes.                                                                *)

\* What may be left of a file, from what was flushed on.
remains(f, n) == {Cut(f, k) : k \in n .. Len(f)}

torn(f, n) == {Append(Cut(f, k), Torn) : k \in n .. Len(f) - 1}

crash ==
    /\ my.running
    /\ crashes < MaxCrashes
    /\ log' \in remains(log, flushed.log) \cup torn(log, flushed.log)
    /\ index' \in remains(index, flushed.index)
    /\ my' = Stopped
    /\ flushed' = [log |-> Len(log'), index |-> Len(index')]
    /\ crashes' = crashes + 1
    /\ UNCHANGED <<head, failures>>

\* Between the two calls of resize_file().
crash_in_truncate(b) ==
    /\ crashes < MaxCrashes
    /\ applied(b)
    /\ accepts(b)
    /\ b.num < my.end
    /\ log' = truncated(b).log
    /\ my' = Stopped
    /\ flushed' = [log |-> Len(log'), index |-> Len(index)]
    /\ crashes' = crashes + 1
    /\ UNCHANGED <<index, failures>>

Next ==
    \/ open \/ stop \/ delete \/ crash
    \/ \E b \in Blocks : write_entry(b) \/ refuse(b) \/ crash_in_truncate(b)

Spec == Init /\ [][Next]_vars

\* With writes that fail, which nothing undoes: Reopens does not hold then (README,
\* section 5).
FailingSpec == Init /\ [][Next \/ \E b \in Blocks : write_fails(b)]_vars

-----------------------------------------------------------------------------
(* Properties.                                                             *)

TypeOK ==
    /\ my.running \in BOOLEAN
    /\ my.begin <= my.end
    /\ my.last \in Blocks \cup {NoBlock}
    /\ flushed.log <= Len(log) /\ flushed.index <= Len(index)

\* The index of a running node leads to the header of the entry of each block, and these
\* entries are complete, whatever crash or truncation came before.
FindsEntries ==
    my.running => /\ Len(index) = my.end - my.begin
                  /\ \A n \in my.begin .. my.end - 1 :
                         complete(log, get_pos(n)) /\ block_id(n).num = n

\* A log whose first entry was completely written can be opened again after any crash.
Reopens == ~my.running /\ complete(log, 0) => openable

\* What the log shows, or shows once it is opened again.
entries ==
    LET f  == IF my.running THEN log ELSE opened_log
        ix == IF my.running \/ f = <<>> THEN index
              ELSE opened_index(f, last_block(f).num + 1 - f[1].block.num)
    IN  IF f = <<>> \/ (~my.running /\ ~openable) THEN <<>>
        ELSE [i \in 1 .. Len(ix) |-> f[ix[i] + 1].block]

Promised == INSTANCE LogOfBlocks WITH blocks <- entries, Follows <- LAMBDA a, b : Prev(b) = a

\* The log is a log of blocks, through crashes and restarts: what it shows changes only by
\* giving up blocks at its end and by adding one that follows.
Implements == Promised!Spec
=============================================================================
