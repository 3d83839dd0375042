------------------------------ MODULE LogIndex ------------------------------
(***************************************************************************)
(* block_log::construct_index: the reverse iterator walks blocks.log from  *)
(* its end in a buffer of limited length, and the index writer fills       *)
(* blocks.index from its end, in a buffer as well.                         *)
(*                                                                         *)
(* blocks.log is given by the sizes of its blocks.  What a read finds is   *)
(* the position that was written there, or garbage.                        *)
(***************************************************************************)
EXTENDS Integers, SequencesExt

CONSTANTS Header,       \* the length of the header of the log, the separator included
          PosSize,      \* _position_size
          Sizes,        \* the lengths of a block
          MaxBlocks,    \* bound: the blocks of a log, at most MaxEntries: longer logs make
                        \* the writer leave its buffer, and are not looked at
          BufLens,      \* the values of _buf_len that are tried
          MaxLengths,   \* the values of _max_buffer_length that are tried
          MaxEntries    \* the entries whose place in the index a uint32_t can tell: 2^29

VARIABLES log,      \* version and sizes of blocks
          lens,     \* buf_len and max_length
          phase,    \* "open", "walk", "written" or "failed"
          iter,     \* reverse_iterator
          writer,   \* index_writer
          file      \* blocks.index

vars == <<log, lens, phase, iter, writer, file>>

npos == -1
Garbage == -2

-----------------------------------------------------------------------------
(* The log.                                                                *)

expected == Len(log.sizes)

\* The position of the n-th block.
block_pos(n) == Header + FoldFunction(+, 0, [i \in 1 .. n - 1 |-> log.sizes[i] + PosSize])

eof == block_pos(expected + 1)

\* What is read at q: the position behind a block, or the separator before the first one.
word(q) ==
    IF log.version > 1 /\ q = Header - PosSize THEN npos
    ELSE LET B == {n \in 1 .. expected : q = block_pos(n) + log.sizes[n]}
         IN  IF B = {} THEN Garbage ELSE block_pos(CHOOSE n \in B : TRUE)

Init ==
    /\ log \in [version : {1, 3}, sizes : UNION {[1 .. n -> Sizes] : n \in 1 .. MaxBlocks}]
    /\ lens \in [buf_len : BufLens, max_length : MaxLengths]
    /\ phase = "open"
    /\ iter = [current |-> 0, start |-> 0, end |-> 0, found |-> 0]
    /\ writer = [current |-> 0, start |-> 0, end |-> 0, buffer |-> <<>>]
    /\ file = <<>>

-----------------------------------------------------------------------------
(* reverse_iterator                                                        *)

update_buffer(it) ==
    LET end == it.current + PosSize
    IN  [it EXCEPT !.end = end, !.start = IF end < lens.buf_len THEN 0 ELSE end - lens.buf_len]

\* previous() reads at the current position, after the buffer was moved to it.
positioned(it) == IF it.start > it.current THEN update_buffer(it) ELSE it

in_buffer(it) == it.start <= it.current /\ it.current + PosSize <= it.end

read(it) == IF in_buffer(it) THEN word(it.current) ELSE Garbage

\* The rest of previous(): where the walk goes on, and what it asserts.
stepped(it, pos) ==
    [it EXCEPT !.found = @ + 1, !.current = IF pos = npos THEN npos ELSE pos - PosSize]

asserts(it, pos) ==
    IF pos = npos THEN it.found + 1 # expected ELSE pos - PosSize < it.current

\* A version 1 log has no separator, and the blocks are counted.
all_found(it) == log.version = 1 /\ it.found = expected

-----------------------------------------------------------------------------
(* index_writer                                                            *)

update_buffer_position(w) ==
    LET end == w.current + 1
    IN  [w EXCEPT !.end = end,
                  !.start = IF end < lens.max_length THEN 0 ELSE end - lens.max_length]

\* The location in the file is computed in 32 bits.
new_writer == update_buffer_position([current |-> (expected % MaxEntries) - 1, start |-> 0, end |-> 0,
                                      buffer |-> [i \in 0 .. lens.max_length - 1 |-> Garbage]])

full(w) == w.current < w.start

\* fwrite() of nothing does not return 1.
unwritable(w) == full(w) /\ w.end = w.start

\* Mutant: the last entry of the buffer is not written.
flushed_short(w) == [i \in 1 .. expected |->
                  IF i - 1 \in w.start .. w.end - 2 THEN w.buffer[i - 1 - w.start] ELSE file[i]]

\* fwrite() of the buffer at its place in the file.
written_out(w) == [i \in 1 .. expected |->
                  IF i - 1 \in w.start .. w.end - 1 THEN w.buffer[i - 1 - w.start] ELSE file[i]]

shift_buffer(w) == IF full(w) THEN update_buffer_position(w) ELSE w

\* shift_buffer(), then the position goes to its place in the buffer.
write(w, pos) ==
    LET s == shift_buffer(w)
    IN  [s EXCEPT !.buffer[s.current - s.start] = pos, !.current = @ - 1]

-----------------------------------------------------------------------------

\* reverse_iterator::open() and the constructor of index_writer, with what the first
\* prepare_buffer() sets up.
open ==
    /\ phase = "open"
    /\ phase' = "walk"
    /\ iter' = update_buffer([iter EXCEPT !.current = eof - PosSize])
    /\ writer' = new_writer
    /\ file' = [i \in 1 .. expected |-> Garbage]
    /\ UNCHANGED <<log, lens>>

\* previous() returns a position, and write().
walk ==
    /\ phase = "walk"
    /\ ~all_found(iter)
    /\ LET it  == positioned(iter)
           pos == read(it)
       IN  /\ pos # npos
           /\ IF asserts(it, pos) /\ ~unwritable(writer)
              THEN /\ iter' = stepped(it, pos)
                   /\ writer' = write(writer, pos)
                   /\ file' = IF full(writer) THEN written_out(writer) ELSE file
                   /\ UNCHANGED phase
              ELSE phase' = "failed" /\ UNCHANGED <<iter, writer, file>>
    /\ UNCHANGED <<log, lens>>

\* previous() returns npos, and complete() writes what is left.
complete ==
    /\ phase = "walk"
    /\ LET it == positioned(iter)
       IN  \/ all_found(iter) /\ iter' = [iter EXCEPT !.current = npos]
           \/ ~all_found(iter) /\ read(it) = npos /\ iter' = stepped(it, npos)
    /\ phase' = IF /\ all_found(iter) \/ asserts(iter, npos)
                   /\ full(writer) /\ ~unwritable(writer) /\ writer.current = -1
                THEN "written" ELSE "failed"
    /\ file' = IF full(writer) THEN written_out(writer) ELSE file
    /\ writer' = shift_buffer(writer)
    /\ UNCHANGED <<log, lens>>

Next == open \/ walk \/ complete

Spec == Init /\ [][Next]_vars /\ WF_vars(Next)

-----------------------------------------------------------------------------
(* Properties.                                                             *)

TypeOK ==
    /\ phase \in {"open", "walk", "written", "failed"}
    /\ iter.found \in 0 .. expected + 1
    /\ writer.current \in -1 .. expected - 1
    /\ Len(file) \in {0, expected}

\* previous() never reads outside of the part of the file that is in the buffer, although
\* it moves the buffer only when the position begins before it.
ReadsInBuffer == phase = "walk" /\ ~all_found(iter) => in_buffer(positioned(iter))

\* The index that construct_index() writes holds the position of each block, whatever the
\* lengths of the blocks and of the buffers.
RightWhenWritten == phase = "written" => file = [i \in 1 .. expected |-> block_pos(i)]

\* construct_index() writes the index of every well-formed log: the walk ends at the first
\* block, and what previous(), shift_buffer() and complete() assert holds.
Completes == <>(phase = "written")
=============================================================================
