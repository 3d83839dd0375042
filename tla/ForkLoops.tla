------------------------------ MODULE ForkLoops ------------------------------
(***************************************************************************)
(* The loops of fork_database step by step, as sequences in the order of   *)
(* the code, and the claim that they compute what ForkTree says with sets. *)
(***************************************************************************)
EXTENDS ForkDatabase, SequencesExt

NoBlock == [id |-> 0, previous |-> 0, block_num |-> 0, dpos_irr |-> 0]

get_block(d, id) ==
    IF \E b \in d.index : b.id = id THEN CHOOSE b \in d.index : b.id = id ELSE NoBlock

\* get_block(), or the root if the id is its id.
get_or_root(d, id) == IF id = d.root.id THEN d.root ELSE get_block(d, id)

RECURSIVE Walk(_, _, _)
Walk(d, s, trim) ==
    IF s = NoBlock THEN << >>
    ELSE (IF s.block_num <= trim THEN <<s>> ELSE << >>)
             \o Walk(d, get_block(d, s.previous), trim)

fetch_branch_loop(d, h, trim) == Walk(d, get_block(d, h), trim)

RECURSIVE Search(_, _, _)
Search(d, s, num) ==
    IF s = NoBlock \/ s.block_num = num THEN s
    ELSE Search(d, get_block(d, s.previous), num)

search_on_branch(d, h, num) == Search(d, get_block(d, h), num)

\* The first two loops of fetch_branch_from: from s down to the level num.
RECURSIVE Lower(_, _, _)
Lower(d, s, num) ==
    IF s.block_num <= num THEN [pushed |-> << >>, at |-> s]
    ELSE LET rest == Lower(d, get_or_root(d, s.previous), num)
         IN  [rest EXCEPT !.pushed = <<s>> \o @]

\* The last loop: both sides at once until they have the same previous block.
RECURSIVE Together(_, _, _)
Together(d, a, b) ==
    IF a.previous = b.previous THEN [first |-> <<a>>, second |-> <<b>>]
    ELSE LET rest == Together(d, get_block(d, a.previous), get_block(d, b.previous))
         IN  [first |-> <<a>> \o rest.first, second |-> <<b>> \o rest.second]

fetch_branch_from_loop(d, first, second) ==
    LET f == get_or_root(d, first)
        s == get_or_root(d, second)
        fl == Lower(d, f, s.block_num)
        sl == Lower(d, s, fl.at.block_num)
        both == IF fl.at = sl.at THEN [first |-> << >>, second |-> << >>]
                ELSE Together(d, fl.at, sl.at)
    IN  [first |-> fl.pushed \o both.first, second |-> sl.pushed \o both.second]

\* remove(): the queue grows by the children of its members, breadth first.
RECURSIVE Queue(_, _)
Queue(ix, ids) ==
    LET children == {b.id : b \in {c \in ix : c.previous \in ids}}
    IN  IF children = {} THEN ids ELSE ids \cup Queue(ix, children)

remove_loop(ix, id) == {b \in ix : b.id \notin Queue(ix, {id})}

RECURSIVE RemoveEach(_, _)
RemoveEach(ix, ids) ==
    IF ids = << >> THEN ix ELSE RemoveEach(remove_loop(ix, Head(ids)), Tail(ids))

\* Mutant of blocks_to_remove: the old root is not in the list.
blocks_to_remove_index_only(d, b) ==
    SelectSeq([i \in 1 .. Len(fetch_branch_loop(d, b.id, b.block_num)) |->
                  fetch_branch_loop(d, b.id, b.block_num)[i].previous],
              LAMBDA id : id # d.root.id)

blocks_to_remove(d, b) ==
    [i \in 1 .. Len(fetch_branch_loop(d, b.id, b.block_num)) |->
        fetch_branch_loop(d, b.id, b.block_num)[i].previous]

advance_root_loop(d, b) == RemoveEach(d.index \ {b}, blocks_to_remove(d, b))

\* close(): u and v are the unvalidated and the validated blocks that remain, each
\* from the back of the index.
RECURSIVE Merge(_, _)
Merge(u, v) ==
    IF u = << >> THEN v
    ELSE IF v = << >> THEN u
    ELSE IF first_preferred(v[1], u[1]) THEN <<u[1]>> \o Merge(Tail(u), v)
    ELSE <<v[1]>> \o Merge(u, Tail(v))

close_loop(d) == Merge(SetToSortSeq(unvalidated(d), LAMBDA l, r : precedes(r, l)),
                       SetToSortSeq(d.validated, LAMBDA l, r : precedes(r, l)))

-----------------------------------------------------------------------------

\* S as the sequence by descending block number that a branch is returned as.
Descending(S) == SetToSortSeq(S, LAMBDA l, r : l.block_num > r.block_num)

\* For any two blocks of the tree the loops of fetch_branch_from end, without
\* looking up a block that does not exist, with the two branches from the common
\* ancestor, which is in neither of them; fetch_branch gives the blocks down to the
\* root that are not above the number to trim after, and search_on_branch the one of
\* them with a given number.
BranchesAgree ==
    fork_db # NoDb =>
        \A a, b \in Known(fork_db) :
            LET from == fetch_branch_from(fork_db, a, b)
            IN  /\ fetch_branch_from_loop(fork_db, a.id, b.id) =
                       [first |-> Descending(from.first), second |-> Descending(from.second)]
                /\ fetch_branch_loop(fork_db, a.id, b.block_num) =
                       Descending({c \in fetch_branch(fork_db, a) : c.block_num <= b.block_num})
                /\ LET at == {c \in fetch_branch(fork_db, a) : c.block_num = b.block_num}
                   IN  at = {search_on_branch(fork_db, a.id, b.block_num)} \ {NoBlock}

\* The queue of remove() and the sequence of its calls in advance_root erase the
\* blocks that remove_queue and left_behind name.
RemovalsAgree ==
    fork_db # NoDb =>
        /\ \A b \in Known(fork_db) :
               remove_loop(fork_db.index, b.id)
                   = fork_db.index \ remove_queue(fork_db.index, b.id)
        /\ \A b \in fork_db.index :
               advance_root_loop(fork_db, b) = advance_root(fork_db, b).index

\* The merge loop of close() writes every block once, in the order written_before.
MergeAgrees ==
    fork_db # NoDb =>
        close_loop(fork_db) =
            SetToSortSeq(fork_db.index, LAMBDA l, r : written_before(fork_db, l, r))

\* The loops of fork_database.cpp compute what the operators of ForkTree mean: the
\* two branches of fetch_branch_from, the blocks that remove() and advance_root()
\* erase through their work lists, and the order in which close() merges its
\* indices into the file.
LoopsAgree == BranchesAgree /\ RemovalsAgree /\ MergeAgrees
=============================================================================
