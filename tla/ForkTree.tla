------------------------------ MODULE ForkTree ------------------------------
(***************************************************************************)
(* The data structure behind eosio::chain::fork_database, as operators on  *)
(* a record: the tree of blocks that descend from the last irreversible    *)
(* block (the root, which is kept outside the index), the blocks of it     *)
(* that have been applied successfully, and the head.  ForkDatabase drives *)
(* these operators by themselves, Controller from the chain controller.    *)
(*                                                                         *)
(* A block is a record with at least the fields id, previous, block_num    *)
(* and dpos_irr; ids are numbers because the index orders by id last.      *)
(***************************************************************************)
EXTENDS Integers

-----------------------------------------------------------------------------
(* The order of the index by_lib_block_num.                                *)

first_preferred(l, r) ==
    \/ l.dpos_irr > r.dpos_irr
    \/ l.dpos_irr = r.dpos_irr /\ l.block_num > r.block_num

\* l comes before r among the blocks with the same validated flag.
precedes(l, r) ==
    \/ first_preferred(l, r)
    \/ ~first_preferred(r, l) /\ l.id < r.id

\* No block of S makes a lower block number irreversible than its parent in S.
Rising(S) == \A p, b \in S : p.id = b.previous => p.dpos_irr <= b.dpos_irr

Best(S) == CHOOSE b \in S : \A c \in S : c = b \/ precedes(b, c)

-----------------------------------------------------------------------------
(* The tree.                                                               *)

\* The blocks of ix that descend from the block with this id: the smallest set
\* that holds its children and the children of every block in it.
Descendants(ix, id) ==
    LET Closed(S) == \A c \in ix :
                         (c.previous = id \/ \E p \in S : c.previous = p.id) => c \in S
    IN  {b \in ix : \A S \in SUBSET ix : Closed(S) => b \in S}

\* fetch_branch(h): h and its ancestors down to the root, which is not in it.  The
\* code returns them by descending block number.
fetch_branch(d, h) ==
    {a \in d.index : a = h \/ h \in Descendants(d.index, a.id)}

\* The two branches of fetch_branch_from(first, second).
fetch_branch_from(d, first, second) ==
    [first  |-> fetch_branch(d, first) \ fetch_branch(d, second),
     second |-> fetch_branch(d, second) \ fetch_branch(d, first)]

Known(d) == d.index \cup {d.root}

\* The ids get_block_header() finds.
linkable(d, b) == \E p \in Known(d) : p.id = b.previous

-----------------------------------------------------------------------------
(* The operations.  Each returns the database after the call.              *)

reset(b) == [root |-> b, head |-> b, index |-> {}, validated |-> {}]

\* begin() of the index is the best validated block if there is one.  The new block
\* is not validated yet.
add(d, b) ==
    [d EXCEPT !.index = @ \cup {b},
              !.head = IF d.validated # {} THEN Best(d.validated) ELSE @]

unvalidated(d) == d.index \ d.validated

pending_head(d) ==
    IF unvalidated(d) # {} /\ first_preferred(Best(unvalidated(d)), d.head)
    THEN Best(unvalidated(d)) ELSE d.head

\* Mutant of mark_valid: the head follows the block that was validated last.
mark_valid_head_last(d, b) ==
    [d EXCEPT !.validated = @ \cup {b}, !.head = b]

mark_valid(d, b) ==
    IF b \in d.validated THEN d
    ELSE LET best == Best(d.validated \cup {b})
         IN  [d EXCEPT !.validated = @ \cup {b},
                       !.head = IF first_preferred(best, @) THEN best ELSE @]

\* Mutant of rollback_head_to_root: the head stays where it is.
rollback_keeps_head(d) == [d EXCEPT !.validated = {}]

rollback_head_to_root(d) == [d EXCEPT !.validated = {}, !.head = d.root]

\* The queue of remove(id), without ids that are not in the index.
remove_queue(ix, id) == {b \in ix : b.id = id} \cup Descendants(ix, id)

\* Otherwise remove(id) throws before it erases anything.
can_remove(d, id) == d.head.id # id /\ d.head \notin Descendants(d.index, id)

\* Mutant of Without: only the block itself is erased.
WithoutQueueHead(d, S) ==
    LET T == {b \in S : \A c \in S : c.block_num >= b.block_num}
    IN  [d EXCEPT !.index = @ \ T, !.validated = @ \ T]

Without(d, S) == [d EXCEPT !.index = @ \ S, !.validated = @ \ S]

remove(d, id) == Without(d, remove_queue(d.index, id))

\* The blocks erased by advance_root(b) besides b: remove() is called for every
\* ancestor of b up to the old root, once b itself is out of the index, and so
\* takes whatever descends from the old root by a path that avoids b.
left_behind(d, b) == Descendants(d.index \ {b}, d.root.id)

\* Otherwise a call of remove() throws in the middle of advance_root.
can_advance_root(d, b) == d.head # d.root /\ d.head \notin left_behind(d, b)

advance_root(d, b) ==
    [Without(d, {b} \cup left_behind(d, b)) EXCEPT !.root = b]

-----------------------------------------------------------------------------
(* The file fork_db.dat.                                                   *)

\* The order in which close() merges the unvalidated and the validated blocks,
\* both from the back of the index: the least preferred first, and a validated
\* one before an unvalidated one that is equally preferred.
written_before(d, l, r) ==
    \/ first_preferred(r, l)
    \/ /\ ~first_preferred(l, r)
       /\ \/ l \in d.validated /\ r \notin d.validated
          \/ (l \in d.validated <=> r \in d.validated) /\ r.id < l.id

\* Mutant of Saved: every block is written by the most preferred first.
SavedReversed(d) ==
    [root   |-> d.root, blocks |-> d.index, validated |-> d.validated,
     before |-> {lr \in d.index \X d.index : written_before(d, lr[2], lr[1])},
     head   |-> d.head.id]

\* What close() writes; before holds which block is written before which.
Saved(d) ==
    [root   |-> d.root, blocks |-> d.index, validated |-> d.validated,
     before |-> {lr \in d.index \X d.index : written_before(d, lr[1], lr[2])},
     head   |-> d.head.id]

\* open() adds the blocks in the order of the file; every one has to link.
FileLinks(f) ==
    \A b \in f.blocks : \/ b.previous = f.root.id
                        \/ \E p \in f.blocks : p.id = b.previous /\ <<p, b>> \in f.before

\* The head is looked up in the index ...
FileHasHead(f) == f.head = f.root.id \/ \E b \in f.blocks : b.id = f.head

Loaded(f) ==
    [root  |-> f.root, index |-> f.blocks, validated |-> f.validated,
     head  |-> IF f.head = f.root.id THEN f.root
               ELSE CHOOSE b \in f.blocks : b.id = f.head]

\* ... and must be the root if nothing is validated, and as good as the best
\* validated block otherwise.
FileHeadBest(f) ==
    IF f.validated = {} THEN f.head = f.root.id
    ELSE ~first_preferred(Best(f.validated), Loaded(f).head)

CanLoad(f) == FileLinks(f) /\ FileHasHead(f) /\ FileHeadBest(f)
=============================================================================
