-------------------------- MODULE IncrementalMerkle ---------------------------
(***************************************************************************)
(* The Merkle tree over the blocks of a branch, of which a node keeps only *)
(* the subtrees that later blocks are combined with: incremental_merkle,   *)
(* as block_header_state appends to it, against merkle(), which computes   *)
(* the root from all the leaves.                                           *)
(***************************************************************************)
EXTENDS Integers, SequencesExt

CONSTANTS Digests,     \* the digests that are appended
          MaxLeaves    \* bound: the leaves of a tree

VARIABLES nodes,       \* _active_nodes, whose last is the root
          leaves       \* history: the digests that were appended; _node_count is its length

Init == nodes = <<>> /\ leaves = <<>>

\* A digest: the leaf d, or the hash of a canonical pair, which is injective.
leaf(d) == <<0, d>>
hash(left, right) == <<1>> \o left \o right

\* calcluate_max_depth: the levels of the smallest full tree with n leaves.
calcluate_max_depth(n) == 1 + CHOOSE d \in 0 .. n : 2 ^ d >= n /\ \A e \in 0 .. d - 1 : 2 ^ e < n

-----------------------------------------------------------------------------
(* append.                                                                 *)

\* A left node and the right one that it implies.
collapse_left(c) ==
    [c EXCEPT !.updated = IF c.partial THEN @ ELSE Append(@, c.top),
              !.top = hash(@, @), !.partial = TRUE]

\* Mistake: a left node that is needed again is not copied
collapse_right_and_drop(c) ==
    [c EXCEPT !.top = hash(Head(c.active), @), !.active = Tail(@)]

\* A right node and the left one before it, that is kept while the right one is partial.
collapse_right(c) ==
    [c EXCEPT !.updated = IF c.partial THEN Append(@, Head(c.active)) ELSE @,
              !.top = hash(Head(c.active), @), !.active = Tail(@)]

\* From the new leaf, whose place is index, up to the root.
collapsed(digest, active, index) ==
    LET start == [top |-> digest, partial |-> FALSE, active |-> active, updated |-> <<>>]
        at[i \in 0 .. calcluate_max_depth(index + 1) - 1] ==
            IF i = 0 THEN start
            ELSE IF (index \div 2 ^ (i - 1)) % 2 = 0 THEN collapse_left(at[i - 1])
            ELSE collapse_right(at[i - 1])
    IN  at[calcluate_max_depth(index + 1) - 1]

append(d) ==
    LET c == collapsed(leaf(d), nodes, Len(leaves))
    IN  /\ Len(leaves) < MaxLeaves
        /\ nodes' = Append(c.updated, c.top)
        /\ leaves' = Append(leaves, d)

get_root == IF leaves = <<>> THEN <<>> ELSE Last(nodes)

Next == \E d \in Digests : append(d)

Spec == Init /\ [][Next]_<<nodes, leaves>>

-----------------------------------------------------------------------------
(* merkle().                                                               *)

\* One level of the tree: the last digest is doubled when their number is odd.
paired(ids) ==
    LET even == IF Len(ids) % 2 = 1 THEN Append(ids, Last(ids)) ELSE ids
    IN  [i \in 1 .. Len(even) \div 2 |-> hash(even[2 * i - 1], even[2 * i])]

merkle(ids) ==
    LET level[i \in 0 .. Len(ids)] ==
            IF i = 0 THEN ids ELSE IF Len(level[i - 1]) > 1 THEN paired(level[i - 1]) ELSE level[i - 1]
    IN  IF ids = <<>> THEN <<>> ELSE level[Len(ids)][1]

\* The root that is carried from block to block is the Merkle root of all the blocks
\* before, whatever their number: the subtrees that append keeps suffice.
RootIsMerkle == get_root = merkle([i \in DOMAIN leaves |-> leaf(leaves[i])])
=============================================================================
