---------------------------- MODULE LogOfBlocks -----------------------------
(***************************************************************************)
(* What a log of blocks promises: the blocks in it follow each other, a    *)
(* block is added at the end, after some that a fork or a repair gives up, *)
(* and nothing else ever changes.                                          *)
(***************************************************************************)
EXTENDS Sequences, Integers

CONSTANTS Blocks,
          Follows(_, _)   \* whether a block may come right after another one

VARIABLE blocks

Init == blocks = <<>>

kept == {SubSeq(blocks, 1, k) : k \in 0 .. Len(blocks)}

add(b) == \E s \in kept : /\ s # <<>> => Follows(s[Len(s)], b)
                          /\ blocks' = Append(s, b)

give_up == blocks' \in kept

Next == give_up \/ \E b \in Blocks : add(b)

Spec == Init /\ [][Next]_blocks
=============================================================================
