-------------------------- MODULE ProducerWatermark -------------------------
(***************************************************************************)
(* The watermarks of the producer plugin: the highest block number and the *)
(* latest slot for which a producer of this node signed a block.  They     *)
(* decide whether the node may produce on its head and how many earlier    *)
(* blocks the new one confirms.  A watermark is a record [num, slot], with *)
(* the number 0 when there is none.                                        *)
(***************************************************************************)
EXTENDS Integers

NoWatermark == [num |-> 0, slot |-> 0]

Larger(x, y) == IF x > y THEN x ELSE y
Smaller(x, y) == IF x < y THEN x ELSE y

consider_new_watermark(w, num, slot) ==
    [num |-> Larger(w.num, num), slot |-> Larger(w.slot, slot)]

\* The watermark does not exclude the producer from signing a block on h at when.
may_produce(w, h, when) == w.num # 0 => w.num <= h.block_num /\ w.slot < when

\* Mutant of blocks_to_confirm: the block of the watermark is confirmed again.
blocks_to_confirm_again(w, h) ==
    LET n == IF w.num # 0 /\ w.num < h.block_num THEN h.block_num - w.num + 1 ELSE 0
    IN  Smaller(n, h.block_num - h.dpos_irr)

blocks_to_confirm(w, h) ==
    LET n == IF w.num # 0 /\ w.num < h.block_num THEN h.block_num - w.num ELSE 0
    IN  Smaller(n, h.block_num - h.dpos_irr)
=============================================================================
