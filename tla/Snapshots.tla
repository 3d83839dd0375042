----------------------------- MODULE Snapshots ------------------------------
(***************************************************************************)
(* The state snapshots of the producer plugin, composed with the chain     *)
(* controller: create_snapshot writes a snapshot of the head, which is     *)
(* pending until the controller signals an irreversible block as high as   *)
(* it.  Then finalize() either renames the file to its final name or       *)
(* answers that the block was forked out.                                  *)
(*                                                                         *)
(* The controller signals irreversible_block for each block it logs,       *)
(* before it advances the root of the fork database past any of them.      *)
(***************************************************************************)
EXTENDS Controller

CONSTANTS Requests,     \* calls of create_snapshot
          StartAt       \* the height of the head in the initial state

VARIABLES pending_snapshots, \* records: the block and the callers to answer
          final,             \* the blocks with a snapshot under its final name
          answer             \* of each call: its block and its result

snapshot_vars == <<pending_snapshots, final, answer>>

\* Results of a call: "none" before the call, "waiting" while it is pending.
Result(b, what) == [block |-> b, what |-> what]

\* The node has got a branch of blocks, none of them irreversible.
first_block(i) == [id |-> i, previous |-> i - 1, block_num |-> i, dpos_irr |-> 0]

first_node ==
    FoldLeft(LAMBDA n, b : switched([n EXCEPT !.fork_db = add(@, b)], b),
             [fork_db |-> reset(genesis), head |-> genesis, state |-> <<genesis>>,
              committed |-> 1, reversible |-> NoBlocks, blog |-> <<genesis>>],
             [i \in 1 .. StartAt - 1 |-> first_block(i + 1)])

SnapshotInit ==
    /\ chain = {first_block(i) : i \in 1 .. StartAt}
    /\ bad = {} /\ file = NoFile /\ pending = FALSE /\ status = "up" /\ failed = FALSE /\ stops = 0
    /\ node = first_node
    /\ pending_snapshots = {}
    /\ final = {}
    /\ answer = [r \in Requests |-> Result(genesis, "none")]

Answered(callers, b, what) ==
    [r \in Requests |-> IF r \in callers THEN Result(b, what) ELSE answer[r]]

-----------------------------------------------------------------------------
(* create_snapshot                                                         *)

\* A snapshot of the head is there already.
create_snapshot_exists(r) ==
    /\ node.head \in final
    /\ answer' = Answered({r}, node.head, "exists")
    /\ UNCHANGED <<pending, pending_snapshots, final>>

\* Mutant of attach: the caller takes the place of the earlier ones.
attach_replaces(s, r) == [s EXCEPT !.callers = {r}]

\* Every caller of a pending snapshot is answered with its result.
attach(s, r) == [s EXCEPT !.callers = @ \cup {r}]

create_snapshot_attached(r) ==
    /\ node.head \notin final
    /\ \E s \in pending_snapshots :
          /\ s.block = node.head
          /\ pending_snapshots' = (pending_snapshots \ {s}) \cup {attach(s, r)}
    /\ answer' = Answered({r}, node.head, "waiting")
    /\ UNCHANGED <<pending, final>>

\* The block being built is aborted, and the file written and renamed or not.
create_snapshot_new(r) ==
    /\ node.head \notin final
    /\ \A s \in pending_snapshots : s.block # node.head
    /\ pending' = FALSE
    /\ \/ /\ pending_snapshots' = pending_snapshots \cup {[block |-> node.head, callers |-> {r}]}
          /\ answer' = Answered({r}, node.head, "waiting")
       \/ /\ answer' = Answered({r}, node.head, "failed")
          /\ UNCHANGED pending_snapshots
    /\ UNCHANGED final

create_snapshot(r) ==
    /\ status = "up"
    /\ answer[r].what = "none"
    /\ \/ create_snapshot_exists(r)
       \/ create_snapshot_attached(r)
       \/ create_snapshot_new(r)
    /\ UNCHANGED <<chain, bad, node, file, status, failed, stops>>

-----------------------------------------------------------------------------
(* on_irreversible_block                                                   *)

\* Whether the block is found when a block that n is about to log is signalled: in the
\* fork database, whose root is still the old one, or in the block log.
fetch_block_by_id(n, b) == b \in n.fork_db.index \cup Range(n.blog)

promoted(n) ==
    {s \in pending_snapshots : \E lib \in to_log(n) : s.block.block_num <= lib.block_num}

in_chain(n, s) == fetch_block_by_id(n, s.block)

\* finalize() of all the snapshots that the blocks which n is about to log promote;
\* the rename may fail, which only the answer tells.
on_irreversible_block(n) ==
    /\ pending_snapshots' = pending_snapshots \ promoted(n)
    /\ \E unrenamed \in SUBSET {s \in promoted(n) : in_chain(n, s)} :
          LET Is(s) == CASE s \in unrenamed -> "failed"
                         [] ~in_chain(n, s) -> "forked"
                         [] OTHER -> "done"
              Of(r) == {s \in promoted(n) : r \in s.callers}
          IN  /\ final' = final \cup {s.block : s \in {t \in promoted(n) : Is(t) = "done"}}
              /\ answer' = [r \in Requests |->
                               IF Of(r) = {} THEN answer[r]
                               ELSE LET s == CHOOSE s \in Of(r) : TRUE
                                    IN  Result(s.block, Is(s))]

-----------------------------------------------------------------------------
(* The composition.  The node does not stop: the pending snapshots are in  *)
(* memory only, and a stop forgets them with their callers.  All blocks    *)
(* can be applied: a switch that fails logs nothing.                       *)

\* Bound: a block is made when those made before it have arrived.
delivered == ~pending /\ \A b \in chain : ~receives(b)

SnapshotNext ==
    \/ /\ \/ delivered /\ \E p \in chain, irr \in 0 .. MaxBlocks : produce(p, irr, TRUE)
          \/ \E b \in chain : push_block_aside(b)
          \/ start_block
          \/ abort_block
          \/ \E irr \in 0 .. MaxBlocks : commit_block_fails(irr)
       /\ UNCHANGED snapshot_vars
    \/ \E b \in chain : /\ push_block(b)
                        /\ on_irreversible_block(switched(with_block(b), new_head(b)))
    \/ \E irr \in 0 .. MaxBlocks :
          /\ commit_block(irr)
          /\ on_irreversible_block(committing(NewBlock(node.head, irr)))
    \/ \E r \in Requests : create_snapshot(r)

SnapshotSpec == SnapshotInit /\ [][SnapshotNext]_<<vars, snapshot_vars>>

-----------------------------------------------------------------------------
(* Properties.                                                             *)

\* Every call of create_snapshot that was not answered is waiting at exactly one
\* pending snapshot, which is of the block it was called at: on_irreversible_block
\* answers all of them, however many came while the file was pending.
EveryCallIsAnswered ==
    \A r \in Requests :
        LET at == {s \in pending_snapshots : r \in s.callers}
        IN  IF answer[r].what = "waiting"
            THEN Cardinality(at) = 1 /\ \A s \in at : s.block = answer[r].block
            ELSE at = {}

\* When blocks become irreversible, no snapshot as high as one of them stays pending.
PromotedAtOnce ==
    [][Len(node'.blog) > Len(node.blog) =>
           \A s \in pending_snapshots' : s.block.block_num > Len(node'.blog)]_<<vars, snapshot_vars>>

\* "Snapshotted block was forked out of the chain" is never the answer for a block
\* that is irreversible.
ForkedOutIsForkedOut ==
    \A r \in Requests : answer[r].what = "forked" => answer[r].block \notin Range(node.blog)

\* A snapshot that is finalised is of an irreversible block: a block that was forked
\* out is answered with an exception, and its file removed. The code does not keep this (README, section 5).
FinalIsIrreversible == final \subseteq Range(node.blog)
=============================================================================
