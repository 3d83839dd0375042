---------------------------- MODULE ForkDatabase ----------------------------
(***************************************************************************)
(* eosio::chain::fork_database as the controller uses it: blocks arrive in *)
(* any order, are found valid or invalid one after the other along a       *)
(* branch, become irreversible, and the whole database is written to       *)
(* fork_db.dat on a clean shutdown and read back, and the file removed, at *)
(* the next start.  A process that dies leaves no file.                    *)
(***************************************************************************)
EXTENDS ForkTree, FiniteSets

CONSTANTS MaxBlocks,    \* bound: blocks ever produced, the genesis block included
          NoDb,         \* the database has no root (or there is no process)
          NoFile        \* there is no fork_db.dat

ASSUME BoundAssumption == MaxBlocks \in Nat

VARIABLES chain,      \* every block produced so far, by anyone
          fork_db,    \* root, head, index and validated flags
          file,       \* fork_db.dat
          running     \* whether a process has the database open

vars == <<chain, fork_db, file, running>>

Block == [id : Nat, previous : Nat, block_num : Nat, dpos_irr : Nat]

Db == [root : Block, head : Block, index : SUBSET Block, validated : SUBSET Block]

File == [root : Block, blocks : SUBSET Block, validated : SUBSET Block,
         before : SUBSET (Block \X Block), head : Nat]

TypeOK == /\ chain \subseteq Block
          /\ fork_db \in {d \in Db : d.validated \subseteq d.index} \cup {NoDb}
          /\ file \in File \cup {NoFile}
          /\ running \in BOOLEAN

genesis == [id |-> 1, previous |-> 0, block_num |-> 1, dpos_irr |-> 0]

Init == /\ chain = {genesis}
        /\ fork_db = NoDb
        /\ file = NoFile
        /\ running = FALSE

-----------------------------------------------------------------------------

\* Someone builds a block on a block that exists.  Its irreversible block number
\* comes from block_header_state::next and stays below the number of the block; it
\* may be below its parent's, as when a schedule of four shrinks to three.
produce(p, irr) ==
    /\ Cardinality(chain) < MaxBlocks
    /\ irr <= p.block_num
    /\ chain' = chain \cup {[id |-> Cardinality(chain) + 1, previous |-> p.id,
                             block_num |-> p.block_num + 1, dpos_irr |-> irr]}
    /\ UNCHANGED <<fork_db, file, running>>

\* The rest of an operation that finds a database with a root.
Becomes(d) == fork_db' = d /\ UNCHANGED <<chain, file, running>>

\* open() in the constructor of the controller; CanLoad is what it asserts.
open ==
    /\ ~running
    /\ running' = TRUE
    /\ \/ file = NoFile /\ fork_db' = NoDb
       \/ file # NoFile /\ CanLoad(file) /\ fork_db' = Loaded(file)
    /\ file' = NoFile
    /\ UNCHANGED chain

\* A start with --hard-replay clears the state directory before it opens anything; a
\* file that open() refuses stays in place until then.
do_hard_replay ==
    /\ ~running
    /\ file' = NoFile
    /\ UNCHANGED <<chain, fork_db, running>>

\* startup() and replay() restart the tree from the block the state is at.
start_from(b) == running /\ Becomes(reset(b))

\* push_block() and replay_push_block(); a known block is ignored or refused.
receive(b) ==
    /\ fork_db # NoDb /\ running
    /\ linkable(fork_db, b)
    /\ b \notin fork_db.index
    /\ Becomes(add(fork_db, b))

\* Blocks are applied along a branch, so that the previous block is the root or
\* was found valid before.
applies(b) ==
    /\ fork_db # NoDb /\ running
    /\ b \in fork_db.index
    /\ \E p \in fork_db.validated \cup {fork_db.root} : p.id = b.previous
    /\ Becomes(mark_valid(fork_db, b))

\* A block that cannot be applied has not been applied before.
fails(b) ==
    /\ fork_db # NoDb /\ running
    /\ b \in unvalidated(fork_db)
    /\ can_remove(fork_db, b.id)
    /\ Becomes(remove(fork_db, b.id))

\* log_irreversible() advances the root along the branch of the head.
irreversible(b) ==
    /\ fork_db # NoDb /\ running
    /\ b \in fetch_branch(fork_db, fork_db.head)
    /\ can_advance_root(fork_db, b)
    /\ Becomes(advance_root(fork_db, b))

\* startup() in read mode irreversible.
roll_back ==
    /\ fork_db # NoDb /\ running
    /\ Becomes(rollback_head_to_root(fork_db))

\* The destructor.
close ==
    /\ running
    /\ running' = FALSE
    /\ file' = IF fork_db = NoDb THEN file ELSE Saved(fork_db)
    /\ fork_db' = NoDb
    /\ UNCHANGED chain

\* The process is killed.
crash ==
    /\ running
    /\ running' = FALSE
    /\ fork_db' = NoDb
    /\ UNCHANGED <<chain, file>>

Next == \/ \E p \in chain : \E irr \in 0 .. MaxBlocks : produce(p, irr)
        \/ open
        \/ do_hard_replay
        \/ close
        \/ crash
        \/ roll_back
        \/ \E b \in chain : \/ start_from(b)
                            \/ receive(b)
                            \/ applies(b)
                            \/ fails(b)
                            \/ irreversible(b)

Spec == Init /\ [][Next]_vars

-----------------------------------------------------------------------------
(* Properties.                                                             *)

\* No branch is orphaned: the previous block of every block in the index is in the
\* index or is the root, so that advance_root and pop_block always find their way.
NoOrphans ==
    fork_db # NoDb => /\ \A b \in fork_db.index : linkable(fork_db, b)
                      /\ fork_db.root \notin fork_db.index

\* The head is the root or a validated block, no validated block is preferred to it,
\* and no block at all is preferred to pending_head(), although add() and
\* mark_valid() choose the head in different ways.
HeadIsBest ==
    fork_db # NoDb =>
        /\ fork_db.head \in fork_db.validated \cup {fork_db.root}
        /\ \A b \in fork_db.validated : ~first_preferred(b, fork_db.head)
        /\ \A b \in fork_db.index : ~first_preferred(b, pending_head(fork_db))

\* The removal of a block that failed never reaches the head, which would make
\* remove() throw inside the error path of the controller.
FailureSparesHead ==
    fork_db # NoDb => \A b \in unvalidated(fork_db) : can_remove(fork_db, b.id)

\* Advancing the root along the branch of the head never throws half way, and keeps
\* exactly the blocks that descend from the new root.
AdvanceKeepsSubtree ==
    fork_db # NoDb =>
        \A b \in fetch_branch(fork_db, fork_db.head) :
            /\ can_advance_root(fork_db, b)
            /\ advance_root(fork_db, b).index = Descendants(fork_db.index, b.id)

\* A clean shutdown at any moment leaves a file that gives back the same root, head,
\* blocks and flags, and that the next start accepts if and only if the irreversible
\* numbers rise along every branch: close() orders by them, so that a block that
\* lowers the number is written before its parent and open() finds it unlinkable.
RestartRestores ==
    /\ fork_db # NoDb => /\ CanLoad(Saved(fork_db)) <=> Rising(fork_db.index)
                         /\ Loaded(Saved(fork_db)) = fork_db
    /\ file # NoFile => (CanLoad(file) <=> Rising(Loaded(file).index))

-----------------------------------------------------------------------------
(* The inductive invariant.                                                *)

\* The blocks that exist form a tree, numbered from the genesis block.
ChainInv ==
    /\ chain \subseteq Block
    /\ IsFiniteSet(chain)
    /\ \A b \in chain : /\ b.id \in 1 .. Cardinality(chain)
                         /\ b.previous < b.id
                         /\ b.block_num <= b.id
                         /\ b.dpos_irr <= b.block_num
    /\ \A a, b \in chain : a.id = b.id => a = b
    /\ \A p, b \in chain : p.id = b.previous => b.block_num = p.block_num + 1

\* The database d holds a connected part of that tree, its validated blocks are
\* connected to the root too, and the head is as good as any of them.
TreeInv(d) ==
    /\ d \in Db
    /\ d.root \in chain \ d.index
    /\ d.index \subseteq chain
    /\ \A b \in d.index : b.block_num > d.root.block_num
    /\ d.validated \subseteq d.index
    /\ \A b \in d.index : linkable(d, b)
    /\ \A b \in d.validated : \E p \in d.validated \cup {d.root} : p.id = b.previous
    /\ d.head \in d.validated \cup {d.root}
    /\ \A b \in d.validated : ~first_preferred(b, d.head)

Inv == /\ ChainInv
       /\ running \in BOOLEAN
       /\ fork_db # NoDb => TreeInv(fork_db)
       /\ file # NoFile => TreeInv(Loaded(file)) /\ file = Saved(Loaded(file))
=============================================================================
