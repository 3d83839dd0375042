----------------------------- MODULE Controller -----------------------------
(***************************************************************************)
(* eosio::chain::controller: how one node keeps its fork database, chain   *)
(* state, reversible blocks and block log in step while blocks arrive, are *)
(* produced, fail, make others irreversible, and while the node stops,     *)
(* dies and starts again (read modes speculative and head).                *)
(*                                                                         *)
(* The chain state is abstracted to the sequence of blocks that have been  *)
(* applied to it: its length is db.revision(), and the undo stack reaches  *)
(* down to the last committed one.  Block numbers start at 1, so that the  *)
(* block of number i is at position i of the state and of the block log.   *)
(***************************************************************************)
EXTENDS ForkTree, FiniteSets, SequencesExt

CONSTANTS MaxBlocks,    \* bound: blocks of the network, the genesis block included
          MaxStops,     \* bound: times the process stops or dies
          NoDb,         \* the fork database is not loaded
          NoFile,       \* there is no fork_db.dat
          WritesFail    \* whether append() to the block log may throw

VARIABLES chain,        \* every block produced so far, by anyone
          bad,          \* those of them that cannot be applied
          node,         \* fork_db, head, state, committed, reversible and blog
          file,         \* fork_db.dat
          pending,      \* whether a block is being built on the head
          status,       \* "up", "down" after a clean stop, "dirty" after a crash
          failed,       \* history: append() threw, or commit_block moved the head to
                        \* a block that is not applied, since the last start
          stops

vars == <<chain, bad, node, file, pending, status, failed, stops>>

genesis == [id |-> 1, previous |-> 0, block_num |-> 1, dpos_irr |-> 0]

NoBlocks == [i \in {} |-> genesis]

\* The first start of the node.
Init ==
    /\ chain = {genesis}
    /\ bad = {}
    /\ node = [fork_db |-> reset(genesis), head |-> genesis, state |-> <<genesis>>,
               committed |-> 1, reversible |-> NoBlocks, blog |-> <<genesis>>]
    /\ file = NoFile
    /\ pending = FALSE
    /\ status = "up"
    /\ failed = FALSE
    /\ stops = 0

-----------------------------------------------------------------------------
(* Steps of the handlers.  Each returns the node after it.                 *)

\* A branch, which is a set of blocks, from its lowest block upwards.
Upwards(S) == SetToSortSeq(S, LAMBDA x, y : x.block_num < y.block_num)

Put(f, b) == [i \in DOMAIN f \cup {b.block_num} |-> IF i = b.block_num THEN b ELSE f[i]]

Above(f, num) == [i \in {j \in DOMAIN f : j > num} |-> f[i]]

Below(f, num) == [i \in {j \in DOMAIN f : j < num} |-> f[i]]

\* The assert of start_block, which apply_block and the producer call.
on_par(n) == Len(n.state) = n.head.block_num

\* apply_block and commit_block(false); a replay does not store reversible blocks.
apply_block(n, b) ==
    [n EXCEPT !.state = Append(@, b), !.head = b, !.reversible = Put(@, b)]

\* Mutant of pop_block: the state is not undone.
pop_block_no_undo(n) ==
    [n EXCEPT !.head = CHOOSE p \in Known(n.fork_db) : p.id = n.head.previous,
              !.reversible = [i \in DOMAIN @ \ {n.head.block_num} |-> @[i]]]

\* The head is looked up in the fork database; undo() stops at the last commit.
pop_block(n) ==
    [n EXCEPT !.head = CHOOSE p \in Known(n.fork_db) : p.id = n.head.previous,
              !.reversible = [i \in DOMAIN @ \ {n.head.block_num} |-> @[i]],
              !.state = IF Len(@) > n.committed THEN Front(@) ELSE @]

pop_blocks(n, S) == FoldLeft(LAMBDA m, b : pop_block(m), n, Upwards(S))

apply_blocks(n, S) == FoldLeft(apply_block, n, Upwards(S))

apply_and_mark(n, S) ==
    FoldLeft(LAMBDA m, b : [apply_block(m, b) EXCEPT !.fork_db = mark_valid(@, b)],
             n, Upwards(S))

-----------------------------------------------------------------------------
(* log_irreversible                                                        *)

\* Its assert, and the blocks it logs.
root_is_logged(n) == n.fork_db.root = Last(n.blog)

to_log(n) ==
    {b \in n.fork_db.index : /\ b.block_num <= n.fork_db.head.dpos_irr
                             /\ b \in fetch_branch(n.fork_db, n.fork_db.head)}

Advanced(d, S) ==
    IF S = {} THEN d ELSE advance_root(d, Last(Upwards(S)))

\* Mutant of Logged: the root is not advanced.
LoggedOnly(n, S) ==
    LET num == Len(n.blog) + Cardinality(S)
    IN  [n EXCEPT !.blog = @ \o Upwards(S), !.committed = num, !.reversible = Above(@, num)]

\* The node when the blocks in S are logged and the root is advanced to them.
Logged(n, S) ==
    LET num == Len(n.blog) + Cardinality(S)
    IN  [n EXCEPT !.fork_db = Advanced(@, S), !.blog = @ \o Upwards(S),
                  !.committed = num, !.reversible = Above(@, num)]

log_irreversible(n) == IF root_is_logged(n) THEN Logged(n, to_log(n)) ELSE n

\* append() throws at the block after the blocks S, which is committed by then and
\* becomes the root on the way out.
log_irreversible_fails(n, S) ==
    LET next == CHOOSE b \in to_log(n) : b.block_num = Len(n.blog) + Cardinality(S) + 1
    IN  [Logged(n, S) EXCEPT !.committed = next.block_num, !.fork_db = advance_root(@, next)]

\* The sets of blocks that are logged before a failure.
Partly(n) ==
    {S \in SUBSET to_log(n) : /\ S # to_log(n)
                              /\ \A b \in S, c \in to_log(n) \ S : b.block_num < c.block_num}

-----------------------------------------------------------------------------
(* maybe_switch_forks(new_head) before its call of log_irreversible.       *)

Branches(n, new_head) == fetch_branch_from(n.fork_db, new_head, n.head)

\* The blocks of the new branch that are applied before one fails.
applicable(S) == {b \in S : \A c \in S : c.block_num <= b.block_num => c \notin bad}

\* Mutant of switched_back: the old branch is not applied again.
switched_back_not(n, new_head) ==
    LET br   == Branches(n, new_head)
        m    == pop_blocks(n, br.second)
        good == IF on_par(m) THEN applicable(br.first) ELSE {}
        bid  == Upwards(br.first \ good)[1].id
        a    == apply_and_mark(m, good)
    IN  IF ~can_remove(a.fork_db, bid) THEN a
        ELSE pop_blocks([a EXCEPT !.fork_db = remove(@, bid)], good)

\* A block of the new branch fails: it and its descendants are removed from the fork
\* database, unless that throws, the blocks applied so far are popped and the old branch
\* applied again, which throws if the state is not on par with the head.
switched_back(n, new_head) ==
    LET br   == Branches(n, new_head)
        m    == pop_blocks(n, br.second)
        good == IF on_par(m) THEN applicable(br.first) ELSE {}
        bid  == Upwards(br.first \ good)[1].id
        a    == apply_and_mark(m, good)
        r    == pop_blocks([a EXCEPT !.fork_db = remove(@, bid)], good)
    IN  IF ~can_remove(a.fork_db, bid) THEN a
        ELSE IF on_par(m) THEN apply_blocks(r, br.second) ELSE r

switches(n, new_head) ==
    LET br == Branches(n, new_head)
    IN  IF new_head.previous = n.head.id THEN on_par(n) /\ new_head \notin bad
        ELSE on_par(pop_blocks(n, br.second)) /\ applicable(br.first) = br.first

\* The three cases: the next block, another branch, and no change.
switched(n, new_head) ==
    IF new_head.previous = n.head.id
    THEN [apply_block(n, new_head) EXCEPT !.fork_db = mark_valid(@, new_head)]
    ELSE LET br == Branches(n, new_head)
         IN  apply_and_mark(pop_blocks(n, br.second), br.first)

\* The block that failed is removed, unless that throws.
not_switched(n, new_head) ==
    IF new_head.previous = n.head.id
    THEN IF can_remove(n.fork_db, new_head.id)
         THEN [n EXCEPT !.fork_db = remove(@, new_head.id)] ELSE n
    ELSE switched_back(n, new_head)

-----------------------------------------------------------------------------
(* The network and the main thread of a running node.                      *)

NewBlock(p, irr) ==
    [id |-> Cardinality(chain) + 1, previous |-> p.id, block_num |-> p.block_num + 1,
     dpos_irr |-> irr]

\* Whether block_header_state::next can give a block on p this irreversible number:
\* producers confirm no block that they cannot apply.  It may be below the one of p,
\* as when a schedule of four shrinks to three.
may_make(p, irr) ==
    /\ Cardinality(chain) < MaxBlocks
    /\ irr <= p.block_num
    /\ \A b \in bad : b = p \/ p \in Descendants(chain, b.id) => irr < b.block_num

\* Another node builds a block; a faulty one may build a block that cannot be applied.
produce(p, irr, good) ==
    /\ may_make(p, irr)
    /\ p \in bad => ~good
    /\ chain' = chain \cup {NewBlock(p, irr)}
    /\ bad' = IF good THEN bad ELSE bad \cup {NewBlock(p, irr)}
    /\ UNCHANGED <<node, file, pending, status, failed, stops>>

\* The rest of a handler of the running node.
Handled(n) == node' = n /\ UNCHANGED <<chain, bad, file, status, stops>>

\* create_block_state_future and push_block.
receives(b) ==
    /\ status = "up" /\ ~pending
    /\ b \notin node.fork_db.index
    /\ linkable(node.fork_db, b)

\* The node when push_block calls maybe_switch_forks, and its argument.
with_block(b) == [node EXCEPT !.fork_db = add(@, b)]

new_head(b) == pending_head(with_block(b).fork_db)

\* The block is no reason to move the head.
push_block_aside(b) ==
    /\ receives(b)
    /\ new_head(b) = node.head
    /\ Handled(with_block(b))
    /\ UNCHANGED <<pending, failed>>

\* The head moves to the block, on its branch or to another one.
push_block(b) ==
    /\ receives(b)
    /\ new_head(b) # node.head
    /\ switches(with_block(b), new_head(b))
    /\ LET n == switched(with_block(b), new_head(b))
       IN  \/ Handled(log_irreversible(n)) /\ UNCHANGED failed
           \/ \E S \in Partly(n) :
                 /\ WritesFail /\ root_is_logged(n)
                 /\ Handled(log_irreversible_fails(n, S))
                 /\ failed' = TRUE
    /\ UNCHANGED pending

\* A block of the branch cannot be applied.
push_block_fails(b) ==
    /\ receives(b)
    /\ new_head(b) # node.head
    /\ ~switches(with_block(b), new_head(b))
    /\ Handled(not_switched(with_block(b), new_head(b)))
    /\ UNCHANGED <<pending, failed>>

\* A pending block opens an undo session; the assert keeps it from being started.
start_block ==
    /\ status = "up" /\ ~pending
    /\ on_par(node)
    /\ pending' = TRUE
    /\ UNCHANGED <<chain, bad, node, file, status, failed, stops>>

abort_block ==
    /\ status = "up" /\ pending
    /\ pending' = FALSE
    /\ UNCHANGED <<chain, bad, node, file, status, failed, stops>>

\* commit_block(true) before log_irreversible; the session is pushed after it.
committing(b) ==
    LET d == mark_valid(add(node.fork_db, b), b)
    IN  [node EXCEPT !.fork_db = d, !.head = d.head, !.reversible = Put(@, b)]

\* The pending block becomes the head; if log_irreversible throws, the session of the
\* block is undone.
commit_block(irr) ==
    LET b == NewBlock(node.head, irr)
        n == committing(b)
    IN  /\ status = "up" /\ pending
        /\ may_make(node.head, irr)
        /\ n.head = b
        /\ pending' = FALSE
        /\ chain' = chain \cup {b}
        /\ \/ /\ root_is_logged(n)
              /\ node' = [log_irreversible(n) EXCEPT !.state = Append(@, b)]
              /\ UNCHANGED failed
           \/ /\ ~root_is_logged(n)
              /\ node' = n
              /\ UNCHANGED failed
           \/ \E S \in Partly(n) :
                 /\ WritesFail /\ root_is_logged(n)
                 /\ node' = log_irreversible_fails(n, S)
                 /\ failed' = TRUE
        /\ UNCHANGED <<bad, file, status, stops>>

\* The block is not preferred to its parent, so that it does not become the head of
\* the fork database: commit_block throws when it has taken the head from there, the
\* session is undone, and the block stays in the fork database as a valid one.  It
\* is not sent to the peers; that one may build on it all the same covers more.
commit_block_fails(irr) ==
    LET b == NewBlock(node.head, irr)
        d == committing(b).fork_db
    IN  /\ status = "up" /\ pending
        /\ may_make(node.head, irr)
        /\ d.head # b
        /\ pending' = FALSE
        /\ chain' = chain \cup {b}
        /\ node' = [node EXCEPT !.fork_db = d, !.head = d.head]
        /\ failed' = (failed \/ d.head # node.head)
        /\ UNCHANGED <<bad, file, status, stops>>

-----------------------------------------------------------------------------
(* Stops and starts.                                                       *)

Stopped(how) ==
    /\ status = "up"
    /\ stops < MaxStops
    /\ stops' = stops + 1
    /\ status' = how
    /\ pending' = FALSE
    /\ UNCHANGED <<chain, bad, failed>>

\* The destructors: the pending block is aborted and the fork database written.
shutdown ==
    /\ Stopped("down")
    /\ file' = Saved(node.fork_db)
    /\ node' = [node EXCEPT !.fork_db = NoDb]

\* The process dies.  fork_db.dat was removed when it was opened.
crash ==
    /\ Stopped("dirty")
    /\ node' = [node EXCEPT !.fork_db = NoDb]
    /\ UNCHANGED file

\* The process dies in push_block, when some of the blocks to log are in the block log
\* and the reversible blocks up to number num are removed.
crash_in_push(b) ==
    /\ receives(b)
    /\ new_head(b) # node.head
    /\ switches(with_block(b), new_head(b))
    /\ LET n == switched(with_block(b), new_head(b))
       IN \E S \in Partly(n) \cup {to_log(n)} :
          \E num \in {Len(n.blog) + Cardinality(S) - 1, Len(n.blog) + Cardinality(S)} :
              /\ S # {} /\ root_is_logged(n)
              /\ Stopped("dirty")
              /\ node' = [n EXCEPT !.blog = @ \o Upwards(S), !.reversible = Above(@, num),
                                   !.fork_db = NoDb]
    /\ UNCHANGED file

\* The process dies in a switch of forks that fails with no old branch to return to:
\* maybe_switch_forks reads the last element of an empty branch when it has popped the
\* new one.  If it survives the read, push_block_fails is what it does.
crash_in_switch(b) ==
    /\ receives(b)
    /\ new_head(b) # node.head /\ new_head(b).previous # node.head.id
    /\ Branches(with_block(b), new_head(b)).second = {}
    /\ ~switches(with_block(b), new_head(b))
    /\ Stopped("dirty")
    /\ node' = [not_switched(with_block(b), new_head(b)) EXCEPT !.fork_db = NoDb]
    /\ UNCHANGED file

\* The last block in a local store: the block log or the reversible blocks.
last_block_num(n) ==
    LET lib == Len(n.blog)
    IN  IF DOMAIN Above(n.reversible, lib) = {} THEN lib ELSE Max(DOMAIN n.reversible)

search_on_branch(d, h, num) ==
    {b \in fetch_branch(d, h) \cup {d.root} : b.block_num = num}

\* The fork database when the block log has been replayed up to its head h.
after_log(d, h) ==
    LET ph == pending_head(d)
    IN  IF ph.block_num < h.block_num \/ h.block_num < d.root.block_num THEN reset(h)
        ELSE IF h.block_num # d.root.block_num
        THEN LET r == CHOOSE b \in search_on_branch(d, ph, h.block_num) : TRUE
             IN  advance_root(mark_valid(d, r), r)
        ELSE d

\* The irreversible part of replay().
replay_log(n) ==
    IF n.head.block_num >= Len(n.blog) THEN n
    ELSE [n EXCEPT !.state = @ \o SubSeq(n.blog, n.head.block_num + 1, Len(n.blog)),
                   !.head = Last(n.blog), !.committed = Len(n.blog),
                   !.fork_db = after_log(@, Last(n.blog))]

\* replay_push_block with a reversible block.
replay_push_block(n, b) ==
    LET d == IF b \in n.fork_db.index THEN n.fork_db ELSE add(n.fork_db, b)
    IN  log_irreversible(switched([n EXCEPT !.fork_db = d], b))

\* Mutant of replay: the reversible blocks are not replayed.
replay_log_only(n) == replay_log(n)

replay(n) ==
    LET m == replay_log(n)
    IN  FoldLeft(replay_push_block, m,
                 [i \in 1 .. last_block_num(n) - m.head.block_num |->
                     n.reversible[m.head.block_num + i]])

\* The first reversible block finds its previous block, and log_irreversible() a root
\* that is logged; then the others do too.
can_replay(n) ==
    LET m == replay_log(n)
    IN  last_block_num(n) > m.head.block_num =>
            /\ linkable(m.fork_db, n.reversible[m.head.block_num + 1])
            /\ root_is_logged(m)

\* The asserts of init().  If one fails the node stays down.
can_init(n) ==
    LET rev  == Above(n.reversible, Len(n.blog))
        last == last_block_num(n)
        ph   == pending_head(n.fork_db)
    IN  /\ Len(n.state) >= n.head.block_num
        /\ DOMAIN rev # {} => Min(DOMAIN rev) = Len(n.blog) + 1
        /\ n.head.block_num <= last
        /\ DOMAIN rev # {} /\ ph.block_num \in Len(n.blog) + 1 .. last =>
               rev[ph.block_num] = ph
        /\ DOMAIN rev # {} /\ last < ph.block_num =>
               search_on_branch(n.fork_db, ph, last) = {rev[last]}
        /\ can_replay(n)

\* init(): the state is undone to the head of the fork database, reversible blocks in
\* the log are dropped, and what is ahead of the head is replayed.
init(n) ==
    LET m == [n EXCEPT !.state = SubSeq(@, 1, n.head.block_num),
                       !.reversible = Above(@, Len(n.blog))]
    IN  IF last_block_num(m) > m.head.block_num THEN replay(m) ELSE m

\* What startup() starts from when there is a state ...
existing(f) == [node EXCEPT !.fork_db = Loaded(f), !.head = Loaded(f).head]

can_startup(f) ==
    /\ f # NoFile
    /\ CanLoad(f)
    /\ existing(f).fork_db.root.block_num <= Len(node.blog)
    /\ can_init(existing(f))

\* ... and when there is none; the fork database is kept if there is one.
fresh(d, rev) ==
    [node EXCEPT !.fork_db = d, !.head = genesis, !.state = <<genesis>>,
                 !.committed = 1, !.reversible = rev]

Started(n) ==
    /\ node' = init(n)
    /\ file' = NoFile
    /\ status' = "up"
    /\ failed' = FALSE
    /\ UNCHANGED <<chain, bad, pending, stops>>

\* A start after a clean stop.  A database that is dirty is refused.
startup ==
    /\ status = "down"
    /\ can_startup(file)
    /\ Started(existing(file))

\* A start with --replay-blockchain: the state is deleted, fork_db.dat is not.
startup_replay ==
    /\ status = "down"
    /\ CanLoad(file)
    /\ can_init(fresh(Loaded(file), node.reversible))
    /\ Started(fresh(Loaded(file), node.reversible))

\* Of a dirty database of reversible blocks the first ones are recovered, up to one
\* that cannot be read.
recover_reversible_blocks ==
    IF status = "dirty"
    THEN {Below(node.reversible, num) : num \in {0} \cup {i + 1 : i \in DOMAIN node.reversible}}
    ELSE {node.reversible}

\* A start with --hard-replay-blockchain: all of the state directory is deleted.
startup_hard_replay ==
    /\ status \in {"down", "dirty"}
    /\ \E rev \in recover_reversible_blocks : /\ can_init(fresh(reset(genesis), rev))
                                              /\ Started(fresh(reset(genesis), rev))

Next ==
    \/ \E p \in chain, irr \in 0 .. MaxBlocks, good \in BOOLEAN : produce(p, irr, good)
    \/ \E b \in chain : \/ push_block_aside(b)
                        \/ push_block(b)
                        \/ push_block_fails(b)
                        \/ crash_in_push(b)
                        \/ crash_in_switch(b)
    \/ start_block
    \/ abort_block
    \/ \E irr \in 0 .. MaxBlocks : commit_block(irr) \/ commit_block_fails(irr)
    \/ shutdown
    \/ crash
    \/ startup
    \/ startup_replay
    \/ startup_hard_replay

Spec == Init /\ [][Next]_vars

-----------------------------------------------------------------------------
(* Properties.                                                             *)

TypeOK ==
    /\ bad \subseteq chain
    /\ Range(node.state) \subseteq chain /\ Range(node.blog) \subseteq chain
    /\ node.committed \in 1 .. MaxBlocks
    /\ \A i \in DOMAIN node.reversible : node.reversible[i] \in chain
    /\ status \in {"up", "down", "dirty"}
    /\ (status = "up") = (node.fork_db # NoDb)
    /\ pending => status = "up"

Linked(s) == \A i \in 2 .. Len(s) : s[i].previous = s[i - 1].id

\* The blocks that were applied to the state are the branch of the head: the revision
\* is on par with the head, as start_block asserts, also after a fork switch, a switch
\* that failed half way, a restart or a replay.
StateIsHead ==
    status = "up" /\ ~failed => Last(node.state) = node.head /\ Linked(node.state)

\* No block in the fork database is preferred to the head of the node, but for its own
\* ancestors above a block that lowered the irreversible number, and the head of the
\* fork database is as good unless the node is at the root, which is in no index; also
\* when a switch to a better branch failed half way.
NothingBetter ==
    status = "up" /\ ~failed =>
        /\ \A b \in node.fork_db.index :
               first_preferred(b, node.head) => b \in fetch_branch(node.fork_db, node.head)
        /\ first_preferred(node.head, node.fork_db.head) => node.head = node.fork_db.root

\* Where the irreversible numbers rise along every branch, a switch back has an old
\* branch to return to: maybe_switch_forks takes the last element of it without a look
\* at its size.
OldBranchExists ==
    \A b \in chain :
        /\ receives(b) /\ ~failed /\ ~switches(with_block(b), new_head(b))
        /\ Rising(Known(with_block(b).fork_db))
        =>  \/ new_head(b).previous = node.head.id
            \/ Branches(with_block(b), new_head(b)).second # {}

\* The root of the fork database is the head of the block log, the log is a part of
\* the branch that was applied, and the undo stack reaches down to it but not further.
RootIsLogHead ==
    status = "up" /\ ~failed =>
        /\ root_is_logged(node)
        /\ IsPrefix(node.blog, node.state)
        /\ node.committed = Len(node.blog)

\* The reversible blocks are the blocks between the block log and the head.
ReversibleIsBranch ==
    status = "up" /\ ~failed =>
        /\ DOMAIN node.reversible = Len(node.blog) + 1 .. node.head.block_num
        /\ \A i \in DOMAIN node.reversible : node.reversible[i] = node.state[i]

\* A block that cannot be applied, on the branch of the head or deep in another one,
\* leaves the head, the state, the reversible blocks and the block log as they were.
FailedPushRestores ==
    [][~failed /\ \/ node'.head # node.head
                   \/ node'.state # node.state
                   \/ node'.reversible # node.reversible
                   \/ node'.blog # node.blog
           => \A b \in chain : ~push_block_fails(b)]_vars

\* After a clean stop the node can be replayed from its blocks, and gets back to its
\* head, unless commit_block had moved that to a block which is not applied.  If besides
\* the fork database has the same head, and in it the irreversible numbers rise along
\* every branch, it starts again with fork_db.dat, with or without the state, and gets
\* back to that head too.  After a crash it can be replayed, whatever part of the
\* reversible blocks is recovered.
StartsAgain ==
    /\ status = "down" =>
           /\ can_init(fresh(reset(genesis), node.reversible))
           /\ ~failed => init(fresh(reset(genesis), node.reversible)).head = node.head
    /\ status = "down" /\ ~failed /\ Loaded(file).head = node.head /\ Rising(Loaded(file).index) =>
           /\ can_startup(file)
           /\ init(existing(file)).head = node.head
           /\ can_init(fresh(Loaded(file), node.reversible))
           /\ init(fresh(Loaded(file), node.reversible)).head = node.head
    /\ status = "dirty" =>
           \A rev \in recover_reversible_blocks : can_init(fresh(reset(genesis), rev))

\* The pending head of a fork database that was closed is among the reversible blocks,
\* as init() asserts. The code does not keep this (README, section 5).
PendingHeadIsReversible == status = "down" => can_init(existing(file))

\* The root of the fork database is the head of the block log whenever
\* log_irreversible() is called, as it asserts. The code does not keep this (README, section 5).
RootStaysLogged == status = "up" => root_is_logged(node)
=============================================================================
