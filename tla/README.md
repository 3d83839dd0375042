# A TLA+ verification of the node

The repository is a blockchain node derived from EOSIO 2.0: `nodeos` (the node), `keosd`
(the wallet) and `cleos` (the command line client), built from the libraries under
`src/libraries` and the plugins under `src/plugins`. Compared with EOSIO it has no
protocol features, and it adds a *standby schedule* of producers that can replace the
active one at short notice, and a *chipcounter* transaction that a producer sends
periodically. The only WebAssembly runtime that is built is wabt.

This directory holds TLA+ models of the parts that keep the chain consistent and of the
plugins around them, the TLC runs that check them on small instances, and TLAPS proofs of
the most important invariants. `PROJECT.json` is the index: components, runs, the source
lines of every definition, the mutants each property is tested with, findings, hazards and
theorems.

1. The system and its parts
2. Modules
3. How the modules correspond to the code
4. Runs, bounds and fairness
5. Where the code differs from what it says
6. Proofs
7. Not modelled

## 1. The system and its parts

One main thread runs an application loop; plugins post handlers to it. Blocks and
transactions arrive through the net plugin and the http plugin, are checked in thread
pools, and are applied by the controller on the main thread. The producer plugin decides
when to start, finish and sign a block. Everything the node knows about accounts and
contracts is in chainbase, a set of tables in a memory-mapped file with an undo stack.

| Part | Sources (below `src/`) | Modelled in |
|---|---|---|
| chainbase tables and undo stack | `libraries/chainbase/include/chainbase/chainbase.hpp` | `UndoIndex`, `Database` |
| chainbase file mapping | `libraries/chainbase/src/pinnable_mapped_file.cpp` | `Controller`: its dirty flag only |
| fork database | `libraries/chain/fork_database.cpp` | `ForkTree`, `ForkDatabase`, `ForkLoops` |
| block header state | `libraries/chain/block_header_state.cpp` | `BlockHeaderState`: all but digests and signatures |
| producer schedules | `controller.cpp`, `producer_schedule.hpp`, `global_property_object.hpp` | `ProducerSchedules` |
| controller | `libraries/chain/controller.cpp` | `Controller`, `Snapshots`, `Bandwidth` |
| chain plugin | `plugins/chain_plugin/chain_plugin.cpp` | `Controller`: the kinds of start |
| producer plugin | `plugins/producer_plugin/producer_plugin.cpp` | `ProducerWatermark`, `ProducerLoop`, `TransactionQueues`, `Snapshots` |
| unapplied transaction queue | `unapplied_transaction_queue.hpp` | `TransactionQueues` |
| block log | `libraries/chain/block_log.cpp` | `BlockLog`, `LogIndex` |
| state history plugin | `plugins/state_history_plugin` | `StateHistoryLog`, `HistorySession` |
| resource limits | `resource_limits.cpp` | `ResourceLimits`, `RamBilling`, `Bandwidth`, `UsageWindow`, `ElasticLimit` |
| transaction execution | `transaction_context.cpp` | `RamBilling`, `Bandwidth`, `Permissions`, `TransactionTimer`: billing, checks and deadlines |
| platform timer | `platform_timer_posix.cpp`, `platform_timer_asio_fallback.cpp` | `TransactionTimer` |
| authorization | `authorization_manager.cpp`, `authority_checker.hpp`, `eosio_contract.cpp` | `AuthorityChecker`, `Permissions` |
| merkle trees | `merkle.cpp`, `incremental_merkle.hpp` | `IncrementalMerkle` |
| net plugin | `plugins/net_plugin/net_plugin.cpp` | `SyncManager`: synchronisation |
| mongo db plugin | `plugins/mongo_db_plugin` | `MongoQueues`: queues and consumer thread |
| account query database | `plugins/chain_plugin/account_query_db.cpp` | `AccountQueryDb` |
| wallet plugin | `plugins/wallet_plugin` | `Wallets`: wallet manager and files |

The rest is in section 7.

How the parts interact: the controller applies a block inside an undo session of
chainbase and puts its header state into the fork database; the header state says which
block number is irreversible (`dpos_irreversible_blocknum`); `log_irreversible` appends the
blocks up to that number to the block log, commits the undo sessions below it and advances
the root of the fork database. At a clean stop the fork database is written to
`fork_db.dat`; at a start the controller brings the four stores together or refuses. The
producer plugin starts a block, fills it from its queues and commits it, or abandons it
when a block arrives; it also waits with snapshots for the signal that their block is
irreversible. The state history, mongo and account query plugins follow the signals of the
controller. A transaction is first authorized against the permissions, then executed under
the deadline of the timer, and billed to the resource limits.

## 2. Modules

| Module | Role |
|---|---|
| `SnapshotStack` | abstract specification of a chainbase index: a stack of complete copies |
| `UndoIndex` | `generic_index` with its undo deltas; implements `SnapshotStack` |
| `Database` | `chainbase::database`: indices that must move together, sessions, reopened files |
| `ChainbaseProofs` | proofs for `UndoIndex` and `Database` |
| `ForkTree` | the operations of `fork_database` as operators on a record |
| `ForkDatabase` | the fork database as a state machine, with its file and crashes |
| `ForkLoops` | the loops of the code, checked against the sets `ForkTree` uses |
| `ForkDatabaseProofs` | proofs for `ForkDatabase` |
| `BlockHeaderState` | `next`, `finish_next` and `calc_dpos_last_irreversible` as operators |
| `ProducerWatermark` | the watermark and the number of blocks a producer confirms |
| `ProducerSchedules` | one branch whose schedule changes; uses the two above |
| `Dpos` | producers of one schedule on diverging branches; uses the same two |
| `ConsensusProofs` | proofs for `Dpos` and `ProducerSchedules` |
| `Controller` | one node with its four stores; uses `ForkTree` |
| `Snapshots` | the pending snapshots of the producer plugin, composed with `Controller` |
| `TransactionQueues` | incoming, unapplied and persisted transactions of the producer plugin |
| `ProducerLoop` | the production loop with its timer, and the chipcounter timer |
| `ProducerLoopProofs` | proofs for `ProducerLoop` |
| `LogOfBlocks` | abstract specification of a log: blocks are added at its end or given up there |
| `BlockLog` | `blocks.log` and `blocks.index` with crashes; implements `LogOfBlocks` |
| `LogIndex` | the construction of `blocks.index` in buffers |
| `StateHistoryLog` | a state history log and its index with crashes; implements `LogOfBlocks` |
| `HistorySession` | a client of the state history plugin; its proofs |
| `ResourceLimits` | the tables and functions of `resource_limits_manager`, as operators |
| `RamBilling` | account limits, RAM and totals over transactions and blocks |
| `BillingProofs` | proofs for `RamBilling` and `TransactionTimer` |
| `Bandwidth` | the billing of NET and CPU, by the producer and by a validator |
| `UsageWindow` | what the moving average of an account enforces |
| `ElasticLimit` | the elastic limit of a resource over an endless chain |
| `AuthorityChecker` | the recursive check of authorities, against a fixed point |
| `Permissions` | the permissions and links of an account and the actions that change them |
| `PermissionsProofs` | proofs for `Permissions` |
| `IncrementalMerkle` | the incremental tree against the tree of all leaves |
| `TransactionTimer` | the deadline of a transaction |
| `SyncManager` | how a node catches up with its peers |
| `MongoQueues` | the queues and the consumer thread of the mongo plugin |
| `Wallets` | wallets in memory and in files; their proof |
| `AccountQueryDb` | the index of permissions that follows the head |
| `MC*` | constants for TLC, one `.cfg` per run |

Definitions keep the names of the source where they translate a function. A definition
whose comment begins with "Mistake" or "Mutant" is a plausible bug used to show that a
property is able to fail; no specification refers to it.

## 3. How the modules correspond to the code

**UndoIndex.** `indices`, `next_id`, `stack` and `revision` are `_indices`, `_next_id`,
`_stack` and `_revision`. The maps of an undo state are total functions with `Absent` where
there is no entry. `OnCreate`, `OnModify` and `OnRemove` are the three hooks, `Undone` is
what `undo()` restores, `Merged` is the merge matrix of `squash()`. Every public operation
is an action; `undo_all()` is a repetition of `undo`. `saved` is a history variable, the
complete copy of the index at the start of every open session; no action reads it.
Objects have no structure, so the uniqueness of secondary keys, whose violation ends the
process, is left out.

**Database.** A list of indices, each with what `UndoIndex` implements (contents and a stack
of copies). `start_undo_session` opens the sub-sessions one by one and may fail between
two; the destructors take the ones that were opened back. A file is opened by programs
that register different indices; `add_index` compares revisions. The first index is in
every program.

**ForkTree, ForkDatabase, ForkLoops.** A block is `[id, previous, block_num, dpos_irr]`.
`ForkTree` states each operation with sets (descendants as the least closed set) so that it
can be proved about; `ForkLoops` states the loops of the code with recursion, and TLC checks
that both agree in every reachable database. `ForkDatabase` calls the operations the way
the controller does: a block is marked valid only after its previous block, only a block
that was not applied is removed, the root advances along the branch of the head. The file
records which block is written before which, because `open()` refuses a block whose
previous block has not been read.

In `ForkDatabase` and `Controller` the irreversible block number of a block may be any one
that is below the block, also a lower one than its parent's: `block_header_state::next`
excludes this only while the schedule keeps its size (section 5). Such a block is written
to the file before its parent, and `RestartRestores` says exactly when `open()` accepts a
file: when the numbers rise along every branch (`Rising`). A file that is refused stays
until `do_hard_replay` clears the directory.

**BlockHeaderState, ProducerWatermark.** `next` and `finish_next` return the header state of
the following block. `confirm_count` is a sequence, `Confirm` the loop over it; `can_next`
and `can_finish_next` are the asserts. The code subtracts `num_prev_blocks_to_confirm` from
the block number as unsigned integers; the model uses integers, and `blocks_to_confirm`
never exceeds the block number.

**ProducerSchedules.** One branch: `head` is the header state of its last block, `gpo` the
schedules in the global property object, `building` the pending block. The contract calls
`set_proposed_producers`, `set_standby_producers` and `enable_standby_producers` happen
inside a block and are undone by `abort_block`. `confirmers` is a history variable.

**Dpos.** All blocks of a network, named by their slots. `produce_block` chooses any head the
producer's node may have (`may_be_head`: preferred to its last one and containing its last
irreversible block), which covers every delay, loss and reordering of blocks. A restart
loses the watermark, which the code keeps in memory only.

**Controller.** `node` is a record of the fork database, the head, the chain state, the last
committed revision, the reversible blocks and the block log. The chain state is the
sequence of blocks applied to it; `UndoIndex` justifies that an undone session leaves no
trace. Every action is a whole handler of the main thread; what happens inside one is
visible only when the process dies (`crash_in_push`, `crash_in_switch`), an append to the
block log throws (`WritesFail`), or a block that was built does not become the head
(`commit_block_fails`). `bad` are the blocks that cannot be applied. `startup`, `startup_replay`
and `startup_hard_replay` are the kinds of start; `can_init` collects the asserts of
`init()`, and a start that fails one leaves the node down with its files as they were.
After a crash the state database is dirty and refused, so that only a hard replay starts
the node, from whatever part of the reversible blocks can be read. The header of a block
is validated on a thread, but the handler that starts this waits for the result before it
does anything else, so that it is one step. Left out: the last loop of `init()`, which
serves a change of the read mode; the interruption of a replay; the partial changes of a
start that fails; failures of signal handlers, which `emit()` swallows, except for the ones
that end the process.

**Snapshots.** Extends `Controller` by `create_snapshot` and `on_irreversible_block`. The
signal comes once per logged block and before the root advances, as in `log_irreversible`.

**TransactionQueues.** A call of `on_incoming_transaction_async` is a request with its own
callback. A handler of the main thread ends by starting a block again, so that it is an
operator that returns the set of nodes it can lead to. What `push_transaction` says of a
transaction (applied, failed, does not fit, time is up) is chosen freely. Deferred
transactions and the denylist are left out.

**ProducerLoop.** `schedule_production_loop`, `maybe_produce_block`,
`schedule_delayed_production_loop`, the chipcounter loop, and blocks of others that arrive.
Times are numbers of half slots from now and the clock is a phase of the schedule, so that
behaviours need no end. The last block of a turn has an offset of its own (`EarlyLast`). A
callback that is queued carries whether its correlation number is still current.

**BlockLog, StateHistoryLog.** The files are sequences of cells, a position is the number of
a cell. The block log flushes after every append, and a crash may cut the last write to each
file or the construction of the index between two buffers of `index_writer`
(`crash_in_construct_index`; entries that were not written yet are `Hole`); the state
history log flushes its files only when it cuts them back or closes them, and a crash keeps
any part of each file beyond that. `open` decides, repairs or refuses as the code does.
`MaxFailures` allows writes of a payload that fail; the runs have none (section 5).

**LogIndex.** `construct_index`: the reverse iterator with its buffer, the writer with its
own, both with every small length of block and buffer. Logs stay below the number
of entries (`MaxEntries`, 2^29 in the code) at which positions overflow (section 5): what
happens there is in no run.

**HistorySession.** The session's `sending`, `send_queue`, `current_request` and
`need_to_send_update`; the branch of the head with fork changes; a client that keeps what it
received, asks once per connection with what it has, and acknowledges. A second request
while results are under way is left out: the client could not tell which one they answer.
`get_block_id` finds every block of the branch.

**ResourceLimits and the modules over it.** Integers are cut to `MaxUint` where the code's
width can be reached. `RamBilling` has transactions that set limits and change usage, in
blocks that are finished or aborted. `Bandwidth` has `init` and `finalize` of
`transaction_context` with the greylist and the leeway, the retirement of failed deferred
transactions, and `finalize_block`; a validator repeats what the producer did with
`explicit_billed_cpu_time`. A transaction that throws changes nothing and is no step.
`UsageWindow` and `ElasticLimit` look at one average and one limit over long times.

**AuthorityChecker.** The visitor over the factors of an authority by descending weight,
with the cache of permissions, the depth, and the reverter of used keys. The reference is
the least fixed point of the authorities given keys, delay and provided permissions.

**Permissions.** The parents of the permissions of one account and its links. A transaction
is checked against the tables from before it and then executes action by action; `trx` keeps
those tables and what was declared, as the checks use them. `AtOrAbove` is what the walk
over the parents in `permission_object::satisfies` visits. `newaccount`, `updateauth`,
`deleteauth`, `linkauth`, `unlinkauth` and actions of another contract are actions. Not
part of it: `canceldelay`, delays, inline actions, the types that cannot be linked, RAM.

**IncrementalMerkle.** Digests are terms, so that equal digests mean equal trees.

**TransactionTimer.** The main thread with the steps of `start()` and `stop()`, the
transaction's deadlines as what is left of them, pauses of the billing while a contract is
loaded, and the expiration as a step of its own, which may come late: a signal goes to any
thread of the process, and the asio fallback has a thread of its own. `nanoseconds` is the
product `(int)x.count()*1000` with its overflow, `valid` what `timer_settime` takes.
`raced` is a history variable: an expiration of an earlier `start()` was still on its way
when the flag was cleared last.

**SyncManager.** One node in full: `sync_manager` with the handlers of handshakes, notices
and blocks, the response timer, the queue of the main thread and the strand of each
connection. The peers run the other side of the same code. A handler is one step.

**MongoQueues.** The steps of the consumer thread between its locks and of the application
thread in `queue()` and the destructor. What a record contains, the filters, and exceptions
while writing are left out.

**Wallets.** Every call of `wallet_manager` that changes a wallet, with the timeout that
`check_timeout` applies first. A file may not open for writing; a write that fails later
is not modelled, since the code does not look at the stream (section 5).

**AccountQueryDb.** Blocks with a time and changes of permissions; a fork switch pops blocks
and then commits the new branch's blocks one by one. The cache of traces is taken to be
complete when a block comes.

## 4. Runs, bounds and fairness

A run that checks several machines is a sum: the variable `world` of its MC module chooses,
in the initial state, the machine of the behaviour, and the variables of the others keep
their initial values. So a run asks its question of every one of its machines, and nothing
is claimed of their combination (the composed specifications are `Snapshots` with
`Controller`, and `ProducerSchedules` and `Dpos` with `BlockHeaderState` and
`ProducerWatermark`).

| Run | Distinct states | Worlds | Shows |
|---|---|---|---|
| `chainbase` | 47,320 | one index; a database with more and more indices, or with fewer too | undo restores exactly, the index implements a stack of copies, the indices of a database move together |
| `fork_database` | 120,712 | `ForkLoops` | connected tree, best head, safe removal, which files a restart accepts, loops = sets |
| `consensus` | 912,377 | branches of four producers; one branch with proposals; with standby schedules; from four producers to three | one proposed block per number over all branches; the next block can be built (but for one case); a version names one schedule |
| `controller` | 365,422 | blocks with a stop or crash; appends that throw; snapshots | the four stores stay in step, a failed push changes nothing, every snapshot is answered |
| `producing` | 198,313 | the production loop; the queues | the loop stays alive, produces in its own slots and again and again; transactions are answered once and not lost |
| `plugins` | 114,554 | synchronisation with one peer and faults, with two peers, with a silent peer; mongo queues; wallets | no block is skipped, the node catches up; everything queued is written in order; keys are kept |
| `logs` | 306,538 | block log, one longer than its index writer's buffer, the construction of the index, state history log, a history session | no crash loses what was written, both logs implement `LogOfBlocks`; the client is served one branch |
| `resources` | 1,144,345 | RAM, totals, NET and CPU in blocks, one usage window, the elastic limit | accounts stay within their limits, totals are sums, a validator agrees with the producer, the elastic limit follows the load |
| `authorization` | 299,593 | permissions, checker, merkle tree, timer with signals, timer with a thread | references resolve, power changes only by a declared permission that had it, the checker and the tree agree with their references, deadlines hold |
| `standby_stuck` | violation | standby schedules | section 5 |
| `double_sign` | violation | branches of three producers | section 5 |
| `account_queries` | violation | `AccountQueryDb` | section 5 |

Every property is stated with its meaning in its module and has a mutant in `PROJECT.json`,
a plausible bug of the code with which TLC reports it. The properties of machines whose
world a run does not extend are combined in the MC module (`LogsSurvive` has those of three
machines, for example). `TypeOK` and a few invariants (`AdvanceKeepsSubtree`,
`UndoFindsObjects`, `SquashMatrix`, `NothingPending`) are no properties of a run, but
proved; those of the other modules were checked while they were written.

### Bounds, and why they are enough

- One index: two ids tell the id of a removed object from the next one, three sessions give
  a squash below another session, two values an old from a new one. Databases: three indices
  and three openings, so that one is added while there is an undo stack. The theorems remove
  the bounds of the index.
- Fork database: with five blocks two branches of two, and one of three beside one of one,
  hang off the root, which is what the loops of `fetch_branch_from` and `advance_root`
  distinguish. The theorems remove the bound for all but the loops.
- Branches: with four producers a block needs three, so that branches grow without
  everybody, and two such groups share two producers, one of which may restart. Eleven slots
  let two branches each propose a block. Proved without these bounds.
- Schedules: two proposals, so that a second one meets a pending one, and enough blocks (12,
  16 with standby, 20 from four producers to three) for both to become active;
  `maximum_tracked_dpos_confirmations` is 3 (or 6) instead of 1024, so that it is reached.
  `producer_repetitions` is 1 instead of 12: consecutive blocks of one producer add no
  confirmations of others.
- Controller: five blocks give a switch between two branches of two blocks that fails at
  either of them, and one above an irreversible block; one stop or crash at every moment.
  The irreversible number of each is any one below it. Four blocks where appends throw.
  Snapshots start with a chain of three blocks, grow to five, and have two callers, which
  are symmetric: this is the only run with a `SYMMETRY`.
- Production loop: three producers with two blocks each, of which one is local; callbacks up
  to one half slot late, blocks of others up to two half slots early, three faults at a
  time; no offset but for the last block of a turn, which is early by half a slot. Times are
  relative, so behaviours have no end. Proved without these bounds.
- Queues: three calls of two transactions, one of them sent twice and once persistent; a
  queue of size four that both do not fit in twice; times up to three.
- Synchronisation: chunks (`sync_req_span`) of two blocks; peers at 1, 2 or 6; one fault of
  every kind, or three of silence and refused blocks; two blocks on the way. Mongo: three
  blocks, two irreversible, and a queue size of zero, so that the application waits.
  Wallets: two names, keys and passwords; proved without bounds.
- Logs: four blocks and three crashes, with index buffers of four entries and of two; for
  the history log three blocks and a branch, three crashes. Index: five blocks of two sizes,
  buffers that end before, at and behind a position. Session: branches of three blocks,
  three accepted blocks, one lost connection; proved without bounds for safety.
- Resources: two accounts and limits up to `MaxUint` 3 for RAM; for the totals three, with limits up to 3 under a
  `MaxUint` of 7, so that the sum of all does not fit and the assert on it throws; two
  blocks with three accounts and two configurations, in which an account also lowers its own
  limits; a window of five slots over eleven; the elastic rates 3/4 and 6/5. An instance of
  `RamBilling` with 28 million states passed too.
- Permissions: two custom permissions and two actions per transaction (three actions, with
  486 thousand states, passed too). Checker: three permissions that refer to each other in
  cycles, two keys, depths 1 and 3. Merkle tree: nine leaves, past the third power of two.
  Timer: deadlines below the second that the timer accepts, above it, at the wrap of the
  nanoseconds and beyond it; two pauses, two expirations on their way.

Deadlock is checked in `fork_database` and `producing`. The other instances end at a bound
(slots, blocks, accepted blocks), so that the last state has no step.

### Fairness

Safety is checked without it. Liveness assumes weak fairness of the following, each of
which the code or its environment provides:

- production loop (`LoopsForever`): the clock goes on; the reactor of boost::asio runs
  timers that expired; the application thread runs the callbacks that were posted. Nothing
  is assumed of other producers, pauses or faults: the property speaks of nodes that may
  produce from some time on and whose head is no longer below what their producers signed.
- synchronisation (`CatchesUp`): sockets deliver, strands and the main thread run what was
  posted, the response timer fires, closed connections are opened again by the connection
  monitor, and the peers answer except where a fault is chosen; faults are finite.
- history session (`Delivers`): writes and reads complete, and the client asks, reads and
  acknowledges. Construction of the index (`Delivers`): a single thread goes on.
- mongo (`AllWritten`): both threads run. Elastic limit (`FollowsLoad`): the chain goes on.
- timer (`DeadlinesHold`): time passes, the timer runs out and is handled, and a contract
  keeps calling `checktime()`, which the injected code does.

## 5. Where the code differs from what it says

Three runs end with a violation, each of one property that a line of the repository states:

1. **A standby schedule set during the switch** (`controller.cpp:2584`, run `standby_stuck`).
   `set_standby_producers` stores version 0 while the switch waits for the version it
   replaces. The flag is never cleared, the pending schedule stays, and no later proposal
   becomes pending, although `set_proposed_producers` says to wait for that.
2. **Watermarks are not durable** (`producer_plugin.cpp:1473`, run `double_sign`). After a
   restart a producer confirms no earlier block, and irreversibility stays safe while fewer
   than a third of the nodes restarted (`ConfirmationsAgree`), but it may sign a second
   block of a number it signed before, against the comment on double signing.
3. **Permissions of a popped block** (`account_query_db.cpp:218`, run `account_queries`).
   `rollback_to_before` compares times: when the first block of a new branch is later than a
   popped block, what the popped block wrote stays in the index.

The following were met while modelling. The modules have the behaviour; the properties of
the runs are stated so that they hold beside it, and the text says where.

- **Schedules.** From four to three producers the index `(size-1)/3` falls, and with a
  producer that stays but is offline the irreversible number falls below the parent's:
  `commit_block` then fails its assert (`controller.cpp:1573`). The world "shrinking" of the
  run `consensus` reaches this block; `BlocksCanBeBuilt` excepts it, and only it: the block
  after the schedule shrank across a multiple of three.
- **A lower irreversible number.** A block of another node that lowers it has three effects.
  Its `fork_db.dat` is refused at the next start (`fork_database.cpp:178`), so that the node
  needs a hard replay. Where the node itself builds the block, `commit_block` throws, and
  the fork database keeps it as a valid one; when this moves the head to a block that is
  not applied, nothing is claimed of the head until the next start. And a switch that fails
  may have no old branch, of which `maybe_switch_forks` reads the last element
  (`controller.cpp:1893`): the model has both outcomes of the read.
- **Two heads.** Failed switches leave validated blocks on the other branch, one of which
  `add()` may make the head of the fork database (`fork_database.cpp:309`); a clean stop in
  that state needs a hard replay. `StartsAgain` claims that a replay from the blocks always
  works, and a start with `fork_db.dat` where the heads are one.
- **Root ahead of the log.** When `append()` throws, the root has been set to the block that
  was not written (`controller.cpp:363`). With failing writes only `StateIsHead`,
  `RootIsLogHead` and `FailedPushRestores` are claimed, until a write fails and again from
  the next start on.
- **Persisted transactions** are erased when they are applied (`producer_plugin.cpp:1673`),
  although a comment says they are applied to all future speculative blocks.
- **Snapshots.** The signal comes before the root advances, so that the snapshot of a block
  of the losing branch can be promoted (`producer_plugin.cpp:138`). `SnapshotsAnswered` says
  that "forked out" is only answered rightly, not the converse.
- **Synchronisation.** For a block that the dispatcher has, the response timer is started
  and then stopped (`net_plugin.cpp:2397`); and a node that caught up by blocks under way
  sends no handshake, so that the peer keeps it marked as syncing (`net_plugin.cpp:1532`).
  `CatchesUp` claims the whole chain for two peers when it does not grow, and the last
  irreversible block where requests go unanswered or blocks get lost, not both for every
  combination.
- **Log index.** `buffer_location_to_file_location` shifts 32 bits (`block_log.cpp:125`):
  with 2^29 blocks the index cannot be rebuilt. No run has such a log. `construct_index`
  writes the end of the file first, and `open()` looks at the last entry only
  (`block_log.cpp:262`): after a crash while the index of a log of more than 2^19 blocks is
  rebuilt, it is trusted although its lower part is empty. `LogsSurvive` claims the blocks
  within a buffer of the head then.
- **State history log.** When writing a payload throws, the header stays and the next entry
  is appended behind it (`state_history_log.hpp:111`). The runs have no such failures.
- **Database.** `add_index` compares revisions only (`chainbase.hpp:817`): an index that a
  program left out while it undid a block and applied another is accepted. `OneMoment` is
  claimed only without such programs.
- **Resource limits.** A new RAM limit takes effect in the same transaction
  (`resource_limits.cpp:274`), against a comment in `wasm_interface.cpp`; the bill of a
  failed deferred transaction can throw (`controller.cpp:1246`) where a comment says "Should
  never fail", when the payer's weight was lowered: `ShouldNeverFail` is about transactions
  that are pushed, with NET of at least one and a positive minimum of CPU; and the virtual
  limit cannot rise from below the denominator of its rate less the gain
  (`resource_limits.cpp:27`), which `FollowsLoad` excludes.
- **Authority checker.** A permission that was satisfied inside an authority that then fails
  stays cached, while the keys it used are reverted: `get_required_keys` may return keys
  that are not enough. `CheckerAgrees` claims that they are where no permission is referred
  to twice.
- **Mongo.** The destructor's `join()` can wait for ever when the consumer misses the last
  notification (`mongo_db_plugin.cpp:1321`); nothing queued is lost otherwise.
- **Http.** `bytes_in_flight` counts the size of a string that was moved from
  (`http_plugin.cpp:396`), which is zero.
- **Wallets.** A write that fails after the file was truncated is not noticed;
  `set_timeout` starts the timeout again without locking wallets that had expired.
- **Timer.** A deadline of a second or more is refused by `timer_settime` and expires at
  once (`platform_timer_posix.cpp:66`). Above two seconds the nanoseconds overflow: the
  product may be negative, which is refused too, a shorter time, or, at a multiple of 2^32,
  zero, with which the timer is never set. `DeadlinesHold` claims nothing of when a deadline
  of a second or more ends a transaction, and all but the last kind do end it. `stop()`
  does nothing when the timer has expired, and an expiration that is handled after the flag
  was cleared again ends the next transaction early, with either timer: `DeadlinesHold`
  excepts exactly the transactions at whose start one was on its way (`raced`).
  The check "Fail early if deadline has already been exceeded"
  (`transaction_context.cpp:177`) cannot fail: the flag has just been cleared.

Where a model is narrower than the code: a client of `HistorySession` asks once per
connection, and `ClientCatchesUp` says nothing of `irreversible_only`; `Bandwidth` leaves out
the onerror transaction, `skip_trx_checks` and subjective deadlines; in `Permissions` a
transaction that declares enough may delete a permission and create it again under another
parent (`updateauth` alone refuses to change a parent), which `PowerIsDeclared` allows as
the code does, because the declared permission had that power; in `AccountQueryDb` the run has no
`newaccount`.

## 6. Proofs

TLAPS checks the theorems for every value of the constants that satisfies the assumptions
named in the modules. TLC evaluates these assumptions in the runs. Each proof has one lemma
or step per action; the argument is in the inductive invariant. Three modules hold the proofs
of two components: they extend the first and instantiate the second at the end
(`Db == INSTANCE Database`, `Chain == INSTANCE ProducerSchedules`,
`Timer == INSTANCE TransactionTimer`) with constants and variables of its own. What such a
proof needs of the constants is an operator of the component (`TablesAreNumbers`,
`TimesInOrder`) and a hypothesis of the theorem; `MCChainbase` and `MCAuthorization` assume
it of their instances.

| Module | Theorem | Says |
|---|---|---|
| `ChainbaseProofs` | `Invariance` | the invariant that the others rest on |
| | `UndoIsExact` | `UndoRestores`: undo gives back the start of the session |
| | `UndoIsDefined`, `SquashIsDefined` | undo finds the objects it restores, squash meets no cell "N/A" |
| | `Refinement` | `ImplementsSnapshots`: the index implements `SnapshotStack` |
| | `StacksInLockStep` | `LockStep` of `Database`: all the undo stacks have the same revisions |
| | `LevelsOfOneMoment` | `OneMoment` of `Database`: a level of the stacks is one moment |
| `ForkDatabaseProofs` | `Invariance`, `TypeCorrect` | the invariant; types |
| | `Connected`, `BestHead` | `NoOrphans`, `HeadIsBest` |
| | `SafeRemoval`, `SafeAdvance` | `FailureSparesHead`; `advance_root` keeps the subtree of the new root |
| | `CleanRestart` | `RestartRestores` |
| `ConsensusProofs` | `ConfirmationsAlwaysAgree` | `ConfirmationsAgree` |
| | `VersionsNameSchedules` | `VersionsName` of `ProducerSchedules` |
| | `ProposalsNeverStopBlocks` | `BlocksCanBeBuilt` of `ProducerSchedules`, without standby schedules |
| `ProducerLoopProofs` | `LoopAlwaysAlive`, `OnlyOwnSlots` | `LoopStaysAlive`, `OwnSlots` |
| `BillingProofs` | `RamStaysWithinLimit`, `NothingStaysPending` | `RamWithinLimit`, `NothingPending` |
| | `TimerNotBeforeDeadline` | `NotBeforeDeadline` of `TransactionTimer` |
| `PermissionsProofs` | `ReferencesAlwaysResolve`, `PowerAlwaysDeclared` | `ReferencesResolve`, `PowerIsDeclared` |
| `Wallets` | `KeysStay` | `KeysAreKept` |
| `HistorySession` | `ClientAlwaysServed` | `ServesClient` |

**ChainbaseProofs**, about `UndoIndex`, assumes `ConstantsAssumption` (`Absent` is not a
value, the bounds are natural numbers). The properties are not inductive by themselves: that
undoing the top session restores its start says nothing about two sessions that are merged.
`Inv` says that every undo state `Records` the difference between the copies at its start
and at the start of the session above it: undoing gives the one from the other, new ids lie
above the old next id, and each map only names objects that exist or are gone as it claims.
The lemmas `CreateRecords`, `ModifyRecords`, `RemoveRecords` and `MergeRecords` show that
the hooks and `squash()` keep this relation.

About `Database` it assumes that the types of the indices are numbers, and for
`LevelsOfOneMoment` that no program without some of the indices used the file (`~Downgrades`).
`LockStep` is about the indices of the list while the database is usable. It is not inductive:
`start_undo_session()` gives the indices their level one after the other and may fail half
way, and a file holds indices that are added again later. `DbInv` names the indices that take
part (`Part`: all in the file, or with downgrades the ones of the list and the first one,
which every program adds) and says that there is one base revision from which they all have
`Levels(t)` levels: as many as there are moments, or one less for an index whose turn in
`start_undo_session()` has not come (`StackInv`); that the list is sorted and that the
sub-sessions made so far are for a prefix of it (`ListInv`), so that `unwind` takes the level
from exactly the indices that have it; and that level k of an index holds its contents at
moment k, where an index that did not exist yet was empty (`MomentInv`). `JoinStep` is the
step of `add_index()`: an index that is new gets levels of empty contents, an old one is
refused unless it has the revisions of the first.

**ForkDatabaseProofs** assumes `BoundAssumption` (`MaxBlocks` is a natural number), and nothing
of how irreversible numbers go along a branch. `Inv` says
that the blocks that exist form a tree in which numbers rise by one, that the database is a
connected part of it with a connected validated part whose best block is not better than the
head, and that a file is what `close()` writes of such a database. The main lemmas are about
trees: `FailedSubtree` (no validated block descends from an unvalidated one), `SplitAtBlock`
(the descendants of the old root are the new root, its descendants, and what is left
behind), `SaveFacts` (a parent is written before its child exactly where the irreversible
number does not fall) and `BestExists`, proved with a
least counterexample.

**ConsensusProofs**, about `Dpos`, assumes `ScheduleAssumption` (a nonempty schedule without
repetitions) and `ConfigAssumption` (positive repetitions and number of tracked blocks). The
invariant says that the blocks form a tree, numbered along its branches (`Tree`); that on
each branch a counter of `confirm_count` is the required number less the number of different
producers that confirmed its block there, and that a proposed block had the required number
of them (`Counted`), which makes the counters talk about sets; that the watermark of a
producer that did not restart is not below any block it built (`Marked`); and
`ConfirmsOnce`. Two quorums of more than two thirds share a producer outside of any set of
fewer than a third (`QuorumsMeet`), hence one whose node did not restart while fewer than a
third restarted, which is the premise of `OneProposed`. It confirmed both blocks, and
because it confirms a number once it did so with one block. Both branches go through that
block, so the two proposed blocks of one number are the same.

About `ProducerSchedules` it assumes nothing of the constants. `SchedInv` says that a pending
schedule is newer than the active one or the same (as in the genesis block, whose pending
schedule is the initial one, and while a switch to standby keeps a promoted schedule pending),
and that a proposal has the version after the newest of the two. The same holds of the block
being built, where the newest may be the schedule that the block makes pending
(`pending_producers`). `ProposalsNeverStopBlocks` has the hypothesis `Standby = {}`: then
`PlainInv` adds that a proposal becomes pending only when no schedule is, so its version is
the active one plus one, which is what the asserts of `start_block` and `_finish_next` demand.
With standby schedules `BlocksCanBeBuilt` is only model-checked: the asserts are waived while a
switch is under way, and that it never ends in a block that makes a proposal pending is not
proved.

**ProducerLoopProofs** assumes `LoopAssumption`: a nonempty schedule, positive repetitions,
any integers as the two offsets (`update_runtime_options`, `producer_plugin.cpp:1053`, does not
validate them), and callbacks that run before the block they are for is older than
`MaxHeadAge`. Schedule, local producers, offsets and number of faults are otherwise free. The
invariant `Good` says that at most one callback is current (`Alone`: arming the timer makes
older ones stale); that what a current callback is for still holds (`AllWanted`: one that
produces has a block that a local producer may sign, and one that runs the loop finds none,
or a speculative block that is not later than its own time, or a node that cannot produce);
that a node in mode producing, or one that the policy lets produce, has a callback to come;
and that the block under construction is later than the head. `WakesUp` shows that the
wake-up time exists and is not before the block it was computed for, `SlotStays` that the
producer of a moment stays the same when the clock goes on, and one lemma, `LoopIsGood`,
that `schedule_production_loop` establishes `Good`.

**BillingProofs**, about `RamBilling`, assumes that accounts are finitely many numbers,
limits are -1 or fit the signed type, and deltas are integers. It needs that outside a
transaction the tables are `Sound`, inside it all accounts but those in
`validate_ram_usage`, and that what an undo session would bring back is sound too. About
`TransactionTimer` it assumes that no time is above `Maximum` and that a second of
nanoseconds fits an int (`TimesInOrder`); it is about both timers. `Orderly` says that the
timer is at work only between `start()` and `stop()`, that it is not below what is left of
the deadline, and that what it posted, or the flag it set, is of a deadline that has passed.
It breaks when an expiration outlives its `stop()`; `TimerInv` says that then `raced` holds,
until a `start()` that finds none on its way restores `Orderly`. Pausing the billing moves
the deadline, which is why the timer must be quiet before the billing goes on.

**PermissionsProofs** assumes `NamesAssumption` (`owner`, `active`, the custom
names and the values for "none" and "any" differ; the names are finitely many) and needs that
the tables a transaction was checked against are closed as well, and that it declared
permissions of them. `PowerIsDeclared` is about who is above a permission, which other
permissions decide too, so that it does not carry itself. `Untouched` is about entries:
what no declared permission had power over has the parent, or the link, that it had. The
lemmas `AboveFacts` and `AboveKept` go from there to the sets above a permission: where no
declared one is at or above it, no entry on its way up has changed.

**Wallets** assumes only that `Nothing` is no wallet and no file. `KeysAreKept` does not carry
itself, because what is in memory is saved later: `Fine` adds the password a wallet will be
saved under, and promises nothing of a wallet whose file is gone. Every call keeps it, the
ones that throw half way included.

**HistorySession** assumes `RequestsAssumption` (there is a block, ends are integers, numbers
of messages natural). That the client has one branch is not inductive: the invariant must
speak of what is on its way. `OnWay(view, outbox, last)` says that there is a path for every
message of the outbox, from the one whose prefixes the client has to `last`, each following
from the one before by the block the message brings. `Agreed` says that the branch of the
node and `last` are the same below the next block to send, which `lowered` restores when the
branch changes and `start_agreed` establishes for a request; `Orderly` says that a result is
only queued when nothing else is. For the number of results, what the request still allows,
what is on its way and what is being acknowledged add up to what the client allowed
(`Counted`).

Only model-checked, and why:

- liveness (`LoopsForever`, `CatchesUp`, `Delivers`, `AllWritten`, and what `FollowsLoad` and
  `DeadlinesHold` say of the end of a behaviour): beyond this prover, as is `ENABLED`;
- what recursive definitions compute: `LoopsAgree`, `CheckerAgrees`, `RootIsMerkle`,
  `TotalsAreSums` (a sum over a set), `LogsSurvive` and `ImplementLogs` (walks through files),
  and the properties of `Controller` and `Snapshots` (`StateIsBest`, `RootIsLogHead`,
  `StartsAgainFromBlocks`, `FailedPushRestores`, `SnapshotsAnswered`), whose switches and
  replays fold over branches: there is no induction over data;
- of `BlocksCanBeBuilt`, the part with standby schedules and `CommitBecomesHead`,
  `NeverRefused` and `ConfirmsCounted` (the last is proved for one schedule, in `Counted`);
- `AnsweredOnce`, `AcceptedNotLost`, `NothingSkipped`, `ShouldNeverFail`, `ValidatorAgrees` and
  `TwiceItsShare`: not proved.

## 7. Not modelled

- **Snapshot files**: every table is written in order; when snapshots are taken and promoted is
  in `Snapshots`.
- **Http plugin, api plugins, plugin interface**: bindings and declarations without state beyond
  the counter in section 5.
- **WebAssembly execution, wasm-jit, builtins**: translators and arithmetic. That a contract
  calls `checktime()` is assumed in `TransactionTimer`.
- **Abi serializer and value types**: conversions without shared state.
- **nodeos, keosd, cleos**: they start plugins, or build requests.
- **Net plugin beyond synchronisation**: the dispatch of new blocks and transactions, write
  queues, and the interleaving of two handlers inside `verify_catchup` (`net_plugin.cpp:1694`).
- **Deferred transactions**: their queue and denylist; their billing is in `Bandwidth`.
- **Read mode irreversible**, and the threads that recover keys and validate headers, whose
  results the main thread waits for.
- **Digests and signatures**: blocks are told apart by name.
