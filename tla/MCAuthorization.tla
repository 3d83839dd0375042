--------------------------- MODULE MCAuthorization ----------------------------
(***************************************************************************)
(* Independent parts of the chain library, for TLC: the permissions and    *)
(* links of an account ("permissions"), the checker of authorities on a    *)
(* menu of authorities that refer to each other, also in cycles            *)
(* ("checker"), the incremental Merkle tree ("merkle"), and the timer of   *)
(* transactions, with signals or with a thread ("signal", "thread").       *)
(***************************************************************************)
EXTENDS Permissions, Integers

VARIABLES world, given, todo, used, verdict, nodes, leaves,
          pc, timed, expired, armed, posted, raced

checker_vars == <<given, todo, used, verdict>>
merkle_vars == <<nodes, leaves>>
timer_vars == <<pc, timed, expired, armed, posted, raced>>
all == <<vars, checker_vars, merkle_vars, timer_vars, world>>

\* The factors and authorities of AuthorityChecker.
account(l, w) == [kind |-> 1, what |-> l, weight |-> w]
key(k, w) == [kind |-> 2, what |-> k, weight |-> w]
wait(d, w) == [kind |-> 3, what |-> d, weight |-> w]
authority(t, F) == [threshold |-> t, factors |-> F]

\* The authorities of the permissions 1, 2 and 3, of which the last may not exist.
Menu(l) ==
    LET others == (1 .. 3) \ {l}
    IN  {authority(2, {account(m, 1), key(1, 1)}) : m \in others}
        \cup {authority(1, {account(m, 2)} \cup {account(n, 1) : n \in others \ {m}}) : m \in others}
        \cup {authority(2, {account(m, 1) : m \in others})}
        \cup IF l = 3 THEN {authority(1, {key(2, 1)})}
             ELSE {authority(1, {account(l, 1)}),
                   authority(2, {account(3, 1), wait(1, 1)}),
                   authority(3, {key(1, 2)} \cup {account(m, 1) : m \in others})}

MenuTables ==
    {[l \in 1 .. 3 |-> CASE l = 1 -> a [] l = 2 -> b [] l = 3 -> c] :
        a \in Menu(1), b \in Menu(2), c \in Menu(3)}
    \cup {[l \in 1 .. 2 |-> IF l = 1 THEN a ELSE b] : a \in Menu(1), b \in Menu(2)}

Checker == INSTANCE AuthorityChecker WITH
    Levels <- 1 .. 3, Actor <- <<1, 2, 3>>, Tables <- MenuTables, Keys <- {1, 2}, Delays <- {0, 1},
    Provided <- {[levels |-> {}, actors |-> {}], [levels |-> {3}, actors |-> {2}]},
    Depths <- {1, 3}

Merkle == INSTANCE IncrementalMerkle WITH Digests <- {1, 2}, MaxLeaves <- 9

Signals == INSTANCE TransactionTimer WITH
    trx <- timed, Limits <- {2, 3}, Deadlines <- {1, 14, 15}, Maximum <- 15, Second <- 3,
    Wrap <- 13, MaxPauses <- 2, MaxPosted <- 2, Posix <- TRUE

Thread == INSTANCE TransactionTimer WITH
    trx <- timed, Limits <- {2, 3}, Deadlines <- {1, 4, 15}, Maximum <- 15, Second <- 3,
    Wrap <- 13, MaxPauses <- 1, MaxPosted <- 2, Posix <- FALSE

ASSUME OrderedTimes ==
    Signals!TimesInOrder /\ Thread!TimesInOrder

MCInit ==
    /\ Init
    /\ world \in {"permissions", "checker", "merkle", "signal", "thread"}
    /\ IF world = "checker" THEN Checker!Init
       ELSE given = Nothing /\ todo = {} /\ used = {} /\ verdict = "none"
    /\ Merkle!Init /\ Signals!Init

MCNext ==
    /\ UNCHANGED world
    /\ \/ world = "permissions" /\ Next /\ UNCHANGED <<checker_vars, merkle_vars, timer_vars>>
       \/ world = "checker" /\ Checker!Next /\ UNCHANGED <<vars, merkle_vars, timer_vars>>
       \/ world = "merkle" /\ Merkle!Next /\ UNCHANGED <<vars, checker_vars, timer_vars>>
       \/ world = "signal" /\ Signals!Next /\ UNCHANGED <<vars, checker_vars, merkle_vars>>
       \/ world = "thread" /\ Thread!Next /\ UNCHANGED <<vars, checker_vars, merkle_vars>>

In(w, A) == world = w /\ A /\ UNCHANGED <<world, vars, checker_vars, merkle_vars>>

\* The fairness of TransactionTimer, in its behaviours.
MCSpec ==
    /\ MCInit /\ [][MCNext]_all
    /\ WF_all(In("signal", Signals!Running)) /\ WF_all(In("signal", Signals!tick))
    /\ WF_all(In("signal", Signals!run_out)) /\ WF_all(In("signal", Signals!sig_handler))
    /\ WF_all(In("thread", Thread!Running)) /\ WF_all(In("thread", Thread!tick))
    /\ WF_all(In("thread", Thread!run_out)) /\ WF_all(In("thread", Thread!sig_handler))

\* A permission that the checker finds satisfied follows from the keys, the delay and the
\* provided permissions, whatever it cached on the way and however the permissions refer
\* to each other, and it is found when none refers to itself, within the depth; where
\* none is referred to twice, the keys that get_required_keys() returns are enough.
CheckerAgrees == world = "checker" => Checker!CheckerAgrees /\ Checker!KeysSufficeInTrees

\* The root that is carried from block to block is the Merkle root of all the blocks
\* before, whatever their number: the subtrees that append() keeps suffice.
RootIsMerkle == Merkle!RootIsMerkle

\* A transaction with a deadline does not run for ever, however its expiration falls
\* between the steps of start(), stop(), checktime() and the pauses of the billing; and
\* checktime() does not throw before the deadline, unless an expiration of an earlier
\* start() was still on its way when the flag was cleared for the transaction.  What the
\* signal timer does not hold are deadlines of a second and more, some of which it
\* refuses, and some of which wrap around in an int.
DeadlinesHold ==
    /\ [][(world = "signal" /\ Signals!CutsEarly) \/ (world = "thread" /\ Thread!CutsEarly) => raced]_all
    /\ world = "signal" => Signals!Ends
    /\ world = "thread" => Thread!Ends
=============================================================================
