-------------------------- MODULE AuthorityChecker ---------------------------
(***************************************************************************)
(* Whether the keys of a transaction satisfy the permissions it declares:  *)
(* authority_checker, and the loops of the authorization_manager over the  *)
(* declared permissions.  A factor of an authority is a permission, a key  *)
(* or a delay, with a weight; the checker visits them by descending weight *)
(* and stops when the threshold is reached.  The permissions it evaluated  *)
(* are cached until the permission that is declared is decided.            *)
(***************************************************************************)
EXTENDS Integers, SequencesExt

CONSTANTS Levels,      \* permission_levels, as numbers in their order
          Actor,       \* the account of each
          Tables,      \* the authorities of the permissions that exist
          Keys,        \* the public keys
          Delays,      \* the delays of a transaction
          Provided,    \* provided_permissions: levels, and actors with an empty name
          Depths       \* the values of max_authority_depth

VARIABLES given,       \* what a call is made with
          todo,        \* declared permissions that are not checked yet
          used,        \* the provided keys that are marked in _used_keys
          verdict      \* of the call: "checking", "passed", "unsatisfied", "irrelevant"

vars == <<given, todo, used, verdict>>

Init ==
    /\ given \in [table : Tables, keys : SUBSET Keys, provided : Provided,
                  delay : Delays, depth : Depths]
    /\ todo \in {{l, m} : l, m \in Levels}
    /\ used = {}
    /\ verdict = "checking"

-----------------------------------------------------------------------------
(* The checker.                                                            *)

\* What a factor is, by the priority it has among factors of the same weight.
Permission == 1
Key == 2
Wait == 3

\* The order in which the factors of an authority are visited.
before(f, g) ==
    \/ f.weight > g.weight
    \/ f.weight = g.weight /\ f.kind > g.kind
    \/ f.weight = g.weight /\ f.kind = g.kind /\ f.what < g.what

in_order(auth) == SetToSortSeq(auth.factors, before)

initialize_permission_cache(in) ==
    [l \in Levels |-> IF l \in in.provided.levels THEN "satisfied" ELSE "unknown"]

permission_status_in_cache(in, cache, l) ==
    IF cache[l] = "unknown" /\ Actor[l] \in in.provided.actors THEN "satisfied" ELSE cache[l]

\* The state of a checker, and the weight that its visitor has counted.
Visit(keys, cache) == [used |-> keys, cache |-> cache, total |-> 0]

counted(v, f) == [v EXCEPT !.total = @ + f.weight]

\* Mistake: the keys that were marked before are given back as well
kept_no_keys(before_it, v) == {}

\* The keys that are marked when an authority was not satisfied.
kept_keys(before_it, v) == before_it

RECURSIVE satisfied(_, _, _, _, _)

visit_key(in, v, f) ==
    IF f.what \in in.keys THEN counted([v EXCEPT !.used = @ \cup {f.what}], f) ELSE v

visit_wait(in, v, f) == IF in.delay >= f.what THEN counted(v, f) ELSE v

\* Mistake: a permission that is being evaluated counts as satisfied.
evaluated_trusting(in, v, l, depth) ==
    satisfied(in, in.table[l], v.used, [v.cache EXCEPT ![l] = "satisfied"], depth + 1)

\* The authority of a permission, which is marked while it is evaluated.
evaluated(in, v, l, depth) ==
    satisfied(in, in.table[l], v.used, [v.cache EXCEPT ![l] = "being evaluated"], depth + 1)

\* What the evaluation of a permission leaves: its result is cached, and counted.
decided(v, f, r) ==
    [used  |-> r.used,
     cache |-> [r.cache EXCEPT ![f.what] = IF r.ok THEN "satisfied" ELSE "unsatisfied"],
     total |-> IF r.ok THEN v.total + f.weight ELSE v.total]

visit_permission(in, v, f, depth) ==
    LET status == permission_status_in_cache(in, v.cache, f.what)
    IN  IF status # "unknown" THEN IF status = "satisfied" THEN counted(v, f) ELSE v
        ELSE IF depth >= in.depth \/ f.what \notin DOMAIN in.table THEN v
        ELSE decided(v, f, evaluated(in, v, f.what, depth))

visit(in, v, f, depth) ==
    CASE f.kind = Permission -> visit_permission(in, v, f, depth)
      [] f.kind = Key -> visit_key(in, v, f)
      [] f.kind = Wait -> visit_wait(in, v, f)

\* The keys that stay marked depend on whether the weight v.total is enough.
outcome(auth, keys, v) ==
    [ok    |-> v.total >= auth.threshold,
     used  |-> IF v.total >= auth.threshold THEN v.used ELSE kept_keys(keys, v),
     cache |-> v.cache]

\* Whether the factors satisfy the authority, with the keys and the cache after it.
satisfied(in, auth, keys, cache, depth) ==
    outcome(auth, keys,
            FoldLeft(LAMBDA w, f : IF w.total >= auth.threshold THEN w ELSE visit(in, w, f, depth),
                     Visit(keys, cache), in_order(auth)))

\* A declared permission, with a cache of its own.
satisfied_permission(in, l, keys) ==
    LET v == visit_permission(in, Visit(keys, initialize_permission_cache(in)),
                              [kind |-> Permission, what |-> l, weight |-> 1], 0)
    IN  [ok |-> v.total > 0, used |-> v.used]

-----------------------------------------------------------------------------
(* The loops over the declared permissions.                                *)

\* One of the permissions_to_satisfy, in ascending order.
check_authorization ==
    LET l == CHOOSE m \in todo : \A n \in todo : m <= n
        r == satisfied_permission(given, l, used)
    IN  /\ verdict = "checking" /\ todo # {}
        /\ todo' = todo \ {l}
        /\ used' = r.used
        /\ verdict' = IF r.ok THEN "checking" ELSE "unsatisfied"
        /\ UNCHANGED given

\* allow_unused_keys is false for the transactions that are pushed.
all_keys_used ==
    /\ verdict = "checking" /\ todo = {}
    /\ verdict' = IF used = given.keys THEN "passed" ELSE "irrelevant"
    /\ UNCHANGED <<given, todo, used>>

Next == check_authorization \/ all_keys_used

Spec == Init /\ [][Next]_vars

\* The permissions in the order in which the actions declare them, and the keys that
\* are marked in the end.  No permissions are provided.
get_required_keys(in, declared) ==
    FoldLeft(LAMBDA r, l : LET s == satisfied_permission(in, l, r.used)
                           IN  [ok |-> r.ok /\ s.ok, used |-> s.used],
             [ok |-> TRUE, used |-> {}], declared)

-----------------------------------------------------------------------------
(* What it means that a permission is satisfied.                           *)

Nobody == [levels |-> {}, actors |-> {}]

SumOfWeights(F) == FoldLeft(LAMBDA n, f : n + f.weight, 0, SetToSeq(F))

\* A factor counts when its key, its delay or its permission, one of S, is there.
Counts(in, S, f) ==
    \/ f.kind = Key /\ f.what \in in.keys
    \/ f.kind = Wait /\ in.delay >= f.what
    \/ f.kind = Permission /\ f.what \in S

Granted(in) == {l \in Levels : l \in in.provided.levels \/ Actor[l] \in in.provided.actors}

\* The permissions that follow from those of S.
Follow(in, S) ==
    Granted(in) \cup
    {l \in DOMAIN in.table :
        SumOfWeights({f \in in.table[l].factors : Counts(in, S, f)}) >= in.table[l].threshold}

\* The smallest set of permissions that is closed: all that the keys really approve.
Approved(in) ==
    LET step[n \in 0 .. Cardinality(Levels)] == IF n = 0 THEN {} ELSE Follow(in, step[n - 1])
    IN  step[Cardinality(Levels)]

Refers(in, l) == IF l \in DOMAIN in.table
                 THEN {f.what : f \in {g \in in.table[l].factors : g.kind = Permission}} ELSE {}

\* The permissions that are n references below l.
Below(in, l, n) ==
    LET at[i \in 0 .. n] == IF i = 0 THEN {l} ELSE UNION {Refers(in, m) : m \in at[i - 1]}
    IN  at[n]

\* No permission below l refers to itself or lies deeper than the checker goes.
Shallow(in, l) == Below(in, l, in.depth) = {}

\* No permission is referred to twice.
Once(in) == \A l, m \in DOMAIN in.table : l # m => Refers(in, l) \cap Refers(in, m) = {}

-----------------------------------------------------------------------------
(* Properties.                                                             *)

\* A permission that the checker finds satisfied follows from the keys, the delay and
\* the provided permissions, whatever was cached on the way and however the permissions
\* refer to each other; and it is found when nothing refers to itself, within the depth.
CheckerAgrees ==
    verdict = "checking" =>
        \A l \in todo :
            LET ok == satisfied_permission(given, l, used).ok
            IN  /\ ok => l \in Approved(given)
                /\ Shallow(given, l) /\ l \in Approved(given) => ok

\* "Use chain_controller::get_required_keys to determine which keys are needed for txn"
\* (wallet_manager): when it returns keys, the transaction that is signed with these and
\* no others is authorized, and bears no signature that is irrelevant.
KeysSuffice ==
    given.provided = Nobody /\ verdict = "checking" /\ used = {} =>
        \A declared \in SetToSeqs(todo) :
            LET r      == get_required_keys(given, declared)
                signed == [given EXCEPT !.keys = r.used]
            IN  r.ok => get_required_keys(signed, declared) = r

\* KeysSuffice where no permission is referred to twice.
KeysSufficeInTrees == Once(given) => KeysSuffice
=============================================================================
