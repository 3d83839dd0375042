----------------------------- MODULE Permissions ------------------------------
(***************************************************************************)
(* The permissions of an account and the links from actions to them: the   *)
(* native actions that change both, and the checks of the authorization    *)
(* manager on the permission that each of these actions declares.          *)
(*                                                                         *)
(* A transaction is checked as a whole before it is executed, so the check *)
(* of an action sees the permissions from before the transaction, and its  *)
(* execution those that the earlier actions left.  Whether the declared    *)
(* permission is satisfied by the signatures is AuthorityChecker's matter. *)
(***************************************************************************)
EXTENDS Naturals, FiniteSets

CONSTANTS Custom,      \* the names of permissions besides owner and active
          Types,       \* the types of action of another contract
          MaxActions,  \* bound: the actions of a transaction
          Nothing      \* no parent, no account, no transaction

Names == {"owner", "active"} \cup Custom
Any == "eosio.any"
Default == "default"       \* the link for the types of a contract that have none
Keys == Types \cup {Default}

ASSUME NamesAssumption ==
    /\ Nothing \notin Names \cup {Any} /\ Any \notin Names
    /\ {"owner", "active"} \cap Custom = {} /\ Default \notin Types
    /\ IsFiniteSet(Custom) /\ MaxActions \in Nat

VARIABLES permission,  \* the parent of each permission of the account that exists
          link,        \* the required permission of each link that exists
          trx          \* the transaction that is executed: the tables it was checked
                       \* against, and the permissions it declares

vars == <<permission, link, trx>>

Empty == [n \in {} |-> Nothing]

Init == permission = Empty /\ link = Empty /\ trx = Nothing

-----------------------------------------------------------------------------
(* The tables.                                                             *)

exists(ps, n) == n \in DOMAIN ps

put(f, x, y) == [z \in DOMAIN f \cup {x} |-> IF z = x THEN y ELSE f[z]]
drop(f, x) == [z \in DOMAIN f \ {x} |-> f[z]]

\* The sets that hold other, and with each permission the parent of it.
Walked(ps, other) ==
    {S \in SUBSET Names :
        other \in S /\ \A n \in S : exists(ps, n) /\ ps[n] # Nothing => ps[n] \in S}

\* other and the permissions above it, which the walk over the parents visits: what is
\* in every such set.
AtOrAbove(ps, other) ==
    LET walked == Walked(ps, other)
    IN  {a \in Names : \A S \in walked : a \in S}

\* Both permissions exist: get_permission throws otherwise.
satisfies(ps, auth, other) ==
    exists(ps, auth) /\ exists(ps, other) /\ auth \in AtOrAbove(ps, other)

lookup_linked_permission(ls, type) ==
    IF type \in DOMAIN ls THEN ls[type] ELSE IF Default \in DOMAIN ls THEN ls[Default] ELSE Nothing

lookup_minimum_permission(ls, type) ==
    LET linked == lookup_linked_permission(ls, type)
    IN  IF linked = Nothing THEN "active" ELSE linked

-----------------------------------------------------------------------------
(* The checks, against the tables from before the transaction.             *)

\* Mistake: the permission above one that is new is not looked at
check_updateauth_existing(auth, name, parent) ==
    exists(trx.permission, name) => satisfies(trx.permission, auth, name)

check_updateauth_authorization(auth, name, parent) ==
    satisfies(trx.permission, auth, IF exists(trx.permission, name) THEN name ELSE parent)

check_deleteauth_authorization(auth, name) == satisfies(trx.permission, auth, name)

\* Mistake: of a type without a link of its own the default link is not looked at.
check_linkauth_own_link(auth, type) ==
    LET minimum == IF type \in DOMAIN trx.link THEN trx.link[type] ELSE "active"
    IN  minimum # Any => satisfies(trx.permission, auth, minimum)

check_linkauth_authorization(auth, type) ==
    LET minimum == lookup_minimum_permission(trx.link, type)
    IN  minimum # Any => satisfies(trx.permission, auth, minimum)

check_unlinkauth_authorization(auth, type) ==
    LET linked == lookup_linked_permission(trx.link, type)
    IN  linked # Nothing /\ (linked # Any => satisfies(trx.permission, auth, linked))

\* Any other action, that the contract of the types executes.
check_authorization(auth, type) ==
    LET minimum == lookup_minimum_permission(trx.link, type)
    IN  minimum # Any => satisfies(trx.permission, auth, minimum)

-----------------------------------------------------------------------------
(* The actions of a transaction.                                           *)

push_transaction ==
    /\ trx = Nothing
    /\ trx' = [permission |-> permission, link |-> link, declared |-> {}, actions |-> 0]
    /\ UNCHANGED <<permission, link>>

\* The transaction has an action more.
acts == trx # Nothing /\ trx.actions < MaxActions

\* It declares auth: what does not exist is not satisfied by any signature.
declares(auth) == acts /\ exists(trx.permission, auth)

action(auths) ==
    trx' = [trx EXCEPT !.declared = @ \cup auths, !.actions = @ + 1]

\* It declares a permission of its creator.
apply_eosio_newaccount ==
    /\ acts
    /\ DOMAIN permission = {}
    /\ permission' = put(put(permission, "owner", Nothing), "active", "owner")
    /\ action({})
    /\ UNCHANGED link

apply_eosio_updateauth(auth, name, parent) ==
    /\ declares(auth)
    /\ name # parent
    /\ name = "active" => parent = "owner"
    /\ (name = "owner") <=> (parent = Nothing)
    /\ parent # Nothing => exists(permission, parent)
    /\ exists(permission, name) => parent = permission[name]
    /\ check_updateauth_authorization(auth, name, parent)
    /\ permission' = put(permission, name, parent)
    /\ action({auth})
    /\ UNCHANGED link

has_links(name) == \E type \in DOMAIN link : link[type] = name

\* Mistake: a permission is removed from under its children.
has_no_children_left(name) == FALSE

has_children(name) == \E child \in DOMAIN permission : permission[child] = name

apply_eosio_deleteauth(auth, name) ==
    /\ declares(auth)
    /\ name \notin {"owner", "active"}
    /\ ~has_links(name)
    /\ exists(permission, name)
    /\ ~has_children(name)
    /\ check_deleteauth_authorization(auth, name)
    /\ permission' = drop(permission, name)
    /\ action({auth})
    /\ UNCHANGED link

apply_eosio_linkauth(auth, type, requirement) ==
    /\ declares(auth)
    /\ requirement # Any => exists(permission, requirement)
    /\ type \in DOMAIN link => link[type] # requirement
    /\ check_linkauth_authorization(auth, type)
    /\ link' = put(link, type, requirement)
    /\ action({auth})
    /\ UNCHANGED permission

apply_eosio_unlinkauth(auth, type) ==
    /\ declares(auth)
    /\ type \in DOMAIN link
    /\ check_unlinkauth_authorization(auth, type)
    /\ link' = drop(link, type)
    /\ action({auth})
    /\ UNCHANGED permission

\* An action of the contract, which changes neither table.
apply(auth, type) ==
    /\ declares(auth)
    /\ check_authorization(auth, type)
    /\ action({auth})
    /\ UNCHANGED <<permission, link>>

\* The use of every declared permission is recorded: they must all exist still.
finalize ==
    /\ trx # Nothing
    /\ \A auth \in trx.declared : exists(permission, auth)
    /\ trx' = Nothing
    /\ UNCHANGED <<permission, link>>

\* An action, or a check, fails: the session of the transaction is undone.
undo ==
    /\ trx # Nothing
    /\ permission' = trx.permission /\ link' = trx.link /\ trx' = Nothing

Next ==
    \/ push_transaction \/ apply_eosio_newaccount \/ finalize \/ undo
    \/ \E auth, name \in Names :
          \/ \E parent \in Names \cup {Nothing} : apply_eosio_updateauth(auth, name, parent)
          \/ apply_eosio_deleteauth(auth, name)
    \/ \E auth \in Names, type \in Keys :
          \/ \E requirement \in Names \cup {Any} : apply_eosio_linkauth(auth, type, requirement)
          \/ apply_eosio_unlinkauth(auth, type)
    \/ \E auth \in Names, type \in Types : apply(auth, type)

Spec == Init /\ [][Next]_vars

-----------------------------------------------------------------------------
(* Properties.                                                             *)

PermissionTable == UNION {[S -> Names \cup {Nothing}] : S \in SUBSET Names}
LinkTable == UNION {[S -> Names \cup {Any}] : S \in SUBSET Keys}

TypeOK ==
    /\ permission \in PermissionTable
    /\ link \in LinkTable
    /\ trx \in {Nothing} \cup
            [permission : PermissionTable, link : LinkTable, declared : SUBSET Names,
             actions : 0 .. MaxActions]

\* The account does not exist, or it has owner and active, and owner alone has no parent.
Rooted(ps) ==
    /\ DOMAIN ps # {} => {"owner", "active"} \subseteq DOMAIN ps /\ ps["active"] = "owner"
    /\ \A n \in DOMAIN ps : ps[n] = Nothing <=> n = "owner"

\* Whatever a permission or a link refers to is there.
Closed(ps, ls) ==
    /\ \A n \in DOMAIN ps : n # "owner" => ps[n] \in DOMAIN ps
    /\ \A t \in DOMAIN ls : ls[t] # Any => ls[t] \in DOMAIN ps

\* The parent of a permission and the permission that a link requires always exist, so
\* that neither the walk over the parents nor the lookup of the minimum permission meets
\* an object that is gone, after any sequence of updates, deletions, links and undone
\* transactions.
ReferencesResolve == Rooted(permission) /\ Closed(permission, link)

\* The permissions that can authorize the actions of a type.
Able(ps, ls, type) ==
    LET minimum == lookup_minimum_permission(ls, type)
    IN  IF minimum = Any THEN Names ELSE AtOrAbove(ps, minimum)

\* Who has power over what changes in a transaction only by a permission that had it
\* before: if others are above a permission, or can authorize a type of action, than when
\* the transaction was checked, then it declares one that was at or above the permission,
\* or could authorize the type, then; and a permission that is new hangs below one that a
\* declared one was at or above.  Actions that delete, create and link again, one after
\* the other, and each checked against the tables from before, do not widen this.
PowerIsDeclared ==
    trx # Nothing /\ DOMAIN trx.permission # {} =>
        /\ \A n \in DOMAIN trx.permission :
               AtOrAbove(permission, n) # AtOrAbove(trx.permission, n) =>
                   trx.declared \cap AtOrAbove(trx.permission, n) # {}
        /\ \A t \in Types :
               Able(permission, link, t) # Able(trx.permission, trx.link, t) =>
                   trx.declared \cap Able(trx.permission, trx.link, t) # {}
        /\ \A n \in DOMAIN permission \ DOMAIN trx.permission :
               trx.declared \cap AtOrAbove(trx.permission, permission[n]) # {}
=============================================================================
