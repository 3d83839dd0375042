---------------------------- MODULE AccountQueryDb ----------------------------
(***************************************************************************)
(* The index of permissions by the keys and accounts that authorize them   *)
(* (account_query_db), which follows the blocks of the controller: each    *)
(* block that becomes the head is committed to it, also after the blocks   *)
(* of another branch were popped.                                          *)
(*                                                                         *)
(* A block has a time and the changes of permissions that its transactions *)
(* made; of an authority only its identity is kept, and an entry stands    *)
(* for the permission_info and what the two bimaps have of it.             *)
(***************************************************************************)
EXTENDS Integers, SequencesExt

CONSTANTS Permissions,   \* {owner, name} pairs
          Authorities,
          Kinds,         \* the actions in blocks: "updateauth", "deleteauth", "newaccount"
          MaxChanges,    \* bound: changes of permissions in a block
          MaxTime,       \* bound: the times of blocks
          MaxSwitches,   \* bound: branches that are left
          Nothing        \* no permission

VARIABLES chain,     \* the blocks from the root to the head: [time, changes]
          index,     \* permission_info_index: [last_updated, auth] of each permission, or Nothing
          looping,   \* whether rollback_to_before() came again to where it was
          switches

vars == <<chain, index, looping, switches>>

Change == [kind : Kinds, of : Permissions, auth : Authorities]

None == [p \in Permissions |-> Nothing]

\* The permissions after the changes of a block.
changed(state, b) ==
    FoldLeft(LAMBDA s, c : [s EXCEPT ![c.of] = IF c.kind = "deleteauth" THEN Nothing
                                               ELSE [last_updated |-> b.time, auth |-> c.auth]],
             state, b.changes)

\* The permission_index of the controller.
state_of(blocks) == FoldLeft(changed, None, blocks)

\* An action whose check or assertion fails has no trace: only what exists is deleted, and
\* only what does not exist is created with an account.
valid(state, b) ==
    \A i \in DOMAIN b.changes :
        LET before == changed(state, [b EXCEPT !.changes = SubSeq(@, 1, i - 1)])
            c      == b.changes[i]
        IN  /\ c.kind = "deleteauth" => before[c.of] # Nothing
            /\ c.kind = "newaccount" => before[c.of] = Nothing

\* build_account_query_map(), when the plugin starts.
Init ==
    /\ \E cs \in {<<>>} \cup {<<[kind |-> "updateauth", of |-> p, auth |-> a]>> :
                                  p \in Permissions, a \in Authorities} :
          chain = <<[time |-> 1, changes |-> cs]>>
    /\ index = state_of(chain)
    /\ looping = FALSE /\ switches = 0

-----------------------------------------------------------------------------
(* commit_block.                                                           *)

\* The last change of each permission decides, of those that are looked for.
updated(b) ==
    {p \in Permissions : \E i \in DOMAIN b.changes :
        /\ b.changes[i].of = p /\ b.changes[i].kind = "updateauth"
        /\ \A j \in i + 1 .. Len(b.changes) : b.changes[j].of = p => b.changes[j].kind # "deleteauth"}

deleted(b) ==
    {p \in Permissions : \E i \in DOMAIN b.changes :
        /\ b.changes[i].of = p /\ b.changes[i].kind = "deleteauth"
        /\ \A j \in i + 1 .. Len(b.changes) : b.changes[j].of = p => b.changes[j].kind # "updateauth"}

since(idx, t) == {p \in Permissions : idx[p] # Nothing /\ idx[p].last_updated >= t}

\* Each of these entries is replaced by what the state has, until none is left; an entry
\* that the state has from the same time or later would be replaced again and again.
rollback_to_before(idx, state, b) ==
    [p \in Permissions |-> IF p \in since(idx, b.time) THEN state[p] ELSE idx[p]]

loops(idx, state, b) == since(rollback_to_before(idx, state, b), b.time) # {}

nothing_to_do(idx, b) == updated(b) = {} /\ deleted(b) = {} /\ since(idx, b.time) = {}

commit_block(idx, state, b) ==
    IF nothing_to_do(idx, b) THEN idx
    ELSE [p \in Permissions |-> IF p \in updated(b) THEN state[p]
                                ELSE IF p \in deleted(b) THEN Nothing
                                ELSE rollback_to_before(idx, state, b)[p]]

-----------------------------------------------------------------------------
(* The controller.                                                         *)

Blocks(time) == [time : {time}, changes : SeqOf(Change, MaxChanges)]

\* A block on top of these becomes the head, and accepted_block is emitted.
accept(blocks, time) ==
    \E b \in Blocks(time) :
        LET state == state_of(Append(blocks, b))
        IN  /\ valid(state_of(blocks), b)
            /\ chain' = Append(blocks, b)
            /\ index' = commit_block(index, state, b)
            /\ looping' = (~nothing_to_do(index, b) /\ loops(index, state, b))

extend ==
    /\ ~looping
    /\ \E time \in Last(chain).time + 1 .. MaxTime : accept(chain, time)
    /\ UNCHANGED switches

\* Blocks are popped, back to where another branch begins, and its first is applied.
switch ==
    /\ ~looping /\ switches < MaxSwitches
    /\ \E n \in 1 .. Len(chain) - 1 :
          \E time \in chain[n].time + 1 .. MaxTime : accept(SubSeq(chain, 1, n), time)
    /\ switches' = switches + 1

Next == extend \/ switch

Spec == Init /\ [][Next]_vars

-----------------------------------------------------------------------------
(* Properties.                                                             *)

\* "Given a set of account names and public keys, find all account permission authorities
\* that are, in part or whole, satisfiable" (get_accounts_by_authorizers): after
\* commit_block() the index has the permissions of the state of the head, and no others,
\* whatever blocks were popped before.
IndexIsState == ~looping => index = state_of(chain)
=============================================================================
