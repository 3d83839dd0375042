----------------------------- MODULE UndoIndex -----------------------------
(***************************************************************************)
(* chainbase::generic_index: a table of objects with an undo stack.  The   *)
(* index does not copy the table when an undo session starts; it records,  *)
(* per session, the ids that were created and the first old value of every *)
(* object that was modified or removed, and it merges these records when   *)
(* two sessions are squashed.                                              *)
(*                                                                         *)
(* Objects are values without structure, so uniqueness violations of       *)
(* secondary keys (which abort the process) are not modelled.              *)
(***************************************************************************)
EXTENDS Integers, Sequences

CONSTANTS Value,        \* what an object can hold
          Absent,       \* stands for "there is no object with this id"
          MaxIds,       \* bound: ids are 0 .. MaxIds - 1
          MaxDepth,     \* bound: undo sessions on the stack
          MaxRevision   \* bound: the revision counter

ASSUME ConstantsAssumption ==
    /\ Absent \notin Value
    /\ MaxIds \in Nat
    /\ MaxDepth \in Nat
    /\ MaxRevision \in Nat

Id == 0 .. MaxIds - 1

Table == [Id -> Value \cup {Absent}]

\* A map from ids to values is total, with Absent where it has no entry.
UndoState == [old_values     : Table,
              removed_values : Table,
              new_ids        : SUBSET Id,
              old_next_id    : 0 .. MaxIds,
              revision       : Int]

\* The whole index at some moment.
Snapshot == [table : Table, nextId : 0 .. MaxIds]

VARIABLES indices,    \* _indices: the objects
          next_id,    \* _next_id
          stack,      \* _stack: the undo states, oldest first
          revision,   \* _revision
          saved       \* history: the table as it was when each session of
                      \* the stack was started (no action reads it)

vars == <<indices, next_id, stack, revision, saved>>

TypeOK == /\ indices \in Table
          /\ next_id \in 0 .. MaxIds
          /\ stack \in Seq(UndoState)
          /\ revision \in Nat
          /\ saved \in Seq(Snapshot)

Nothing == [i \in Id |-> Absent]

Init == /\ indices = Nothing
        /\ next_id = 0
        /\ stack = << >>
        /\ revision = 0
        /\ saved = << >>

-----------------------------------------------------------------------------
(* The three hooks: how an undo state records a change of object id.       *)

OnCreate(s, id) == [s EXCEPT !.new_ids = @ \cup {id}]

\* Mutant of OnModify: a second modification overwrites the first old value.
OnModifyKeepsLast(s, id, was) ==
    IF id \in s.new_ids THEN s ELSE [s EXCEPT !.old_values = [@ EXCEPT ![id] = was]]

OnModify(s, id, was) ==
    IF id \in s.new_ids \/ s.old_values[id] # Absent
    THEN s
    ELSE [s EXCEPT !.old_values = [@ EXCEPT ![id] = was]]

OnRemove(s, id, was) ==
    IF id \in s.new_ids
    THEN [s EXCEPT !.new_ids = @ \ {id}]
    ELSE IF s.old_values[id] # Absent
    THEN [s EXCEPT !.removed_values = [@ EXCEPT ![id] = s.old_values[id]],
                   !.old_values = [@ EXCEPT ![id] = Absent]]
    ELSE IF s.removed_values[id] # Absent
    THEN s
    ELSE [s EXCEPT !.removed_values = [@ EXCEPT ![id] = was]]

\* The table before the session that recorded s, given the one after it.
Undone(s, table) ==
    [i \in Id |-> IF s.removed_values[i] # Absent THEN s.removed_values[i]
                  ELSE IF s.old_values[i] # Absent THEN s.old_values[i]
                  ELSE IF i \in s.new_ids THEN Absent
                  ELSE table[i]]

\* Mutant of Merged: upd(was=X) + del(was=Y) becomes del(was=Y).
MergedKeepsNewest(prev, s) ==
    LET deleted == {i \in Id : s.removed_values[i] # Absent}
        new == prev.new_ids \cup s.new_ids
        Older(i) == IF prev.old_values[i] # Absent \/ i \in prev.new_ids
                    THEN prev.old_values[i] ELSE s.old_values[i]
    IN  [prev EXCEPT
           !.old_values = [i \in Id |-> IF i \in deleted THEN Absent ELSE Older(i)],
           !.new_ids = new \ deleted,
           !.removed_values = [i \in Id |->
               IF i \notin deleted \/ i \in new THEN prev.removed_values[i]
               ELSE s.removed_values[i]]]

\* The merge of squash(): prev is the older of the two undo states.
Merged(prev, s) ==
    LET deleted == {i \in Id : s.removed_values[i] # Absent}
        updated == {i \in Id : s.old_values[i] # Absent}
        \* old_values and new_ids of prev once the first two loops are done
        old == [i \in Id |-> IF /\ i \in updated
                                /\ i \notin prev.new_ids
                                /\ prev.old_values[i] = Absent
                             THEN s.old_values[i] ELSE prev.old_values[i]]
        new == prev.new_ids \cup s.new_ids
    IN  [prev EXCEPT
           !.old_values = [i \in Id |-> IF i \in deleted /\ i \notin new
                                        THEN Absent ELSE old[i]],
           !.new_ids = new \ deleted,
           !.removed_values = [i \in Id |->
               IF i \notin deleted \/ i \in new \/ prev.removed_values[i] # Absent
               THEN prev.removed_values[i]
               ELSE IF old[i] # Absent THEN old[i]
               ELSE s.removed_values[i]]]

-----------------------------------------------------------------------------
(* The operations.                                                         *)

\* pop_back() of the deques.
pop_back(q) == SubSeq(q, 1, Len(q) - 1)

Depth == Len(stack)

enabled == stack # << >>

Top == stack[Depth]

WithTop(s) == IF enabled THEN [stack EXCEPT ![Depth] = s] ELSE stack

emplace(v) ==
    /\ next_id < MaxIds
    /\ indices' = [indices EXCEPT ![next_id] = v]
    /\ next_id' = next_id + 1
    /\ stack' = WithTop(OnCreate(Top, next_id))
    /\ UNCHANGED <<revision, saved>>

modify(id, v) ==
    /\ indices[id] # Absent
    /\ indices' = [indices EXCEPT ![id] = v]
    /\ stack' = WithTop(OnModify(Top, id, indices[id]))
    /\ UNCHANGED <<next_id, revision, saved>>

remove(id) ==
    /\ indices[id] # Absent
    /\ indices' = [indices EXCEPT ![id] = Absent]
    /\ stack' = WithTop(OnRemove(Top, id, indices[id]))
    /\ UNCHANGED <<next_id, revision, saved>>

start_undo_session ==
    /\ Depth < MaxDepth
    /\ revision < MaxRevision
    /\ revision' = revision + 1
    /\ stack' = Append(stack, [old_values |-> Nothing, removed_values |-> Nothing,
                               new_ids |-> {}, old_next_id |-> next_id,
                               revision |-> revision + 1])
    /\ saved' = Append(saved, [table |-> indices, nextId |-> next_id])
    /\ UNCHANGED <<indices, next_id>>

\* undo_all() repeats this step until the stack is empty.
undo ==
    /\ enabled
    /\ indices' = Undone(Top, indices)
    /\ next_id' = Top.old_next_id
    /\ stack' = pop_back(stack)
    /\ revision' = revision - 1
    /\ saved' = pop_back(saved)

squash ==
    /\ enabled
    /\ stack' = IF Depth = 1 THEN << >>
                ELSE [pop_back(stack) EXCEPT ![Depth - 1] = Merged(stack[Depth - 1], Top)]
    /\ revision' = revision - 1
    /\ saved' = pop_back(saved)
    /\ UNCHANGED <<indices, next_id>>

\* The number of states at the front of the stack that commit(rev) drops.
Committed(rev) ==
    CHOOSE k \in 0 .. Depth : /\ \A i \in 1 .. k : stack[i].revision <= rev
                              /\ k < Depth => stack[k + 1].revision > rev

commit(rev) ==
    /\ stack' = SubSeq(stack, Committed(rev) + 1, Depth)
    /\ saved' = SubSeq(saved, Committed(rev) + 1, Depth)
    /\ UNCHANGED <<indices, next_id, revision>>

\* Otherwise it throws.
set_revision(rev) ==
    /\ ~enabled
    /\ revision' = rev
    /\ UNCHANGED <<indices, next_id, stack, saved>>

Next == \/ \E v \in Value : emplace(v)
        \/ \E id \in Id, v \in Value : modify(id, v)
        \/ \E id \in Id : remove(id)
        \/ start_undo_session
        \/ undo
        \/ squash
        \/ \E rev \in 0 .. MaxRevision : commit(rev)
        \/ \E rev \in 0 .. MaxRevision : set_revision(rev)

Spec == Init /\ [][Next]_vars

-----------------------------------------------------------------------------
(* Properties.                                                             *)

\* The index as it was when session k of the stack was started, and as it is now
\* for the session that would be started next.
At(k) == IF k = Depth + 1 THEN [table |-> indices, nextId |-> next_id] ELSE saved[k]

\* Undoing the newest session, and then the ones below it one after the other,
\* gives back exactly the objects and the next id of the moment each of them was
\* started, whatever was created, modified, removed, squashed and committed since.
UndoRestores ==
    /\ Len(saved) = Depth
    /\ \A k \in 1 .. Depth : /\ Undone(stack[k], At(k + 1).table) = saved[k].table
                             /\ stack[k].old_next_id = saved[k].nextId

\* undo() never erases or modifies through an iterator that find() did not find,
\* and never re-inserts an object that is still there: at the moment level k is
\* undone its new and its modified objects exist and its removed ones do not.
UndoFindsObjects ==
    \A k \in 1 .. Depth : \A i \in Id :
        /\ (i \in stack[k].new_ids \/ stack[k].old_values[i] # Absent)
               => At(k + 1).table[i] # Absent
        /\ stack[k].removed_values[i] # Absent => At(k + 1).table[i] = Absent
        /\ i \in stack[k].new_ids => stack[k].old_values[i] = Absent

\* The cells marked N/A in the matrix of squash() do not occur for any two
\* neighbouring undo states, so that none of its asserts can fail: nothing is
\* modified or removed after it was removed, and no id is handed out twice.
SquashMatrix ==
    \A k \in 1 .. Depth - 1 : \A i \in Id :
        LET a == stack[k]
            b == stack[k + 1]
        IN  /\ a.removed_values[i] # Absent =>
                   /\ b.old_values[i] = Absent
                   /\ b.removed_values[i] = Absent
            /\ i \in b.new_ids => /\ i \notin a.new_ids
                                  /\ a.old_values[i] = Absent
                                  /\ a.removed_values[i] = Absent

\* The undo states carry consecutive revision numbers that end at the revision
\* of the index, which is what lets the controller commit by block number.
RevisionsConsecutive ==
    /\ Depth <= revision
    /\ \A k \in 1 .. Depth : stack[k].revision = revision - Depth + k

\* s is a correct record of how the index went from before to after.
Records(s, before, after) ==
    /\ s.old_next_id = before.nextId
    /\ before.nextId <= after.nextId
    /\ \A i \in Id :
         /\ before.table[i] = Undone(s, after.table)[i]
         /\ before.table[i] # Absent => i < before.nextId
         /\ i \in s.new_ids => /\ after.table[i] # Absent
                               /\ s.old_values[i] = Absent
                               /\ before.nextId <= i
         /\ s.old_values[i] # Absent => after.table[i] # Absent
         /\ s.removed_values[i] # Absent => after.table[i] = Absent

\* The inductive invariant: every undo state on the stack is a correct record of
\* what happened between its start and the start of the session above it.
Inv == /\ TypeOK
       /\ Len(saved) = Depth
       /\ \A k \in 1 .. Depth : Records(stack[k], saved[k], At(k + 1))
       /\ \A i \in Id : indices[i] # Absent => i < next_id
       /\ RevisionsConsecutive

\* The index with its undo deltas implements a stack of complete copies.
Snapshots == INSTANCE SnapshotStack
                 WITH table <- indices, nextId <- next_id, snaps <- saved

ImplementsSnapshots == Snapshots!Spec
=============================================================================
