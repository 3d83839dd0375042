--------------------------- MODULE SnapshotStack ---------------------------
(***************************************************************************)
(* What a chainbase index promises, without saying how: the objects of the *)
(* index, and a stack of complete copies of it, one for every open undo    *)
(* session.  A session is undone by putting its copy back, merged into the *)
(* session below it by forgetting the copy, and committed by forgetting    *)
(* the oldest copies.  The undo deltas of UndoIndex implement this.        *)
(***************************************************************************)
EXTENDS Integers, Sequences

CONSTANTS Value,    \* what an object can hold
          Absent,   \* stands for "there is no object with this id"
          MaxIds    \* ids are 0 .. MaxIds - 1

Id == 0 .. MaxIds - 1

Table == [Id -> Value \cup {Absent}]

VARIABLES table,     \* the objects of the index
          nextId,    \* the id the next object gets
          snaps,     \* the copies, oldest first
          revision   \* the number of the newest session

vars == <<table, nextId, snaps, revision>>

Snapshot == [table : Table, nextId : 0 .. MaxIds]

Current == [table |-> table, nextId |-> nextId]

Init == /\ table = [i \in Id |-> Absent]
        /\ nextId = 0
        /\ snaps = << >>
        /\ revision = 0

Create == /\ nextId < MaxIds
          /\ \E v \in Value : table' = [table EXCEPT ![nextId] = v]
          /\ nextId' = nextId + 1
          /\ UNCHANGED <<snaps, revision>>

Write == /\ \E i \in Id : /\ table[i] # Absent
                          /\ \E v \in Value \cup {Absent} :
                                table' = [table EXCEPT ![i] = v]
         /\ UNCHANGED <<nextId, snaps, revision>>

Start == /\ snaps' = Append(snaps, Current)
         /\ revision' = revision + 1
         /\ UNCHANGED <<table, nextId>>

Undo == /\ snaps # << >>
        /\ table' = snaps[Len(snaps)].table
        /\ nextId' = snaps[Len(snaps)].nextId
        /\ snaps' = SubSeq(snaps, 1, Len(snaps) - 1)
        /\ revision' = revision - 1

Squash == /\ snaps # << >>
          /\ snaps' = SubSeq(snaps, 1, Len(snaps) - 1)
          /\ revision' = revision - 1
          /\ UNCHANGED <<table, nextId>>

Commit == /\ \E k \in 0 .. Len(snaps) : snaps' = SubSeq(snaps, k + 1, Len(snaps))
          /\ UNCHANGED <<table, nextId, revision>>

SetRevision == /\ snaps = << >>
               /\ revision' \in Nat
               /\ UNCHANGED <<table, nextId, snaps>>

Next == Create \/ Write \/ Start \/ Undo \/ Squash \/ Commit \/ SetRevision

Spec == Init /\ [][Next]_vars
=============================================================================
