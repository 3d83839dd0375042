-------------------------- MODULE ChainbaseProofs --------------------------
(***************************************************************************)
(* Proofs about the undo stacks of chainbase, for every set of values and  *)
(* all bounds: UndoIndex, one index, first, then Database, all of them.    *)
(*                                                                         *)
(* The argument about an index: each undo state is a correct record        *)
(* (Records) of the change between the moments its session and the one     *)
(* above it were started.  The hooks extend the newest record, squash      *)
(* composes the two newest, and commit drops the oldest ones.              *)
(***************************************************************************)
EXTENDS UndoIndex, SequenceTheorems, TLAPS

USE ConstantsAssumption

-----------------------------------------------------------------------------
(* What the hooks and the merge do to a record.                            *)

\* start_undo_session(): an empty undo state records that nothing changed.
LEMMA EmptyRecords ==
    ASSUME NEW a \in Snapshot, NEW rev \in Int,
           \A i \in Id : a.table[i] # Absent => i < a.nextId
    PROVE  LET s == [old_values |-> Nothing, removed_values |-> Nothing, new_ids |-> {},
                     old_next_id |-> a.nextId, revision |-> rev]
           IN  s \in UndoState /\ Records(s, a, a)
  BY DEF Records, Undone, UndoState, Snapshot, Table, Nothing, Id

\* on_create(): a new object with the next id.
LEMMA CreateRecords ==
    ASSUME NEW s \in UndoState, NEW b \in Snapshot, NEW a \in Snapshot,
           NEW v \in Value, a.nextId < MaxIds, Records(s, b, a),
           \A i \in Id : a.table[i] # Absent => i < a.nextId
    PROVE  /\ OnCreate(s, a.nextId) \in UndoState
           /\ Records(OnCreate(s, a.nextId), b,
                      [table |-> [a.table EXCEPT ![a.nextId] = v], nextId |-> a.nextId + 1])
  <1>1. a.nextId \in Id /\ b.nextId \in Int /\ a.nextId \in Int
    BY DEF Snapshot, Id
  <1>2. OnCreate(s, a.nextId) \in UndoState
    BY <1>1 DEF OnCreate, UndoState
  <1>3. ASSUME NEW i \in Id, i # a.nextId
        PROVE  /\ i \in OnCreate(s, a.nextId).new_ids <=> i \in s.new_ids
               /\ [a.table EXCEPT ![a.nextId] = v][i] = a.table[i]
    BY <1>1, <1>3 DEF OnCreate, UndoState, Snapshot, Table
  <1>4. QED
    BY <1>1, <1>2, <1>3 DEF OnCreate, Records, Undone, UndoState, Snapshot, Table

\* on_modify(): an existing object gets another value.
LEMMA ModifyRecords ==
    ASSUME NEW s \in UndoState, NEW b \in Snapshot, NEW a \in Snapshot,
           NEW id \in Id, NEW v \in Value, a.table[id] # Absent, Records(s, b, a)
    PROVE  /\ OnModify(s, id, a.table[id]) \in UndoState
           /\ Records(OnModify(s, id, a.table[id]), b,
                      [table |-> [a.table EXCEPT ![id] = v], nextId |-> a.nextId])
  BY DEF OnModify, Records, Undone, UndoState, Snapshot, Table

\* on_remove(): an existing object disappears.
LEMMA RemoveRecords ==
    ASSUME NEW s \in UndoState, NEW b \in Snapshot, NEW a \in Snapshot,
           NEW id \in Id, a.table[id] # Absent, Records(s, b, a)
    PROVE  /\ OnRemove(s, id, a.table[id]) \in UndoState
           /\ Records(OnRemove(s, id, a.table[id]), b,
                      [table |-> [a.table EXCEPT ![id] = Absent], nextId |-> a.nextId])
  BY ZenonT(30) DEF OnRemove, Records, Undone, UndoState, Snapshot, Table

\* squash(): the merge of two consecutive records records both changes.
LEMMA MergeRecords ==
    ASSUME NEW p \in UndoState, NEW s \in UndoState,
           NEW b \in Snapshot, NEW m \in Snapshot, NEW a \in Snapshot,
           Records(p, b, m), Records(s, m, a)
    PROVE  Merged(p, s) \in UndoState /\ Records(Merged(p, s), b, a)
  <1>1. Merged(p, s) \in UndoState
    BY DEF Merged, UndoState, Table
  <1>2. b.nextId \in Int /\ m.nextId \in Int /\ a.nextId \in Int /\ Id \subseteq Int
    BY DEF Snapshot, Id
  <1> DEFINE q == Merged(p, s)
             Old(i) == IF s.old_values[i] # Absent /\ i \notin p.new_ids /\ p.old_values[i] = Absent
                       THEN s.old_values[i] ELSE p.old_values[i]
             New(i) == i \in p.new_ids \/ i \in s.new_ids
             Del(i) == s.removed_values[i] # Absent
  <1>3. q.old_next_id = b.nextId /\ b.nextId <= a.nextId
    BY <1>2 DEF Merged, Records, UndoState
  <1>4. ASSUME NEW i \in Id
        PROVE  /\ q.old_values[i] = IF Del(i) /\ ~New(i) THEN Absent ELSE Old(i)
               /\ i \in q.new_ids <=> New(i) /\ ~Del(i)
               /\ q.removed_values[i] =
                     IF ~Del(i) \/ New(i) \/ p.removed_values[i] # Absent
                     THEN p.removed_values[i]
                     ELSE IF Old(i) # Absent THEN Old(i) ELSE s.removed_values[i]
    BY DEF Merged, UndoState, Table
  <1>5. ASSUME NEW i \in Id
        PROVE  /\ Undone(q, a.table)[i] =
                     IF q.removed_values[i] # Absent THEN q.removed_values[i]
                     ELSE IF q.old_values[i] # Absent THEN q.old_values[i]
                     ELSE IF i \in q.new_ids THEN Absent ELSE a.table[i]
               /\ m.table[i] =
                     IF s.removed_values[i] # Absent THEN s.removed_values[i]
                     ELSE IF s.old_values[i] # Absent THEN s.old_values[i]
                     ELSE IF i \in s.new_ids THEN Absent ELSE a.table[i]
               /\ b.table[i] =
                     IF p.removed_values[i] # Absent THEN p.removed_values[i]
                     ELSE IF p.old_values[i] # Absent THEN p.old_values[i]
                     ELSE IF i \in p.new_ids THEN Absent ELSE m.table[i]
    BY DEF Undone, Records
  <1>6. ASSUME NEW i \in Id
        PROVE  /\ b.table[i] # Absent => i < b.nextId
               /\ m.table[i] # Absent => i < m.nextId
               /\ b.nextId <= m.nextId
               /\ i \in s.new_ids => /\ a.table[i] # Absent
                                     /\ s.old_values[i] = Absent
                                     /\ m.nextId <= i
               /\ i \in p.new_ids => /\ m.table[i] # Absent
                                     /\ p.old_values[i] = Absent
                                     /\ b.nextId <= i
               /\ s.old_values[i] # Absent => a.table[i] # Absent
               /\ p.old_values[i] # Absent => m.table[i] # Absent
               /\ s.removed_values[i] # Absent => a.table[i] = Absent
               /\ p.removed_values[i] # Absent => m.table[i] = Absent
    BY DEF Records
  <1>7. ASSUME NEW i \in Id
        PROVE  /\ b.table[i] = Undone(q, a.table)[i]
               /\ b.table[i] # Absent => i < b.nextId
               /\ i \in q.new_ids => /\ a.table[i] # Absent
                                     /\ q.old_values[i] = Absent
                                     /\ b.nextId <= i
               /\ q.old_values[i] # Absent => a.table[i] # Absent
               /\ q.removed_values[i] # Absent => a.table[i] = Absent
    <2> HIDE DEF q
    <2>1. CASE i \in s.new_ids
      BY <1>2, <1>4, <1>5, <1>6, <2>1
    <2>2. CASE s.old_values[i] # Absent
      BY <1>2, <1>4, <1>5, <1>6, <2>2
    <2>3. CASE s.removed_values[i] # Absent
      BY <1>2, <1>4, <1>5, <1>6, <2>3
    <2>4. CASE i \notin s.new_ids /\ s.old_values[i] = Absent /\ s.removed_values[i] = Absent
      BY <1>2, <1>4, <1>5, <1>6, <2>4
    <2>5. QED
      BY <2>1, <2>2, <2>3, <2>4
  <1>8. QED
    BY <1>1, <1>3, <1>7 DEF Records

-----------------------------------------------------------------------------
(* Invariance.                                                             *)

LEMMA CurrentSnapshot ==
    ASSUME TypeOK
    PROVE  [table |-> indices, nextId |-> next_id] \in Snapshot
  BY DEF TypeOK, Snapshot

\* A change of the objects that the newest record, if there is one, accounts for.
LEMMA WriteStep ==
    ASSUME Inv, NEW s, NEW c \in Snapshot,
           enabled => /\ s \in UndoState
                      /\ Records(s, saved[Depth], c)
                      /\ s.revision = Top.revision,
           \A i \in Id : c.table[i] # Absent => i < c.nextId,
           indices' = c.table, next_id' = c.nextId, stack' = WithTop(s),
           UNCHANGED <<revision, saved>>
    PROVE  Inv'
  <1>1. CASE ~enabled
    <2>1. stack = << >> /\ stack' = << >> /\ Len(saved) = 0
      BY <1>1 DEF enabled, WithTop, Inv, Depth
    <2>2. QED
      BY <2>1 DEF Inv, TypeOK, RevisionsConsecutive, Depth, Snapshot
  <1>2. CASE enabled
    <2>1. /\ stack \in Seq(UndoState) /\ Len(stack) \in Nat \ {0} /\ Depth = Len(stack)
          /\ saved \in Seq(Snapshot) /\ Len(saved) = Depth
      BY <1>2 DEF enabled, Inv, TypeOK, Depth
    <2>2. stack' = [stack EXCEPT ![Depth] = s]
      BY <1>2 DEF WithTop
    <2>3. stack' \in Seq(UndoState) /\ Depth' = Depth
      BY <1>2, <2>1, <2>2 DEF Depth
    <2>4. \A k \in 1 .. Depth : stack'[k] = IF k = Depth THEN s ELSE stack[k]
      BY <2>1, <2>2
    <2>5. TypeOK'
      BY <2>3 DEF Inv, TypeOK, Snapshot
    <2>6. RevisionsConsecutive'
      BY <1>2, <2>1, <2>3, <2>4 DEF Inv, RevisionsConsecutive, Top
    <2>7. ASSUME NEW k \in 1 .. Depth
          PROVE  Records(stack[k], saved[k], At(k + 1))'
      <3>1. CASE k = Depth
        <4>1. At(k + 1)' = c
          BY <2>3, <3>1 DEF At, Snapshot
        <4>2. QED
          BY <1>2, <2>4, <3>1, <4>1
      <3>2. CASE k # Depth
        <4>1. At(k + 1)' = At(k + 1) /\ stack'[k] = stack[k]
          BY <2>1, <2>3, <2>4, <3>2 DEF At
        <4>2. QED
          BY <4>1 DEF Inv
      <3>3. QED
        BY <3>1, <3>2
    <2>8. QED
      BY <2>1, <2>3, <2>5, <2>6, <2>7 DEF Inv
  <1>3. QED
    BY <1>1, <1>2

LEMMA TopRecords ==
    ASSUME Inv, enabled
    PROVE  /\ Depth \in Nat \ {0}
           /\ Top \in UndoState
           /\ saved[Depth] \in Snapshot
           /\ Records(Top, saved[Depth], [table |-> indices, nextId |-> next_id])
  BY DEF Inv, TypeOK, enabled, Depth, Top, At

LEMMA PopBackFacts ==
    ASSUME NEW S, NEW q \in Seq(S), Len(q) # 0
    PROVE  /\ pop_back(q) \in Seq(S)
           /\ Len(pop_back(q)) = Len(q) - 1
           /\ \A k \in 1 .. Len(q) - 1 : pop_back(q)[k] = q[k]
  <1> DEFINE n == Len(q) - 1
  <1>1. n \in Nat /\ \A i \in 1 .. n : q[i] \in S
    OBVIOUS
  <1>2. pop_back(q) = SubSeq(q, 1, n)
    BY DEF pop_back
  <1> HIDE DEF n
  <1>3. /\ SubSeq(q, 1, n) \in Seq(S)
        /\ Len(SubSeq(q, 1, n)) = IF 1 <= n THEN n - 1 + 1 ELSE 0
        /\ \A i \in 1 .. n - 1 + 1 : SubSeq(q, 1, n)[i] = q[1 + i - 1]
    BY <1>1, SubSeqProperties
  <1>4. Len(SubSeq(q, 1, n)) = n /\ \A i \in 1 .. n : SubSeq(q, 1, n)[i] = q[i]
    BY <1>1, <1>3
  <1>5. QED
    BY <1>2, <1>3, <1>4 DEF n

LEMMA StartStep == ASSUME Inv, start_undo_session PROVE Inv'
  <1> DEFINE c == [table |-> indices, nextId |-> next_id]
             s == [old_values |-> Nothing, removed_values |-> Nothing, new_ids |-> {},
                   old_next_id |-> next_id, revision |-> revision + 1]
  <1>1. /\ stack \in Seq(UndoState) /\ saved \in Seq(Snapshot) /\ Len(saved) = Depth
        /\ Depth = Len(stack) /\ Depth \in Nat /\ revision \in Nat /\ c \in Snapshot
    BY CurrentSnapshot DEF Inv, TypeOK, Depth
  <1>2. s \in UndoState /\ Records(s, c, c)
    BY <1>1, EmptyRecords DEF Inv
  <1>3. /\ stack' = Append(stack, s) /\ saved' = Append(saved, c)
        /\ revision' = revision + 1 /\ UNCHANGED <<indices, next_id>>
    BY DEF start_undo_session
  <1> HIDE DEF s, c
  <1>4. /\ stack' \in Seq(UndoState) /\ saved' \in Seq(Snapshot)
        /\ Depth' = Depth + 1 /\ Len(saved') = Depth'
        /\ \A k \in 1 .. Depth' : /\ stack'[k] = IF k = Depth' THEN s ELSE stack[k]
                                  /\ saved'[k] = IF k = Depth' THEN c ELSE saved[k]
    BY <1>1, <1>2, <1>3 DEF Depth
  <1>5. ASSUME NEW k \in 1 .. Depth'
        PROVE  Records(stack[k], saved[k], At(k + 1))'
    <2>1. CASE k = Depth'
      BY <1>1, <1>2, <1>3, <1>4, <2>1 DEF At, c
    <2>2. CASE k # Depth'
      <3>1. At(k + 1)' = At(k + 1) /\ k \in 1 .. Depth
        BY <1>1, <1>3, <1>4, <2>2 DEF At, c
      <3>2. QED
        BY <1>4, <2>2, <3>1 DEF Inv
    <2>3. QED
      BY <2>1, <2>2
  <1>6. TypeOK'
    BY <1>3, <1>4 DEF Inv, TypeOK
  <1>7. RevisionsConsecutive'
    BY <1>1, <1>3, <1>4 DEF Inv, RevisionsConsecutive, s
  <1>8. QED
    BY <1>3, <1>4, <1>5, <1>6, <1>7 DEF Inv

LEMMA UndoStep == ASSUME Inv, undo PROVE Inv'
  <1>1. /\ stack \in Seq(UndoState) /\ saved \in Seq(Snapshot) /\ Len(saved) = Depth
        /\ Depth = Len(stack) /\ Depth \in Nat \ {0} /\ revision \in Nat
    BY TopRecords DEF Inv, TypeOK, Depth, undo
  <1>2. /\ Top \in UndoState /\ saved[Depth] \in Snapshot
        /\ Records(Top, saved[Depth], [table |-> indices, nextId |-> next_id])
    BY TopRecords DEF undo
  <1>3. indices' = saved[Depth].table /\ next_id' = saved[Depth].nextId
    BY <1>2 DEF undo, Records, Undone, Snapshot, Table
  <1>4. /\ stack' \in Seq(UndoState) /\ saved' \in Seq(Snapshot)
        /\ Depth' = Depth - 1 /\ Len(saved') = Depth'
        /\ \A k \in 1 .. Depth' : stack'[k] = stack[k] /\ saved'[k] = saved[k]
    BY <1>1 DEF undo, pop_back, Depth
  <1>5. ASSUME NEW k \in 1 .. Depth'
        PROVE  Records(stack[k], saved[k], At(k + 1))'
    <2>1. saved[Depth] = [table |-> indices', nextId |-> next_id']
      BY <1>2, <1>3 DEF Snapshot
    <2>2. /\ k \in 1 .. Depth /\ k + 1 # Depth + 1
          /\ k + 1 = Depth' + 1 => k + 1 = Depth
          /\ k + 1 # Depth' + 1 => k + 1 \in 1 .. Depth'
      BY <1>1, <1>4
    <2>3. At(k + 1)' = At(k + 1)
      BY <1>4, <2>1, <2>2 DEF At
    <2>4. QED
      BY <1>4, <2>2, <2>3 DEF Inv
  <1>6. TypeOK'
    BY <1>1, <1>2, <1>3, <1>4 DEF Inv, TypeOK, undo, Snapshot, RevisionsConsecutive
  <1>7. RevisionsConsecutive'
    BY <1>1, <1>4 DEF Inv, RevisionsConsecutive, undo
  <1>8. \A i \in Id : indices'[i] # Absent => i < next_id'
    BY <1>2, <1>3 DEF Records
  <1>9. QED
    BY <1>4, <1>5, <1>6, <1>7, <1>8 DEF Inv

LEMMA SquashStep == ASSUME Inv, squash PROVE Inv'
  <1>1. /\ stack \in Seq(UndoState) /\ saved \in Seq(Snapshot) /\ Len(saved) = Depth
        /\ Depth = Len(stack) /\ Depth \in Nat \ {0} /\ revision \in Nat
    BY TopRecords DEF Inv, TypeOK, Depth, squash
  <1>2. CASE Depth = 1
    <2>1. stack' = << >> /\ saved' = << >> /\ Depth' = 0 /\ Len(saved') = 0
      BY <1>1, <1>2 DEF squash, pop_back, Depth
    <2>2. QED
      BY <1>1, <1>2, <2>1 DEF Inv, TypeOK, RevisionsConsecutive, squash
  <1>3. CASE Depth # 1
    <2> DEFINE q == Merged(stack[Depth - 1], Top)
    <2>1. /\ Top \in UndoState /\ stack[Depth - 1] \in UndoState
          /\ Records(Top, saved[Depth], [table |-> indices, nextId |-> next_id])
          /\ Records(stack[Depth - 1], saved[Depth - 1], saved[Depth])
      <3>1. /\ Depth - 1 \in 1 .. Depth /\ (Depth - 1) + 1 = Depth /\ Depth # Depth + 1
            /\ stack[Depth - 1] \in UndoState
        BY <1>1, <1>3
      <3>2. Records(stack[Depth - 1], saved[Depth - 1], At((Depth - 1) + 1))
        BY <3>1 DEF Inv
      <3>3. At((Depth - 1) + 1) = saved[Depth]
        BY <3>1 DEF At
      <3>4. QED
        BY <3>1, <3>2, <3>3, TopRecords DEF squash
    <2>2. /\ q \in UndoState
          /\ Records(q, saved[Depth - 1], [table |-> indices, nextId |-> next_id])
      BY <1>1, <1>3, <2>1, MergeRecords, CurrentSnapshot DEF Inv
    <2>3. q.revision = stack[Depth - 1].revision
      BY <2>1 DEF Merged, UndoState
    <2> HIDE DEF q
    <2>4. stack' = [pop_back(stack) EXCEPT ![Depth - 1] = q] /\ saved' = pop_back(saved)
          /\ revision' = revision - 1 /\ UNCHANGED <<indices, next_id>>
      BY <1>3 DEF squash, q
    <2>5. /\ stack' \in Seq(UndoState) /\ saved' \in Seq(Snapshot)
          /\ Depth' = Depth - 1 /\ Len(saved') = Depth'
          /\ \A k \in 1 .. Depth' : /\ stack'[k] = IF k = Depth' THEN q ELSE stack[k]
                                    /\ saved'[k] = saved[k]
      <3>1. /\ pop_back(stack) \in Seq(UndoState) /\ Len(pop_back(stack)) = Depth - 1
            /\ pop_back(saved) \in Seq(Snapshot) /\ Len(pop_back(saved)) = Depth - 1
            /\ \A k \in 1 .. Depth - 1 : /\ pop_back(stack)[k] = stack[k]
                                         /\ pop_back(saved)[k] = saved[k]
        BY <1>1, PopBackFacts
      <3>2. stack' \in Seq(UndoState) /\ Len(stack') = Depth - 1
        <4>1. Depth - 1 \in 1 .. Len(pop_back(stack))
          BY <1>1, <1>3, <3>1
        <4>2. QED
          BY <2>2, <2>4, <3>1, <4>1, ExceptSeq
      <3>3. \A k \in 1 .. Depth - 1 : stack'[k] = IF k = Depth - 1 THEN q ELSE stack[k]
        BY <1>1, <2>4, <3>1
      <3>4. QED
        BY <2>4, <3>1, <3>2, <3>3 DEF Depth
    <2>6. ASSUME NEW k \in 1 .. Depth'
          PROVE  Records(stack[k], saved[k], At(k + 1))'
      <3>1. CASE k = Depth'
        BY <1>1, <2>2, <2>4, <2>5, <3>1 DEF At
      <3>2. CASE k # Depth'
        <4>1. At(k + 1)' = At(k + 1) /\ k \in 1 .. Depth
          BY <1>1, <2>4, <2>5, <3>2 DEF At
        <4>2. QED
          BY <2>5, <3>2, <4>1 DEF Inv
      <3>3. QED
        BY <3>1, <3>2
    <2>7. TypeOK'
      BY <1>1, <2>4, <2>5 DEF Inv, TypeOK, RevisionsConsecutive
    <2>8. RevisionsConsecutive'
      <3>1. \A k \in 1 .. Depth' : stack'[k].revision = stack[k].revision
        BY <1>1, <2>3, <2>5
      <3>2. \A k \in 1 .. Depth' : k \in 1 .. Depth /\ revision' - Depth' = revision - Depth
        BY <1>1, <2>4, <2>5
      <3>3. QED
        BY <1>1, <2>4, <2>5, <3>1, <3>2 DEF Inv, RevisionsConsecutive
    <2>9. QED
      BY <2>4, <2>5, <2>6, <2>7, <2>8 DEF Inv
  <1>4. QED
    BY <1>2, <1>3

LEMMA DropFacts ==
    ASSUME NEW S, NEW q \in Seq(S), NEW k \in 0 .. Len(q)
    PROVE  /\ SubSeq(q, k + 1, Len(q)) \in Seq(S)
           /\ Len(SubSeq(q, k + 1, Len(q))) = Len(q) - k
           /\ \A i \in 1 .. Len(q) - k : SubSeq(q, k + 1, Len(q))[i] = q[i + k]
  <1> DEFINE n == Len(q)
             m == k + 1
  <1>1. n \in Nat /\ m \in 1 .. n + 1 /\ k = m - 1 /\ \A i \in m .. n : q[i] \in S
    OBVIOUS
  <1> HIDE DEF n, m
  <1>2. /\ SubSeq(q, m, n) \in Seq(S)
        /\ Len(SubSeq(q, m, n)) = IF m <= n THEN n - m + 1 ELSE 0
        /\ \A i \in 1 .. n - m + 1 : SubSeq(q, m, n)[i] = q[m + i - 1]
    BY <1>1, SubSeqProperties
  <1>3. \A i \in 1 .. n - k : i \in 1 .. n - m + 1 /\ m + i - 1 = i + k
    BY <1>1
  <1>4. Len(SubSeq(q, m, n)) = n - k
    BY <1>1, <1>2
  <1>5. QED
    BY <1>2, <1>3, <1>4 DEF n, m

LEMMA CommittedInRange == ASSUME Inv, NEW rev \in Int PROVE Committed(rev) \in 0 .. Depth
  <1> DEFINE j == IF rev <= revision - Depth THEN 0
                  ELSE IF rev >= revision THEN Depth ELSE rev - (revision - Depth)
  <1>1. Depth \in Nat /\ revision \in Nat
    BY DEF Inv, TypeOK, Depth
  <1>2. \A i \in 1 .. Depth : stack[i].revision = revision - Depth + i
    BY DEF Inv, RevisionsConsecutive
  <1>3. j \in 0 .. Depth
    BY <1>1
  <1>4. \A i \in 1 .. j : stack[i].revision <= rev
    BY <1>1, <1>2
  <1>5. j < Depth => stack[j + 1].revision > rev
    BY <1>1, <1>2
  <1>6. \E x \in 0 .. Depth : /\ \A i \in 1 .. x : stack[i].revision <= rev
                              /\ x < Depth => stack[x + 1].revision > rev
    BY <1>3, <1>4, <1>5
  <1>7. QED
    BY <1>6 DEF Committed

LEMMA CommitStep == ASSUME Inv, NEW rev \in Int, commit(rev) PROVE Inv'
  <1> DEFINE k == Committed(rev)
  <1>1. /\ stack \in Seq(UndoState) /\ saved \in Seq(Snapshot) /\ Len(saved) = Depth
        /\ Depth = Len(stack) /\ Depth \in Nat /\ revision \in Nat
    BY DEF Inv, TypeOK, Depth
  <1>2. k \in 0 .. Depth
    BY CommittedInRange
  <1>3. /\ stack' = SubSeq(stack, k + 1, Depth) /\ saved' = SubSeq(saved, k + 1, Depth)
        /\ UNCHANGED <<indices, next_id, revision>>
    BY DEF commit
  <1> HIDE DEF k
  <1>4. /\ stack' \in Seq(UndoState) /\ saved' \in Seq(Snapshot)
        /\ Depth' = Depth - k /\ Len(saved') = Depth'
        /\ \A i \in 1 .. Depth - k : stack'[i] = stack[i + k] /\ saved'[i] = saved[i + k]
    <2>1. /\ stack' \in Seq(UndoState) /\ Len(stack') = Depth - k
          /\ \A i \in 1 .. Depth - k : stack'[i] = stack[i + k]
      BY <1>1, <1>2, <1>3, DropFacts
    <2>2. /\ saved' \in Seq(Snapshot) /\ Len(saved') = Depth - k
          /\ \A i \in 1 .. Depth - k : saved'[i] = saved[i + k]
      BY <1>1, <1>2, <1>3, DropFacts
    <2>3. QED
      BY <2>1, <2>2 DEF Depth
  <1>5. ASSUME NEW i \in 1 .. Depth'
        PROVE  Records(stack[i], saved[i], At(i + 1))'
    <2>1. /\ i + k \in 1 .. Depth /\ (i + k) + 1 = (i + 1) + k
          /\ i + 1 = Depth' + 1 <=> (i + k) + 1 = Depth + 1
          /\ i + 1 # Depth' + 1 => i + 1 \in 1 .. Depth - k
      BY <1>1, <1>2, <1>4
    <2>2. At(i + 1)' = At((i + k) + 1)
      BY <1>3, <1>4, <2>1 DEF At
    <2>3. stack'[i] = stack[i + k] /\ saved'[i] = saved[i + k]
      BY <1>4
    <2>4. QED
      BY <2>1, <2>2, <2>3 DEF Inv
  <1>6. TypeOK'
    BY <1>3, <1>4 DEF Inv, TypeOK
  <1>7. RevisionsConsecutive'
    <2>1. /\ k \in Int /\ Depth \in Int /\ revision \in Int
          /\ Depth' = Depth - k /\ revision' = revision /\ Depth <= revision /\ k >= 0
      BY <1>1, <1>2, <1>3, <1>4 DEF Inv, RevisionsConsecutive
    <2>2. ASSUME NEW i \in 1 .. Depth'
          PROVE  stack'[i].revision = revision' - Depth' + i
      <3>1. i + k \in 1 .. Depth /\ i \in 1 .. Depth - k
        BY <2>1
      <3>2. stack'[i].revision = revision - Depth + (i + k)
        BY <1>4, <3>1 DEF Inv, RevisionsConsecutive
      <3>3. QED
        BY <2>1, <3>2
    <2>3. QED
      BY <2>1, <2>2 DEF RevisionsConsecutive
  <1>8. QED
    BY <1>3, <1>4, <1>5, <1>6, <1>7 DEF Inv

-----------------------------------------------------------------------------
(* The theorems.                                                           *)

\* In every reachable state of the index all variables have their types, the undo
\* states are correct records and carry consecutive revisions.
THEOREM Invariance == Spec => []Inv
  <1>1. Init => Inv
    BY DEF Init, Inv, TypeOK, Nothing, Table, RevisionsConsecutive, Depth
  <1>2. Inv /\ [Next]_vars => Inv'
    <2> SUFFICES ASSUME Inv, [Next]_vars PROVE Inv'
      OBVIOUS
    <2> DEFINE c == [table |-> indices, nextId |-> next_id]
    <2>0. c \in Snapshot /\ TypeOK /\ \A i \in Id : c.table[i] # Absent => i < c.nextId
      BY CurrentSnapshot DEF Inv
    <2>1. ASSUME NEW v \in Value, emplace(v) PROVE Inv'
      <3> DEFINE d == [table |-> [indices EXCEPT ![next_id] = v], nextId |-> next_id + 1]
      <3>1. d \in Snapshot /\ next_id \in Id
        BY <2>0, <2>1 DEF TypeOK, emplace, Snapshot, Table, Id
      <3>2. \A i \in Id : d.table[i] # Absent => i < d.nextId
        BY <2>0, <3>1 DEF TypeOK, Table, Id
      <3>3. enabled => /\ OnCreate(Top, next_id) \in UndoState
                       /\ Records(OnCreate(Top, next_id), saved[Depth], d)
                       /\ OnCreate(Top, next_id).revision = Top.revision
        <4> SUFFICES ASSUME enabled
                     PROVE  /\ OnCreate(Top, next_id) \in UndoState
                            /\ Records(OnCreate(Top, next_id), saved[Depth], d)
                            /\ OnCreate(Top, next_id).revision = Top.revision
          OBVIOUS
        <4>1. /\ Top \in UndoState /\ saved[Depth] \in Snapshot
              /\ Records(Top, saved[Depth], c)
          BY TopRecords
        <4>2. c.nextId < MaxIds
          BY <2>1 DEF emplace
        <4>3. /\ OnCreate(Top, c.nextId) \in UndoState
              /\ Records(OnCreate(Top, c.nextId), saved[Depth],
                         [table |-> [c.table EXCEPT ![c.nextId] = v], nextId |-> c.nextId + 1])
          BY ONLY <2>0, <4>1, <4>2, CreateRecords, v \in Value
        <4>4. QED
          BY <4>1, <4>3 DEF OnCreate, UndoState
      <3>4. QED
        <4>1. indices' = d.table /\ next_id' = d.nextId /\ UNCHANGED <<revision, saved>>
              /\ stack' = WithTop(OnCreate(Top, next_id))
          BY <2>1 DEF emplace
        <4> HIDE DEF d
        <4>2. QED
          BY <3>1, <3>2, <3>3, <4>1, WriteStep
    <2>2. ASSUME NEW id \in Id, NEW v \in Value, modify(id, v) PROVE Inv'
      <3> DEFINE d == [table |-> [indices EXCEPT ![id] = v], nextId |-> next_id]
                 s == OnModify(Top, id, indices[id])
      <3>1. d \in Snapshot /\ indices[id] # Absent
        BY <2>0, <2>2 DEF TypeOK, modify, Snapshot, Table
      <3>2. \A i \in Id : d.table[i] # Absent => i < d.nextId
        BY <2>0, <3>1 DEF TypeOK, Table
      <3>3. enabled => /\ s \in UndoState
                       /\ Records(s, saved[Depth], d)
                       /\ s.revision = Top.revision
        <4> SUFFICES ASSUME enabled
                     PROVE  s \in UndoState /\ Records(s, saved[Depth], d) /\ s.revision = Top.revision
          OBVIOUS
        <4>1. /\ Top \in UndoState /\ saved[Depth] \in Snapshot
              /\ Records(Top, saved[Depth], c)
          BY TopRecords
        <4>2. /\ OnModify(Top, id, c.table[id]) \in UndoState
              /\ Records(OnModify(Top, id, c.table[id]), saved[Depth],
                         [table |-> [c.table EXCEPT ![id] = v], nextId |-> c.nextId])
          BY <2>0, <2>2, <3>1, <4>1, ModifyRecords
        <4>3. QED
          BY <4>1, <4>2 DEF OnModify, UndoState
      <3>4. indices' = d.table /\ next_id' = d.nextId /\ UNCHANGED <<revision, saved>>
            /\ stack' = WithTop(s)
        BY <2>2 DEF modify
      <3> HIDE DEF d, s
      <3>5. QED
        BY <3>1, <3>2, <3>3, <3>4, WriteStep
    <2>3. ASSUME NEW id \in Id, remove(id) PROVE Inv'
      <3> DEFINE d == [table |-> [indices EXCEPT ![id] = Absent], nextId |-> next_id]
                 s == OnRemove(Top, id, indices[id])
      <3>1. d \in Snapshot /\ indices[id] # Absent
        BY <2>0, <2>3 DEF TypeOK, remove, Snapshot, Table
      <3>2. \A i \in Id : d.table[i] # Absent => i < d.nextId
        BY <2>0, <3>1 DEF TypeOK, Table
      <3>3. enabled => /\ s \in UndoState
                       /\ Records(s, saved[Depth], d)
                       /\ s.revision = Top.revision
        <4> SUFFICES ASSUME enabled
                     PROVE  s \in UndoState /\ Records(s, saved[Depth], d) /\ s.revision = Top.revision
          OBVIOUS
        <4>1. /\ Top \in UndoState /\ saved[Depth] \in Snapshot
              /\ Records(Top, saved[Depth], c)
          BY TopRecords
        <4>2. /\ OnRemove(Top, id, c.table[id]) \in UndoState
              /\ Records(OnRemove(Top, id, c.table[id]), saved[Depth],
                         [table |-> [c.table EXCEPT ![id] = Absent], nextId |-> c.nextId])
          BY <2>0, <2>3, <3>1, <4>1, RemoveRecords
        <4>3. QED
          BY <4>1, <4>2 DEF OnRemove, UndoState
      <3>4. indices' = d.table /\ next_id' = d.nextId /\ UNCHANGED <<revision, saved>>
            /\ stack' = WithTop(s)
        BY <2>3 DEF remove
      <3> HIDE DEF d, s
      <3>5. QED
        BY <3>1, <3>2, <3>3, <3>4, WriteStep
    <2>4. CASE start_undo_session
      BY <2>4, StartStep
    <2>5. CASE undo
      BY <2>5, UndoStep
    <2>6. CASE squash
      BY <2>6, SquashStep
    <2>7. ASSUME NEW rev \in 0 .. MaxRevision, commit(rev) PROVE Inv'
      BY <2>7, CommitStep
    <2>8. ASSUME NEW rev \in 0 .. MaxRevision, set_revision(rev) PROVE Inv'
      BY <2>8 DEF set_revision, Inv, TypeOK, RevisionsConsecutive, Depth, enabled, At
    <2>9. CASE UNCHANGED vars
      BY <2>9 DEF vars, Inv, TypeOK, RevisionsConsecutive, Depth, At
    <2>10. QED
      BY <2>1, <2>2, <2>3, <2>4, <2>5, <2>6, <2>7, <2>8, <2>9 DEF Next
  <1>3. QED
    BY <1>1, <1>2, PTL DEF Spec

\* Undoing the sessions of the stack one after the other restores exactly the
\* objects and the next id each of them was started with.
THEOREM UndoIsExact == Spec => []UndoRestores
  <1>1. Inv => UndoRestores
    <2> SUFFICES ASSUME Inv, NEW k \in 1 .. Depth
                 PROVE  /\ Undone(stack[k], At(k + 1).table) = saved[k].table
                        /\ stack[k].old_next_id = saved[k].nextId
      BY DEF UndoRestores, Inv
    <2>1. Records(stack[k], saved[k], At(k + 1)) /\ saved[k] \in Snapshot
      BY DEF Inv, TypeOK, Depth
    <2>2. QED
      BY <2>1 DEF Records, Undone, Snapshot, Table
  <1>2. QED
    BY <1>1, Invariance, PTL

\* undo() finds every object it erases or modifies, and finds none where it
\* re-inserts one.
THEOREM UndoIsDefined == Spec => []UndoFindsObjects
  <1>1. Inv => UndoFindsObjects
    BY DEF Inv, Records, UndoFindsObjects
  <1>2. QED
    BY <1>1, Invariance, PTL

\* The asserts of squash() cannot fail: no N/A cell of its matrix is reachable.
THEOREM SquashIsDefined == Spec => []SquashMatrix
  <1>1. Inv => SquashMatrix
    <2> SUFFICES ASSUME Inv, NEW k \in 1 .. Depth - 1, NEW i \in Id
                 PROVE  /\ stack[k].removed_values[i] # Absent =>
                             /\ stack[k + 1].old_values[i] = Absent
                             /\ stack[k + 1].removed_values[i] = Absent
                        /\ i \in stack[k + 1].new_ids =>
                             /\ i \notin stack[k].new_ids
                             /\ stack[k].old_values[i] = Absent
                             /\ stack[k].removed_values[i] = Absent
      BY DEF SquashMatrix
    <2> DEFINE a == stack[k]
               b == stack[k + 1]
               x == saved[k]
               y == saved[k + 1]
               z == At((k + 1) + 1)
    <2>1. /\ Depth \in Nat /\ Depth = Len(stack) /\ Len(saved) = Depth
          /\ saved \in Seq(Snapshot) /\ stack \in Seq(UndoState)
      BY DEF Inv, TypeOK, Depth
    <2>2. /\ k \in 1 .. Depth /\ k + 1 \in 1 .. Depth /\ k + 1 # Depth + 1
          /\ x \in Snapshot /\ y \in Snapshot
      BY <2>1
    <2>3. Records(a, x, y) /\ Records(b, y, z)
      BY <2>2 DEF Inv, At
    <2>4. x.nextId \in Int /\ y.nextId \in Int /\ i \in Int
      BY <2>2 DEF Snapshot, Id
    <2> HIDE DEF a, b, x, y, z
    <2>5. /\ x.table[i] = IF a.removed_values[i] # Absent THEN a.removed_values[i]
                          ELSE IF a.old_values[i] # Absent THEN a.old_values[i]
                          ELSE IF i \in a.new_ids THEN Absent ELSE y.table[i]
          /\ y.table[i] = IF b.removed_values[i] # Absent THEN b.removed_values[i]
                          ELSE IF b.old_values[i] # Absent THEN b.old_values[i]
                          ELSE IF i \in b.new_ids THEN Absent ELSE z.table[i]
      BY <2>3 DEF Records, Undone
    <2>6. /\ x.nextId <= y.nextId
          /\ x.table[i] # Absent => i < x.nextId
          /\ a.old_values[i] # Absent \/ i \in a.new_ids => y.table[i] # Absent
          /\ a.removed_values[i] # Absent => y.table[i] = Absent
          /\ i \in b.new_ids => /\ z.table[i] # Absent
                                /\ b.old_values[i] = Absent
                                /\ y.nextId <= i
          /\ b.removed_values[i] # Absent => z.table[i] = Absent
      BY <2>3 DEF Records
    <2>7. /\ a.removed_values[i] # Absent =>
                b.old_values[i] = Absent /\ b.removed_values[i] = Absent
          /\ i \in b.new_ids => /\ i \notin a.new_ids
                                /\ a.old_values[i] = Absent
                                /\ a.removed_values[i] = Absent
      BY <2>4, <2>5, <2>6
    <2>8. QED
      BY <2>7 DEF a, b
  <1>2. QED
    BY <1>1, Invariance, PTL

\* The index with its undo deltas implements the stack of complete copies.
THEOREM Refinement == Spec => ImplementsSnapshots
  <1>1. Init => Snapshots!Init
    BY DEF Init, Snapshots!Init, Nothing, Id, Snapshots!Id
  <1>2. Inv /\ [Next]_vars => [Snapshots!Next]_(Snapshots!vars)
    <2> SUFFICES ASSUME Inv, [Next]_vars
                 PROVE  Snapshots!Next \/ UNCHANGED Snapshots!vars
      OBVIOUS
    <2>0. /\ TypeOK /\ Len(saved) = Depth /\ Depth \in Nat /\ Depth = Len(stack)
          /\ saved \in Seq(Snapshot)
      BY DEF Inv, TypeOK, Depth
    <2>1. ASSUME NEW v \in Value, emplace(v) PROVE Snapshots!Create
      BY <2>1 DEF emplace, Snapshots!Create
    <2>2. ASSUME NEW id \in Id, NEW v \in Value, modify(id, v) PROVE Snapshots!Write
      BY <2>2 DEF modify, Snapshots!Write, Id, Snapshots!Id
    <2>3. ASSUME NEW id \in Id, remove(id) PROVE Snapshots!Write
      BY <2>3 DEF remove, Snapshots!Write, Id, Snapshots!Id
    <2>4. CASE start_undo_session
      BY <2>4 DEF start_undo_session, Snapshots!Next, Snapshots!Start, Snapshots!Current
    <2>5. CASE undo
      <3>1. /\ Depth # 0 /\ saved # << >> /\ saved[Depth] \in Snapshot
            /\ Records(Top, saved[Depth], [table |-> indices, nextId |-> next_id])
        BY <2>0, <2>5, TopRecords DEF undo
      <3>2. indices' = saved[Depth].table /\ next_id' = saved[Depth].nextId
        BY <2>5, <3>1 DEF undo, Records, Undone, Snapshot, Table
      <3>3. Snapshots!Undo
        BY <2>0, <2>5, <3>1, <3>2 DEF undo, Snapshots!Undo, pop_back
      <3>4. QED
        BY <3>3 DEF Snapshots!Next
    <2>6. CASE squash
      <3>1. saved # << >>
        BY <2>0, <2>6 DEF squash, enabled
      <3>2. Snapshots!Squash
        BY <2>6, <3>1 DEF squash, Snapshots!Squash, pop_back
      <3>3. QED
        BY <3>2 DEF Snapshots!Next
    <2>7. ASSUME NEW rev \in 0 .. MaxRevision, commit(rev) PROVE Snapshots!Commit
      <3>1. rev \in Int /\ Committed(rev) \in 0 .. Len(saved)
        BY <2>0, CommittedInRange
      <3>2. saved' = SubSeq(saved, Committed(rev) + 1, Len(saved))
            /\ UNCHANGED <<indices, next_id, revision>>
        BY <2>0, <2>7 DEF commit
      <3>3. QED
        BY <3>1, <3>2 DEF Snapshots!Commit
    <2>8. ASSUME NEW rev \in 0 .. MaxRevision, set_revision(rev) PROVE Snapshots!SetRevision
      <3>1. Len(stack) = 0 /\ revision' \in Nat
        BY <2>8 DEF set_revision, enabled
      <3>2. saved = << >>
        BY <2>0, <3>1, EmptySeq
      <3>3. QED
        BY <2>8, <3>1, <3>2 DEF set_revision, Snapshots!SetRevision
    <2>9. CASE UNCHANGED vars
      BY <2>9 DEF vars, Snapshots!vars
    <2>10. QED
      BY <2>1, <2>2, <2>3, <2>4, <2>5, <2>6, <2>7, <2>8, <2>9 DEF Next, Snapshots!Next
  <1>3. QED
    BY <1>1, <1>2, Invariance, PTL DEF Spec, ImplementsSnapshots, Snapshots!Spec

-----------------------------------------------------------------------------
(* The database: several indices of which each has its undo stack.  The    *)
(* argument: the indices that take part have stacks of the same revisions, *)
(* but for the level that start_undo_session() is giving them one by one,  *)
(* and each level holds the contents of one moment (DbInv).                *)

HIDE ConstantsAssumption

CONSTANTS Tables, Empty, MaxOpens, Downgrades
VARIABLES index, list, sessions, opening, phase, moments, opens

Db == INSTANCE Database

\* The contents of an index, and an index.
AnyValue == Value \cup {Empty}
Index == [exists : BOOLEAN, value : AnyValue, stack : Seq(AnyValue), revision : Int]

\* The revisions of x are the n above b.
Fits(x, n, b) == Len(x.stack) = n /\ x.revision - n = b

\* The copies of x, which is the index t, are those of the moments ms.
Holds(x, t, ms) == \A k \in 1 .. Len(x.stack) : x.stack[k] = ms[k][t]

\* start_undo_session() is at work: moments has its moment, the indices not all their level.
Starting == phase \in {"starting", "failing"}

\* The levels of the undo stack of t.
Levels(t) == IF Starting /\ t \notin Db!members(opening) THEN Len(moments) - 1 ELSE Len(moments)

\* The index that is added first.
First(t) == \A u \in Tables : t <= u

\* The index t takes part in the sessions: one that a program without it left behind does
\* not, until add_index() has compared it with the first one.
Part(t) == IF Downgrades THEN t \in Db!members(list) \/ (index[t].exists /\ First(t))
           ELSE index[t].exists

\* The types that the steps need.
DbType ==
    /\ phase \in {"closed", "adding", "idle", "starting", "failing", "refused"}
    /\ index \in [Tables -> Index]
    /\ list \in Seq(Tables) /\ opening \in Seq(Tables) /\ sessions \in Seq(Seq(Tables))
    /\ moments \in Seq([Tables -> AnyValue])

\* The list is sorted and starts with the first index; its members are in the file; the
\* sub-sessions being made are for a prefix of it, and every session has one for each.
ListInv ==
    /\ \A i, j \in 1 .. Len(list) : i < j => list[i] < list[j]
    /\ list # <<>> => First(list[1])
    /\ \A i \in 1 .. Len(list) : index[list[i]].exists
    /\ Len(opening) <= Len(list) /\ \A i \in 1 .. Len(opening) : opening[i] = list[i]
    /\ \A i \in 1 .. Len(sessions) : sessions[i] = list
    /\ phase \in {"closed", "adding", "refused"} => sessions = <<>>
    /\ ~Starting => opening = <<>>
    /\ phase \in {"idle", "starting", "failing"} => list # <<>>
    /\ Starting => moments # <<>>
    /\ phase \in {"idle", "starting", "failing"} /\ ~Downgrades =>
           \A t \in Tables : index[t].exists => t \in Db!members(list)

\* The indices that take part have the same revisions, up to the level being started.
StackInv ==
    /\ \A t \in Tables : ~index[t].exists =>
           /\ index[t] = Db!NoIndex
           /\ First(t) => moments = <<>> /\ \A u \in Tables : ~index[u].exists
    /\ \E b \in Int : \A t \in Tables : Part(t) => Fits(index[t], Levels(t), b)

\* The copies at each level are the contents at the moment of that level.
MomentInv ==
    /\ \A t \in Tables : ~index[t].exists => \A k \in 1 .. Len(moments) : moments[k][t] = Empty
    /\ \A t \in Tables : index[t].exists => Holds(index[t], t, moments)
    /\ Starting => \A t \in Tables : moments[Len(moments)][t] = index[t].value

DbInv == DbType /\ ListInv /\ StackInv /\ (~Downgrades => MomentInv)
-----------------------------------------------------------------------------

\* What pop_back() leaves of a list of the database.
LEMMA PoppedFacts ==
    ASSUME NEW S, NEW q \in Seq(S), Len(q) # 0
    PROVE  /\ Db!pop_back(q) \in Seq(S)
           /\ Len(Db!pop_back(q)) = Len(q) - 1
           /\ \A k \in 1 .. Len(q) - 1 : Db!pop_back(q)[k] = q[k]
<1>1. Db!pop_back(q) = pop_back(q)
  BY DEF Db!pop_back, pop_back
<1> QED
  BY <1>1, PopBackFacts

\* The fields of an index.
LEMMA IndexFields ==
    ASSUME NEW x \in Index
    PROVE  /\ x.exists \in BOOLEAN /\ x.value \in AnyValue /\ x.stack \in Seq(AnyValue)
           /\ x.revision \in Int /\ Len(x.stack) \in Nat
BY DEF Index

\* start_undo_session() of an index puts its contents on the stack.
LEMMA StartedFits ==
    ASSUME NEW x \in Index
    PROVE  /\ Db!started(x) \in Index
           /\ Db!started(x).exists = x.exists /\ Db!started(x).value = x.value
           /\ Len(Db!started(x).stack) = Len(x.stack) + 1 /\ Db!started(x).revision = x.revision + 1
           /\ \A k \in 1 .. Len(x.stack) : Db!started(x).stack[k] = x.stack[k]
           /\ Db!started(x).stack[Len(x.stack) + 1] = x.value
<1> DEFINE s == Append(x.stack, x.value)
           r == x.revision + 1
<1>1. /\ s \in Seq(AnyValue) /\ r \in Int /\ Len(s) = Len(x.stack) + 1
      /\ \A k \in 1 .. Len(x.stack) : s[k] = x.stack[k]
      /\ s[Len(x.stack) + 1] = x.value
  BY IndexFields
<1>2. Db!started(x) = [x EXCEPT !.stack = s, !.revision = r]
  BY DEF Db!started
<1> HIDE DEF s
<1>3. /\ Db!started(x) \in Index /\ Db!started(x).exists = x.exists /\ Db!started(x).value = x.value
      /\ Db!started(x).stack = s /\ Db!started(x).revision = r
  <2> HIDE DEF r
  <2> QED  BY <1>1, <1>2, Zenon DEF Index
<1> QED
  BY <1>1, <1>3

\* undo() of an index takes the newest level and the contents it holds.
LEMMA UndoneFits ==
    ASSUME NEW x \in Index, x.stack # <<>>
    PROVE  /\ Db!undone(x) \in Index
           /\ Db!undone(x).exists = x.exists /\ Db!undone(x).value = x.stack[Len(x.stack)]
           /\ Len(Db!undone(x).stack) = Len(x.stack) - 1 /\ Db!undone(x).revision = x.revision - 1
           /\ \A k \in 1 .. Len(x.stack) - 1 : Db!undone(x).stack[k] = x.stack[k]
<1> DEFINE s == Db!pop_back(x.stack)
           r == x.revision - 1
           v == Db!back(x.stack)
<1>1. /\ s \in Seq(AnyValue) /\ r \in Int /\ v \in AnyValue /\ Len(s) = Len(x.stack) - 1
      /\ \A k \in 1 .. Len(x.stack) - 1 : s[k] = x.stack[k]
  BY IndexFields, PoppedFacts DEF Db!back
<1>2. Db!undone(x) = [x EXCEPT !.value = v, !.stack = s, !.revision = r]
  BY DEF Db!undone
<1> HIDE DEF s
<1>3. /\ Db!undone(x) \in Index /\ Db!undone(x).exists = x.exists /\ Db!undone(x).value = v
      /\ Db!undone(x).stack = s /\ Db!undone(x).revision = r
  <2> HIDE DEF r, v
  <2> QED  BY <1>1, <1>2, Zenon DEF Index
<1> QED
  BY <1>1, <1>3 DEF Db!back

\* squash() of an index takes the newest level and keeps the contents.
LEMMA SquashedFits ==
    ASSUME NEW x \in Index, x.stack # <<>>
    PROVE  /\ Db!squashed(x) \in Index
           /\ Db!squashed(x).exists = x.exists /\ Db!squashed(x).value = x.value
           /\ Len(Db!squashed(x).stack) = Len(x.stack) - 1 /\ Db!squashed(x).revision = x.revision - 1
           /\ \A k \in 1 .. Len(x.stack) - 1 : Db!squashed(x).stack[k] = x.stack[k]
<1> DEFINE s == Db!pop_back(x.stack)
           r == x.revision - 1
<1>1. /\ s \in Seq(AnyValue) /\ r \in Int /\ Len(s) = Len(x.stack) - 1
      /\ \A k \in 1 .. Len(x.stack) - 1 : s[k] = x.stack[k]
  BY IndexFields, PoppedFacts DEF Db!back
<1>2. Db!squashed(x) = [x EXCEPT !.stack = s, !.revision = r]
  BY DEF Db!squashed
<1> HIDE DEF s
<1>3. /\ Db!squashed(x) \in Index /\ Db!squashed(x).exists = x.exists /\ Db!squashed(x).value = x.value
      /\ Db!squashed(x).stack = s /\ Db!squashed(x).revision = r
  <2> HIDE DEF r
  <2> QED  BY <1>1, <1>2, Zenon DEF Index
<1> QED
  BY <1>1, <1>3

\* commit() of an index drops the levels up to a revision.
LEMMA CommittedFits ==
    ASSUME NEW x \in Index, NEW rev \in Int,
           x.revision - Len(x.stack) < rev, rev <= x.revision
    PROVE  /\ Db!committed(x, rev) \in Index
           /\ Db!committed(x, rev).exists = x.exists /\ Db!committed(x, rev).value = x.value
           /\ Db!committed(x, rev).revision = x.revision
           /\ Len(Db!committed(x, rev).stack) = x.revision - rev
           /\ \A k \in 1 .. x.revision - rev :
                  Db!committed(x, rev).stack[k] = x.stack[k + rev - (x.revision - Len(x.stack))]
<1> DEFINE f == x.revision - Len(x.stack)
           s == SubSeq(x.stack, rev - f + 1, Len(x.stack))
<1>0. f \in Int /\ f < rev /\ rev - f \in 1 .. Len(x.stack) /\ Len(x.stack) - (rev - f) = x.revision - rev
  BY IndexFields
<1>1. /\ s \in Seq(AnyValue) /\ Len(s) = x.revision - rev
      /\ \A k \in 1 .. x.revision - rev : s[k] = x.stack[k + rev - f]
  <2> DEFINE k == rev - f
  <2>1. k \in 0 .. Len(x.stack) /\ x.stack \in Seq(AnyValue)
    BY <1>0, IndexFields
  <2> HIDE DEF k, f
  <2>2. /\ SubSeq(x.stack, k + 1, Len(x.stack)) \in Seq(AnyValue)
        /\ Len(SubSeq(x.stack, k + 1, Len(x.stack))) = Len(x.stack) - k
        /\ \A i \in 1 .. Len(x.stack) - k : SubSeq(x.stack, k + 1, Len(x.stack))[i] = x.stack[i + k]
    BY <2>1, DropFacts
  <2> HIDE DEF s
  <2> QED
    BY <1>0, <2>1, <2>2, IndexFields DEF k, s
<1>2. Db!committed(x, rev) = [x EXCEPT !.stack = s]
  BY <1>0, IndexFields DEF Db!committed, Db!range
<1> HIDE DEF s
<1>3. /\ Db!committed(x, rev) \in Index /\ Db!committed(x, rev).exists = x.exists
      /\ Db!committed(x, rev).value = x.value
      /\ Db!committed(x, rev).stack = s /\ Db!committed(x, rev).revision = x.revision
  BY <1>1, <1>2, Zenon DEF Index
<1> QED
  BY <1>1, <1>3

\* undo_all() of an index goes back to the oldest level.
LEMMA EmptiedFits ==
    ASSUME NEW x \in Index
    PROVE  /\ Db!emptied(x) \in Index
           /\ Db!emptied(x).exists = x.exists
           /\ Len(Db!emptied(x).stack) = 0 /\ Db!emptied(x).revision = x.revision - Len(x.stack)
<1> DEFINE f == x.revision - Len(x.stack)
           v == x.stack[1]
<1>1. CASE x.stack = <<>>
  BY <1>1, IndexFields DEF Db!emptied
<1>2. CASE x.stack # <<>>
  <2>1. f \in Int /\ v \in AnyValue /\ <<>> \in Seq(AnyValue)
    BY <1>2, IndexFields
  <2>2. Db!emptied(x) = [x EXCEPT !.value = v, !.stack = <<>>, !.revision = f]
    BY <1>2 DEF Db!emptied, Db!range
  <2>3. /\ Db!emptied(x) \in Index /\ Db!emptied(x).exists = x.exists
        /\ Db!emptied(x).stack = <<>> /\ Db!emptied(x).revision = f
    <3> HIDE DEF f, v
    <3> QED  BY <2>1, <2>2, Zenon DEF Index
  <2> QED
    BY <2>3
<1> QED
  BY <1>1, <1>2

\* A new index gets a level with its contents for each level that the first one has.
LEMMA JoinedFits ==
    ASSUME NEW x \in Index, NEW y \in Index
    PROVE  /\ Db!joined(x, y) \in Index
           /\ Db!joined(x, y).exists = x.exists /\ Db!joined(x, y).value = x.value
           /\ Len(Db!joined(x, y).stack) = Len(y.stack) /\ Db!joined(x, y).revision = y.revision
           /\ \A k \in 1 .. Len(y.stack) : Db!joined(x, y).stack[k] = x.value
<1> DEFINE s == [k \in 1 .. Len(y.stack) |-> x.value]
<1>1. /\ s \in Seq(AnyValue) /\ Len(s) = Len(y.stack)
      /\ \A k \in 1 .. Len(y.stack) : s[k] = x.value
  BY IndexFields
<1>2. Db!joined(x, y) = [x EXCEPT !.stack = s, !.revision = y.revision]
  BY DEF Db!joined
<1> HIDE DEF s
<1>3. /\ Db!joined(x, y) \in Index /\ Db!joined(x, y).exists = x.exists /\ Db!joined(x, y).value = x.value
      /\ Db!joined(x, y).stack = s /\ Db!joined(x, y).revision = y.revision
  BY <1>1, <1>2, IndexFields, Zenon DEF Index
<1> QED
  BY <1>1, <1>3

-----------------------------------------------------------------------------

\* While the database is in use, the indices that take part are those of the list.
LEMMA PartIsListed ==
    ASSUME Db!TablesAreNumbers, DbType, ListInv, phase \in {"idle", "starting", "failing"},
           NEW t \in Tables, Part(t)
    PROVE  t \in Db!members(list)
<1>1. list \in Seq(Tables) /\ list # <<>> /\ First(list[1])
  BY DEF DbType, ListInv
<1>2. 1 \in 1 .. Len(list) /\ list[1] \in Tables
  BY <1>1
<1>3. First(t) => t = list[1]
  <2> DEFINE m == list[1]
  <2>1. m \in Tables /\ First(m)
    BY <1>1, <1>2
  <2> HIDE DEF m
  <2>2. First(t) => t = m
    BY <2>1 DEF First, Db!TablesAreNumbers
  <2> QED
    BY <2>2 DEF m
<1> QED
  BY <1>2, <1>3 DEF Part, Db!members, ListInv

\* The indices of the list take part.
LEMMA ListedTakesPart ==
    ASSUME DbType, ListInv, NEW t \in Db!members(list)
    PROVE  t \in Tables /\ Part(t) /\ index[t].exists
<1>1. PICK i \in 1 .. Len(list) : t = list[i]
  BY DEF Db!members
<1>2. list[i] \in Tables /\ index[list[i]].exists
  BY DEF DbType, ListInv
<1> QED
  BY <1>1, <1>2 DEF Part

\* A step that leaves the database in use.
LEMMA UsableStep ==
    ASSUME Db!TablesAreNumbers, DbInv, phase \in {"idle", "starting", "failing"}, phase' = "idle",
           list' = list, opening' = <<>>,
           sessions' \in Seq(Seq(Tables)), \A i \in 1 .. Len(sessions') : sessions'[i] = list,
           moments' \in Seq([Tables -> AnyValue]), moments = <<>> => moments' = <<>>,
           index' \in [Tables -> Index],
           \A t \in Tables : index'[t].exists = index[t].exists,
           \A t \in Tables : t \notin Db!members(list) => index'[t] = index[t],
           NEW b \in Int,
           \A t \in Db!members(list) : Fits(index'[t], Len(moments'), b),
           ~Downgrades => /\ \A t \in Db!members(list) : Holds(index'[t], t, moments')
                          /\ \A t \in Tables : ~index[t].exists =>
                                 \A k \in 1 .. Len(moments') : moments'[k][t] = Empty
    PROVE  DbInv'
<1>t. DbType /\ ListInv /\ StackInv
  BY DEF DbInv
<1>1. \A t \in Tables : Part(t) => t \in Db!members(list)
  BY <1>t, PartIsListed
<1>2. \A t \in Db!members(list) : t \in Tables /\ Part(t) /\ index[t].exists
  BY <1>t, ListedTakesPart
<1>3. \A t \in Tables : Part(t)' <=> Part(t)
  BY DEF Part, Db!members, First
<1>4. DbType'
  BY <1>t DEF DbType
<1>5. ListInv'
  <2>1. Len(opening') = 0 /\ Len(list) \in Nat /\ ~Starting'
    BY <1>t DEF DbType, Starting
  <2>2. \A i \in 1 .. Len(list) : index'[list[i]].exists
    <3>1. \A i \in 1 .. Len(list) : list[i] \in Tables
      BY <1>t DEF DbType
    <3> QED
      BY <1>t, <3>1, Zenon DEF ListInv
  <2>3. \A t \in Tables : Db!members(list)' = Db!members(list) /\ (First(t)' <=> First(t))
    BY DEF Db!members, First
  <2>4. ~Downgrades => \A t \in Tables : index'[t].exists => t \in Db!members(list)
    BY <1>t DEF ListInv
  <2> QED
    BY <1>t, <2>1, <2>2, <2>3, <2>4 DEF ListInv, First, Db!members
<1>6. StackInv'
  <2>1. \A t \in Tables : ~index'[t].exists =>
           index'[t] = Db!NoIndex /\ (First(t) => moments' = <<>> /\ \A u \in Tables : ~index'[u].exists)
    BY <1>t, <1>2 DEF StackInv
  <2>2. \A t \in Tables : Part(t)' => Fits(index'[t], Levels(t)', b)
    BY <1>1, <1>3 DEF Levels, Starting
  <2> QED
    BY <2>1, <2>2 DEF StackInv, First
<1>7. ASSUME ~Downgrades PROVE MomentInv'
  <2>1. \A t \in Tables : index'[t].exists => t \in Db!members(list)
    BY <1>7, <1>t, SMTT(30) DEF ListInv
  <2> QED
    BY <1>7, <2>1 DEF MomentInv, Holds, Starting
<1> QED
  BY <1>4, <1>5, <1>6, <1>7 DEF DbInv

\* What holds of the indices of the list while no session is being started.
LEMMA ListedFits ==
    ASSUME DbInv, phase = "idle"
    PROVE  /\ \E b \in Int : \A t \in Db!members(list) : Fits(index[t], Len(moments), b)
           /\ ~Downgrades => \A t \in Db!members(list) : Holds(index[t], t, moments)
           /\ \A t \in Db!members(list) : t \in Tables /\ index[t] \in Index
           /\ list # <<>> /\ list[1] \in Db!members(list)
           /\ Len(moments) \in Nat
<1>1. \A t \in Db!members(list) : t \in Tables /\ Part(t) /\ index[t].exists
  BY ListedTakesPart DEF DbInv
<1>2. \E b \in Int : \A t \in Db!members(list) : Fits(index[t], Len(moments), b)
  BY <1>1 DEF DbInv, StackInv, Levels, Starting
<1>3. \A t \in Db!members(list) : index[t] \in Index
  BY <1>1 DEF DbInv, DbType
<1>4. list # <<>> /\ list \in Seq(Tables) /\ Len(moments) \in Nat
  BY DEF DbInv, ListInv, DbType
<1>5. list[1] \in Db!members(list)
  BY <1>4 DEF Db!members
<1>6. ASSUME ~Downgrades PROVE \A t \in Db!members(list) : Holds(index[t], t, moments)
  BY <1>1, <1>6 DEF DbInv, MomentInv
<1> QED
  BY <1>1, <1>2, <1>3, <1>4, <1>5, <1>6

\* An index that is not in the file was empty at every moment.
LEMMA EmptyMoments ==
    ASSUME DbInv
    PROVE  ~Downgrades => \A t \in Tables : ~index[t].exists =>
                              \A k \in 1 .. Len(moments) : moments[k][t] = Empty
BY DEF DbInv, MomentInv

\* A change of an index touches no stack.
LEMMA ChangeStep ==
    ASSUME Db!TablesAreNumbers, DbInv, NEW t \in Tables, NEW v \in Value, Db!change(t, v)
    PROVE  DbInv'
<1> USE DEF Db!change
<1>1. index \in [Tables -> Index] /\ index[t] \in Index /\ v \in AnyValue
  BY DEF DbInv, DbType, AnyValue
<1> DEFINE y == [index[t] EXCEPT !.value = v]
<1>2. /\ y \in Index /\ y.exists = index[t].exists /\ y.stack = index[t].stack
      /\ y.revision = index[t].revision
  BY <1>1, Zenon DEF Index
<1>3. index' = [index EXCEPT ![t] = y]
  OBVIOUS
<1> HIDE DEF y
<1>4. /\ index' \in [Tables -> Index]
      /\ index'[t] = y /\ \A u \in Tables \ {t} : index'[u] = index[u]
  BY <1>1, <1>2, <1>3
<1>5. PICK b \in Int : \A u \in Db!members(list) : Fits(index[u], Len(moments), b)
  BY ListedFits
<1>6. \A u \in Db!members(list) : u \in Tables /\ Fits(index'[u], Len(moments), b)
  BY <1>2, <1>4, <1>5, ListedFits DEF Fits
<1>7. ~Downgrades => \A u \in Db!members(list) : Holds(index'[u], u, moments)
  BY <1>2, <1>4, ListedFits DEF Holds
<1>8. \A u \in Tables : index'[u].exists = index[u].exists
  BY <1>2, <1>4, Zenon
<1>9. opening = <<>> /\ \A i \in 1 .. Len(sessions) : sessions[i] = list
  BY DEF DbInv, ListInv, Starting
<1>10. sessions \in Seq(Seq(Tables)) /\ moments \in Seq([Tables -> AnyValue])
  BY DEF DbInv, DbType
<1> QED
  BY <1>4, <1>6, <1>7, <1>8, <1>9, <1>10, UsableStep, EmptyMoments

\* Undoing or squashing a level of all the indices.
LEMMA LevelTaken ==
    ASSUME Db!TablesAreNumbers, DbInv, phase = "idle", phase' = "idle", list' = list, opening' = opening,
           sessions' \in Seq(Seq(Tables)), \A i \in 1 .. Len(sessions') : sessions'[i] = list,
           moments' = Db!pop_back(moments), index' = [t \in Tables |-> index'[t]],
           \A t \in Tables : t \notin Db!members(list) => index'[t] = index[t],
           \A t \in Db!members(list) : index'[t] \in {Db!undone(index[t]), Db!squashed(index[t])}
    PROVE  DbInv'
<1>1. moments \in Seq([Tables -> AnyValue]) /\ index \in [Tables -> Index]
  BY DEF DbInv, DbType
<1>2. PICK b \in Int : \A t \in Db!members(list) : Fits(index[t], Len(moments), b)
  BY ListedFits
<1>3. \A t \in Db!members(list) : t \in Tables /\ index[t] \in Index
  BY ListedFits
<1>4. opening' = <<>>
  BY DEF DbInv, ListInv, Starting
<1>5. CASE moments = <<>>
  <2>1. moments' = <<>>
    BY <1>5 DEF Db!pop_back
  <2>2. \A t \in Db!members(list) : index'[t] = index[t]
    <3> SUFFICES ASSUME NEW t \in Db!members(list) PROVE index'[t] = index[t]
      OBVIOUS
    <3>1. index[t].stack = <<>>
      BY <1>2, <1>3, <1>5, IndexFields DEF Fits
    <3> QED
      BY <3>1 DEF Db!undone, Db!squashed
  <2>3. \A t \in Tables : index'[t] = index[t]
    BY <2>2
  <2>4. index' \in [Tables -> Index] /\ index' = index
    BY <1>1, <2>3
  <2> QED
    BY <1>1, <1>2, <1>4, <1>5, <2>1, <2>4, UsableStep, ListedFits, EmptyMoments, ZenonT(30)
<1>6. CASE moments # <<>>
  <2>1. /\ moments' \in Seq([Tables -> AnyValue]) /\ Len(moments') = Len(moments) - 1
        /\ \A k \in 1 .. Len(moments') : moments'[k] = moments[k]
        /\ Len(moments) \in Nat
    BY <1>1, <1>6, PoppedFacts
  <2>2. ASSUME NEW t \in Db!members(list)
        PROVE  /\ index'[t] \in Index /\ index'[t].exists = index[t].exists
               /\ Fits(index'[t], Len(moments'), b)
               /\ Holds(index[t], t, moments) => Holds(index'[t], t, moments')
    <3>1. index[t] \in Index /\ Len(index[t].stack) = Len(moments) /\ index[t].revision - Len(moments) = b
      BY <1>2, <1>3 DEF Fits
    <3>2. index[t].stack # <<>>
      BY <1>1, <1>6, <3>1, IndexFields
    <3>3. /\ index'[t] \in Index /\ index'[t].exists = index[t].exists
          /\ Len(index'[t].stack) = Len(moments) - 1 /\ index'[t].revision = index[t].revision - 1
          /\ \A k \in 1 .. Len(moments) - 1 : index'[t].stack[k] = index[t].stack[k]
      <4> DEFINE x == index[t]
                 y == index'[t]
      <4>1. x \in Index /\ x.stack # <<>> /\ Len(x.stack) = Len(moments) /\ y \in {Db!undone(x), Db!squashed(x)}
        BY <3>1, <3>2
      <4> HIDE DEF x, y
      <4>2. CASE y = Db!undone(x)
        BY <4>1, <4>2, UndoneFits, SMTT(30) DEF x, y
      <4>3. CASE y = Db!squashed(x)
        BY <4>1, <4>3, SquashedFits, SMTT(30) DEF x, y
      <4> QED
        BY <4>1, <4>2, <4>3
    <3>4. Fits(index'[t], Len(moments'), b)
      BY <2>1, <3>1, <3>3, IndexFields DEF Fits
    <3> QED
      BY <2>1, <3>1, <3>3, <3>4 DEF Holds
  <2>3. \A t \in Tables : index'[t] \in Index /\ index'[t].exists = index[t].exists
    BY <1>1, <2>2
  <2>4. index' \in [Tables -> Index]
    BY <2>3
  <2>5. ~Downgrades => \A t \in Tables : ~index[t].exists =>
                              \A k \in 1 .. Len(moments') : moments'[k][t] = Empty
    BY <2>1, EmptyMoments
  <2> QED
    BY <1>4, <1>6, <2>1, <2>2, <2>3, <2>4, <2>5, UsableStep, ListedFits, SMTT(30)
<1> QED
  BY <1>5, <1>6

\* What is left of the sessions when the innermost one ends.
LEMMA SessionsPopped ==
    ASSUME DbInv, sessions # <<>>
    PROVE  /\ Db!pop_back(sessions) \in Seq(Seq(Tables)) /\ Db!back(sessions) = list
           /\ \A i \in 1 .. Len(Db!pop_back(sessions)) : Db!pop_back(sessions)[i] = list
<1>1. sessions \in Seq(Seq(Tables)) /\ Len(sessions) \in Nat \ {0}
  BY DEF DbInv, DbType
<1>2. /\ Db!pop_back(sessions) \in Seq(Seq(Tables)) /\ Len(Db!pop_back(sessions)) = Len(sessions) - 1
      /\ \A i \in 1 .. Len(sessions) - 1 : Db!pop_back(sessions)[i] = sessions[i]
  BY <1>1, PoppedFacts
<1> QED
  BY <1>1, <1>2 DEF DbInv, ListInv, Db!back

\* squash(), undo() and the undo() of a pushed level take a level of all the indices.
LEMMA SquashesStep ==
    ASSUME Db!TablesAreNumbers, DbInv, Db!squash \/ Db!undo \/ Db!undo_pushed
    PROVE  DbInv'
<1>t. sessions \in Seq(Seq(Tables)) /\ \A i \in 1 .. Len(sessions) : sessions[i] = list
  BY DEF DbInv, DbType, ListInv
<1>1. CASE Db!squash
  <2>1. index' = [t \in Tables |-> IF t \in Db!members(list) THEN Db!squashed(index[t]) ELSE index[t]]
    BY <1>1, SessionsPopped DEF Db!squash, Db!each
  <2>2. /\ index' = [t \in Tables |-> index'[t]]
        /\ \A t \in Tables : t \notin Db!members(list) => index'[t] = index[t]
        /\ \A t \in Db!members(list) : index'[t] \in {Db!undone(index[t]), Db!squashed(index[t])}
    BY <2>1, ListedTakesPart DEF DbInv
  <2> QED
    BY <1>1, <2>2, LevelTaken, SessionsPopped DEF Db!squash
<1>2. CASE Db!undo
  <2>1. index' = [t \in Tables |-> IF t \in Db!members(list) THEN Db!undone(index[t]) ELSE index[t]]
    BY <1>2, SessionsPopped DEF Db!undo, Db!each
  <2>2. /\ index' = [t \in Tables |-> index'[t]]
        /\ \A t \in Tables : t \notin Db!members(list) => index'[t] = index[t]
        /\ \A t \in Db!members(list) : index'[t] \in {Db!undone(index[t]), Db!squashed(index[t])}
    BY <2>1, ListedTakesPart DEF DbInv
  <2> QED
    BY <1>2, <2>2, LevelTaken, SessionsPopped DEF Db!undo
<1>3. CASE Db!undo_pushed
  <2>1. index' = [t \in Tables |-> IF t \in Db!members(list) THEN Db!undone(index[t]) ELSE index[t]]
    BY <1>3 DEF Db!undo_pushed, Db!each
  <2>2. /\ index' = [t \in Tables |-> index'[t]]
        /\ \A t \in Tables : t \notin Db!members(list) => index'[t] = index[t]
        /\ \A t \in Db!members(list) : index'[t] \in {Db!undone(index[t]), Db!squashed(index[t])}
    BY <2>1, ListedTakesPart DEF DbInv
  <2> QED
    BY <1>3, <2>2, LevelTaken, <1>t DEF Db!undo_pushed
<1> QED
  BY <1>1, <1>2, <1>3

\* Every index of the list becomes another one with the levels that are left.
LEMMA EachStep ==
    ASSUME Db!TablesAreNumbers, DbInv, phase = "idle", phase' = "idle", list' = list, opening' = opening,
           sessions' = sessions, moments' \in Seq([Tables -> AnyValue]),
           moments = <<>> => moments' = <<>>,
           index' = [t \in Tables |-> index'[t]],
           \A t \in Tables : t \notin Db!members(list) => index'[t] = index[t],
           NEW b \in Int,
           \A t \in Db!members(list) :
               /\ index'[t] \in Index /\ index'[t].exists = index[t].exists
               /\ Fits(index'[t], Len(moments'), b)
               /\ ~Downgrades => Holds(index'[t], t, moments'),
           ~Downgrades => \A t \in Tables : ~index[t].exists =>
                              \A k \in 1 .. Len(moments') : moments'[k][t] = Empty
    PROVE  DbInv'
<1>1. /\ index \in [Tables -> Index]
      /\ sessions' \in Seq(Seq(Tables)) /\ \A i \in 1 .. Len(sessions') : sessions'[i] = list
      /\ opening' = <<>>
  BY DEF DbInv, DbType, ListInv, Starting
<1>2. \A t \in Tables : index'[t] \in Index /\ index'[t].exists = index[t].exists
  BY <1>1
<1>3. index' \in [Tables -> Index]
  BY <1>2, SMTT(30)
<1> QED
  BY <1>1, <1>2, <1>3, UsableStep

\* commit() drops the same levels of all the indices.
LEMMA CommitsStep ==
    ASSUME Db!TablesAreNumbers, DbInv, NEW rev \in 1 .. MaxRevision, Db!commit(rev)
    PROVE  DbInv'
<1>1. moments \in Seq([Tables -> AnyValue]) /\ Len(moments) \in Nat /\ phase = "idle"
  BY DEF DbInv, DbType, Db!commit
<1>2. PICK b \in Int : \A t \in Db!members(list) : Fits(index[t], Len(moments), b)
  BY <1>1, ListedFits
<1>3. rev - b \in 1 .. Len(moments) /\ rev \in Int
  <2> DEFINE x == index[list[1]]
             m == Len(sessions)
  <2>1. x \in Index /\ Fits(x, Len(moments), b) /\ m \in Nat
    BY <1>1, <1>2, ListedFits DEF DbInv, DbType
  <2>2. rev \in (x.revision - Len(x.stack)) + 1 .. x.revision - m
    BY DEF Db!commit, Db!range, Db!revision
  <2> HIDE DEF x, m
  <2> QED
    BY <1>1, <2>1, <2>2, IndexFields DEF Fits
<1> DEFINE k == rev - b
           ms == SubSeq(moments, k + 1, Len(moments))
<1>4. /\ ms \in Seq([Tables -> AnyValue]) /\ Len(ms) = Len(moments) - k
      /\ \A i \in 1 .. Len(moments) - k : ms[i] = moments[i + k]
  <2>1. k \in 0 .. Len(moments)
    BY <1>1, <1>3
  <2> HIDE DEF k
  <2> QED
    BY <1>1, <2>1, DropFacts
<1>5. moments' = ms
  <2>1. Db!range(index[list[1]])[1] = b
    BY <1>1, <1>2, ListedFits, IndexFields DEF Fits, Db!range
  <2> QED
    BY <2>1 DEF Db!commit
<1>6. /\ index' = [t \in Tables |-> index'[t]]
      /\ \A t \in Tables : t \notin Db!members(list) => index'[t] = index[t]
      /\ \A t \in Tables : t \in Db!members(list) => index'[t] = Db!committed(index[t], rev)
  BY DEF Db!commit, Db!each
<1> HIDE DEF ms
<1>7. ASSUME NEW t \in Db!members(list)
      PROVE  /\ index'[t] \in Index /\ index'[t].exists = index[t].exists
             /\ Fits(index'[t], Len(moments'), rev)
             /\ ~Downgrades => Holds(index'[t], t, moments')
  <2> DEFINE x == index[t]
             y == index'[t]
  <2>1. x \in Index /\ Len(x.stack) = Len(moments) /\ x.revision - Len(moments) = b
    BY <1>1, <1>2, ListedFits DEF Fits
  <2>2. y = Db!committed(x, rev)
    BY <1>1, <1>6, ListedFits
  <2>3. x.revision - Len(x.stack) < rev /\ rev <= x.revision /\ x.revision - rev = Len(moments) - k
        /\ x.revision \in Int
    <3> DEFINE r == x.revision
               n == Len(moments)
    <3>1. r \in Int /\ n \in Nat /\ r - n = b /\ Len(x.stack) = n /\ rev - b \in 1 .. n
      BY <1>1, <1>3, <2>1, IndexFields
    <3> HIDE DEF r, n, x
    <3>2. r - n < rev /\ rev <= r /\ r - rev = n - k
      BY <1>3, <3>1
    <3> QED
      BY <3>1, <3>2 DEF r, n
  <2>4. ~Downgrades => Holds(x, t, moments)
    BY <1>1, ListedFits
  <2> HIDE DEF x, y
  <2>5. /\ y \in Index /\ y.exists = x.exists
        /\ y.revision = x.revision /\ Len(y.stack) = x.revision - rev
        /\ \A i \in 1 .. x.revision - rev : y.stack[i] = x.stack[i + rev - (x.revision - Len(x.stack))]
    BY <1>3, <2>1, <2>2, <2>3, CommittedFits
  <2>6. Fits(y, Len(moments'), rev)
    BY <1>3, <1>4, <1>5, <2>1, <2>3, <2>5 DEF Fits
  <2>7. ASSUME ~Downgrades PROVE Holds(y, t, moments')
    <3> SUFFICES ASSUME NEW i \in 1 .. Len(y.stack) PROVE y.stack[i] = moments'[i][t]
      BY DEF Holds
    <3>1. i \in 1 .. Len(moments) - k /\ i + k \in 1 .. Len(x.stack) /\ i + rev - (x.revision - Len(x.stack)) = i + k
      BY <1>1, <1>3, <2>1, <2>3, <2>5, SMTT(30)
    <3>2. y.stack[i] = x.stack[i + k]
      BY <2>3, <2>5, <3>1
    <3>3. x.stack[i + k] = moments[i + k][t]
      BY <2>4, <2>7, <3>1 DEF Holds
    <3> QED
      BY <1>4, <1>5, <3>1, <3>2, <3>3
  <2> QED
    BY <2>5, <2>6, <2>7 DEF x, y
<1>8. ASSUME ~Downgrades, NEW t \in Tables, ~index[t].exists, NEW i \in 1 .. Len(moments')
      PROVE  moments'[i][t] = Empty
  <2>1. i \in 1 .. Len(moments) - k /\ i + k \in 1 .. Len(moments)
    BY <1>1, <1>3, <1>4, <1>5
  <2> QED
    BY <1>4, <1>5, <1>8, <2>1, EmptyMoments, SMTT(30)
<1>9. moments = <<>> => moments' = <<>>
  BY <1>1, <1>3
<1> QED
  BY <1>1, <1>3, <1>4, <1>5, <1>6, <1>7, <1>8, <1>9, EachStep DEF Db!commit

\* undo_all() takes all the levels of all the indices.
LEMMA UndoAllStep ==
    ASSUME Db!TablesAreNumbers, DbInv, Db!undo_all
    PROVE  DbInv'
<1>1. PICK b \in Int : \A t \in Db!members(list) : Fits(index[t], Len(moments), b)
  BY ListedFits DEF Db!undo_all
<1>2. /\ index' = [t \in Tables |-> index'[t]]
      /\ \A t \in Tables : t \notin Db!members(list) => index'[t] = index[t]
      /\ \A t \in Tables : t \in Db!members(list) => index'[t] = Db!emptied(index[t])
  BY DEF Db!undo_all, Db!each
<1>3. moments' = <<>> /\ moments' \in Seq([Tables -> AnyValue]) /\ Len(moments') = 0
  BY DEF Db!undo_all
<1>4. ASSUME NEW t \in Db!members(list)
      PROVE  /\ index'[t] \in Index /\ index'[t].exists = index[t].exists
             /\ Fits(index'[t], Len(moments'), b)
             /\ ~Downgrades => Holds(index'[t], t, moments')
  <2>1. t \in Tables /\ index[t] \in Index /\ Fits(index[t], Len(moments), b)
    BY <1>1, ListedFits DEF Db!undo_all
  <2>2. /\ index'[t] \in Index /\ index'[t].exists = index[t].exists
        /\ Len(index'[t].stack) = 0 /\ index'[t].revision = b
    BY <1>2, <2>1, EmptiedFits DEF Fits
  <2> QED
    BY <1>3, <2>2 DEF Fits, Holds
<1> QED
  BY <1>2, <1>3, <1>4, EachStep DEF Db!undo_all

\* set_revision() gives all the indices, which have no levels, the same revision.
LEMMA SetRevisionStep ==
    ASSUME Db!TablesAreNumbers, DbInv, NEW rev \in 1 .. MaxRevision, Db!set_revision(rev)
    PROVE  DbInv'
<1>1. PICK b \in Int : \A t \in Db!members(list) : Fits(index[t], Len(moments), b)
  BY ListedFits DEF Db!set_revision
<1>2. /\ index' = [t \in Tables |-> index'[t]]
      /\ \A t \in Tables : t \notin Db!members(list) => index'[t] = index[t]
      /\ \A t \in Tables : t \in Db!members(list) => index'[t] = [index[t] EXCEPT !.revision = rev]
  BY DEF Db!set_revision, Db!each
<1>3. moments' = <<>> /\ moments' = moments /\ moments' \in Seq([Tables -> AnyValue]) /\ rev \in Int
  BY DEF Db!set_revision
<1>4. ASSUME NEW t \in Db!members(list)
      PROVE  /\ index'[t] \in Index /\ index'[t].exists = index[t].exists
             /\ Fits(index'[t], Len(moments'), rev)
             /\ ~Downgrades => Holds(index'[t], t, moments')
  <2>1. t \in Tables /\ index[t] \in Index /\ Fits(index[t], Len(moments), b)
    BY <1>1, ListedFits DEF Db!set_revision
  <2>2. index'[t] = [index[t] EXCEPT !.revision = rev]
    BY <1>2, <2>1
  <2>3. /\ index'[t] \in Index /\ index'[t].exists = index[t].exists
        /\ index'[t].stack = index[t].stack /\ index'[t].revision = rev
    BY <1>3, <2>1, <2>2, Zenon DEF Index
  <2>4. Len(index'[t].stack) = 0 /\ Len(moments') = 0
    BY <1>3, <2>1, <2>3 DEF Fits
  <2> QED
    BY <1>3, <2>3, <2>4 DEF Fits, Holds
<1> QED
  BY <1>2, <1>3, <1>4, EachStep DEF Db!set_revision

\* push() leaves the level on the stacks and drops the session.
LEMMA PushStep ==
    ASSUME Db!TablesAreNumbers, DbInv, Db!push
    PROVE  DbInv'
<1>1. PICK b \in Int : \A t \in Db!members(list) : Fits(index[t], Len(moments), b)
  BY ListedFits DEF Db!push
<1>2. /\ index \in [Tables -> Index] /\ moments \in Seq([Tables -> AnyValue])
      /\ opening = <<>> /\ <<>> \in Seq(Seq(Tables)) /\ Len(<<>>) = 0
  BY SMTT(30) DEF Db!push, DbInv, DbType, ListInv, Starting
<1> QED
  BY <1>1, <1>2, UsableStep, ListedFits, EmptyMoments DEF Db!push

\* The last index has its level: the sub-sessions become a session.
LEMMA StartDoneStep ==
    ASSUME Db!TablesAreNumbers, DbInv, Db!start_done
    PROVE  DbInv'
<1>1. /\ index \in [Tables -> Index] /\ moments \in Seq([Tables -> AnyValue])
      /\ sessions \in Seq(Seq(Tables)) /\ list \in Seq(Tables) /\ opening \in Seq(Tables)
      /\ \A i \in 1 .. Len(sessions) : sessions[i] = list
  BY DEF DbInv, DbType, ListInv
<1>2. opening = list
  <2>1. Len(opening) = Len(list) /\ \A i \in 1 .. Len(opening) : opening[i] = list[i]
    BY DEF Db!start_done, DbInv, ListInv
  <2> QED
    BY <1>1, <2>1, SeqEqual
<1>3. PICK b \in Int : \A t \in Db!members(list) : Fits(index[t], Len(moments), b)
  <2>1. \A t \in Db!members(list) : t \in Tables /\ Part(t)
    BY ListedTakesPart DEF DbInv
  <2> QED
    BY <1>2, <2>1 DEF DbInv, StackInv, Levels
<1>4. ~Downgrades => \A t \in Db!members(list) : Holds(index[t], t, moments)
  BY ListedTakesPart DEF DbInv, MomentInv
<1>5. /\ sessions' \in Seq(Seq(Tables)) /\ \A i \in 1 .. Len(sessions') : sessions'[i] = list
  BY <1>1, <1>2, SMTT(30) DEF Db!start_done
<1> QED
  BY <1>1, <1>3, <1>4, <1>5, UsableStep, EmptyMoments DEF Db!start_done

\* start_undo_session() failed: the sub-sessions made so far are undone, which takes the
\* level of every index that has it.
LEMMA UnwindStep ==
    ASSUME Db!TablesAreNumbers, DbInv, Db!unwind
    PROVE  DbInv'
<1>1. /\ index \in [Tables -> Index] /\ moments \in Seq([Tables -> AnyValue]) /\ moments # <<>>
      /\ Starting /\ phase = "failing" /\ Len(moments) \in Nat
      /\ sessions \in Seq(Seq(Tables)) /\ \A i \in 1 .. Len(sessions) : sessions[i] = list
  BY DEF DbInv, DbType, ListInv, Db!unwind, Starting
<1>2. /\ moments' \in Seq([Tables -> AnyValue]) /\ Len(moments') = Len(moments) - 1
      /\ \A k \in 1 .. Len(moments') : moments'[k] = moments[k]
  <2>1. Len(moments) # 0 /\ moments' = Db!pop_back(moments)
    BY <1>1 DEF Db!unwind
  <2>2. /\ Db!pop_back(moments) \in Seq([Tables -> AnyValue]) /\ Len(Db!pop_back(moments)) = Len(moments) - 1
        /\ \A k \in 1 .. Len(moments) - 1 : Db!pop_back(moments)[k] = moments[k]
    BY <1>1, <2>1, PoppedFacts
  <2> QED
    BY <2>1, <2>2
<1>3. PICK b \in Int : \A t \in Db!members(list) : t \in Tables /\ Fits(index[t], Levels(t), b)
  BY ListedTakesPart DEF DbInv, StackInv
<1>4. /\ index' = [t \in Tables |-> index'[t]]
      /\ \A t \in Tables : t \notin Db!members(opening) => index'[t] = index[t]
      /\ \A t \in Tables : t \in Db!members(opening) => index'[t] = Db!undone(index[t])
  BY DEF Db!unwind, Db!each, Db!unwound
<1>5. Db!members(opening) \subseteq Db!members(list)
  BY DEF DbInv, ListInv, DbType, Db!members
<1>6. ASSUME NEW t \in Db!members(list)
      PROVE  /\ index'[t] \in Index /\ index'[t].exists = index[t].exists
             /\ Fits(index'[t], Len(moments'), b)
             /\ Holds(index[t], t, moments) => Holds(index'[t], t, moments')
  <2>1. t \in Tables /\ index[t] \in Index
    BY <1>1, <1>3
  <2>2. CASE t \notin Db!members(opening)
    <3>1. index'[t] = index[t] /\ Levels(t) = Len(moments')
      BY <1>1, <1>2, <1>4, <2>1, <2>2 DEF Levels
    <3> QED
      BY <1>2, <1>3, <2>1, <3>1 DEF Fits, Holds
  <2>3. CASE t \in Db!members(opening)
    <3> DEFINE x == index[t]
               y == index'[t]
    <3>1. y = Db!undone(x) /\ x \in Index /\ Len(x.stack) = Len(moments) /\ x.revision - Len(moments) = b
      BY <1>3, <1>4, <2>1, <2>3 DEF Levels, Fits
    <3> HIDE DEF x, y
    <3>2. x.stack # <<>> /\ x.revision \in Int
      BY <1>1, <3>1, IndexFields
    <3>3. /\ y \in Index /\ y.exists = x.exists
          /\ Len(y.stack) = Len(x.stack) - 1 /\ y.revision = x.revision - 1
          /\ \A k \in 1 .. Len(x.stack) - 1 : y.stack[k] = x.stack[k]
      BY <3>1, <3>2, UndoneFits, SMTT(30)
    <3>4. Fits(y, Len(moments'), b)
      BY <1>1, <1>2, <3>1, <3>2, <3>3 DEF Fits
    <3>5. Holds(x, t, moments) => Holds(y, t, moments')
      BY <1>1, <1>2, <3>1, <3>3 DEF Holds
    <3> QED
      BY <3>3, <3>4, <3>5 DEF x, y
  <2> QED
    BY <2>2, <2>3
<1>7. \A t \in Tables : index'[t] \in Index /\ index'[t].exists = index[t].exists
  BY <1>1, <1>4, <1>5, <1>6
<1>8. index' \in [Tables -> Index]
  BY <1>4, <1>7
<1>9. ~Downgrades => \A t \in Db!members(list) : Holds(index[t], t, moments)
  BY ListedTakesPart DEF DbInv, MomentInv
<1>10. ~Downgrades => \A t \in Tables : ~index[t].exists =>
                              \A k \in 1 .. Len(moments') : moments'[k][t] = Empty
  BY <1>1, <1>2, EmptyMoments
<1> QED
  BY <1>1, <1>2, <1>4, <1>5, <1>6, <1>7, <1>8, <1>9, <1>10, UsableStep DEF Db!unwind

\* The steps that change the phase only, and close().
LEMMA PhaseStep ==
    ASSUME Db!TablesAreNumbers, DbInv, Db!open \/ Db!ready \/ Db!close \/ Db!start_throws
    PROVE  DbInv'
<1>1. /\ index' = index /\ opening' = opening /\ sessions' = sessions /\ moments' = moments
      /\ list' = list \/ (list' = <<>> /\ phase' = "closed")
  BY DEF Db!open, Db!ready, Db!close, Db!start_throws
<1>2. DbType /\ ListInv /\ StackInv
  BY DEF DbInv
<1>3. /\ phase' \in {"closed", "adding", "idle", "starting", "failing", "refused"}
      /\ Starting' <=> Starting
      /\ Starting => list' = list
      /\ phase' \in {"closed", "adding", "refused"} => sessions = <<>>
      /\ phase' \in {"idle", "starting", "failing"} => list' # <<>>
      /\ phase' \in {"idle", "starting", "failing"} /\ ~Downgrades =>
           \A t \in Tables : index[t].exists => t \in Db!members(list')
  BY <1>2 DEF Db!open, Db!ready, Db!close, Db!start_throws, Starting, ListInv, Db!members
<1>4. DbType'
  BY <1>1, <1>2, <1>3 DEF DbType
<1>5. ListInv'
  <2>1. /\ \A i, j \in 1 .. Len(list') : i < j => list'[i] < list'[j]
        /\ list' # <<>> => First(list'[1])
        /\ \A i \in 1 .. Len(list') : index[list'[i]].exists
    BY <1>1, <1>2 DEF ListInv
  <2>2. /\ Len(opening) <= Len(list') /\ \A i \in 1 .. Len(opening) : opening[i] = list'[i]
        /\ \A i \in 1 .. Len(sessions) : sessions[i] = list'
    BY <1>1, <1>2, <1>3 DEF ListInv, Starting
  <2> QED
    BY <1>1, <1>2, <1>3, <2>1, <2>2 DEF ListInv, First, Db!members
<1>6. StackInv'
  <2>1. \A t \in Tables : Part(t)' => Part(t)
    BY <1>1 DEF Part, Db!members, First
  <2>2. \A t \in Tables : Levels(t)' = Levels(t)
    BY <1>1, <1>3 DEF Levels, Db!members
  <2> QED
    BY <1>1, <1>2, <2>1, <2>2 DEF StackInv, First
<1>7. ASSUME ~Downgrades PROVE MomentInv'
  BY <1>1, <1>3, <1>7 DEF DbInv, MomentInv, Holds
<1> QED
  BY <1>4, <1>5, <1>6, <1>7 DEF DbInv

\* start_undo_session() notes the moment; no index has its new level yet.
LEMMA StartStepDb ==
    ASSUME Db!TablesAreNumbers, DbInv, Db!start_undo_session
    PROVE  DbInv'
<1>1. /\ index' = index /\ opening' = opening /\ sessions' = sessions /\ list' = list
      /\ phase = "idle" /\ phase' = "starting" /\ moments' = Append(moments, Db!contents)
  BY DEF Db!start_undo_session
<1>2. DbType /\ ListInv /\ StackInv /\ opening = <<>> /\ ~Starting /\ Starting'
  BY <1>1 DEF DbInv, ListInv, Starting
<1>3. Db!contents \in [Tables -> AnyValue] /\ \A t \in Tables : Db!contents[t] = index[t].value
  <2>1. \A t \in Tables : index[t].value \in AnyValue
    BY <1>2, IndexFields DEF DbType
  <2> QED
    BY <2>1 DEF Db!contents
<1>4. /\ moments' \in Seq([Tables -> AnyValue]) /\ Len(moments') = Len(moments) + 1
      /\ moments'[Len(moments')] = Db!contents /\ moments' # <<>>
      /\ \A k \in 1 .. Len(moments) : moments'[k] = moments[k]
      /\ Len(moments) \in Nat
  <2>1. moments \in Seq([Tables -> AnyValue])
    BY <1>2 DEF DbType
  <2> QED
    BY <1>1, <1>3, <2>1, AppendProperties
<1>5. DbType'
  BY <1>1, <1>2, <1>4 DEF DbType
<1>6. ListInv'
  BY <1>1, <1>2, <1>4 DEF ListInv, First, Db!members, Starting
<1>7. \A t \in Tables : First(t) => index[t].exists
  <2> DEFINE m == list[1]
  <2>1. m \in Tables /\ First(m) /\ index[m].exists
    BY <1>1, <1>2 DEF ListInv, DbType
  <2> HIDE DEF m
  <2>2. \A t \in Tables : First(t) => t = m
    BY <2>1 DEF First, Db!TablesAreNumbers
  <2> QED
    BY <2>1, <2>2
<1>8. StackInv'
  <2>1. \A t \in Tables : Part(t)' => Part(t)
    BY <1>1 DEF Part, Db!members, First
  <2>2. \A t \in Tables : Levels(t)' = Levels(t)
    BY <1>1, <1>2, <1>4 DEF Levels, Db!members
  <2>3. PICK b \in Int : \A t \in Tables : Part(t) => Fits(index[t], Levels(t), b)
    BY <1>2 DEF StackInv
  <2>4. \A t \in Tables : Part(t)' => Fits(index'[t], Levels(t)', b)
    BY <1>1, <2>1, <2>2, <2>3
  <2>5. \A t \in Tables : ~index'[t].exists => index'[t] = Db!NoIndex /\ ~First(t)
    BY <1>1, <1>2, <1>7 DEF StackInv
  <2> QED
    BY <2>4, <2>5 DEF StackInv, First
<1>9. ASSUME ~Downgrades PROVE MomentInv'
  <2>1. MomentInv
    BY <1>9 DEF DbInv
  <2>2. ASSUME NEW t \in Tables, ~index[t].exists, NEW k \in 1 .. Len(moments')
        PROVE  moments'[k][t] = Empty
    <3>1. CASE k = Len(moments')
      BY <1>2, <1>3, <1>4, <2>2, <3>1 DEF StackInv, Db!NoIndex
    <3>2. CASE k \in 1 .. Len(moments)
      BY <1>4, <2>1, <2>2, <3>2 DEF MomentInv
    <3> QED
      BY <1>4, <3>1, <3>2
  <2>3. ASSUME NEW t \in Tables, index[t].exists
        PROVE  Holds(index[t], t, moments')
    <3>1. Len(index[t].stack) = Len(moments) /\ Holds(index[t], t, moments)
      BY <1>2, <1>9, <2>1, <2>3 DEF StackInv, MomentInv, Part, Fits, Levels
    <3> QED
      BY <1>4, <3>1, SMTT(30) DEF Holds
  <2> QED
    BY <1>1, <1>3, <1>4, <2>2, <2>3 DEF MomentInv
<1> QED
  BY <1>5, <1>6, <1>8, <1>9 DEF DbInv

\* The next index of the list gets its level, and with it one level more than the indices
\* after it.
LEMMA StartNextStep ==
    ASSUME Db!TablesAreNumbers, DbInv, Db!start_next
    PROVE  DbInv'
<1>0. PICK n \in 1 .. Len(list), t \in Tables : n = Len(opening) + 1 /\ t = list[n]
  <2>1. list \in Seq(Tables) /\ opening \in Seq(Tables) /\ Len(opening) < Len(list)
    BY DEF DbInv, DbType, Db!start_next
  <2>2. Len(opening) + 1 \in 1 .. Len(list) /\ list[Len(opening) + 1] \in Tables
    BY <2>1
  <2> QED
    BY <2>2
<1>1. /\ index' = [index EXCEPT ![t] = Db!started(index[t])] /\ opening' = Append(opening, t)
      /\ sessions' = sessions /\ list' = list /\ moments' = moments /\ phase' = phase
      /\ phase = "starting" /\ Len(opening) < Len(list)
  BY <1>0 DEF Db!start_next
<1>2. DbType /\ ListInv /\ StackInv /\ Starting /\ Starting'
  BY <1>1 DEF DbInv, Starting
<1>3. /\ list \in Seq(Tables) /\ opening \in Seq(Tables)
      /\ index \in [Tables -> Index] /\ index[t] \in Index /\ index[t].exists
      /\ Len(opening) \in Nat /\ Len(list) \in Nat
  BY <1>0, <1>1, <1>2 DEF DbType, ListInv
<1>4. t \notin Db!members(opening)
  <2> SUFFICES ASSUME NEW i \in 1 .. Len(opening) PROVE opening[i] # t
    BY DEF Db!members
  <2>1. opening[i] = list[i] /\ i \in 1 .. Len(list) /\ i < n
    BY <1>0, <1>1, <1>2, <1>3 DEF ListInv
  <2>2. list[i] < t
    BY <1>0, <1>2, <2>1 DEF ListInv
  <2>3. t \in Int
    BY DEF Db!TablesAreNumbers
  <2> QED
    BY <2>1, <2>2, <2>3
<1>5. /\ opening' \in Seq(Tables) /\ Len(opening') = n
      /\ \A i \in 1 .. n : opening'[i] = list[i]
  BY <1>0, <1>1, <1>2, <1>3 DEF ListInv
<1>6. Db!members(opening') = Db!members(opening) \cup {t}
  <2>1. \A i \in 1 .. n : opening'[i] = IF i = n THEN t ELSE opening[i]
    BY <1>0, <1>1, <1>3
  <2>2. 1 .. n = 1 .. Len(opening) \cup {n} /\ n \notin 1 .. Len(opening)
    BY <1>0, <1>3
  <2>3. Db!members(opening') = {opening'[i] : i \in 1 .. Len(opening) \cup {n}}
    BY <1>5, <2>2 DEF Db!members
  <2> QED
    BY <1>5, <2>1, <2>2, <2>3 DEF Db!members
<1>7. /\ Db!started(index[t]) \in Index /\ Db!started(index[t]).exists = index[t].exists
      /\ Db!started(index[t]).value = index[t].value
      /\ Len(Db!started(index[t]).stack) = Len(index[t].stack) + 1
      /\ Db!started(index[t]).revision = index[t].revision + 1
      /\ \A k \in 1 .. Len(index[t].stack) : Db!started(index[t]).stack[k] = index[t].stack[k]
      /\ Db!started(index[t]).stack[Len(index[t].stack) + 1] = index[t].value
  BY <1>3, StartedFits
<1>8. /\ index' \in [Tables -> Index] /\ index'[t] = Db!started(index[t])
      /\ \A u \in Tables : u # t => index'[u] = index[u]
  BY <1>1, <1>3, <1>7
<1>9. /\ \A u \in Tables : (index'[u].exists <=> index[u].exists) /\ index'[u].value = index[u].value
  BY <1>7, <1>8, Zenon
<1>10. DbType'
  BY <1>1, <1>2, <1>5, <1>8 DEF DbType
<1>11. ListInv'
  <2>1. \A i \in 1 .. Len(list) : list[i] \in Tables
    BY <1>3
  <2>2. \A i \in 1 .. Len(list) : index'[list[i]].exists
    BY <1>2, <1>9, <2>1, Zenon DEF ListInv
  <2>3. ~Downgrades => \A u \in Tables : index'[u].exists => u \in Db!members(list)
    BY <1>1, <1>2, <1>9 DEF ListInv
  <2>4. Len(opening') <= Len(list)
    BY <1>0, <1>3, <1>5
  <2> QED
    BY <1>1, <1>2, <1>5, <2>2, <2>3, <2>4 DEF ListInv, First, Db!members
<1>12. StackInv'
  <2>1. \A u \in Tables : Part(u)' <=> Part(u)
    BY <1>1, <1>9 DEF Part, Db!members, First
  <2>2. PICK b \in Int : \A u \in Tables : Part(u) => Fits(index[u], Levels(u), b)
    BY <1>2 DEF StackInv
  <2>3. Len(moments) \in Nat
    BY <1>2 DEF DbType
  <2>4. ASSUME NEW u \in Tables, Part(u) PROVE Fits(index'[u], Levels(u)', b)
    <3>1. CASE u = t
      <4>1. Levels(t) = Len(moments) - 1 /\ Levels(t)' = Len(moments)
        BY <1>1, <1>2, <1>4, <1>6 DEF Levels, Db!members
      <4>2. Len(index[t].stack) = Len(moments) - 1 /\ index[t].revision - (Len(moments) - 1) = b
        BY <2>2, <2>4, <3>1, <4>1 DEF Fits
      <4>3. index[t].revision \in Int
        BY <1>3, IndexFields
      <4> QED
        BY <1>7, <1>8, <2>3, <3>1, <4>1, <4>2, <4>3, SMTT(30) DEF Fits
    <3>2. CASE u # t
      <4>1. Levels(u)' = Levels(u)
        BY <1>1, <1>2, <1>6, <3>2 DEF Levels, Db!members
      <4> QED
        BY <1>8, <2>2, <2>4, <3>2, <4>1
    <3> QED
      BY <3>1, <3>2
  <2>5. \A u \in Tables : ~index'[u].exists =>
           index'[u] = Db!NoIndex /\ (First(u) => moments' = <<>> /\ \A w \in Tables : ~index'[w].exists)
    BY <1>1, <1>2, <1>3, <1>8, <1>9, SMTT(30) DEF StackInv
  <2> QED
    BY <2>1, <2>4, <2>5 DEF StackInv, First
<1>13. ASSUME ~Downgrades PROVE MomentInv'
  <2>1. MomentInv /\ Len(moments) \in Nat
    BY <1>2, <1>13 DEF DbInv, DbType
  <2>2. ASSUME NEW u \in Tables, index[u].exists PROVE Holds(index'[u], u, moments)
    <3>1. CASE u # t
      BY <1>8, <2>1, <2>2, <3>1, SMTT(30) DEF MomentInv
    <3>2. CASE u = t
      <4>1. Len(index[t].stack) = Len(moments) - 1
        BY <1>2, <1>3, <1>4, <1>13 DEF StackInv, Part, Fits, Levels
      <4>2. Holds(index[t], t, moments) /\ moments[Len(moments)][t] = index[t].value
        BY <1>2, <1>3, <2>1 DEF MomentInv
      <4>3. \A k \in 1 .. Len(moments) : k = Len(moments) \/ k \in 1 .. Len(moments) - 1
        BY <2>1
      <4> QED
        BY <1>7, <1>8, <2>1, <3>2, <4>1, <4>2, <4>3 DEF Holds
    <3> QED
      BY <3>1, <3>2, SMTT(30)
  <2> QED
    BY <1>1, <1>2, <1>9, <2>1, <2>2 DEF MomentInv
<1> QED
  BY <1>10, <1>11, <1>12, <1>13 DEF DbInv

\* The index t joins the list as y, which fits the indices that take part.
LEMMA JoinStep ==
    ASSUME Db!TablesAreNumbers, DbInv, NEW t \in Tables, phase = "adding",
           IF list = <<>> THEN First(t) ELSE Db!back(list) < t,
           list' = Append(list, t),
           UNCHANGED <<phase, sessions, opening, moments>>,
           NEW y \in Index, y.exists, index' = [index EXCEPT ![t] = y],
           NEW b \in Int, \A u \in Tables : Part(u) => Fits(index[u], Len(moments), b),
           Fits(y, Len(moments), b), ~Downgrades => Holds(y, t, moments)
    PROVE  DbInv'
<1>1. DbType /\ ListInv /\ StackInv /\ ~Starting /\ ~Starting' /\ opening = <<>> /\ sessions = <<>>
  BY DEF DbInv, ListInv, Starting
<1>2. /\ list \in Seq(Tables) /\ index \in [Tables -> Index] /\ Len(list) \in Nat /\ Len(moments) \in Nat
  BY <1>1 DEF DbType
<1>3. /\ index' \in [Tables -> Index] /\ index'[t] = y
      /\ \A u \in Tables : u # t => index'[u] = index[u]
  BY <1>2
<1>4. /\ list' \in Seq(Tables) /\ list' # <<>> /\ Len(list') = Len(list) + 1
      /\ \A i \in 1 .. Len(list) : list'[i] = list[i] /\ list[i] \in Tables
      /\ list'[Len(list) + 1] = t
  BY <1>2, AppendProperties
<1>5. \A i \in 1 .. Len(list') : i \in 1 .. Len(list) \/ i = Len(list) + 1
  BY <1>2, <1>4
<1>6. \A i \in 1 .. Len(list) : list[i] < t
  <2> SUFFICES ASSUME NEW i \in 1 .. Len(list) PROVE list[i] < t
    OBVIOUS
  <2>1. PICK m \in Tables : m = list[Len(list)]
    BY <1>2
  <2>2. m < t
    BY <1>2, <2>1 DEF Db!back
  <2>3. i = Len(list) \/ i < Len(list)
    BY <1>2
  <2>4. list[i] = m \/ list[i] < m
    BY <1>1, <1>2, <2>1, <2>3 DEF ListInv
  <2>5. m \in Int /\ t \in Int /\ list[i] \in Int
    BY <1>4 DEF Db!TablesAreNumbers
  <2> QED
    BY <2>2, <2>4, <2>5
<1>7. DbType'
  BY <1>1, <1>3, <1>4 DEF DbType
<1>8. Db!members(list') = Db!members(list) \cup {t}
  BY <1>2, <1>4, <1>5 DEF Db!members
<1>9. ListInv'
  <2>1. \A i, j \in 1 .. Len(list') : i < j => list'[i] < list'[j]
    <3> SUFFICES ASSUME NEW i \in 1 .. Len(list'), NEW j \in 1 .. Len(list'), i < j
                 PROVE  list'[i] < list'[j]
      BY SMTT(30)
    <3>1. i \in 1 .. Len(list) /\ (j \in 1 .. Len(list) \/ j = Len(list) + 1)
      BY <1>2, <1>4
    <3> QED
      BY <1>1, <1>4, <1>6, <3>1 DEF ListInv
  <2>2. First(list'[1])
    BY <1>1, <1>2, <1>4 DEF ListInv
  <2>3. \A i \in 1 .. Len(list') : index'[list'[i]].exists
    <3> SUFFICES ASSUME NEW i \in 1 .. Len(list') PROVE index'[list'[i]].exists
      OBVIOUS
    <3>1. CASE list'[i] = t
      BY <1>3, <3>1
    <3>2. CASE list'[i] # t
      BY <1>1, <1>3, <1>4, <1>5, <3>2 DEF ListInv
    <3> QED
      BY <3>1, <3>2
  <2>4. Len(opening) = 0 /\ Len(sessions) = 0
    BY <1>1
  <2> QED
    BY <1>1, <1>2, <1>4, <2>1, <2>2, <2>3, <2>4, SMTT(30) DEF ListInv, First
<1>10. \A u \in Tables : Part(u)' => u = t \/ Part(u)
  BY <1>3, <1>8 DEF Part, First
<1>11. \A u \in Tables : Part(u)' => Fits(index'[u], Levels(u)', b)
  BY <1>1, <1>3, <1>10 DEF Levels
<1>12. ASSUME NEW u \in Tables, ~index'[u].exists
       PROVE  index'[u] = Db!NoIndex /\ ~First(u)
  <2>1. u # t /\ index'[u] = index[u] /\ ~index[u].exists
    BY <1>3, <1>12
  <2>2. index[u] = Db!NoIndex
    BY <1>1, <2>1 DEF StackInv
  <2>3. ~First(u)
    <3>1. CASE list = <<>>
      <4>1. t <= u /\ t \in Int /\ u \in Int
        BY <3>1 DEF First, Db!TablesAreNumbers
      <4> QED
        BY <2>1, <4>1 DEF First
    <3>2. CASE list # <<>>
      <4>1. PICK m \in Tables : m = list[1] /\ index[m].exists
        BY <1>1, <1>2, <3>2 DEF ListInv
      <4> QED
        BY <1>1, <2>1, <4>1 DEF StackInv
    <3> QED
      BY <3>1, <3>2
  <2> QED
    BY <2>1, <2>2, <2>3
<1>13. StackInv'
  BY <1>11, <1>12, SMTT(30) DEF StackInv, First
<1>14. ASSUME ~Downgrades PROVE MomentInv'
  <2>1. MomentInv
    BY <1>14 DEF DbInv
  <2>2. \A u \in Tables : ~index'[u].exists => ~index[u].exists
    BY <1>3, SMTT(30)
  <2>3. \A u \in Tables : index'[u].exists => Holds(index'[u], u, moments)
    BY <1>3, <1>14, <2>1 DEF MomentInv
  <2> QED
    BY <1>1, <2>1, <2>2, <2>3 DEF MomentInv
<1> QED
  BY <1>7, <1>9, <1>13, <1>14 DEF DbInv

\* add_index() refuses an old index that does not fit, and makes a new one fit.
LEMMA AddStep ==
    ASSUME Db!TablesAreNumbers, DbInv, NEW t \in Tables, Db!add_index(t)
    PROVE  DbInv'
<1>1. DbType /\ ListInv /\ StackInv /\ ~Starting /\ phase = "adding"
  BY DEF DbInv, Db!add_index, Starting
<1>2. index \in [Tables -> Index] /\ index[t] \in Index /\ Len(moments) \in Nat
  BY <1>1 DEF DbType
<1>3. CASE Db!inconsistent(t)
  <2>1. phase' = "refused" /\ UNCHANGED <<index, list, sessions, opening, moments>> /\ ~Starting'
    BY <1>3 DEF Db!add_index, Starting
  <2>2. DbType' /\ ListInv'
    BY <1>1, <2>1 DEF DbType, ListInv, First, Db!members, Starting
  <2>3. \A u \in Tables : (Part(u)' <=> Part(u)) /\ Levels(u)' = Levels(u)
    BY <1>1, <2>1 DEF Part, Levels, First, Db!members
  <2>4. StackInv'
    BY <1>1, <2>1, <2>3 DEF StackInv, First
  <2> QED
    BY <1>1, <2>1, <2>2, <2>4 DEF DbInv, MomentInv, Holds
<1>4. CASE ~Db!inconsistent(t)
  <2> DEFINE x == [index[t] EXCEPT !.exists = TRUE]
             y == IF list = <<>> \/ index[t].exists THEN x ELSE Db!joined(x, index[list[1]])
  <2>1. /\ x \in Index /\ x.exists /\ x.value = index[t].value /\ x.stack = index[t].stack
        /\ x.revision = index[t].revision
    BY <1>2, Zenon DEF Index
  <2>2. /\ IF list = <<>> THEN First(t) ELSE Db!back(list) < t
        /\ list' = Append(list, t) /\ UNCHANGED <<phase, sessions, opening, moments>>
        /\ index' = [index EXCEPT ![t] = y]
    BY <1>4 DEF Db!add_index, First
  <2> HIDE DEF x
  <2>3. PICK b \in Int : \A u \in Tables : Part(u) => Fits(index[u], Len(moments), b)
    BY <1>1 DEF StackInv, Levels
  <2>4. ~Downgrades => MomentInv
    BY DEF DbInv
  <2>5. CASE index[t].exists
    <3>1. y = x
      BY <2>5
    <3>2. Fits(index[t], Len(moments), b)
      <4>1. CASE list = <<>>
        BY <2>2, <2>3, <2>5, <4>1 DEF Part
      <4>2. CASE list # <<>>
        <5>1. PICK m \in Tables : m = list[1] /\ Part(m)
          <6>1. list[1] \in Db!members(list)
            BY <1>1, <4>2 DEF DbType, Db!members
          <6> QED
            BY <1>1, <6>1, ListedTakesPart
        <5>2. Db!range(index[t]) = Db!range(index[m])
          BY <1>4, <2>5, <4>2, <5>1 DEF Db!inconsistent
        <5>3. Fits(index[m], Len(moments), b) /\ index[m] \in Index
          BY <1>2, <2>3, <5>1
        <5> DEFINE p == index[t]
                   q == index[m]
        <5>4. /\ p.revision - Len(p.stack) = q.revision - Len(q.stack) /\ p.revision = q.revision
              /\ Len(q.stack) = Len(moments) /\ q.revision - Len(moments) = b
              /\ p.revision \in Int /\ Len(p.stack) \in Nat /\ q.revision \in Int
          BY <1>2, <5>2, <5>3, IndexFields DEF Db!range, Fits
        <5> HIDE DEF p, q
        <5>5. Fits(p, Len(moments), b)
          BY <1>2, <5>4, SMTT(30) DEF Fits
        <5> QED
          BY <5>5 DEF p
      <4> QED
        BY <4>1, <4>2
    <3>3. Fits(y, Len(moments), b) /\ (~Downgrades => Holds(y, t, moments))
      BY <2>1, <2>4, <2>5, <3>1, <3>2 DEF Fits, Holds, MomentInv
    <3> HIDE DEF y
    <3> QED
      BY <1>1, <2>1, <2>2, <2>3, <3>1, <3>3, JoinStep
  <2>6. CASE ~index[t].exists /\ list = <<>>
    <3>1. y = x /\ First(t)
      BY <2>2, <2>6
    <3>2. index[t] = Db!NoIndex /\ moments = <<>> /\ \A u \in Tables : ~index[u].exists
      BY <1>1, <2>6, <3>1 DEF StackInv
    <3>3. \A u \in Tables : Part(u) => Fits(index[u], Len(moments), 0)
      <4>1. Db!members(list) = {}
        BY <2>6 DEF Db!members
      <4> QED
        BY <3>2, <4>1 DEF Part
    <3>4. Fits(y, Len(moments), 0) /\ (~Downgrades => Holds(y, t, moments))
      BY <2>1, <3>1, <3>2 DEF Fits, Holds, Db!NoIndex
    <3> HIDE DEF y
    <3>5. y \in Index /\ y.exists
      BY <2>1, <3>1
    <3>6. PICK o \in Int : o = 0
      BY SMTT(30)
    <3> QED
      BY <1>1, <2>2, <3>1, <3>3, <3>4, <3>5, <3>6, JoinStep
  <2>7. CASE ~index[t].exists /\ list # <<>>
    <3>1. PICK m \in Tables : m = list[1] /\ Part(m)
      <4>1. list[1] \in Db!members(list)
        BY <1>1, <2>7 DEF DbType, Db!members
      <4> QED
        BY <1>1, <4>1, ListedTakesPart
    <3>2. y = Db!joined(x, index[m]) /\ index[m] \in Index /\ Fits(index[m], Len(moments), b)
      BY <1>2, <2>3, <2>7, <3>1
    <3> HIDE DEF y
    <3>3. /\ y \in Index /\ (y.exists <=> x.exists)
          /\ Len(y.stack) = Len(index[m].stack) /\ y.revision = index[m].revision
          /\ \A k \in 1 .. Len(y.stack) : y.stack[k] = x.value
      BY <2>1, <3>2, JoinedFits
    <3>4. Fits(y, Len(moments), b)
      BY <3>2, <3>3, SMTT(30) DEF Fits
    <3>5. x.value = Empty
      BY <1>1, <2>1, <2>7 DEF StackInv, Db!NoIndex
    <3>6. ~Downgrades => Holds(y, t, moments)
      BY <2>4, <2>7, <3>3, <3>4, <3>5 DEF MomentInv, Holds, Fits
    <3> QED
      BY <1>1, <2>1, <2>2, <2>3, <3>3, <3>4, <3>6, JoinStep, ZenonT(30)
  <2> QED
    BY <2>5, <2>6, <2>7
<1> QED
  BY <1>3, <1>4

\* An empty file.
LEMMA InitDb == Db!Init => DbInv
<1> SUFFICES ASSUME Db!Init PROVE DbInv
  OBVIOUS
<1>1. Db!NoIndex \in Index
  BY DEF Db!NoIndex, Index, AnyValue
<1>2. /\ index \in [Tables -> Index] /\ \A t \in Tables : index[t] = Db!NoIndex /\ ~index[t].exists
      /\ list = <<>> /\ opening = <<>> /\ sessions = <<>> /\ moments = <<>> /\ phase = "closed"
      /\ Len(<<>>) = 0
  BY <1>1 DEF Db!Init, Db!NoIndex
<1>3. DbType
  BY <1>2 DEF DbType
<1>4. ListInv
  BY <1>2 DEF ListInv, Starting
<1>5. StackInv
  <2>1. \A t \in Tables : ~Part(t)
    <3>1. list = <<>>
      BY <1>2
    <3>2. Db!members(list) = {}
      BY <3>1 DEF Db!members
    <3> QED
      BY <1>2, <3>2, Zenon DEF Part
  <2>2. \A t \in Tables : ~index[t].exists =>
            index[t] = Db!NoIndex /\ (First(t) => moments = <<>> /\ \A u \in Tables : ~index[u].exists)
    BY <1>2
  <2>3. \E b \in Int : \A t \in Tables : Part(t) => Fits(index[t], Levels(t), b)
    <3>1. 0 \in Int
      OBVIOUS
    <3> QED
      BY <2>1, <3>1, Zenon
  <2> QED
    BY <2>2, <2>3, Zenon DEF StackInv
<1>6. MomentInv
  BY <1>2 DEF MomentInv, Starting
<1> QED
  BY <1>3, <1>4, <1>5, <1>6 DEF DbInv

\* DbInv is inductive.
LEMMA NextDb == ASSUME Db!TablesAreNumbers, DbInv, [Db!Next]_Db!vars PROVE DbInv'
<1>1. CASE UNCHANGED Db!vars
  <2>1. UNCHANGED <<index, list, sessions, opening, phase, moments>>
    BY <1>1, SMTT(30) DEF Db!vars
  <2>2. DbType' /\ ListInv' /\ (Starting' <=> Starting) /\ (MomentInv => MomentInv')
    <3>1. Starting' <=> Starting
      BY <2>1, Zenon DEF Starting
    <3>2. DbType'
      BY <2>1 DEF DbInv, DbType
    <3>3. ListInv'
      BY <2>1 DEF DbInv, ListInv, Starting, First, Db!members
    <3>4. MomentInv => MomentInv'
      BY <2>1 DEF MomentInv, Starting, Holds
    <3> QED
      BY <3>1, <3>2, <3>3, <3>4, Zenon
  <2>3. \A t \in Tables : (Part(t)' <=> Part(t)) /\ Levels(t)' = Levels(t)
    BY <2>1 DEF Part, Levels, Starting, First, Db!members
  <2>4. StackInv'
    BY <2>1, <2>3 DEF DbInv, StackInv, First
  <2> QED
    BY <2>2, <2>4 DEF DbInv
<1>2. CASE Db!open \/ Db!ready \/ Db!close \/ Db!start_throws
  BY <1>2, PhaseStep
<1>3. CASE \E t \in Tables : Db!add_index(t)
  BY <1>3, AddStep
<1>4. CASE \E t \in Tables, v \in Value : Db!change(t, v)
  BY <1>4, ChangeStep
<1>5. CASE Db!squash \/ Db!undo \/ Db!undo_pushed
  BY <1>5, SquashesStep
<1>6. CASE \E rev \in 1 .. MaxRevision : Db!commit(rev) \/ Db!set_revision(rev)
  BY <1>6, CommitsStep, SetRevisionStep
<1> QED
  BY <1>1, <1>2, <1>3, <1>4, <1>5, <1>6, StartStepDb, StartNextStep, StartDoneStep, UnwindStep,
     PushStep, UndoAllStep DEF Db!Next

\* The undo stacks of all the indices in use cover the same revisions, whatever the sessions,
\* failures, upgrades and downgrades: LockStep, for all tables and values and all bounds.
THEOREM StacksInLockStep == Db!TablesAreNumbers /\ Db!Spec => []Db!LockStep
<1> SUFFICES ASSUME Db!TablesAreNumbers PROVE Db!Spec => []Db!LockStep
  OBVIOUS
<1>1. Db!Init => DbInv
  BY InitDb
<1>2. DbInv /\ [Db!Next]_Db!vars => DbInv'
  BY NextDb
<1>3. DbInv => Db!LockStep
  <2> SUFFICES ASSUME DbInv, phase \in {"idle", "adding"}, NEW i \in 1 .. Len(list)
               PROVE  Db!range(index[list[i]]) = Db!range(index[list[1]])
    BY DEF Db!LockStep
  <2>1. PICK b \in Int : \A t \in Tables : Part(t) => Fits(index[t], Len(moments), b)
    BY DEF DbInv, StackInv, Levels, Starting
  <2>2. list[i] \in Db!members(list) /\ list[1] \in Db!members(list)
    BY DEF DbInv, DbType, Db!members
  <2>3. /\ Fits(index[list[i]], Len(moments), b) /\ Fits(index[list[1]], Len(moments), b)
        /\ index[list[i]] \in Index /\ index[list[1]] \in Index /\ Len(moments) \in Nat
    BY <2>1, <2>2, ListedTakesPart, SMTT(30) DEF DbInv, DbType
  <2> DEFINE p == index[list[i]]
             q == index[list[1]]
  <2>4. p \in Index /\ q \in Index /\ Fits(p, Len(moments), b) /\ Fits(q, Len(moments), b)
    BY <2>3
  <2> HIDE DEF p, q
  <2>5. p.revision = q.revision /\ Len(p.stack) = Len(q.stack)
    BY <2>3, <2>4, IndexFields DEF Fits
  <2> QED
    BY <2>5 DEF Db!range, p, q
<1> QED
  BY <1>1, <1>2, <1>3, PTL DEF Db!Spec

\* Unless a program without some of the indices used the file, undo() takes all the indices
\* back to one moment: OneMoment, for all tables and values and all bounds.
THEOREM LevelsOfOneMoment == Db!TablesAreNumbers /\ ~Downgrades /\ Db!Spec => []Db!OneMoment
<1> SUFFICES ASSUME Db!TablesAreNumbers, ~Downgrades PROVE Db!Spec => []Db!OneMoment
  OBVIOUS
<1>1. Db!Init => DbInv
  BY InitDb
<1>2. DbInv /\ [Db!Next]_Db!vars => DbInv'
  BY NextDb
<1>3. DbInv => Db!OneMoment
  BY ListedFits DEF Db!OneMoment, Fits, Holds
<1> QED
  BY <1>1, <1>2, <1>3, PTL DEF Db!Spec
=============================================================================
