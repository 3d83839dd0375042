------------------------------ MODULE Database ------------------------------
(***************************************************************************)
(* chainbase::database: a list of indices whose undo stacks must move      *)
(* together, the session object that undoes what it opened unless it was   *)
(* pushed or squashed, and the indices that are added when the file is     *)
(* opened.                                                                 *)
(*                                                                         *)
(* An index is what UndoIndex implements: contents and a stack of copies.  *)
(***************************************************************************)
EXTENDS Integers, Sequences

CONSTANTS Tables,       \* the types of the indices, in their order: a set of numbers
          Value,        \* the contents of an index
          Empty,        \* the contents of a new one
          MaxRevision,  \* bound: the revision
          MaxOpens,     \* bound: how often the file is opened
          Downgrades    \* whether a program without some of the later indices may use the file

\* The numbers of the types order them.
TablesAreNumbers == Tables \subseteq Int

VARIABLES index,      \* the indices in the file: exists, value, stack, revision
          list,       \* _index_list
          sessions,   \* the sub-sessions of each open session object, innermost last
          opening,    \* the sub-sessions start_undo_session() has made so far
          phase,      \* "closed", "adding", "idle", "starting", "failing", "refused"
          moments,    \* history: for each level of the undo stack, all the contents then
          opens

vars == <<index, list, sessions, opening, phase, moments, opens>>

NoIndex == [exists |-> FALSE, value |-> Empty, stack |-> <<>>, revision |-> 0]

Init ==
    /\ index = [t \in Tables |-> NoIndex]
    /\ list = <<>> /\ sessions = <<>> /\ opening = <<>>
    /\ phase = "closed"
    /\ moments = <<>>
    /\ opens = 0

-----------------------------------------------------------------------------
(* One index.                                                              *)

\* back() and pop_back() of the deques, and the members of a list.
back(q) == q[Len(q)]
pop_back(q) == SubSeq(q, 1, Len(q) - 1)
members(s) == {s[i] : i \in 1 .. Len(s)}

\* undo_stack_revision_range()
range(x) == <<x.revision - Len(x.stack), x.revision>>

started(x) == [x EXCEPT !.stack = Append(@, x.value), !.revision = @ + 1]

undone(x) == IF x.stack = <<>> THEN x
             ELSE [x EXCEPT !.value = back(x.stack), !.stack = pop_back(@), !.revision = @ - 1]

squashed(x) == IF x.stack = <<>> THEN x ELSE [x EXCEPT !.stack = pop_back(@), !.revision = @ - 1]

committed(x, rev) ==
    LET first == range(x)[1]
    IN  IF rev <= first THEN x
        ELSE [x EXCEPT !.stack = SubSeq(@, rev - first + 1, Len(@))]

emptied(x) == IF x.stack = <<>> THEN x
              ELSE [x EXCEPT !.value = x.stack[1], !.stack = <<>>, !.revision = range(x)[1]]

\* What op does to the indices of s.
each(s, Op(_)) == [t \in Tables |-> IF t \in members(s) THEN Op(index[t]) ELSE index[t]]

-----------------------------------------------------------------------------
(* Opening the file.                                                       *)

\* A new index gets an undo stack like the others.
joined(x, first) ==
    LET n == Len(first.stack)
    IN  [x EXCEPT !.stack = [k \in 1 .. n |-> x.value], !.revision = first.revision]

\* An index that was there before does not agree with the first one.
inconsistent(t) ==
    list # <<>> /\ index[t].exists /\ range(index[t]) # range(index[list[1]])

open ==
    /\ phase = "closed"
    /\ opens < MaxOpens
    /\ opens' = opens + 1
    /\ phase' = "adding"
    /\ UNCHANGED <<index, list, sessions, opening, moments>>

add_index(t) ==
    /\ phase = "adding"
    /\ IF list = <<>> THEN \A u \in Tables : t <= u ELSE back(list) < t
    /\ IF inconsistent(t)
       THEN phase' = "refused" /\ UNCHANGED <<index, list>>
       ELSE LET x == [index[t] EXCEPT !.exists = TRUE]
                y == IF list = <<>> \/ index[t].exists THEN x ELSE joined(x, index[list[1]])
            IN  /\ index' = [index EXCEPT ![t] = y]
                /\ list' = Append(list, t)
                /\ UNCHANGED phase
    /\ UNCHANGED <<sessions, opening, moments, opens>>

ready ==
    /\ phase = "adding"
    /\ list # <<>>
    /\ Downgrades \/ \A t \in Tables : index[t].exists => t \in members(list)
    /\ phase' = "idle"
    /\ UNCHANGED <<index, list, sessions, opening, moments, opens>>

\* The session objects go before the database does.
close ==
    /\ phase = "idle"
    /\ sessions = <<>>
    /\ phase' = "closed"
    /\ list' = <<>>
    /\ UNCHANGED <<index, sessions, opening, moments, opens>>

-----------------------------------------------------------------------------
(* Sessions.                                                               *)

revision == index[list[1]].revision

change(t, v) ==
    /\ phase = "idle"
    /\ t \in members(list)
    /\ index' = [index EXCEPT ![t].value = v]
    /\ UNCHANGED <<list, sessions, opening, phase, moments, opens>>

contents == [t \in Tables |-> index[t].value]

start_undo_session ==
    /\ phase = "idle"
    /\ revision < MaxRevision
    /\ phase' = "starting"
    /\ moments' = Append(moments, contents)
    /\ UNCHANGED <<index, list, sessions, opening, opens>>

\* The loop: the next index opens a session.
start_next ==
    /\ phase = "starting"
    /\ Len(opening) < Len(list)
    /\ LET t == list[Len(opening) + 1]
       IN  /\ index' = [index EXCEPT ![t] = started(@)]
           /\ opening' = Append(opening, t)
    /\ UNCHANGED <<list, sessions, phase, moments, opens>>

start_done ==
    /\ phase = "starting"
    /\ Len(opening) = Len(list)
    /\ phase' = "idle"
    /\ sessions' = Append(sessions, opening)
    /\ opening' = <<>>
    /\ UNCHANGED <<index, list, moments, opens>>

\* There is no memory for another undo state.
start_throws ==
    /\ phase = "starting"
    /\ Len(opening) < Len(list)
    /\ phase' = "failing"
    /\ UNCHANGED <<index, list, sessions, opening, moments, opens>>

\* Mutant: the sub-sessions are dropped without their destructors.
unwound_not(x) == x

\* The destructor of a sub-session
unwound(x) == undone(x)

unwind ==
    /\ phase = "failing"
    /\ index' = each(opening, unwound)
    /\ phase' = "idle"
    /\ opening' = <<>>
    /\ moments' = pop_back(moments)
    /\ UNCHANGED <<list, sessions, opens>>

\* The innermost session object ends: pushed, squashed or undone.  The controller pushes
\* the session of a block once those of its transactions are gone.
push ==
    /\ phase = "idle"
    /\ Len(sessions) = 1
    /\ sessions' = <<>>
    /\ UNCHANGED <<index, list, opening, phase, moments, opens>>

squash ==
    /\ phase = "idle" /\ sessions # <<>>
    /\ index' = each(back(sessions), squashed)
    /\ sessions' = pop_back(sessions)
    /\ moments' = pop_back(moments)
    /\ UNCHANGED <<list, opening, phase, opens>>

undo ==
    /\ phase = "idle" /\ sessions # <<>>
    /\ index' = each(back(sessions), undone)
    /\ sessions' = pop_back(sessions)
    /\ moments' = pop_back(moments)
    /\ UNCHANGED <<list, opening, phase, opens>>

-----------------------------------------------------------------------------
(* database::undo(), commit(), undo_all() and set_revision() work on what  *)
(* was pushed.                                                             *)

undo_pushed ==
    /\ phase = "idle" /\ sessions = <<>>
    /\ moments # <<>>
    /\ index' = each(list, undone)
    /\ moments' = pop_back(moments)
    /\ UNCHANGED <<list, sessions, opening, phase, opens>>

commit(rev) ==
    /\ phase = "idle"
    /\ rev \in range(index[list[1]])[1] + 1 .. revision - Len(sessions)
    /\ index' = each(list, LAMBDA x : committed(x, rev))
    /\ moments' = SubSeq(moments, rev - range(index[list[1]])[1] + 1, Len(moments))
    /\ UNCHANGED <<list, sessions, opening, phase, opens>>

undo_all ==
    /\ phase = "idle" /\ sessions = <<>>
    /\ moments # <<>>
    /\ index' = each(list, emptied)
    /\ moments' = <<>>
    /\ UNCHANGED <<list, sessions, opening, phase, opens>>

\* It throws when there is an undo state.
set_revision(rev) ==
    /\ phase = "idle"
    /\ moments = <<>>
    /\ index' = each(list, LAMBDA x : [x EXCEPT !.revision = rev])
    /\ UNCHANGED <<list, sessions, opening, phase, moments, opens>>

Next ==
    \/ open \/ ready \/ close
    \/ \E t \in Tables : add_index(t)
    \/ \E t \in Tables, v \in Value : change(t, v)
    \/ start_undo_session \/ start_next \/ start_done \/ start_throws \/ unwind
    \/ push \/ squash \/ undo
    \/ undo_pushed \/ undo_all
    \/ \E rev \in 1 .. MaxRevision : commit(rev) \/ set_revision(rev)

Spec == Init /\ [][Next]_vars

-----------------------------------------------------------------------------
(* Properties.                                                             *)

TypeOK ==
    /\ phase \in {"closed", "adding", "idle", "starting", "failing", "refused"}
    /\ \A t \in Tables : /\ index[t].value \in Value \cup {Empty}
                         /\ index[t].revision \in Len(index[t].stack) .. MaxRevision
    /\ phase = "idle" => Len(sessions) <= Len(moments)

\* Whenever the database can be used, the undo stacks of all its indices cover the same
\* revisions: add_index() makes a new index agree and refuses an old one that does not.
LockStep ==
    phase \in {"idle", "adding"} =>
        \A i \in 1 .. Len(list) : range(index[list[i]]) = range(index[list[1]])

\* The copies at one level of the undo stacks are all of one moment: undoing a level puts
\* the whole database back, also after a session of which only a part could be started.
OneMoment ==
    phase = "idle" =>
        \A t \in members(list) : /\ Len(index[t].stack) = Len(moments)
                               /\ \A k \in 1 .. Len(moments) : index[t].stack[k] = moments[k][t]
=============================================================================
