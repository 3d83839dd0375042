--------------------------- MODULE HistorySession ---------------------------
(***************************************************************************)
(* A session of the state history plugin: it sends the blocks of the       *)
(* current branch to a client, as many at a time as the client allows, and *)
(* goes back when the branch changes.                                      *)
(*                                                                         *)
(* The branch is a sequence of labels, and the id of a block is the branch *)
(* up to it.  The client keeps the ids it received, and asks with them.    *)
(***************************************************************************)
EXTENDS FiniteSetsExt, FiniteSetTheorems, SequenceTheorems, TLAPS

CONSTANTS Labels,       \* tell blocks of the same number apart
          MaxNum,       \* bound: the number of a block
          MaxAccepts,   \* bound: the blocks that the controller accepts
          MaxAsks,      \* bound: the requests of the client in a session
          MaxDrops,     \* bound: the connections that are lost
          Ends,         \* the values of end_block_num
          Flights       \* the values of max_messages_in_flight

ASSUME RequestsAssumption == Labels # {} /\ Ends \subseteq Int /\ Flights \subseteq Nat

VARIABLES chain, lib,       \* the branch of the head, the last irreversible block number
          session,          \* sending, send_queue, current_request, need_to_send_update
          inbox, outbox,    \* what is on its way to the session and to the client
          view,             \* the ids of the blocks that the client has
          credit,           \* the results that the client is ready for
          accepts, asks, drops

vars == <<chain, lib, session, inbox, outbox, view, credit, accepts, asks, drops>>

Cut(s, n) == SubSeq(s, 1, n)

Paths(n) == [1 .. n -> Labels]

NoRequest == [asked |-> FALSE, start |-> 0, end |-> 0, flight |-> 0, irreversible |-> FALSE]

Other == [type |-> "other", this |-> <<>>]
Result(id) == [type |-> "result", this |-> id]

Request(s, e, f, irr, have) ==
    [type |-> "blocks", start |-> s, end |-> e, flight |-> f, irreversible |-> irr, have |-> have]
Ack == [Request(0, 0, 0, FALSE, <<>>) EXCEPT !.type = "ack"]
Status == [Ack EXCEPT !.type = "status"]

\* After async_accept() the ABI is being written.
NewSession == [sending |-> TRUE, queue |-> <<Other>>, request |-> NoRequest, need |-> FALSE]

\* The client may have the blocks of another branch, from an earlier session.
Init ==
    /\ chain = [i \in 1 .. 2 |-> CHOOSE b \in Labels : TRUE]
    /\ lib = 1
    /\ session = NewSession
    /\ inbox = <<>> /\ outbox = <<Other>>
    /\ \E n \in 0 .. 2 : \E p \in Paths(n) : /\ n > 0 => p[1] = chain[1]
                                             /\ view = [i \in 1 .. n |-> Cut(p, i)]
    /\ credit = 0
    /\ accepts = 0 /\ asks = 0 /\ drops = 0

-----------------------------------------------------------------------------
(* Sending.  A handler works on the session and on what leaves it.         *)

more(r, current) == r.start <= current /\ r.start < r.end

blocked(s) == s.queue # <<>> \/ ~s.request.asked \/ s.request.flight = 0

\* send(obj)
push(s, m) ==
    IF s.sending THEN [s EXCEPT !.queue = Append(@, m)]
    ELSE [s EXCEPT !.queue = Append(@, m), !.sending = TRUE]

\* Mutant: the next block is not looked for.
sent_once(s, c, current) ==
    LET r == [s.request EXCEPT !.start = IF more(s.request, current) THEN @ + 1 ELSE @,
                               !.flight = @ - 1]
        m == Result(IF more(s.request, current) THEN Cut(c, s.request.start) ELSE <<>>)
    IN  [push(s, m) EXCEPT !.request = r, !.need = FALSE]

\* The result for the next block, or one without a block.
sent(s, c, current) ==
    LET r == [s.request EXCEPT !.start = IF more(s.request, current) THEN @ + 1 ELSE @,
                               !.flight = @ - 1]
        m == Result(IF more(s.request, current) THEN Cut(c, s.request.start) ELSE <<>>)
    IN  [push(s, m) EXCEPT !.request = r, !.need = more(r, current)]

\* send_update(result), with a head
send_update(s, c, l) ==
    IF blocked(s) THEN [s EXCEPT !.need = TRUE]
    ELSE sent(s, c, IF s.request.irreversible THEN l ELSE Len(c))

\* send_update(false)
send_update_if_needed(s, c, l) == IF blocked(s) \/ ~s.need THEN s ELSE send_update(s, c, l)

\* send()
send(s, c, l) ==
    IF s.queue = <<>> THEN send_update_if_needed(s, c, l) ELSE [s EXCEPT !.sending = TRUE]

\* The session becomes s, and a write that was started is on its way to the client.
becomes(s, was_sending) ==
    /\ session' = s
    /\ outbox' = IF s.sending /\ ~was_sending THEN Append(outbox, Head(s.queue)) ELSE outbox

-----------------------------------------------------------------------------
(* The callbacks of the session.                                           *)

\* The callback of async_write()
written ==
    /\ session.sending
    /\ LET s == [session EXCEPT !.queue = Tail(@), !.sending = FALSE]
       IN  becomes(send(s, chain, lib), FALSE)
    /\ UNCHANGED <<chain, lib, inbox, view, credit, accepts, asks, drops>>

\* Blocks of the client that are not on the branch are sent again.
start_agreed(m) ==
    LET lost == {i \in 1 .. Len(m.have) : i < m.start /\ (i > Len(chain) \/ m.have[i] # Cut(chain, i))}
    IN  Min(lost \cup {m.start})

handle(m) ==
    CASE m.type = "status" -> push(session, Other)
      [] m.type = "blocks" ->
           LET r == [asked |-> TRUE, start |-> start_agreed(m), end |-> m.end, flight |-> m.flight,
                     irreversible |-> m.irreversible]
           IN  send_update_if_needed([session EXCEPT !.request = r, !.need = TRUE], chain, lib)
      [] m.type = "ack" ->
           IF ~session.request.asked THEN session
           ELSE send_update_if_needed([session EXCEPT !.request.flight = @ + 1], chain, lib)

\* The callback of async_read()
read ==
    /\ inbox # <<>>
    /\ becomes(handle(Head(inbox)), session.sending)
    /\ inbox' = Tail(inbox)
    /\ UNCHANGED <<chain, lib, view, credit, accepts, asks, drops>>

\* Mutant: the request goes on where it was.
lowered_never(s, n) == s

lowered(s, n) == IF s.request.asked /\ n < s.request.start THEN [s EXCEPT !.request.start = n] ELSE s

\* on_accepted_block(); the controller then logs what is irreversible.
on_accepted_block ==
    /\ accepts < MaxAccepts
    /\ \E k \in lib .. Len(chain), b \in Labels :
          LET c == Append(Cut(chain, k), b)
          IN  /\ k < MaxNum
              /\ k < Len(chain) => b # chain[k + 1]
              /\ chain' = c
              /\ becomes(send_update(lowered(session, Len(c)), c, lib), session.sending)
              /\ lib' \in lib .. k
    /\ accepts' = accepts + 1
    /\ UNCHANGED <<inbox, view, credit, asks, drops>>

\* Either side closes the connection, and the client connects again.
reconnect ==
    /\ drops < MaxDrops
    /\ session' = NewSession
    /\ inbox' = <<>> /\ outbox' = <<Other>>
    /\ credit' = 0
    /\ asks' = 0
    /\ drops' = drops + 1
    /\ UNCHANGED <<chain, lib, view, accepts>>

-----------------------------------------------------------------------------
(* The client.                                                             *)

\* A client asks for blocks once in a session, with what it has.
ask ==
    /\ asks = 0
    /\ \E e \in Ends, f \in Flights, irr \in BOOLEAN :
          /\ inbox' = Append(inbox, Request(Len(view) + 1, e, f, irr, view))
          /\ credit' = credit + f
    /\ asks' = 1
    /\ UNCHANGED <<chain, lib, session, outbox, view, accepts, drops>>

ask_status ==
    /\ asks \in 1 .. MaxAsks - 1
    /\ inbox' = Append(inbox, Status)
    /\ asks' = asks + 1
    /\ UNCHANGED <<chain, lib, session, outbox, view, credit, accepts, drops>>

\* A block replaces those of its number and above; every result is acknowledged.
receive ==
    /\ outbox # <<>>
    /\ LET m == Head(outbox)
           n == Len(m.this)
       IN  /\ view' = IF n = 0 THEN view ELSE Append(Cut(view, n - 1), m.this)
           /\ inbox' = IF m.type = "result" THEN Append(inbox, Ack) ELSE inbox
    /\ outbox' = Tail(outbox)
    /\ UNCHANGED <<chain, lib, session, credit, accepts, asks, drops>>

Next ==
    \/ written \/ read \/ on_accepted_block \/ reconnect
    \/ ask \/ ask_status \/ receive

\* The callbacks run, and the client asks and reads.
Fairness == WF_vars(written) /\ WF_vars(read) /\ WF_vars(ask) /\ WF_vars(receive)

Spec == Init /\ [][Next]_vars /\ Fairness

-----------------------------------------------------------------------------
(* Properties.                                                             *)

\* The places of the messages of a type.
Of(q, type) == {i \in 1 .. Len(q) : q[i].type = type}

TypeOK ==
    /\ session.sending = (session.queue # <<>>)
    /\ session.request.start <= MaxNum + 1
    /\ lib <= Len(chain)

\* The client is never sent more results than it asked for: those it has not acknowledged
\* are at most max_messages_in_flight of its requests.
InFlight == Cardinality(Of(outbox, "result")) + Cardinality(Of(inbox, "ack")) <= credit

\* The blocks that a client has are always those of one branch, whatever fork changes,
\* requests and lost connections come between the results: each one it receives follows
\* the one it has before it.
ViewIsBranch == \A i \in 1 .. Len(view) : /\ Len(view[i]) = i
                                           /\ i > 1 => Cut(view[i], i - 1) = view[i - 1]

\* Both: what a client is served is one branch, and not more than it asked for.
ServesClient == ViewIsBranch /\ InFlight

\* When no more blocks come, a client that acknowledges what it receives ends with the
\* branch of the head, up to the end it asked for.
ClientCatchesUp ==
    <>[](session.request.irreversible
         \/ LET n == Min({Len(chain), session.request.end - 1})
            IN  Len(view) >= n /\ \A i \in 1 .. n : view[i] = Cut(chain, i))

-----------------------------------------------------------------------------
(* Proofs: paths and their prefixes.  The view of the client is the        *)
(* sequence of the prefixes of one path.                                   *)

Id == Seq(Labels)

Prefixes(p) == [i \in 1 .. Len(p) |-> Cut(p, i)]

\* What Cut returns.
LEMMA CutIs ==
    ASSUME NEW S, NEW s \in Seq(S), NEW n \in 0 .. Len(s)
    PROVE  /\ Cut(s, n) \in Seq(S) /\ Len(Cut(s, n)) = n
           /\ \A i \in 1 .. n : Cut(s, n)[i] = s[i]
<1>1. \A i \in 1 .. n : s[i] \in S
  BY ElementOfSeq
<1>2. n \in Int /\ n >= 0 /\ 1 \in Int
  BY LenProperties
<1>3. /\ SubSeq(s, 1, n) \in Seq(S)
      /\ Len(SubSeq(s, 1, n)) = IF 1 <= n THEN n - 1 + 1 ELSE 0
      /\ \A i \in 1 .. n - 1 + 1 : SubSeq(s, 1, n)[i] = s[1 + i - 1]
  BY <1>1, <1>2, SubSeqProperties
<1>4. n - 1 + 1 = n /\ \A i \in 1 .. n : 1 + i - 1 = i
  BY <1>2
<1> QED BY <1>2, <1>3, <1>4 DEF Cut

\* A prefix of a prefix, and prefixes of sequences that agree so far.
LEMMA CutsAgree ==
    ASSUME NEW S, NEW s \in Seq(S), NEW t \in Seq(S), NEW n \in Nat, n <= Len(s), n <= Len(t),
           \A i \in 1 .. n : s[i] = t[i]
    PROVE  Cut(s, n) = Cut(t, n)
<1>1. n \in 0 .. Len(s) /\ n \in 0 .. Len(t)
  BY LenProperties
<1>2. /\ Cut(s, n) \in Seq(S) /\ Len(Cut(s, n)) = n /\ \A i \in 1 .. n : Cut(s, n)[i] = s[i]
      /\ Cut(t, n) \in Seq(S) /\ Len(Cut(t, n)) = n /\ \A i \in 1 .. n : Cut(t, n)[i] = t[i]
  BY <1>1, CutIs, Zenon
<1>3. \A i \in 1 .. n : Cut(s, n)[i] = Cut(t, n)[i]
  BY <1>2
<1> QED BY <1>2, <1>3, SeqEqual

LEMMA CutAgrees ==
    ASSUME NEW S, NEW s \in Seq(S), NEW t \in Seq(S), NEW n \in Nat, n <= Len(s), n <= Len(t),
           Cut(s, n) = Cut(t, n)
    PROVE  \A i \in 1 .. n : s[i] = t[i]
<1>1. n \in 0 .. Len(s) /\ n \in 0 .. Len(t)
  BY LenProperties
<1>2. /\ \A i \in 1 .. n : Cut(s, n)[i] = s[i]
      /\ \A i \in 1 .. n : Cut(t, n)[i] = t[i]
  BY <1>1, CutIs, Zenon
<1> QED BY <1>2

\* The prefixes of a path are a sequence of paths, each with the one before it as a prefix.
LEMMA PrefixesAre ==
    ASSUME NEW p \in Id
    PROVE  /\ Prefixes(p) \in Seq(Id) /\ Len(Prefixes(p)) = Len(p)
           /\ \A i \in 1 .. Len(p) : Prefixes(p)[i] = Cut(p, i)
<1>1. Len(p) \in Nat
  BY LenProperties DEF Id
<1>2. \A i \in 1 .. Len(p) : Cut(p, i) \in Id
  BY <1>1, CutIs DEF Id
<1>3. Prefixes(p) \in [1 .. Len(p) -> Id]
  BY <1>2 DEF Prefixes
<1>4. Prefixes(p) \in Seq(Id)
  BY <1>1, <1>3, IsASeq
<1>5. DOMAIN Prefixes(p) = 1 .. Len(p)
  BY DEF Prefixes
<1>6. Len(Prefixes(p)) = Len(p)
  BY <1>1, <1>4, <1>5, LenProperties
<1> QED BY <1>4, <1>6 DEF Prefixes

\* What a client has that way is a branch.
LEMMA PrefixesAreBranch ==
    ASSUME NEW p \in Id, view = Prefixes(p)
    PROVE  ViewIsBranch
<1>1. ASSUME NEW i \in 1 .. Len(view)
      PROVE  Len(view[i]) = i /\ (i > 1 => Cut(view[i], i - 1) = view[i - 1])
  <2>1. Len(view) = Len(p) /\ Len(p) \in Nat /\ i \in 1 .. Len(p)
    BY PrefixesAre, LenProperties DEF Id
  <2>2. i \in 0 .. Len(p) /\ view[i] = Cut(p, i)
    BY <2>1, PrefixesAre
  <2>3. Cut(p, i) \in Seq(Labels) /\ Len(Cut(p, i)) = i /\ \A j \in 1 .. i : Cut(p, i)[j] = p[j]
    BY <2>2, CutIs DEF Id
  <2>4. ASSUME i > 1 PROVE Cut(view[i], i - 1) = view[i - 1]
    <3>1. i - 1 \in 1 .. Len(p) /\ i - 1 \in Nat /\ i - 1 <= i
      BY <2>1, <2>4
    <3>2. \A j \in 1 .. i - 1 : Cut(p, i)[j] = p[j]
      BY <2>1, <2>3
    <3>3. Cut(Cut(p, i), i - 1) = Cut(p, i - 1)
      BY <2>1, <2>3, <3>1, <3>2, CutsAgree DEF Id
    <3>4. view[i - 1] = Cut(p, i - 1)
      BY <3>1, PrefixesAre, Zenon
    <3> QED BY <2>2, <3>3, <3>4
  <2> QED BY <2>2, <2>3, <2>4
<1> QED BY <1>1 DEF ViewIsBranch

-----------------------------------------------------------------------------
(* Proofs: what is on its way.  After the messages of q a client with the  *)
(* prefixes of t[0] has those of the last path of t.                       *)

Step(a, id, b) ==
    IF id = <<>> THEN b = a
    ELSE b = id /\ Len(id) <= Len(a) + 1 /\ Cut(id, Len(id) - 1) = Cut(a, Len(id) - 1)

OnWay(v, q, last) ==
    \E t \in [0 .. Len(q) -> Id] :
        /\ v = Prefixes(t[0])
        /\ t[Len(q)] = last
        /\ \A k \in 1 .. Len(q) : Step(t[k - 1], q[k].this, t[k])

Message == [type : {"other", "result"}, this : Id]

\* The client receives a block that follows what it has.
LEMMA Received ==
    ASSUME NEW a \in Id, NEW id \in Id, id # <<>>, Len(id) <= Len(a) + 1,
           Cut(id, Len(id) - 1) = Cut(a, Len(id) - 1)
    PROVE  Append(Cut(Prefixes(a), Len(id) - 1), id) = Prefixes(id)
<1> DEFINE n == Len(id)  w == Cut(Prefixes(a), n - 1)
<1>1. n \in Nat /\ n # 0 /\ Len(a) \in Nat
  BY LenProperties, EmptySeq DEF Id
<1>2. n - 1 \in 0 .. Len(a) /\ n - 1 \in Nat
  BY <1>1
<1>3. Prefixes(a) \in Seq(Id) /\ Len(Prefixes(a)) = Len(a)
      /\ \A i \in 1 .. Len(a) : Prefixes(a)[i] = Cut(a, i)
  BY PrefixesAre
<1>4. w \in Seq(Id) /\ Len(w) = n - 1 /\ \A i \in 1 .. n - 1 : w[i] = Prefixes(a)[i]
  BY <1>2, <1>3, CutIs, Zenon
<1>5. /\ Append(w, id) \in Seq(Id) /\ Len(Append(w, id)) = n - 1 + 1
      /\ \A i \in 1 .. n - 1 : Append(w, id)[i] = w[i]
      /\ Append(w, id)[n - 1 + 1] = id
  <2> HIDE DEF w
  <2> QED BY <1>4, AppendProperties
<1>6. n - 1 + 1 = n
  BY <1>1
<1>7. Prefixes(id) \in Seq(Id) /\ Len(Prefixes(id)) = n /\ \A i \in 1 .. n : Prefixes(id)[i] = Cut(id, i)
  BY PrefixesAre
<1>8. ASSUME NEW i \in 1 .. n PROVE Append(w, id)[i] = Prefixes(id)[i]
  <2>1. CASE i = n
    <3>1. n \in 0 .. Len(id)
      BY <1>1
    <3>2. Cut(id, n) \in Seq(Labels) /\ Len(Cut(id, n)) = n /\ \A j \in 1 .. n : Cut(id, n)[j] = id[j]
      BY <3>1, CutIs, Zenon DEF Id
    <3>3. Cut(id, n) = id
      BY <3>2, SeqEqual DEF Id
    <3> QED BY <1>5, <1>6, <1>7, <2>1, <3>3
  <2>2. CASE i # n
    <3>1. i \in 1 .. n - 1 /\ i \in 1 .. Len(a) /\ i \in Nat /\ i <= n /\ i <= Len(a)
      BY <1>1, <1>2, <2>2
    <3>2. \A j \in 1 .. n - 1 : id[j] = a[j]
      BY <1>1, <1>2, CutAgrees DEF Id
    <3>3. \A j \in 1 .. i : id[j] = a[j]
      BY <1>1, <3>1, <3>2
    <3>4. Cut(id, i) = Cut(a, i)
      BY <3>1, <3>3, CutsAgree DEF Id
    <3>5. Append(w, id)[i] = Cut(a, i)
      BY <1>3, <1>4, <1>5, <3>1
    <3> QED BY <1>7, <3>4, <3>5, Zenon
  <2> QED BY <2>1, <2>2, Zenon
<1> QED BY <1>5, <1>6, <1>7, <1>8, SeqEqual, Zenon

\* One more message that follows.
LEMMA OnWayAppend ==
    ASSUME NEW v, NEW q \in Seq(Message), NEW m \in Message, NEW last, NEW next \in Id,
           OnWay(v, q, last), Step(last, m.this, next)
    PROVE  OnWay(v, Append(q, m), next)
<1>1. PICK t \in [0 .. Len(q) -> Id] :
        /\ v = Prefixes(t[0])
        /\ t[Len(q)] = last
        /\ \A k \in 1 .. Len(q) : Step(t[k - 1], q[k].this, t[k])
  BY DEF OnWay
<1> DEFINE n == Len(q)  u == [k \in 0 .. n + 1 |-> IF k = n + 1 THEN next ELSE t[k]]
<1>2. n \in Nat
  BY LenProperties
<1>3. /\ Append(q, m) \in Seq(Message) /\ Len(Append(q, m)) = n + 1
      /\ \A i \in 1 .. n : Append(q, m)[i] = q[i]
      /\ Append(q, m)[n + 1] = m
  BY AppendProperties
<1> HIDE DEF n
<1>4. u \in [0 .. n + 1 -> Id]
  BY <1>1, <1>2 DEF n
<1>5. u[0] = t[0] /\ u[n + 1] = next /\ u[n] = last /\ \A k \in 0 .. n : u[k] = t[k]
  BY <1>1, <1>2 DEF n
<1>6. ASSUME NEW k \in 1 .. n + 1 PROVE Step(u[k - 1], Append(q, m)[k].this, u[k])
  <2>1. CASE k = n + 1
    BY <1>2, <1>3, <1>5, <2>1
  <2>2. CASE k # n + 1
    <3>1. k \in 1 .. n /\ k - 1 \in 0 .. n /\ k \in 0 .. n
      BY <1>2, <2>2
    <3>2. Step(t[k - 1], q[k].this, t[k])
      BY <1>1, <3>1 DEF n
    <3> QED BY <1>3, <1>5, <3>1, <3>2
  <2> QED BY <2>1, <2>2, Zenon
<1> HIDE DEF u
<1> QED BY <1>1, <1>3, <1>4, <1>5, <1>6, Zenon DEF OnWay

\* The first message arrives.
LEMMA OnWayTail ==
    ASSUME NEW v, NEW q \in Seq(Message), q # <<>>, NEW last, OnWay(v, q, last)
    PROVE  LET n == Len(Head(q).this)
           IN  OnWay(IF n = 0 THEN v ELSE Append(Cut(v, n - 1), Head(q).this), Tail(q), last)
<1>1. PICK t \in [0 .. Len(q) -> Id] :
        /\ v = Prefixes(t[0])
        /\ t[Len(q)] = last
        /\ \A k \in 1 .. Len(q) : Step(t[k - 1], q[k].this, t[k])
  BY Zenon DEF OnWay
<1> DEFINE n == Len(q)  u == [k \in 0 .. n - 1 |-> t[k + 1]]  id == Head(q).this
           w == IF Len(id) = 0 THEN v ELSE Append(Cut(v, Len(id) - 1), id)
<1>2. n \in Nat /\ n # 0
  BY LenProperties, EmptySeq
<1>3. /\ Head(q) \in Message /\ Tail(q) \in Seq(Message) /\ Len(Tail(q)) = n - 1
      /\ \A i \in 1 .. Len(Tail(q)) : Tail(q)[i] = q[i + 1]
  BY HeadTailProperties
<1>4. Head(q) = q[1]
  BY <1>2
<1> HIDE DEF n
<1>5. u \in [0 .. n - 1 -> Id] /\ u[0] = t[1] /\ u[n - 1] = last
  BY <1>1, <1>2 DEF n
<1>6. \A k \in 1 .. n - 1 : Step(u[k - 1], Tail(q)[k].this, u[k])
  <2>1. ASSUME NEW k \in 1 .. n - 1 PROVE Step(u[k - 1], Tail(q)[k].this, u[k])
    <3>1. k + 1 \in 1 .. n /\ k - 1 \in 0 .. n - 1 /\ k \in 0 .. n - 1 /\ k - 1 + 1 = k /\ k + 1 - 1 = k
      BY <1>2
    <3>2. Step(t[k + 1 - 1], q[k + 1].this, t[k + 1])
      BY <1>1, <3>1 DEF n
    <3>3. u[k - 1] = t[k] /\ u[k] = t[k + 1]
      BY <3>1
    <3> QED BY <1>3, <3>1, <3>2, <3>3
  <2> QED BY <2>1, Zenon
<1>7. w = Prefixes(t[1])
  <2>1. id \in Id /\ t[0] \in Id /\ Step(t[0], id, t[1])
    <3>1. 1 \in 1 .. n /\ 0 \in 0 .. n /\ 1 - 1 = 0
      BY <1>2
    <3>2. Step(t[1 - 1], q[1].this, t[1]) /\ t[0] \in Id
      BY <1>1, <3>1 DEF n
    <3> QED BY <1>3, <1>4, <3>1, <3>2 DEF Message
  <2>2. CASE id = <<>>
    <3>1. Len(id) = 0 /\ t[1] = t[0]
      BY <2>1, <2>2 DEF Step
    <3> QED BY <1>1, <3>1
  <2>3. CASE id # <<>>
    <3>1. Len(id) # 0
      BY <2>1, <2>3, EmptySeq, Zenon DEF Id
    <3>2. t[1] = id /\ Len(id) <= Len(t[0]) + 1 /\ Cut(id, Len(id) - 1) = Cut(t[0], Len(id) - 1)
      BY <2>1, <2>3, Zenon DEF Step
    <3>3. Append(Cut(Prefixes(t[0]), Len(id) - 1), id) = Prefixes(id)
      BY <2>1, <2>3, <3>2, Received, Zenon
    <3> QED BY <1>1, <3>1, <3>2, <3>3
  <2> QED BY <2>2, <2>3
<1> HIDE DEF u, w
<1>8. OnWay(w, Tail(q), last)
  BY <1>3, <1>5, <1>6, <1>7, Zenon DEF OnWay
<1> QED BY <1>8 DEF w, id

\* One more message of a type, or of another one.
LEMMA CountAppend ==
    ASSUME NEW S, NEW q \in Seq(S), NEW m \in S, NEW type
    PROVE  /\ Cardinality(Of(q, type)) \in Nat
           /\ Cardinality(Of(Append(q, m), type)) =
                 Cardinality(Of(q, type)) + (IF m.type = type THEN 1 ELSE 0)
<1> DEFINE n == Len(q)
<1>1. n \in Nat
  BY LenProperties
<1>2. /\ Len(Append(q, m)) = n + 1
      /\ \A i \in 1 .. n : Append(q, m)[i] = q[i]
      /\ Append(q, m)[n + 1] = m
  BY AppendProperties
<1> HIDE DEF n
<1>3. IsFiniteSet(Of(q, type)) /\ n + 1 \notin Of(q, type)
  <2>1. IsFiniteSet(1 .. n) /\ Of(q, type) \in SUBSET (1 .. n)
    BY <1>1, FS_Interval DEF Of, n
  <2> QED BY <1>1, <2>1, FS_Subset
<1>4. Of(Append(q, m), type) = IF m.type = type THEN Of(q, type) \cup {n + 1} ELSE Of(q, type)
  <2>1. \A i : i \in 1 .. n + 1 <=> i \in 1 .. n \/ i = n + 1
    BY <1>1
  <2>2. \A i : i \in Of(Append(q, m), type) <=>
                 \/ i \in Of(q, type)
                 \/ i = n + 1 /\ m.type = type
    BY <1>2, <2>1 DEF Of, n
  <2>3. CASE m.type = type
    BY <2>2, <2>3
  <2>4. CASE m.type # type
    BY <2>2, <2>4, Zenon
  <2> QED BY <2>3, <2>4
<1> QED BY <1>3, <1>4, FS_AddElement, FS_CardinalityType

\* The first message of a queue leaves it.
LEMMA CountTail ==
    ASSUME NEW S, NEW q \in Seq(S), q # <<>>, NEW type
    PROVE  /\ Cardinality(Of(q, type)) \in Nat
           /\ Cardinality(Of(Tail(q), type)) =
                 Cardinality(Of(q, type)) - (IF Head(q).type = type THEN 1 ELSE 0)
<1> DEFINE n == Len(q)  T == Of(Tail(q), type)  R == Of(q, type) \ {1}
           f == [i \in T |-> i + 1]
<1>1. n \in Nat /\ n # 0
  BY LenProperties, EmptySeq
<1>2. /\ Tail(q) \in Seq(S) /\ Len(Tail(q)) = n - 1
      /\ \A i \in 1 .. n - 1 : Tail(q)[i] = q[i + 1]
  BY HeadTailProperties
<1>3. Head(q) = q[1]
  BY <1>1
<1> HIDE DEF n
<1>4. IsFiniteSet(Of(q, type)) /\ IsFiniteSet(T)
  <2>1. IsFiniteSet(1 .. n) /\ Of(q, type) \in SUBSET (1 .. n)
    BY <1>1, FS_Interval DEF Of, n
  <2>2. IsFiniteSet(1 .. n - 1) /\ T \in SUBSET (1 .. n - 1)
    BY <1>1, <1>2, FS_Interval DEF Of
  <2> QED BY <2>1, <2>2, FS_Subset, Zenon
<1>5. \A i \in T : i \in Nat /\ i + 1 \in R
  BY <1>1, <1>2 DEF Of, n
<1>6. \A j \in R : j - 1 \in T /\ (j - 1) + 1 = j
  <2>1. ASSUME NEW j \in R PROVE j - 1 \in T /\ (j - 1) + 1 = j
    <3>1. j \in 1 .. n /\ j # 1 /\ q[j].type = type
      BY DEF Of, n
    <3>2. j - 1 \in 1 .. n - 1 /\ (j - 1) + 1 = j
      BY <1>1, <3>1
    <3>3. Tail(q)[j - 1] = q[j]
      BY <1>2, <3>2, Zenon
    <3> QED BY <1>2, <3>1, <3>2, <3>3 DEF Of
  <2> QED BY <2>1
<1> HIDE DEF T, R
<1>7. f \in Bijection(T, R)
  <2>1. f \in [T -> R]
    BY <1>5
  <2>2. \A a, b \in T : f[a] = f[b] => a = b
    BY <1>5
  <2>3. \A j \in R : \E i \in T : f[i] = j
    BY <1>6
  <2> HIDE DEF f
  <2> QED BY <2>1, <2>2, <2>3, Zenon DEF Bijection, Injection, Surjection, IsInjective
<1>8. Cardinality(R) = Cardinality(T)
  <2>1. ExistsBijection(T, R)
    BY <1>7 DEF ExistsBijection
  <2> QED BY <1>4, <2>1, FS_Bijection, Zenon
<1>9. Cardinality(R) = Cardinality(Of(q, type)) - (IF Head(q).type = type THEN 1 ELSE 0)
  <2>1. 1 \in Of(q, type) <=> Head(q).type = type
    BY <1>1, <1>3 DEF Of, n
  <2>2. Cardinality(R) = IF 1 \in Of(q, type) THEN Cardinality(Of(q, type)) - 1
                         ELSE Cardinality(Of(q, type))
    BY <1>4, FS_RemoveElement, Zenon DEF R
  <2>3. Cardinality(Of(q, type)) \in Nat
    BY <1>4, FS_CardinalityType
  <2> QED BY <2>1, <2>2, <2>3
<1> QED BY <1>4, <1>8, <1>9, FS_CardinalityType DEF T

\* No message of a type.
LEMMA CountNone ==
    ASSUME NEW q, NEW type, \A i \in 1 .. Len(q) : q[i].type # type
    PROVE  Cardinality(Of(q, type)) = 0
<1>1. Of(q, type) = {}
  BY DEF Of
<1> QED BY <1>1, FS_EmptySet

-----------------------------------------------------------------------------
(* Proofs: the invariant.                                                  *)

Wanted == [asked : BOOLEAN, start : Int, end : Int, flight : Nat, irreversible : BOOLEAN]

Session == [sending : BOOLEAN, queue : Seq(Message), request : Wanted, need : BOOLEAN]

Question == [type : {"blocks", "ack", "status"}, start : Int, end : Int, flight : Nat,
             irreversible : BOOLEAN, have : Seq(Id)]

\* A result is only queued behind nothing; the first message of the queue is being written.
Orderly(s) ==
    /\ s \in Session
    /\ s.sending <=> s.queue # <<>>
    /\ \A i \in 2 .. Len(s.queue) : s.queue[i] = Other

\* The branch and the path that the client is about to have agree below the next block.
Agreed(r, c, last) ==
    r.asked => /\ 1 <= r.start
               /\ r.start - 1 <= Len(last)
               /\ r.start - 1 <= Len(c)
               /\ Cut(c, r.start - 1) = Cut(last, r.start - 1)

\* What was sent makes a path, and the next block follows it.  Before the request nothing
\* that matters was sent.
Served(v, q, s, c) ==
    /\ \E last \in Id : /\ OnWay(v, q, last)
                        /\ Agreed(s.request, c, last)
                        /\ ~s.request.asked => v = Prefixes(last)
    /\ ~s.request.asked => /\ \A i \in 1 .. Len(q) : q[i] = Other
                           /\ \A i \in 1 .. Len(s.queue) : s.queue[i] = Other

\* The outbox after a handler.
Out(s, was, q) == IF s.sending /\ ~was THEN Append(q, Head(s.queue)) ELSE q

\* What a handler that turned the session s into x did.
Handled(v, q, s, x, c) ==
    /\ Orderly(x)
    /\ Out(x, s.sending, q) \in Seq(Message)
    /\ Served(v, Out(x, s.sending, q), x, c)
    /\ x.request.asked = s.request.asked
    /\ x.request.flight + Cardinality(Of(Out(x, s.sending, q), "result")) =
          s.request.flight + Cardinality(Of(q, "result"))

\* A message without a block changes nothing for the client.
LEMMA OtherIs == Other \in Message /\ Other.this = <<>> /\ Other.type = "other"
<1>1. <<>> \in Id
  BY EmptySeq DEF Id
<1> QED BY <1>1 DEF Other, Message

\* A handler that leaves queue and request alone.
LEMMA Unmoved ==
    ASSUME NEW v, NEW q \in Seq(Message), NEW s, NEW x, NEW c, Orderly(s), Served(v, q, s, c),
           x \in Session, x.sending = s.sending, x.queue = s.queue, x.request = s.request
    PROVE  Handled(v, q, s, x, c)
<1>1. Orderly(x)
  BY DEF Orderly
<1>2. Out(x, s.sending, q) = q
  BY DEF Out
<1>3. Served(v, q, x, c)
  BY DEF Served
<1> QED BY <1>1, <1>2, <1>3 DEF Handled

\* The next result, or an empty one.
LEMMA SentIs ==
    ASSUME NEW v, NEW q \in Seq(Message), NEW s, NEW c \in Id, NEW current \in Int, current <= Len(c),
           Orderly(s), Served(v, q, s, c), ~blocked(s)
    PROVE  Handled(v, q, s, sent(s, c, current), c)
<1> DEFINE a == s.request
           r == [a EXCEPT !.start = IF more(a, current) THEN @ + 1 ELSE @, !.flight = @ - 1]
           m == Result(IF more(a, current) THEN Cut(c, a.start) ELSE <<>>)
           x == sent(s, c, current)
<1>1. /\ s \in Session /\ s.queue = <<>> /\ ~s.sending
      /\ a \in Wanted /\ a.asked /\ a.flight # 0 /\ a.flight \in Nat /\ a.start \in Int
  BY Zenon DEF Orderly, blocked, Session, Wanted
<1>2. /\ r \in Wanted /\ r.asked /\ r.flight = a.flight - 1
      /\ r.start = IF more(a, current) THEN a.start + 1 ELSE a.start
  <2> DEFINE st == IF more(a, current) THEN a.start + 1 ELSE a.start
             fl == a.flight - 1
  <2>1. st \in Int /\ fl \in Nat
    BY <1>1
  <2>2. r = [a EXCEPT !.start = st, !.flight = fl]
    OBVIOUS
  <2> HIDE DEF st, fl, r, a
  <2>3. r \in Wanted /\ r.asked = a.asked /\ r.flight = fl /\ r.start = st
    BY <1>1, <2>1, <2>2, Zenon DEF Wanted
  <2> QED BY <1>1, <2>3, Zenon DEF st, fl
<1>3. PICK last \in Id : OnWay(v, q, last) /\ Agreed(a, c, last)
  BY DEF Served
<1>4. /\ 1 <= a.start /\ a.start - 1 <= Len(last) /\ a.start - 1 <= Len(c)
      /\ Cut(c, a.start - 1) = Cut(last, a.start - 1)
  BY <1>1, <1>3 DEF Agreed
<1>5. Len(c) \in Nat /\ Len(last) \in Nat
  BY LenProperties DEF Id
<1>6. m \in Message /\ m.type = "result" /\ \E next \in Id : Step(last, m.this, next) /\ Agreed(r, c, next)
  <2>1. CASE more(a, current)
    <3> DEFINE id == Cut(c, a.start)
    <3>1. a.start <= current /\ a.start <= Len(c) /\ a.start \in 0 .. Len(c) /\ a.start \in Nat
      BY <1>1, <1>4, <1>5, <2>1 DEF more
    <3>2. id \in Id /\ Len(id) = a.start /\ \A i \in 1 .. a.start : id[i] = c[i]
      BY <3>1, CutIs, Zenon DEF Id
    <3>3. m = Result(id) /\ m.this = id /\ m.type = "result" /\ m \in Message
      BY <2>1, <3>2 DEF Result, Message
    <3>4. Cut(id, a.start - 1) = Cut(c, a.start - 1) /\ Cut(id, a.start) = Cut(c, a.start)
      <4>1. \A i \in 1 .. a.start - 1 : id[i] = c[i]
        BY <3>1, <3>2
      <4>2. a.start - 1 \in Nat /\ a.start - 1 <= Len(id) /\ a.start - 1 <= Len(c)
        BY <1>4, <1>5, <3>1, <3>2
      <4>3. Cut(id, a.start - 1) = Cut(c, a.start - 1)
        BY <3>2, <4>1, <4>2, CutsAgree, Zenon DEF Id
      <4>4. a.start <= Len(id)
        BY <3>1, <3>2
      <4>5. Cut(id, a.start) = Cut(c, a.start)
        BY <3>1, <3>2, <4>4, CutsAgree, Zenon DEF Id
      <4> QED BY <4>3, <4>5
    <3>5. id # <<>>
      BY <1>4, <3>1, <3>2
    <3> HIDE DEF id
    <3>6. Step(last, id, id)
      BY <1>1, <1>4, <1>5, <3>2, <3>4, <3>5 DEF Step
    <3>7. r.start = a.start + 1 /\ r.start - 1 = a.start
      BY <1>1, <1>2, <2>1
    <3>8. Agreed(r, c, id)
      BY <1>1, <1>4, <1>5, <3>1, <3>2, <3>4, <3>7 DEF Agreed, id
    <3> QED BY <3>2, <3>3, <3>6, <3>8
  <2>2. CASE ~more(a, current)
    <3>1. <<>> \in Id
      BY EmptySeq, Zenon DEF Id
    <3>2. m = Result(<<>>) /\ m.this = <<>> /\ m.type = "result" /\ m \in Message
      BY <2>2, <3>1, Zenon DEF Result, Message
    <3>3. r.start = a.start
      BY <1>2, <2>2, Zenon
    <3>4. Step(last, <<>>, last) /\ Agreed(r, c, last)
      BY <1>4, <3>3, Zenon DEF Step, Agreed
    <3> QED BY <3>2, <3>4, Zenon
  <2> QED BY <2>1, <2>2
<1>7. x = [push(s, m) EXCEPT !.request = r, !.need = more(r, current)]
  BY Zenon DEF sent
<1> HIDE DEF r, m
<1>8. Append(s.queue, m) = <<m>> /\ <<m>> \in Seq(Message) /\ Len(<<m>>) = 1 /\ Head(<<m>>) = m /\ <<m>> # <<>>
  <2>1. Append(<<>>, m) = <<m>>
    OBVIOUS
  <2>2. <<m>> \in Seq(Message) /\ Len(<<m>>) = 1 /\ Head(<<m>>) = m
    BY <1>6
  <2> QED BY <1>1, <2>1, <2>2, Zenon
<1>9. push(s, m) = [s EXCEPT !.queue = <<m>>, !.sending = TRUE]
  BY <1>1, <1>8, Zenon DEF push
<1>10. more(r, current) \in BOOLEAN
  BY DEF more
<1> HIDE DEF a
<1>11. x \in Session /\ x.sending = TRUE /\ x.queue = <<m>> /\ x.request = r
  <2> DEFINE b == more(r, current)
  <2>1. x = [[s EXCEPT !.queue = <<m>>, !.sending = TRUE] EXCEPT !.request = r, !.need = b]
    BY <1>7, <1>9
  <2>2. b \in BOOLEAN
    BY <1>10
  <2> HIDE DEF b, x
  <2> QED BY <1>1, <1>2, <1>8, <2>1, <2>2, Zenon DEF Session
<1> HIDE DEF x
<1>12. Orderly(x)
  <2>1. \A i \in 2 .. Len(x.queue) : FALSE
    BY <1>8, <1>11
  <2> QED BY <1>8, <1>11, <2>1 DEF Orderly
<1>13. Out(x, s.sending, q) = Append(q, m)
  BY <1>1, <1>8, <1>11 DEF Out
<1>14. Append(q, m) \in Seq(Message)
  BY <1>6, AppendProperties
<1>15. Served(v, Append(q, m), x, c)
  <2>1. PICK next \in Id : Step(last, m.this, next) /\ Agreed(r, c, next)
    BY <1>6, Zenon
  <2>2. OnWay(v, Append(q, m), next)
    BY <1>3, <1>6, <2>1, OnWayAppend, Zenon
  <2> QED BY <1>2, <1>11, <2>1, <2>2, Zenon DEF Served
<1>16. r.flight + Cardinality(Of(Append(q, m), "result")) = s.request.flight + Cardinality(Of(q, "result"))
  <2>1. /\ Cardinality(Of(q, "result")) \in Nat
        /\ Cardinality(Of(Append(q, m), "result")) = Cardinality(Of(q, "result")) + 1
    BY <1>6, CountAppend
  <2> QED BY <1>1, <1>2, <2>1 DEF a
<1>17. x.request.asked = s.request.asked
  BY <1>1, <1>2, <1>11, Zenon DEF a, Wanted
<1> QED BY <1>11, <1>12, <1>13, <1>14, <1>15, <1>16, <1>17 DEF Handled, x

\* send_update(result)
LEMMA UpdateIs ==
    ASSUME NEW v, NEW q \in Seq(Message), NEW s, NEW c \in Id, NEW l \in 0 .. Len(c),
           Orderly(s), Served(v, q, s, c)
    PROVE  Handled(v, q, s, send_update(s, c, l), c)
<1>1. CASE blocked(s)
  <2> DEFINE x == [s EXCEPT !.need = TRUE]
  <2>1. x \in Session /\ x.sending = s.sending /\ x.queue = s.queue /\ x.request = s.request
    BY Zenon DEF Orderly, Session
  <2>2. send_update(s, c, l) = x
    BY <1>1 DEF send_update
  <2> HIDE DEF x
  <2> QED BY <2>1, <2>2, Unmoved
<1>2. CASE ~blocked(s)
  <2> DEFINE current == IF s.request.irreversible THEN l ELSE Len(c)
  <2>1. current \in Int /\ current <= Len(c)
    BY LenProperties DEF Id
  <2>2. send_update(s, c, l) = sent(s, c, current)
    BY <1>2 DEF send_update
  <2> HIDE DEF current
  <2> QED BY <1>2, <2>1, <2>2, SentIs
<1> QED BY <1>1, <1>2

\* send_update(false)
LEMMA UpdateIfNeededIs ==
    ASSUME NEW v, NEW q \in Seq(Message), NEW s, NEW c \in Id, NEW l \in 0 .. Len(c),
           Orderly(s), Served(v, q, s, c)
    PROVE  Handled(v, q, s, send_update_if_needed(s, c, l), c)
<1>1. CASE blocked(s) \/ ~s.need
  <2>1. send_update_if_needed(s, c, l) = s
    BY <1>1, Zenon DEF send_update_if_needed
  <2>2. s \in Session
    BY Zenon DEF Orderly
  <2> QED BY <2>1, <2>2, Unmoved
<1>2. CASE ~(blocked(s) \/ ~s.need)
  <2>1. send_update_if_needed(s, c, l) = send_update(s, c, l)
    BY <1>2, Zenon DEF send_update_if_needed
  <2> QED BY <2>1, UpdateIs, Zenon
<1> QED BY <1>1, <1>2

\* One more message without a block, of a session that goes on with the same request.
LEMMA OtherIsHarmless ==
    ASSUME NEW v, NEW q \in Seq(Message), NEW s, NEW x, NEW c, Served(v, q, s, c),
           x.request = s.request,
           ~s.request.asked => \A i \in 1 .. Len(x.queue) : x.queue[i] = Other
    PROVE  /\ Append(q, Other) \in Seq(Message)
           /\ Served(v, Append(q, Other), x, c)
           /\ Cardinality(Of(Append(q, Other), "result")) = Cardinality(Of(q, "result"))
<1>1. Append(q, Other) \in Seq(Message)
  BY OtherIs, AppendProperties, Zenon
<1>2. Cardinality(Of(Append(q, Other), "result")) = Cardinality(Of(q, "result"))
  <2>1. /\ Cardinality(Of(q, "result")) \in Nat
        /\ Cardinality(Of(Append(q, Other), "result")) = Cardinality(Of(q, "result")) + 0
    BY OtherIs, CountAppend
  <2> QED BY <2>1
<1>3. PICK last \in Id : /\ OnWay(v, q, last)
                         /\ Agreed(s.request, c, last)
                         /\ ~s.request.asked => v = Prefixes(last)
  BY DEF Served
<1>4. Step(last, Other.this, last)
  BY OtherIs, Zenon DEF Step
<1>5. OnWay(v, Append(q, Other), last)
  BY <1>3, <1>4, OtherIs, OnWayAppend, Zenon
<1>6. ASSUME ~s.request.asked, NEW i \in 1 .. Len(Append(q, Other)) PROVE Append(q, Other)[i] = Other
  <2>1. \A j \in 1 .. Len(q) : q[j] = Other
    BY <1>6, Zenon DEF Served
  <2>2. /\ Len(q) \in Nat /\ Len(Append(q, Other)) = Len(q) + 1
        /\ \A j \in 1 .. Len(q) : Append(q, Other)[j] = q[j]
        /\ Append(q, Other)[Len(q) + 1] = Other
    BY OtherIs, AppendProperties, LenProperties
  <2> QED BY <1>6, <2>1, <2>2
<1>7. Served(v, Append(q, Other), x, c)
  BY <1>3, <1>5, <1>6, Zenon DEF Served
<1> QED BY <1>1, <1>2, <1>7, Zenon

\* The answer to a request for the status.
LEMMA PushIs ==
    ASSUME NEW v, NEW q \in Seq(Message), NEW s, NEW c \in Id, Orderly(s), Served(v, q, s, c)
    PROVE  Handled(v, q, s, push(s, Other), c)
<1> DEFINE x == push(s, Other)  y == Append(s.queue, Other)
<1>1. s \in Session /\ s.queue \in Seq(Message) /\ s.sending \in BOOLEAN /\ (s.sending <=> s.queue # <<>>)
  BY Zenon DEF Orderly, Session
<1>2. /\ y \in Seq(Message) /\ Len(y) = Len(s.queue) + 1 /\ y # <<>>
      /\ \A i \in 1 .. Len(s.queue) : y[i] = s.queue[i]
      /\ y[Len(s.queue) + 1] = Other
      /\ Len(s.queue) \in Nat
  BY <1>1, OtherIs, AppendProperties, LenProperties
<1> HIDE DEF y
<1>3. x \in Session /\ x.queue = y /\ x.sending = TRUE /\ x.request = s.request
  <2>1. CASE s.sending
    <3>1. x = [s EXCEPT !.queue = y]
      BY <2>1 DEF push, y
    <3> HIDE DEF x
    <3> QED BY <1>1, <1>2, <2>1, <3>1, Zenon DEF Session
  <2>2. CASE ~s.sending
    <3>1. x = [s EXCEPT !.queue = y, !.sending = TRUE]
      BY <2>2 DEF push, y
    <3> HIDE DEF x
    <3> QED BY <1>1, <1>2, <3>1, Zenon DEF Session
  <2> QED BY <2>1, <2>2, Zenon
<1> HIDE DEF x
<1>4. Orderly(x)
  <2>1. ASSUME NEW i \in 2 .. Len(y) PROVE y[i] = Other
    <3>1. \A j \in 2 .. Len(s.queue) : s.queue[j] = Other
      BY DEF Orderly
    <3> QED BY <1>2, <2>1, <3>1
  <2> QED BY <1>2, <1>3, <2>1 DEF Orderly
<1>5. ~s.request.asked => \A i \in 1 .. Len(x.queue) : x.queue[i] = Other
  <2>1. ASSUME ~s.request.asked, NEW i \in 1 .. Len(y) PROVE y[i] = Other
    <3>1. \A j \in 1 .. Len(s.queue) : s.queue[j] = Other
      BY <2>1, Zenon DEF Served
    <3> QED BY <1>2, <2>1, <3>1
  <2> QED BY <1>3, <2>1
<1>6. CASE s.sending
  <2>1. Out(x, s.sending, q) = q
    BY <1>6, Zenon DEF Out
  <2>2. Served(v, q, x, c)
    BY <1>3, <1>5, Zenon DEF Served
  <2> QED BY <1>3, <1>4, <2>1, <2>2, Zenon DEF Handled, x
<1>7. CASE ~s.sending
  <2>1. y = <<Other>> /\ Head(y) = Other
    <3>1. s.queue = <<>>
      BY <1>1, <1>7, Zenon
    <3> QED BY <3>1 DEF y
  <2>2. Out(x, s.sending, q) = Append(q, Other)
    BY <1>3, <1>7, <2>1, Zenon DEF Out
  <2>3. /\ Append(q, Other) \in Seq(Message)
        /\ Served(v, Append(q, Other), x, c)
        /\ Cardinality(Of(Append(q, Other), "result")) = Cardinality(Of(q, "result"))
    BY <1>3, <1>5, OtherIsHarmless, Zenon
  <2> QED BY <1>3, <1>4, <2>2, <2>3, Zenon DEF Handled, x
<1> QED BY <1>6, <1>7, Zenon

\* What goes on after a write is the next message, or an update.
LEMMA WrittenIs ==
    ASSUME NEW v, NEW q \in Seq(Message), NEW s, NEW c \in Id, NEW l \in 0 .. Len(c),
           Orderly(s), Served(v, q, s, c), s.sending
    PROVE  LET rest == [s EXCEPT !.queue = Tail(@), !.sending = FALSE]
           IN  rest.request = s.request /\ rest.sending = FALSE /\ Handled(v, q, rest, send(rest, c, l), c)
<1> DEFINE y == Tail(s.queue)  rest == [s EXCEPT !.queue = y, !.sending = FALSE]
<1>1. s \in Session /\ s.queue \in Seq(Message) /\ s.queue # <<>>
  BY DEF Orderly, Session
<1>2. /\ y \in Seq(Message) /\ Len(y) = Len(s.queue) - 1 /\ Len(y) \in Nat
      /\ \A i \in 1 .. Len(y) : y[i] = s.queue[i + 1]
  <2>1. Len(s.queue) \in Nat /\ Len(s.queue) # 0
    BY <1>1, LenProperties, EmptySeq
  <2> QED BY <1>1, <2>1, HeadTailProperties
<1> HIDE DEF y
<1>3. rest \in Session /\ rest.queue = y /\ rest.sending = FALSE /\ rest.request = s.request
  BY <1>1, <1>2, Zenon DEF Session
<1>4. \A i \in 1 .. Len(y) : y[i] = Other
  <2>1. ASSUME NEW i \in 1 .. Len(y) PROVE y[i] = Other
    <3>1. i + 1 \in 2 .. Len(s.queue)
      BY <1>2, <2>1
    <3>2. s.queue[i + 1] = Other
      BY <3>1 DEF Orderly
    <3> QED BY <1>2, <3>2
  <2> QED BY <2>1
<1> HIDE DEF rest
<1>5. Served(v, q, rest, c)
  BY <1>3, <1>4 DEF Served
<1>6. CASE y = <<>>
  <2>1. \A i \in 2 .. Len(y) : y[i] = Other
    BY <1>2, <1>4
  <2>2. Orderly(rest)
    BY <1>3, <1>6, <2>1, Zenon DEF Orderly
  <2>3. send(rest, c, l) = send_update_if_needed(rest, c, l)
    BY <1>3, <1>6, Zenon DEF send
  <2>4. Handled(v, q, rest, send(rest, c, l), c)
    BY <1>5, <2>2, <2>3, UpdateIfNeededIs, Zenon
  <2> QED BY <1>3, <2>4, Zenon DEF rest, y
<1>7. CASE y # <<>>
  <2> DEFINE x == [rest EXCEPT !.sending = TRUE]
  <2>1. send(rest, c, l) = x
    BY <1>3, <1>7, Zenon DEF send
  <2>2. x \in Session /\ x.queue = y /\ x.sending = TRUE /\ x.request = s.request
    BY <1>3, Zenon DEF Session
  <2> HIDE DEF x
  <2>3. Orderly(x)
    <3>1. \A i \in 2 .. Len(y) : y[i] = Other
      BY <1>2, <1>4
    <3> QED BY <1>7, <2>2, <3>1 DEF Orderly
  <2>4. Head(y) = Other
    <3>1. Len(y) # 0 /\ 1 \in 1 .. Len(y)
      BY <1>2, <1>7, EmptySeq
    <3>2. Head(y) = y[1]
      BY <1>2, <3>1
    <3> QED BY <1>4, <3>1, <3>2
  <2>5. Out(x, rest.sending, q) = Append(q, Other)
    BY <1>3, <2>2, <2>4, Zenon DEF Out
  <2>6. /\ Append(q, Other) \in Seq(Message)
        /\ Served(v, Append(q, Other), x, c)
        /\ Cardinality(Of(Append(q, Other), "result")) = Cardinality(Of(q, "result"))
    BY <1>3, <1>4, <1>5, <2>2, OtherIsHarmless, Zenon
  <2>7. Handled(v, q, rest, send(rest, c, l), c)
    BY <1>3, <2>1, <2>2, <2>3, <2>5, <2>6, Zenon DEF Handled
  <2> QED BY <1>3, <2>7, Zenon DEF rest, y
<1> QED BY <1>6, <1>7

\* The least of some positive numbers.
LEMMA LeastIs ==
    ASSUME NEW T, T \subseteq Nat, T # {}
    PROVE  Min(T) \in T /\ \A y \in T : Min(T) <= y
<1> DEFINE R == {p \in Nat \X Nat : p[1] < p[2]}
<1>1. IsWellFoundedOn(R, Nat)
  BY NatLessThanWellFounded DEF OpToRel
<1>2. \A x, y \in Nat : y < x => <<y, x>> \in R
  OBVIOUS
<1> HIDE DEF R
<1>3. PICK k \in T : \A y \in T : ~(<<y, k>> \in R)
  BY <1>1, WFMin, Zenon
<1>4. ASSUME NEW y \in T PROVE k <= y
  <2>1. k \in Nat /\ y \in Nat
    OBVIOUS
  <2>2. ~(y < k)
    BY <1>2, <1>3, <2>1, Zenon
  <2> QED BY <2>1, <2>2
<1> QED BY <1>3, <1>4, Zenon DEF Min

\* The request of a client with the prefixes of p starts where p leaves the branch.
LEMMA StartAgrees ==
    ASSUME NEW p \in Id, NEW m, m.have = Prefixes(p), m.start = Len(p) + 1, chain \in Id
    PROVE  /\ start_agreed(m) \in Int
           /\ 1 <= start_agreed(m)
           /\ start_agreed(m) - 1 <= Len(p)
           /\ start_agreed(m) - 1 <= Len(chain)
           /\ Cut(chain, start_agreed(m) - 1) = Cut(p, start_agreed(m) - 1)
<1> DEFINE lost == {i \in 1 .. Len(m.have) : i < m.start /\ (i > Len(chain) \/ m.have[i] # Cut(chain, i))}
           T == lost \cup {m.start}
           n == Min(T)
<1>1. /\ Len(p) \in Nat /\ Len(chain) \in Nat /\ Len(m.have) = Len(p)
      /\ \A i \in 1 .. Len(p) : m.have[i] = Cut(p, i)
  BY PrefixesAre, LenProperties DEF Id
<1>2. n \in T /\ \A y \in T : n <= y
  <2>1. T \subseteq Nat /\ T # {}
    BY <1>1
  <2> HIDE DEF T
  <2> QED BY <2>1, LeastIs, Zenon
<1>3. start_agreed(m) = n
  BY DEF start_agreed
<1> HIDE DEF n
<1>4. n \in 1 .. Len(p) + 1 /\ n \in Int
  BY <1>1, <1>2
<1>5. ASSUME NEW i \in 1 .. Len(p), i < n
      PROVE  i <= Len(chain) /\ Cut(p, i) = Cut(chain, i)
  <2>1. i \notin T
    <3> HIDE DEF T
    <3> QED BY <1>2, <1>4, <1>5
  <2>2. i \in 1 .. Len(m.have) /\ i < m.start
    BY <1>1, <1>5
  <2>3. ~(i > Len(chain)) /\ m.have[i] = Cut(chain, i)
    BY <2>1, <2>2, Zenon
  <2> QED BY <1>1, <2>3
<1> HIDE DEF T
<1>6. CASE n = 1
  <2>1. n - 1 = 0 /\ 0 \in Nat /\ 0 <= Len(p) /\ 0 <= Len(chain) /\ \A i \in 1 .. 0 : chain[i] = p[i]
    BY <1>1, <1>6
  <2>2. Cut(chain, 0) = Cut(p, 0)
    BY <2>1, CutsAgree, Zenon DEF Id
  <2> QED BY <1>3, <1>4, <2>1, <2>2
<1>7. CASE n # 1
  <2>1. n - 1 \in 1 .. Len(p) /\ n - 1 < n
    BY <1>1, <1>4, <1>7
  <2>2. n - 1 <= Len(chain) /\ Cut(p, n - 1) = Cut(chain, n - 1)
    BY <1>5, <2>1, Zenon
  <2> QED BY <1>1, <1>3, <1>4, <2>1, <2>2
<1> QED BY <1>6, <1>7

\* What a change of the branch to d, above the block k, makes of the session s.
Forked(v, q, s, x, d, k) ==
    /\ d \in Id /\ Len(d) = k + 1
    /\ Orderly(x) /\ Served(v, q, x, d)
    /\ x.sending = s.sending
    /\ x.request.asked = s.request.asked /\ x.request.flight = s.request.flight

\* The branch changes above the block k, and the request is lowered to the next block.
LEMMA LoweredIs ==
    ASSUME NEW v, NEW q \in Seq(Message), NEW s, NEW c \in Id, NEW k \in 0 .. Len(c), NEW b \in Labels,
           Orderly(s), Served(v, q, s, c)
    PROVE  Forked(v, q, s, lowered(s, Len(Append(Cut(c, k), b))), Append(Cut(c, k), b), k)
<1> DEFINE d == Append(Cut(c, k), b)  x == lowered(s, Len(d))
<1>1. Len(c) \in Nat /\ k \in Nat /\ k <= Len(c)
  BY LenProperties DEF Id
<1>2. Cut(c, k) \in Seq(Labels) /\ Len(Cut(c, k)) = k /\ \A i \in 1 .. k : Cut(c, k)[i] = c[i]
  BY CutIs, Zenon DEF Id
<1>3. d \in Id /\ Len(d) = k + 1 /\ \A i \in 1 .. k : d[i] = c[i]
  <2> DEFINE h == Cut(c, k)
  <2> HIDE DEF h
  <2>1. /\ Append(h, b) \in Seq(Labels) /\ Len(Append(h, b)) = Len(h) + 1
        /\ \A i \in 1 .. Len(h) : Append(h, b)[i] = h[i]
    BY <1>2, AppendProperties DEF h
  <2> QED BY <1>2, <2>1, Zenon DEF h, Id
<1> HIDE DEF d
<1>4. s \in Session /\ s.request \in Wanted /\ s.request.start \in Int
  BY Zenon DEF Orderly, Session, Wanted
<1>5. /\ x \in Session /\ x.queue = s.queue /\ x.sending = s.sending /\ x.need = s.need
      /\ x.request \in Wanted
      /\ x.request.asked = s.request.asked /\ x.request.flight = s.request.flight
      /\ x.request.asked => /\ x.request.start \in Int
                            /\ x.request.start <= k + 1
                            /\ x.request.start = k + 1 \/ x.request.start = s.request.start
  <2>1. CASE s.request.asked /\ Len(d) < s.request.start
    <3> DEFINE r == [s.request EXCEPT !.start = k + 1]
    <3>1. x = [s EXCEPT !.request = r]
      BY <1>3, <2>1, Zenon DEF lowered
    <3>2. r \in Wanted /\ r.asked = s.request.asked /\ r.flight = s.request.flight /\ r.start = k + 1
      BY <1>1, <1>4 DEF Wanted
    <3> HIDE DEF r, x
    <3>3. x \in Session /\ x.queue = s.queue /\ x.sending = s.sending /\ x.need = s.need /\ x.request = r
      BY <1>4, <3>1, <3>2 DEF Session
    <3> QED BY <1>1, <3>2, <3>3
  <2>2. CASE ~(s.request.asked /\ Len(d) < s.request.start)
    <3>1. x = s
      BY <2>2, Zenon DEF lowered
    <3>2. x.request.asked => ~(k + 1 < x.request.start)
      BY <1>3, <2>2, <3>1, Zenon
    <3> QED BY <1>1, <1>4, <3>1, <3>2
  <2> QED BY <2>1, <2>2, Zenon
<1> HIDE DEF x
<1>6. Orderly(x)
  BY <1>5, Zenon DEF Orderly
<1>7. PICK last \in Id : /\ OnWay(v, q, last)
                         /\ Agreed(s.request, c, last)
                         /\ ~s.request.asked => v = Prefixes(last)
  BY Zenon DEF Served
<1>8. Agreed(x.request, d, last)
  <2>1. CASE x.request.asked
    <3> DEFINE a == s.request.start - 1  n == x.request.start - 1
    <3>1. /\ a \in Int /\ 0 <= a /\ a <= Len(last) /\ a <= Len(c) /\ Cut(c, a) = Cut(last, a)
      BY <1>4, <1>5, <1>7, <2>1 DEF Agreed
    <3>2. s.request.asked
      BY <1>5, <2>1, Zenon
    <3>3. /\ n \in Nat /\ n <= a /\ n <= k /\ n + 1 = x.request.start
      <4>1. CASE x.request.start = s.request.start
        BY <1>1, <1>4, <1>5, <2>1, <3>1, <4>1
      <4>2. CASE x.request.start # s.request.start
        <5>1. x.request.start = k + 1 /\ k + 1 <= s.request.start
          <6>1. x.request.start = k + 1
            BY <1>5, <2>1, <4>2, Zenon
          <6>2. x = lowered(s, k + 1)
            BY <1>3, Zenon DEF x
          <6>3. k + 1 < s.request.start
            BY <4>2, <6>2, Zenon DEF lowered
          <6> QED BY <1>1, <1>4, <6>1, <6>3
        <5> QED BY <1>1, <1>4, <5>1
      <4> QED BY <4>1, <4>2, Zenon
    <3> HIDE DEF a, n
    <3>4. Len(last) \in Nat /\ n <= Len(last) /\ n <= Len(c) /\ n <= Len(d) /\ a \in Nat
      BY <1>1, <1>3, <3>1, <3>3, LenProperties DEF Id
    <3>5. \A i \in 1 .. a : c[i] = last[i]
      BY <3>1, <3>4, CutAgrees, Zenon DEF Id
    <3>6. \A i \in 1 .. n : d[i] = last[i]
      <4>1. \A i \in 1 .. n : i \in 1 .. a /\ i \in 1 .. k
        BY <1>1, <3>3, <3>4
      <4> QED BY <1>3, <3>5, <4>1, Zenon
    <3>7. Cut(d, n) = Cut(last, n)
      BY <1>3, <3>3, <3>4, <3>6, CutsAgree, Zenon DEF Id
    <3> QED BY <1>5, <2>1, <3>3, <3>4, <3>7 DEF Agreed, n
  <2>2. CASE ~x.request.asked
    BY <2>2, Zenon DEF Agreed
  <2> QED BY <2>1, <2>2, Zenon
<1>9. Served(v, q, x, d)
  BY <1>5, <1>7, <1>8, Zenon DEF Served
<1>10. Forked(v, q, s, x, d, k)
  BY <1>3, <1>5, <1>6, <1>9, Zenon DEF Forked
<1> QED BY <1>10, Zenon DEF x, d

-----------------------------------------------------------------------------
(* Proofs: the steps.                                                      *)

\* A request on its way is the only one, and tells what the client still has; nothing is
\* acknowledged before it.
Asked(in, asked, v, cr) ==
    /\ \A i \in 1 .. Len(in) : in[i].type = "blocks" =>
          /\ ~asked
          /\ in[i].have = v /\ in[i].start = Len(v) + 1 /\ in[i].flight = cr
          /\ \A j \in 1 .. Len(in) : in[j].type = "blocks" => j = i
    /\ ~asked => \A i \in 1 .. Len(in) : in[i].type # "ack"

\* The results that may still be sent, are on their way or are being acknowledged.
Counted(r, q, in, cr) ==
    r.asked => r.flight + Cardinality(Of(q, "result")) + Cardinality(Of(in, "ack")) = cr

NotYet(in, asked, cr) == ~asked /\ cr = 0 /\ \A i \in 1 .. Len(in) : in[i].type # "blocks"

IInv ==
    /\ chain \in Id /\ lib \in 0 .. Len(chain)
    /\ Orderly(session) /\ outbox \in Seq(Message) /\ Served(view, outbox, session, chain)
    /\ inbox \in Seq(Question) /\ credit \in Nat
    /\ Asked(inbox, session.request.asked, view, credit)
    /\ Counted(session.request, outbox, inbox, credit)
    /\ asks = 0 => NotYet(inbox, session.request.asked, credit)

\* Numbers of messages are numbers.
LEMMA CountIs ==
    ASSUME NEW S, NEW q \in Seq(S), NEW type
    PROVE  Cardinality(Of(q, type)) \in Nat
<1>1. IsFiniteSet(1 .. Len(q)) /\ Of(q, type) \in SUBSET (1 .. Len(q))
  BY LenProperties, FS_Interval DEF Of
<1>2. IsFiniteSet(Of(q, type))
  BY <1>1, FS_Subset, Zenon
<1> QED BY <1>2, FS_CardinalityType, Zenon

\* The session reads a message.
LEMMA AskedTail ==
    ASSUME NEW in \in Seq(Question), in # <<>>, NEW asked \in BOOLEAN, NEW v, NEW cr, Asked(in, asked, v, cr)
    PROVE  /\ Head(in) \in Question /\ Tail(in) \in Seq(Question)
           /\ Asked(Tail(in), asked, v, cr)
           /\ Head(in).type = "blocks" =>
                 /\ ~asked /\ Head(in).have = v /\ Head(in).start = Len(v) + 1 /\ Head(in).flight = cr
                 /\ \A i \in 1 .. Len(Tail(in)) : Tail(in)[i].type # "blocks"
           /\ Head(in).type = "ack" => asked
           /\ (\A i \in 1 .. Len(in) : in[i].type # "blocks") =>
                 \A i \in 1 .. Len(Tail(in)) : Tail(in)[i].type # "blocks"
<1> DEFINE n == Len(in)
<1>1. n \in Nat /\ n # 0
  BY LenProperties, EmptySeq, Zenon
<1>2. /\ Head(in) \in Question /\ Tail(in) \in Seq(Question) /\ Len(Tail(in)) = n - 1
      /\ \A i \in 1 .. n - 1 : Tail(in)[i] = in[i + 1]
  BY HeadTailProperties, Zenon
<1>3. Head(in) = in[1] /\ 1 \in 1 .. n
  BY <1>1
<1> HIDE DEF n
<1>4. \A i \in 1 .. n - 1 : i + 1 \in 1 .. n /\ i + 1 # 1
  BY <1>1
<1>5. \A i \in 1 .. n - 1, j \in 1 .. n - 1 : i + 1 = j + 1 => i = j
  BY <1>1
<1>6. Asked(Tail(in), asked, v, cr)
  <2>1. ASSUME NEW i \in 1 .. n - 1, Tail(in)[i].type = "blocks"
        PROVE  /\ ~asked
               /\ Tail(in)[i].have = v /\ Tail(in)[i].start = Len(v) + 1 /\ Tail(in)[i].flight = cr
               /\ \A j \in 1 .. n - 1 : Tail(in)[j].type = "blocks" => j = i
    <3>1. /\ ~asked
          /\ in[i + 1].have = v /\ in[i + 1].start = Len(v) + 1 /\ in[i + 1].flight = cr
          /\ \A j \in 1 .. n : in[j].type = "blocks" => j = i + 1
      BY <1>2, <1>4, <2>1, Zenon DEF Asked, n
    <3>2. \A j \in 1 .. n - 1 : Tail(in)[j].type = "blocks" => j + 1 = i + 1
      BY <1>2, <1>4, <3>1, Zenon
    <3> QED BY <1>2, <1>5, <3>1, <3>2, Zenon
  <2>2. ASSUME ~asked, NEW i \in 1 .. n - 1 PROVE Tail(in)[i].type # "ack"
    BY <1>2, <1>4, <2>2 DEF Asked, n
  <2> QED BY <1>2, <2>1, <2>2, Zenon DEF Asked
<1>7. ASSUME Head(in).type = "blocks"
      PROVE  /\ ~asked /\ Head(in).have = v /\ Head(in).start = Len(v) + 1 /\ Head(in).flight = cr
             /\ \A i \in 1 .. n - 1 : Tail(in)[i].type # "blocks"
  <2>1. /\ ~asked
        /\ in[1].have = v /\ in[1].start = Len(v) + 1 /\ in[1].flight = cr
        /\ \A j \in 1 .. n : in[j].type = "blocks" => j = 1
    BY <1>3, <1>7, Zenon DEF Asked, n
  <2>2. \A i \in 1 .. n - 1 : in[i + 1].type # "blocks"
    BY <1>4, <2>1, Zenon
  <2> QED BY <1>2, <1>3, <2>1, <2>2, Zenon
<1>8. Head(in).type = "ack" => asked
  BY <1>3, Zenon DEF Asked, n
<1>9. (\A i \in 1 .. n : in[i].type # "blocks") => \A i \in 1 .. n - 1 : Tail(in)[i].type # "blocks"
  BY <1>2, <1>4, Zenon
<1> QED BY <1>2, <1>6, <1>7, <1>8, <1>9, Zenon DEF n

\* A message to the session that is not a request for blocks.
LEMMA AskedAppend ==
    ASSUME NEW in \in Seq(Question), NEW m \in Question, m.type # "blocks",
           NEW asked \in BOOLEAN, m.type = "ack" => asked, NEW v, NEW cr, Asked(in, asked, v, cr)
    PROVE  /\ Append(in, m) \in Seq(Question) /\ Asked(Append(in, m), asked, v, cr)
           /\ NotYet(in, asked, cr) => NotYet(Append(in, m), asked, cr)
<1> DEFINE n == Len(in)  out == Append(in, m)
<1>1. n \in Nat
  BY LenProperties, Zenon
<1>2. /\ out \in Seq(Question) /\ Len(out) = n + 1 /\ out[n + 1] = m
      /\ \A i \in 1 .. n : out[i] = in[i]
  BY AppendProperties
<1> HIDE DEF n, out
<1>3. \A i \in 1 .. n + 1 : i \in 1 .. n \/ i = n + 1
  BY <1>1
<1>4. \A i \in 1 .. n + 1 : out[i].type = "blocks" => i \in 1 .. n /\ out[i] = in[i]
  BY <1>2, <1>3, Zenon
<1>5. Asked(out, asked, v, cr)
  <2>1. \A i \in 1 .. n + 1 : out[i].type = "blocks" =>
          /\ ~asked
          /\ out[i].have = v /\ out[i].start = Len(v) + 1 /\ out[i].flight = cr
          /\ \A j \in 1 .. n + 1 : out[j].type = "blocks" => j = i
    BY <1>4, Zenon DEF Asked, n
  <2>2. ~asked => \A i \in 1 .. n + 1 : out[i].type # "ack"
    BY <1>2, <1>3, Zenon DEF Asked, n
  <2> QED BY <1>2, <2>1, <2>2, Zenon DEF Asked
<1>6. NotYet(in, asked, cr) => NotYet(out, asked, cr)
  BY <1>2, <1>4, Zenon DEF NotYet, n
<1> QED BY <1>2, <1>5, <1>6, Zenon DEF out

\* A session that starts, of a client with the prefixes of a path.
LEMMA FreshIs ==
    ASSUME NEW p \in Id, NEW c \in Id
    PROVE  /\ Orderly(NewSession) /\ <<Other>> \in Seq(Message)
           /\ Served(Prefixes(p), <<Other>>, NewSession, c)
           /\ ~NewSession.request.asked
<1>1. NoRequest \in Wanted /\ ~NoRequest.asked
  BY DEF NoRequest, Wanted
<1>2. /\ <<Other>> \in Seq(Message) /\ Len(<<Other>>) = 1 /\ <<Other>> # <<>>
      /\ \A i \in 1 .. 1 : <<Other>>[i] = Other
  BY OtherIs
<1>3. NewSession \in Session /\ NewSession.sending = TRUE /\ NewSession.queue = <<Other>> /\ NewSession.request = NoRequest
  BY <1>1, <1>2, Zenon DEF NewSession, Session
<1>4. Orderly(NewSession)
  <2>1. \A i \in 2 .. 1 : FALSE
    OBVIOUS
  <2> QED BY <1>2, <1>3, <2>1, Zenon DEF Orderly
<1>5. OnWay(Prefixes(p), <<Other>>, p)
  <2> DEFINE t == [k \in 0 .. 1 |-> p]
  <2>1. t \in [0 .. 1 -> Id] /\ t[0] = p /\ t[1] = p
    OBVIOUS
  <2> HIDE DEF t
  <2>2. \A k \in 1 .. 1 : Step(t[k - 1], <<Other>>[k].this, t[k])
    <3>1. Step(p, Other.this, p)
      BY OtherIs, Zenon DEF Step
    <3>2. \A k \in 1 .. 1 : k = 1 /\ k - 1 = 0
      OBVIOUS
    <3> QED BY <1>2, <2>1, <3>1, <3>2, Zenon
  <2> QED BY <1>2, <2>1, <2>2, Zenon DEF OnWay
<1>6. Agreed(NoRequest, c, p)
  BY <1>1, Zenon DEF Agreed
<1> QED BY <1>1, <1>2, <1>3, <1>4, <1>5, <1>6, Zenon DEF Served

\* The invariant implies what the client is promised.
LEMMA IInvServes == ASSUME IInv PROVE ServesClient
<1>1. ViewIsBranch
  <2>1. PICK last \in Id : OnWay(view, outbox, last)
    BY Zenon DEF IInv, Served
  <2>2. PICK t \in [0 .. Len(outbox) -> Id] : view = Prefixes(t[0])
    BY <2>1, Zenon DEF OnWay
  <2>3. t[0] \in Id
    <3>1. 0 \in 0 .. Len(outbox)
      BY LenProperties DEF IInv
    <3> QED BY <2>2, <3>1, Zenon
  <2> QED BY <2>2, <2>3, PrefixesAreBranch, Zenon
<1>2. InFlight
  <2>1. /\ Cardinality(Of(outbox, "result")) \in Nat /\ Cardinality(Of(inbox, "ack")) \in Nat
        /\ credit \in Nat
    BY CountIs, Zenon DEF IInv
  <2>2. CASE session.request.asked
    <3>1. session.request.flight \in Nat
      BY Zenon DEF IInv, Orderly, Session, Wanted
    <3>2. session.request.flight + Cardinality(Of(outbox, "result")) + Cardinality(Of(inbox, "ack")) = credit
      BY <2>2, Zenon DEF IInv, Counted
    <3> QED BY <2>1, <3>1, <3>2 DEF InFlight
  <2>3. CASE ~session.request.asked
    <3>1. \A i \in 1 .. Len(outbox) : outbox[i].type # "result"
      BY <2>3, OtherIs, Zenon DEF IInv, Served
    <3>2. \A i \in 1 .. Len(inbox) : inbox[i].type # "ack"
      BY <2>3, Zenon DEF IInv, Asked
    <3>3. Cardinality(Of(outbox, "result")) = 0 /\ Cardinality(Of(inbox, "ack")) = 0
      BY <3>1, <3>2, CountNone, Zenon
    <3> QED BY <2>1, <3>3 DEF InFlight
  <2> QED BY <2>2, <2>3, Zenon
<1> QED BY <1>1, <1>2, Zenon DEF ServesClient

\* A function to labels is a path.
LEMMA PathIs ==
    ASSUME NEW n \in Nat, NEW p \in [1 .. n -> Labels]
    PROVE  p \in Id /\ Len(p) = n
<1>1. p \in Seq(Labels)
  BY IsASeq
<1>2. DOMAIN p = 1 .. n
  OBVIOUS
<1> QED BY <1>1, <1>2, LenProperties DEF Id

\* The first session.
LEMMA InitServes == ASSUME Init PROVE IInv
<1>1. chain \in Id /\ Len(chain) = 2 /\ lib \in 0 .. Len(chain)
  <2>1. (CHOOSE b \in Labels : TRUE) \in Labels
    BY RequestsAssumption, Zenon
  <2>2. chain \in [1 .. 2 -> Labels] /\ lib = 1 /\ 2 \in Nat
    BY <2>1, Zenon DEF Init
  <2>3. chain \in Id /\ Len(chain) = 2
    BY <2>2, PathIs, Zenon
  <2> QED BY <2>2, <2>3
<1>2. PICK p \in Id : view = Prefixes(p)
  <2>1. PICK n \in 0 .. 2 : \E p \in Paths(n) : view = [i \in 1 .. n |-> Cut(p, i)]
    BY DEF Init
  <2>2. PICK p \in Paths(n) : view = [i \in 1 .. n |-> Cut(p, i)]
    BY <2>1
  <2>3. n \in Nat /\ p \in [1 .. n -> Labels]
    BY DEF Paths
  <2>4. p \in Id /\ Len(p) = n
    BY <2>3, PathIs
  <2> QED BY <2>2, <2>4 DEF Prefixes
<1>3. /\ session = NewSession /\ inbox = <<>> /\ outbox = <<Other>> /\ credit = 0
  BY DEF Init
<1>4. /\ Orderly(NewSession) /\ <<Other>> \in Seq(Message)
      /\ Served(view, <<Other>>, NewSession, chain)
      /\ ~NewSession.request.asked
  BY <1>1, <1>2, FreshIs
<1>5. <<>> \in Seq(Question) /\ \A i \in 1 .. Len(<<>>) : FALSE
  BY EmptySeq
<1>6. Asked(<<>>, NewSession.request.asked, view, 0) /\ NotYet(<<>>, NewSession.request.asked, 0)
  BY <1>4, <1>5, Zenon DEF Asked, NotYet
<1>7. Counted(NewSession.request, <<Other>>, <<>>, 0)
  BY <1>4, Zenon DEF Counted
<1> QED BY <1>1, <1>3, <1>4, <1>5, <1>6, <1>7, Zenon DEF IInv

\* A handler of the session that reads nothing.
LEMMA HandlerServes ==
    ASSUME IInv, NEW s, NEW x, Handled(view, outbox, s, x, chain'),
           s.request.asked = session.request.asked, s.request.flight = session.request.flight,
           session' = x, outbox' = Out(x, s.sending, outbox),
           chain' \in Id, lib' \in 0 .. Len(chain'),
           UNCHANGED <<inbox, view, credit, asks>>
    PROVE  IInv'
<1>1. /\ Orderly(x) /\ outbox' \in Seq(Message) /\ Served(view, outbox', x, chain')
      /\ x.request.asked = session.request.asked
      /\ x.request.flight + Cardinality(Of(outbox', "result")) =
            session.request.flight + Cardinality(Of(outbox, "result"))
  BY Zenon DEF Handled
<1>2. Counted(x.request, outbox', inbox, credit)
  <2>1. /\ Cardinality(Of(outbox', "result")) \in Nat /\ Cardinality(Of(outbox, "result")) \in Nat
        /\ Cardinality(Of(inbox, "ack")) \in Nat
    BY <1>1, CountIs, Zenon DEF IInv
  <2>2. x.request.flight \in Nat /\ session.request.flight \in Nat
    BY <1>1, Zenon DEF IInv, Orderly, Session, Wanted
  <2>3. ASSUME x.request.asked
        PROVE  x.request.flight + Cardinality(Of(outbox', "result")) + Cardinality(Of(inbox, "ack")) = credit
    <3>1. session.request.flight + Cardinality(Of(outbox, "result")) + Cardinality(Of(inbox, "ack")) = credit
      BY <1>1, <2>3, Zenon DEF IInv, Counted
    <3> QED BY <1>1, <2>1, <2>2, <3>1, Zenon
  <2> QED BY <2>3, Zenon DEF Counted
<1>3. inbox' = inbox /\ view' = view /\ credit' = credit /\ asks' = asks
  OBVIOUS
<1>4. /\ inbox \in Seq(Question) /\ credit \in Nat
      /\ Asked(inbox, session.request.asked, view, credit)
      /\ asks = 0 => NotYet(inbox, session.request.asked, credit)
  BY Zenon DEF IInv
<1> QED BY <1>1, <1>2, <1>3, <1>4, Zenon DEF IInv

LEMMA WrittenServes == ASSUME IInv, written PROVE IInv'
<1> DEFINE s == [session EXCEPT !.queue = Tail(@), !.sending = FALSE]  x == send(s, chain, lib)
<1>1. /\ chain \in Id /\ lib \in 0 .. Len(chain) /\ Orderly(session) /\ outbox \in Seq(Message)
      /\ Served(view, outbox, session, chain) /\ session.sending
  BY DEF IInv, written
<1>2. s.request = session.request /\ s.sending = FALSE /\ Handled(view, outbox, s, x, chain)
  BY <1>1, WrittenIs, Zenon
<1>3. session' = x /\ outbox' = Out(x, FALSE, outbox)
  BY DEF written, becomes, Out
<1>4. chain' = chain /\ lib' = lib /\ UNCHANGED <<inbox, view, credit, asks>>
  BY Zenon DEF written
<1> HIDE DEF s, x
<1> QED BY <1>1, <1>2, <1>3, <1>4, HandlerServes, Zenon

LEMMA AcceptServes == ASSUME IInv, on_accepted_block PROVE IInv'
<1>1. PICK k \in lib .. Len(chain), b \in Labels :
        LET c == Append(Cut(chain, k), b)
        IN  /\ chain' = c
            /\ becomes(send_update(lowered(session, Len(c)), c, lib), session.sending)
            /\ lib' \in lib .. k
  BY Zenon DEF on_accepted_block
<1> DEFINE c == Append(Cut(chain, k), b)  s == lowered(session, Len(c))  x == send_update(s, c, lib)
<1>2. /\ chain \in Id /\ lib \in 0 .. Len(chain) /\ Orderly(session) /\ outbox \in Seq(Message)
      /\ Served(view, outbox, session, chain)
  BY Zenon DEF IInv
<1>3. Len(chain) \in Nat /\ k \in 0 .. Len(chain)
  BY <1>2, LenProperties DEF Id
<1>4. /\ c \in Id /\ Len(c) = k + 1
      /\ Orderly(s) /\ Served(view, outbox, s, c)
      /\ s.sending = session.sending
      /\ s.request.asked = session.request.asked /\ s.request.flight = session.request.flight
  <2>1. Forked(view, outbox, session, s, c, k)
    <3>1. b \in Labels
      OBVIOUS
    <3>2. Forked(view, outbox, session, lowered(session, Len(Append(Cut(chain, k), b))),
                 Append(Cut(chain, k), b), k)
      BY <1>2, <1>3, <3>1, LoweredIs, Zenon
    <3> QED BY <3>2, Zenon
  <2> QED BY <2>1, Zenon DEF Forked
<1>5. chain' = c /\ lib' \in lib .. k /\ becomes(x, session.sending)
  BY <1>1, Zenon
<1> HIDE DEF c, s
<1>6. lib \in 0 .. Len(c) /\ lib' \in 0 .. Len(c)
  BY <1>2, <1>3, <1>4, <1>5
<1>7. Handled(view, outbox, s, x, c)
  BY <1>2, <1>4, <1>6, UpdateIs, Zenon
<1> HIDE DEF x
<1>8. session' = x /\ outbox' = Out(x, s.sending, outbox)
  BY <1>4, <1>5, Zenon DEF becomes, Out
<1>9. UNCHANGED <<inbox, view, credit, asks>>
  BY Zenon DEF on_accepted_block
<1> QED BY <1>4, <1>5, <1>6, <1>7, <1>8, <1>9, HandlerServes

\* A handler of the session that was given the first message of the inbox: s is the session
\* with what the message changes in the request.
LEMMA ReaderServes ==
    ASSUME IInv, read, NEW s, NEW x, Handled(view, outbox, s, x, chain),
           s.sending = session.sending, handle(Head(inbox)) = x, s.request.asked \in BOOLEAN,
           Asked(Tail(inbox), s.request.asked, view, credit),
           Counted(s.request, outbox, Tail(inbox), credit),
           asks = 0 => NotYet(Tail(inbox), s.request.asked, credit)
    PROVE  IInv'
<1>1. /\ session' = x /\ outbox' = Out(x, s.sending, outbox) /\ inbox' = Tail(inbox)
      /\ chain' = chain /\ lib' = lib /\ view' = view /\ credit' = credit /\ asks' = asks
  BY Zenon DEF read, becomes, Out
<1>2. /\ Orderly(x) /\ outbox' \in Seq(Message) /\ Served(view, outbox', x, chain)
      /\ x.request.asked = s.request.asked
      /\ x.request.flight + Cardinality(Of(outbox', "result")) =
            s.request.flight + Cardinality(Of(outbox, "result"))
  BY <1>1, Zenon DEF Handled
<1>3. Tail(inbox) \in Seq(Question)
  <2>1. inbox # <<>> /\ inbox \in Seq(Question)
    BY Zenon DEF read, IInv
  <2> QED BY <2>1, HeadTailProperties, Zenon
<1>4. Counted(x.request, outbox', Tail(inbox), credit)
  BY <1>2, Zenon DEF Counted
<1>5. chain \in Id /\ lib \in 0 .. Len(chain) /\ credit \in Nat
  BY Zenon DEF IInv
<1> QED BY <1>1, <1>2, <1>3, <1>4, <1>5, Zenon DEF IInv

LEMMA ReadServes == ASSUME IInv, read PROVE IInv'
<1> DEFINE m == Head(inbox)  a == session.request
<1>1. /\ chain \in Id /\ lib \in 0 .. Len(chain) /\ Orderly(session) /\ outbox \in Seq(Message)
      /\ Served(view, outbox, session, chain) /\ inbox \in Seq(Question) /\ inbox # <<>>
      /\ Asked(inbox, a.asked, view, credit) /\ Counted(a, outbox, inbox, credit) /\ credit \in Nat
      /\ asks = 0 => NotYet(inbox, a.asked, credit)
  BY Zenon DEF IInv, read
<1>2. session \in Session /\ a \in Wanted /\ a.asked \in BOOLEAN /\ a.flight \in Nat
  BY <1>1, Zenon DEF Orderly, Session, Wanted
<1>3. /\ m \in Question /\ Asked(Tail(inbox), a.asked, view, credit)
      /\ m.type = "blocks" =>
            /\ ~a.asked /\ m.have = view /\ m.start = Len(view) + 1 /\ m.flight = credit
            /\ \A i \in 1 .. Len(Tail(inbox)) : Tail(inbox)[i].type # "blocks"
      /\ m.type = "ack" => a.asked
      /\ (\A i \in 1 .. Len(inbox) : inbox[i].type # "blocks") =>
            \A i \in 1 .. Len(Tail(inbox)) : Tail(inbox)[i].type # "blocks"
  <2> HIDE DEF a
  <2> QED BY <1>1, <1>2, AskedTail, Zenon
<1>4. /\ Cardinality(Of(inbox, "ack")) \in Nat
      /\ Cardinality(Of(Tail(inbox), "ack")) =
            Cardinality(Of(inbox, "ack")) - (IF m.type = "ack" THEN 1 ELSE 0)
  BY <1>1, CountTail, Zenon
<1>5. Cardinality(Of(outbox, "result")) \in Nat
  BY <1>1, CountIs, Zenon
<1>6. asks = 0 => NotYet(Tail(inbox), a.asked, credit)
  BY <1>1, <1>3, Zenon DEF NotYet
<1>7. asks = 0 => m.type # "blocks" /\ ~a.asked
  <2>1. Len(inbox) \in Nat /\ Len(inbox) # 0 /\ 1 \in 1 .. Len(inbox) /\ m = inbox[1]
    <3>1. Len(inbox) \in Nat /\ Len(inbox) # 0
      BY <1>1, LenProperties, EmptySeq, Zenon
    <3> QED BY <1>1, <3>1
  <2> QED BY <1>1, <2>1, Zenon DEF NotYet
<1> HIDE DEF m
<1>8. CASE m.type = "status"
  <2>1. handle(m) = push(session, Other)
    BY <1>8, Zenon DEF handle
  <2>2. Handled(view, outbox, session, push(session, Other), chain)
    BY <1>1, PushIs, Zenon
  <2>3. Cardinality(Of(Tail(inbox), "ack")) = Cardinality(Of(inbox, "ack"))
    BY <1>4, <1>8
  <2>4. Counted(a, outbox, Tail(inbox), credit)
    BY <1>1, <2>3, Zenon DEF Counted
  <2> QED BY <1>2, <1>3, <1>6, <2>1, <2>2, <2>4, ReaderServes DEF m
<1>9. CASE m.type = "blocks"
  <2> DEFINE r == [asked |-> TRUE, start |-> start_agreed(m), end |-> m.end, flight |-> m.flight,
                   irreversible |-> m.irreversible]
             s == [session EXCEPT !.request = r, !.need = TRUE]
             x == send_update_if_needed(s, chain, lib)
  <2>1. handle(m) = x
    BY <1>9 DEF handle
  <2>2. PICK p \in Id : OnWay(view, outbox, p) /\ view = Prefixes(p)
    BY <1>1, <1>3, <1>9 DEF Served
  <2>3. /\ start_agreed(m) \in Int /\ 1 <= start_agreed(m)
        /\ start_agreed(m) - 1 <= Len(p) /\ start_agreed(m) - 1 <= Len(chain)
        /\ Cut(chain, start_agreed(m) - 1) = Cut(p, start_agreed(m) - 1)
    <3>1. m.have = Prefixes(p) /\ m.start = Len(p) + 1
      BY <1>3, <1>9, <2>2, PrefixesAre, Zenon
    <3> QED BY <1>1, <3>1, StartAgrees, Zenon
  <2>4. /\ r \in Wanted /\ r.asked = TRUE /\ r.flight = credit /\ r.start = start_agreed(m)
    <3>1. m.end \in Int /\ m.flight = credit /\ m.irreversible \in BOOLEAN
      BY <1>3, <1>9, Zenon DEF Question
    <3> QED BY <1>1, <2>3, <3>1, Zenon DEF Wanted
  <2>5. Agreed(r, chain, p)
    <3> HIDE DEF r
    <3> QED BY <2>3, <2>4, Zenon DEF Agreed
  <2> HIDE DEF r
  <2>6. /\ s \in Session /\ s.request = r /\ s.queue = session.queue /\ s.sending = session.sending
    BY <1>2, <2>4, Zenon DEF Session
  <2> HIDE DEF s
  <2>7. Orderly(s)
    BY <1>1, <2>6 DEF Orderly
  <2>8. Served(view, outbox, s, chain)
    BY <2>2, <2>4, <2>5, <2>6 DEF Served
  <2>9. Handled(view, outbox, s, x, chain)
    BY <1>1, <2>7, <2>8, UpdateIfNeededIs, Zenon
  <2>10. Asked(Tail(inbox), s.request.asked, view, credit)
    BY <1>3, <1>9, <2>4, <2>6, Zenon DEF Asked
  <2>11. Counted(s.request, outbox, Tail(inbox), credit)
    <3>1. \A i \in 1 .. Len(Tail(inbox)) : Tail(inbox)[i].type # "ack"
      BY <1>3, <1>9, Zenon DEF Asked
    <3>2. \A i \in 1 .. Len(outbox) : outbox[i].type # "result"
      BY <1>1, <1>3, <1>9, OtherIs, Zenon DEF Served
    <3>3. Cardinality(Of(Tail(inbox), "ack")) = 0 /\ Cardinality(Of(outbox, "result")) = 0
      BY <3>1, <3>2, CountNone, Zenon
    <3> QED BY <1>1, <2>4, <2>6, <3>3 DEF Counted
  <2>12. asks # 0
    BY <1>7, <1>9
  <2> HIDE DEF x
  <2> QED BY <2>1, <2>4, <2>6, <2>9, <2>10, <2>11, <2>12, ReaderServes, Zenon DEF m
<1>10. CASE m.type = "ack"
  <2> DEFINE r == [a EXCEPT !.flight = @ + 1]
             s == [session EXCEPT !.request = r]
             x == send_update_if_needed(s, chain, lib)
  <2>1. handle(m) = x
    BY <1>3, <1>10, Zenon DEF handle
  <2> HIDE DEF a
  <2>2. r \in Wanted /\ r.asked = a.asked /\ r.flight = a.flight + 1 /\ r.start = a.start
    BY <1>2 DEF Wanted
  <2>3. PICK last \in Id : OnWay(view, outbox, last) /\ Agreed(a, chain, last)
    BY <1>1, Zenon DEF Served, a
  <2> HIDE DEF r
  <2>4. Agreed(r, chain, last) /\ a.asked
    BY <1>3, <1>10, <2>2, <2>3, Zenon DEF Agreed
  <2>5. /\ s \in Session /\ s.request = r /\ s.queue = session.queue /\ s.sending = session.sending
    BY <1>2, <2>2, Zenon DEF Session
  <2> HIDE DEF s
  <2>6. Orderly(s)
    BY <1>1, <2>5, Zenon DEF Orderly
  <2>7. Served(view, outbox, s, chain)
    BY <2>2, <2>3, <2>4, <2>5, Zenon DEF Served
  <2>8. Handled(view, outbox, s, x, chain)
    BY <1>1, <2>6, <2>7, UpdateIfNeededIs
  <2>9. Counted(s.request, outbox, Tail(inbox), credit)
    <3>1. a.flight + Cardinality(Of(outbox, "result")) + Cardinality(Of(inbox, "ack")) = credit
      BY <1>1, <2>4 DEF Counted
    <3>2. Cardinality(Of(Tail(inbox), "ack")) = Cardinality(Of(inbox, "ack")) - 1
      BY <1>4, <1>10, Zenon
    <3>3. r.flight + Cardinality(Of(outbox, "result")) + Cardinality(Of(Tail(inbox), "ack")) = credit
      BY <1>2, <1>4, <1>5, <2>2, <3>1, <3>2
    <3> QED BY <2>5, <3>3 DEF Counted
  <2>10. asks # 0
    BY <1>7, <2>4, Zenon
  <2> HIDE DEF x
  <2> QED BY <1>2, <1>3, <2>1, <2>2, <2>5, <2>8, <2>9, <2>10, ReaderServes DEF m
<1> QED BY <1>3, <1>8, <1>9, <1>10, Zenon DEF Question

\* The connection is lost: what is on its way with it, and the client keeps its blocks.
LEMMA ReconnectServes == ASSUME IInv, reconnect PROVE IInv'
<1>1. /\ session' = NewSession /\ inbox' = <<>> /\ outbox' = <<Other>> /\ credit' = 0
      /\ chain' = chain /\ lib' = lib /\ view' = view
  BY Zenon DEF reconnect
<1>2. chain \in Id /\ lib \in 0 .. Len(chain)
  BY Zenon DEF IInv
<1>3. PICK p \in Id : view = Prefixes(p)
  <2>1. PICK last \in Id : OnWay(view, outbox, last)
    BY Zenon DEF IInv, Served
  <2>2. PICK t \in [0 .. Len(outbox) -> Id] : view = Prefixes(t[0])
    BY <2>1, Zenon DEF OnWay
  <2>3. 0 \in 0 .. Len(outbox)
    BY LenProperties DEF IInv
  <2> QED BY <2>2, <2>3, Zenon
<1>4. /\ Orderly(NewSession) /\ <<Other>> \in Seq(Message)
      /\ Served(view, <<Other>>, NewSession, chain)
      /\ ~NewSession.request.asked
  BY <1>2, <1>3, FreshIs, Zenon
<1>5. <<>> \in Seq(Question) /\ \A i \in 1 .. Len(<<>>) : FALSE
  BY EmptySeq
<1>6. Asked(<<>>, NewSession.request.asked, view, 0) /\ NotYet(<<>>, NewSession.request.asked, 0)
  BY <1>4, <1>5, Zenon DEF Asked, NotYet
<1>7. Counted(NewSession.request, <<Other>>, <<>>, 0)
  BY <1>4, Zenon DEF Counted
<1> QED BY <1>1, <1>2, <1>4, <1>5, <1>6, <1>7, Zenon DEF IInv

\* The client asks for blocks.
LEMMA AskServes == ASSUME IInv, ask PROVE IInv'
<1>1. PICK e \in Ends, f \in Flights, irr \in BOOLEAN :
        /\ inbox' = Append(inbox, Request(Len(view) + 1, e, f, irr, view))
        /\ credit' = credit + f
  BY Zenon DEF ask
<1> DEFINE m == Request(Len(view) + 1, e, f, irr, view)  n == Len(inbox)  asked == session.request.asked
<1>2. asks = 0 /\ asks' = 1 /\ UNCHANGED <<chain, lib, session, outbox, view>>
  BY Zenon DEF ask
<1>3. /\ inbox \in Seq(Question) /\ Asked(inbox, asked, view, credit) /\ NotYet(inbox, asked, credit)
      /\ Served(view, outbox, session, chain)
  BY <1>2, Zenon DEF IInv
<1>4. ~asked /\ credit' = f /\ f \in Nat /\ e \in Int
  BY <1>1, <1>3, RequestsAssumption DEF NotYet
<1>5. view \in Seq(Id) /\ Len(view) + 1 \in Int
  <2>1. PICK p \in Id : view = Prefixes(p)
    BY <1>3, <1>4, Zenon DEF Served
  <2>2. view \in Seq(Id)
    BY <2>1, PrefixesAre, Zenon
  <2>3. Len(view) \in Nat
    BY <2>2, LenProperties, Zenon
  <2> QED BY <2>2, <2>3
<1>6. m \in Question /\ m.type = "blocks" /\ m.have = view /\ m.start = Len(view) + 1 /\ m.flight = f
  BY <1>4, <1>5, Zenon DEF Request, Question
<1> HIDE DEF m
<1>7. /\ inbox' \in Seq(Question) /\ n \in Nat /\ Len(inbox') = n + 1 /\ inbox'[n + 1] = m
      /\ \A i \in 1 .. n : inbox'[i] = inbox[i]
  <2>1. inbox' = Append(inbox, m)
    BY <1>1, Zenon DEF m
  <2>2. /\ Append(inbox, m) \in Seq(Question) /\ n \in Nat /\ Len(Append(inbox, m)) = n + 1
        /\ Append(inbox, m)[n + 1] = m /\ \A i \in 1 .. n : Append(inbox, m)[i] = inbox[i]
    BY <1>3, <1>6, AppendProperties, LenProperties
  <2> QED BY <2>1, <2>2, Zenon
<1> HIDE DEF n
<1>8. \A i \in 1 .. n + 1 : i \in 1 .. n \/ i = n + 1
  BY <1>7
<1>9. \A i \in 1 .. n + 1 : inbox'[i].type = "blocks" => i = n + 1
  BY <1>3, <1>7, <1>8 DEF NotYet, n
<1>10. Asked(inbox', asked, view, f)
  <2>1. \A i \in 1 .. n + 1 : inbox'[i].type = "blocks" =>
          /\ ~asked
          /\ inbox'[i].have = view /\ inbox'[i].start = Len(view) + 1 /\ inbox'[i].flight = f
          /\ \A j \in 1 .. n + 1 : inbox'[j].type = "blocks" => j = i
    BY <1>4, <1>6, <1>7, <1>9, Zenon
  <2>2. \A i \in 1 .. n + 1 : inbox'[i].type # "ack"
    BY <1>3, <1>4, <1>6, <1>7, <1>8, Zenon DEF Asked, n
  <2> QED BY <1>7, <2>1, <2>2 DEF Asked
<1>11. Counted(session.request, outbox, inbox', f)
  BY <1>4, Zenon DEF Counted
<1>12. /\ chain \in Id /\ lib \in 0 .. Len(chain) /\ Orderly(session) /\ outbox \in Seq(Message)
  BY Zenon DEF IInv
<1> QED BY <1>2, <1>3, <1>4, <1>7, <1>10, <1>11, <1>12 DEF IInv

\* What the client sends besides.
LEMMA QuestionsAre == Ack \in Question /\ Ack.type = "ack" /\ Status \in Question /\ Status.type = "status"
<1>1. <<>> \in Seq(Id)
  BY EmptySeq, Zenon
<1>2. Request(0, 0, 0, FALSE, <<>>) \in [type : {"blocks"}, start : Int, end : Int, flight : Nat,
                                         irreversible : BOOLEAN, have : Seq(Id)]
  BY <1>1 DEF Request
<1>3. Ack \in Question /\ Ack.type = "ack"
  BY <1>2, Zenon DEF Ack, Question
<1>4. Status \in Question /\ Status.type = "status"
  BY <1>3 DEF Status, Question
<1> QED BY <1>3, <1>4, Zenon

LEMMA AskStatusServes == ASSUME IInv, ask_status PROVE IInv'
<1> DEFINE asked == session.request.asked
<1>1. /\ inbox' = Append(inbox, Status) /\ asks' = asks + 1 /\ asks \in 1 .. MaxAsks - 1
      /\ UNCHANGED <<chain, lib, session, outbox, view, credit>>
  BY DEF ask_status
<1>2. /\ inbox \in Seq(Question) /\ Asked(inbox, asked, view, credit)
      /\ Counted(session.request, outbox, inbox, credit) /\ credit \in Nat
      /\ chain \in Id /\ lib \in 0 .. Len(chain) /\ Orderly(session) /\ outbox \in Seq(Message)
      /\ Served(view, outbox, session, chain)
  BY DEF IInv
<1>3. asked \in BOOLEAN
  BY <1>2 DEF Orderly, Session, Wanted
<1>4. inbox' \in Seq(Question) /\ Asked(inbox', asked, view, credit)
  <2> HIDE DEF asked
  <2>1. Append(inbox, Status) \in Seq(Question) /\ Asked(Append(inbox, Status), asked, view, credit)
    BY <1>2, <1>3, QuestionsAre, AskedAppend, Zenon
  <2> QED BY <1>1, <2>1, Zenon
<1>5. Cardinality(Of(inbox', "ack")) = Cardinality(Of(inbox, "ack"))
  <2>1. /\ Cardinality(Of(inbox, "ack")) \in Nat
        /\ Cardinality(Of(Append(inbox, Status), "ack")) = Cardinality(Of(inbox, "ack")) + 0
    BY <1>2, QuestionsAre, CountAppend
  <2> QED BY <1>1, <2>1
<1>6. Counted(session.request, outbox, inbox', credit)
  BY <1>2, <1>5, Zenon DEF Counted
<1>7. asks' # 0
  BY <1>1
<1> QED BY <1>1, <1>2, <1>4, <1>6, <1>7 DEF IInv

\* The client receives a message.
LEMMA ReceiveServes == ASSUME IInv, receive PROVE IInv'
<1> DEFINE m == Head(outbox)  asked == session.request.asked
           w == IF Len(m.this) = 0 THEN view ELSE Append(Cut(view, Len(m.this) - 1), m.this)
<1>1. /\ outbox # <<>> /\ outbox' = Tail(outbox) /\ view' = w
      /\ inbox' = IF m.type = "result" THEN Append(inbox, Ack) ELSE inbox
      /\ UNCHANGED <<chain, lib, session, credit, asks>>
  BY Zenon DEF receive
<1>2. /\ inbox \in Seq(Question) /\ Asked(inbox, asked, view, credit)
      /\ Counted(session.request, outbox, inbox, credit) /\ credit \in Nat
      /\ chain \in Id /\ lib \in 0 .. Len(chain) /\ Orderly(session) /\ outbox \in Seq(Message)
      /\ Served(view, outbox, session, chain)
      /\ asks = 0 => NotYet(inbox, asked, credit)
  BY Zenon DEF IInv
<1>3. asked \in BOOLEAN /\ session.request.flight \in Nat
  BY <1>2, Zenon DEF Orderly, Session, Wanted
<1>4. /\ m \in Message /\ Tail(outbox) \in Seq(Message) /\ Len(Tail(outbox)) = Len(outbox) - 1
      /\ \A i \in 1 .. Len(Tail(outbox)) : Tail(outbox)[i] = outbox[i + 1]
  BY <1>1, <1>2, HeadTailProperties, Zenon
<1>5. Len(outbox) \in Nat /\ Len(outbox) # 0 /\ m = outbox[1]
  <2>1. Len(outbox) \in Nat /\ Len(outbox) # 0
    BY <1>1, <1>2, LenProperties, EmptySeq, Zenon
  <2> QED BY <1>2, <2>1
<1>6. ~asked => m = Other /\ w = view /\ \A i \in 1 .. Len(Tail(outbox)) : Tail(outbox)[i] = Other
  <2>1. ASSUME ~asked PROVE m = Other /\ w = view /\ \A i \in 1 .. Len(Tail(outbox)) : Tail(outbox)[i] = Other
    <3>1. \A i \in 1 .. Len(outbox) : outbox[i] = Other
      BY <1>2, <2>1, Zenon DEF Served
    <3>2. m = Other
      BY <1>5, <3>1
    <3>3. Len(m.this) = 0
      BY <3>2, OtherIs
    <3>4. \A i \in 1 .. Len(Tail(outbox)) : i + 1 \in 1 .. Len(outbox)
      BY <1>4, <1>5
    <3> QED BY <1>4, <3>1, <3>2, <3>3, <3>4, Zenon
  <2> QED BY <2>1, Zenon
<1>7. PICK last \in Id : /\ OnWay(view, outbox, last)
                         /\ Agreed(session.request, chain, last)
                         /\ ~asked => view = Prefixes(last)
  BY <1>2, Zenon DEF Served
<1>8. OnWay(w, Tail(outbox), last)
  BY <1>1, <1>2, <1>7, OnWayTail, Zenon
<1> HIDE DEF w
<1>9. Served(w, Tail(outbox), session, chain)
  BY <1>2, <1>6, <1>7, <1>8, Zenon DEF Served
<1> HIDE DEF m
<1>10. /\ inbox' \in Seq(Question) /\ Asked(inbox', asked, w, credit)
       /\ asks = 0 => NotYet(inbox', asked, credit)
  <2>1. Asked(inbox, asked, w, credit)
    BY <1>2, <1>6, Zenon DEF Asked
  <2>2. m.type = "result" => asked
    BY <1>6, OtherIs, Zenon
  <2>3. CASE m.type = "result"
    <3> HIDE DEF asked
    <3>1. /\ Append(inbox, Ack) \in Seq(Question) /\ Asked(Append(inbox, Ack), asked, w, credit)
          /\ NotYet(inbox, asked, credit) => NotYet(Append(inbox, Ack), asked, credit)
      BY <1>2, <1>3, <2>1, <2>2, <2>3, QuestionsAre, AskedAppend, Zenon
    <3> QED BY <1>1, <1>2, <2>3, <3>1, Zenon
  <2>4. CASE m.type # "result"
    BY <1>1, <1>2, <2>1, <2>4
  <2> QED BY <2>3, <2>4, Zenon
<1>11. Counted(session.request, Tail(outbox), inbox', credit)
  <2> DEFINE r == Cardinality(Of(outbox, "result"))  a == Cardinality(Of(inbox, "ack"))
             one == IF m.type = "result" THEN 1 ELSE 0
  <2>1. r \in Nat /\ Cardinality(Of(Tail(outbox), "result")) = r - one
    BY <1>1, <1>2, CountTail, Zenon DEF m
  <2>2. a \in Nat /\ Cardinality(Of(inbox', "ack")) = a + one
    <3>1. /\ a \in Nat /\ Cardinality(Of(Append(inbox, Ack), "ack")) = a + 1
      BY <1>2, QuestionsAre, CountAppend
    <3> QED BY <1>1, <3>1
  <2>3. one \in Nat
    OBVIOUS
  <2> HIDE DEF r, a, one
  <2>4. session.request.flight + (r - one) + (a + one) = session.request.flight + r + a
    BY <1>3, <2>1, <2>2, <2>3
  <2>5. asked => session.request.flight + r + a = credit
    BY <1>2, Zenon DEF Counted, r, a
  <2> QED BY <2>1, <2>2, <2>4, <2>5 DEF Counted
<1> QED BY <1>1, <1>2, <1>4, <1>9, <1>10, <1>11, Zenon DEF IInv

-----------------------------------------------------------------------------
\* Whatever fork changes, requests and lost connections come between the results of
\* send_update(): a client always has the blocks of one branch, and is never sent more
\* results than it allowed.  For any labels, requests and bounds.
THEOREM ClientAlwaysServed == Spec => []ServesClient
<1>1. Init => IInv
  BY InitServes, Zenon
<1>2. IInv /\ [Next]_vars => IInv'
  <2>1. SUFFICES ASSUME IInv, [Next]_vars PROVE IInv'
    OBVIOUS
  <2>2. CASE written
    BY <2>1, <2>2, WrittenServes, Zenon
  <2>3. CASE read
    BY <2>1, <2>3, ReadServes, Zenon
  <2>4. CASE on_accepted_block
    BY <2>1, <2>4, AcceptServes, Zenon
  <2>5. CASE reconnect
    BY <2>1, <2>5, ReconnectServes, Zenon
  <2>6. CASE ask
    BY <2>1, <2>6, AskServes, Zenon
  <2>7. CASE ask_status
    BY <2>1, <2>7, AskStatusServes, Zenon
  <2>8. CASE receive
    BY <2>1, <2>8, ReceiveServes, Zenon
  <2>9. CASE UNCHANGED vars
    BY <2>1, <2>9, Zenon DEF vars, IInv
  <2> QED BY <2>1, <2>2, <2>3, <2>4, <2>5, <2>6, <2>7, <2>8, <2>9, Zenon DEF Next
<1>3. IInv => ServesClient
  BY IInvServes
<1> QED BY <1>1, <1>2, <1>3, PTL DEF Spec
=============================================================================
