------------------------- MODULE ProducerLoopProofs -------------------------
(***************************************************************************)
(* Proofs about ProducerLoop, for any schedule, local producers, offset    *)
(* and number of faults.  The argument: schedule_production_loop arms the  *)
(* timer in every case in which the node may produce or drops the blocks   *)
(* of others, and what it arms the timer for stays true until the callback *)
(* runs, because a newer timer makes older callbacks stale.                *)
(***************************************************************************)
EXTENDS ProducerLoop, WellFoundedInduction, TLAPS

-----------------------------------------------------------------------------
(* Numbers.                                                                *)

\* A nonempty set of integers that has a lower bound has a smallest member.
LEMMA Smallest ==
    ASSUME NEW T, T \subseteq Int, T # {}, NEW low \in Int, \A x \in T : low <= x
    PROVE  \E a \in T : \A b \in T : a <= b
<1> DEFINE R == {p \in Nat \X Nat : p[1] < p[2]}
           S == {k \in Nat : low + k \in T}
<1>1. IsWellFoundedOn(R, Nat)
  BY NatLessThanWellFounded DEF OpToRel
<1>2. \A x, y \in Nat : y < x => <<y, x>> \in R
  OBVIOUS
<1>3. S \subseteq Nat /\ \A x \in T : x - low \in S
  <2>1. \A x \in T : x - low \in Nat /\ low + (x - low) = x
    OBVIOUS
  <2> QED BY <2>1
<1>4. S # {}
  BY <1>3, Zenon
<1> HIDE DEF R
<1>5. PICK k \in S : \A y \in S : ~(<<y, k>> \in R)
  <2> HIDE DEF S
  <2> QED BY <1>1, <1>3, <1>4, WFMin, Zenon
<1>6. k \in Nat /\ low + k \in T
  OBVIOUS
<1>7. \A y \in S : ~(y < k)
  BY <1>2, <1>3, <1>5, Zenon
<1> HIDE DEF S
<1>8. ASSUME NEW b \in T PROVE low + k <= b
  <2>1. b - low \in S /\ b - low \in Nat
    BY <1>3
  <2>2. ~(b - low < k)
    BY <1>7, <2>1
  <2> QED BY <1>6, <2>1, <2>2
<1> QED BY <1>6, <1>8

\* What Min returns of such a set.
LEMMA MinIs ==
    ASSUME NEW T, T \subseteq Int, T # {}, NEW low \in Int, \A x \in T : low <= x
    PROVE  Min(T) \in T
<1>1. PICK a \in T : \A b \in T : a <= b
  BY Smallest, Zenon
<1> QED BY <1>1, Zenon DEF Min

\* A nonempty set of integers that has an upper bound has a largest member.
LEMMA MaxIs ==
    ASSUME NEW T, T \subseteq Int, T # {}, NEW top \in Int, \A x \in T : x <= top
    PROVE  Max(T) \in T /\ \A x \in T : x <= Max(T)
<1> DEFINE S == {x \in Int : -x \in T}
<1>1. \A x \in T : -x \in S
  <2>1. \A x \in T : -x \in Int /\ -(-x) = x
    OBVIOUS
  <2> QED BY <2>1
<1>2. S \subseteq Int /\ S # {}
  BY <1>1, Zenon
<1>3. -top \in Int /\ \A x \in S : -top <= x
  OBVIOUS
<1>4. PICK a \in S : \A b \in S : a <= b
  <2> HIDE DEF S
  <2> QED BY <1>2, <1>3, Smallest, Zenon
<1>5. a \in Int /\ -a \in T
  OBVIOUS
<1> HIDE DEF S
<1>6. ASSUME NEW x \in T PROVE -a >= x
  <2>1. a <= -x /\ x \in Int
    BY <1>1, <1>4
  <2> QED BY <1>5, <2>1
<1>7. Max(T) \in T /\ \A y \in T : Max(T) >= y
  BY <1>5, <1>6, Zenon DEF Max
<1> QED BY <1>7

\* The larger of two integers.
LEMMA MaxOfTwo ==
    ASSUME NEW a \in Int, NEW b \in Int
    PROVE  Max({a, b}) = IF a >= b THEN a ELSE b
<1>1. PICK top \in Int : a <= top /\ b <= top
  BY a <= b \/ b <= a
<1>2. Max({a, b}) \in {a, b} /\ \A x \in {a, b} : x <= Max({a, b})
  <2> DEFINE T == {a, b}
  <2>1. T \subseteq Int /\ T # {} /\ \A x \in T : x <= top
    BY <1>1
  <2> HIDE DEF T
  <2>2. Max(T) \in T /\ \A x \in T : x <= Max(T)
    BY <1>1, <2>1, MaxIs, Zenon
  <2> QED BY <2>2 DEF T
<1> QED BY <1>2

\* A multiple of c that is smaller than c, either way, is zero.
LEMMA OnlyZero ==
    ASSUME NEW c \in Nat \ {0}, NEW k \in Int, c * k < c, -c < c * k
    PROVE  k = 0
<1>1. CASE k >= 1
  <2>1. c * k = c + c * (k - 1) /\ c * (k - 1) >= 0
    BY <1>1
  <2> QED BY <2>1
<1>2. CASE k <= -1
  <2>1. c * k = -c + c * (k + 1) /\ c * (k + 1) <= 0
    BY <1>2
  <2> QED BY <2>1
<1> QED BY <1>1, <1>2

\* The remainder does not change with a multiple of c.
LEMMA SameRemainder ==
    ASSUME NEW c \in Nat \ {0}, NEW x \in Int
    PROVE  (x + c) % c = x % c
<1> DEFINE q == x \div c  p == (x + c) \div c  r == x % c  s == (x + c) % c
<1>1. q \in Int /\ p \in Int /\ r \in 0 .. c - 1 /\ s \in 0 .. c - 1
  OBVIOUS
<1>2. x = c * q + r /\ x + c = c * p + s
  OBVIOUS
<1> HIDE DEF q, p, r, s
<1>3. c * (p - q - 1) = r - s
  <2>1. c * (p - q - 1) = c * p - c * q - c
    BY <1>1
  <2> QED BY <1>1, <1>2, <2>1
<1>4. p - q - 1 = 0
  <2>1. p - q - 1 \in Int /\ -c < r - s /\ r - s < c
    BY <1>1
  <2> QED BY <1>3, <2>1, OnlyZero, Zenon
<1>5. r = s
  BY <1>1, <1>3, <1>4
<1> QED BY <1>5 DEF r, s

\* A quotient is below a bound that the dividend respects.
LEMMA QuotientBelow ==
    ASSUME NEW r \in Nat \ {0}, NEW l \in Nat, NEW a \in Nat, a < r * l
    PROVE  a \div r \in 0 .. l - 1
<1> DEFINE q == a \div r  s == a % r
<1>1. q \in Int /\ s \in 0 .. r - 1
  OBVIOUS
<1>2. a = r * q + s
  OBVIOUS
<1> HIDE DEF q, s
<1>3. q >= 0
  <2>1. ASSUME q <= -1 PROVE FALSE
    <3>1. r * q <= -r
      <4>1. r * q = -r + r * (q + 1)
        BY <1>1
      <4>2. r * (q + 1) <= 0
        BY <1>1, <2>1
      <4> QED BY <1>1, <4>1, <4>2
    <3> QED BY <1>1, <1>2, <3>1
  <2> QED BY <1>1, <2>1
<1>4. q < l
  <2>1. ASSUME q >= l PROVE FALSE
    <3>1. r * q >= r * l
      <4>1. r * q = r * l + r * (q - l)
        BY <1>1
      <4>2. r * (q - l) >= 0
        BY <1>1, <2>1
      <4> QED BY <1>1, <4>1, <4>2
    <3> QED BY <1>1, <1>2, <3>1
  <2> QED BY <1>1, <2>1
<1> QED BY <1>1, <1>3, <1>4 DEF q

-----------------------------------------------------------------------------
(* The schedule and the times.                                             *)

Timer == [kind : {"loop", "produce"}, left : Int]

Handler == [kind : {"loop", "produce"}, fresh : BOOLEAN, left : Int]

Watermark == [num : Nat, time : Int]

State == [phase : 0 .. Cycle - 1, head : Int, pending : Int \cup {None},
          mode : {"producing", "speculating"}, enabled : BOOLEAN, paused : BOOLEAN,
          old_lib : BOOLEAN, watermark : [Local -> Watermark], timer : Timer \cup {None},
          posted : SUBSET Handler, chip_armed : BOOLEAN, chip_posted : Int]

\* The schedule has a length and the round of it a positive number of halves.
LEMMA Lengths ==
    /\ Len(Schedule) \in Nat \ {0}
    /\ Reps \in Nat \ {0}
    /\ Reps * Len(Schedule) \in Nat \ {0}
    /\ Cycle = 2 * (Reps * Len(Schedule))
    /\ Cycle \in Nat \ {0}
    /\ TooOld \in Int
<1>1. Len(Schedule) \in Nat \ {0} /\ Reps \in Nat \ {0} /\ TooOld \in Int
  BY LoopAssumption DEF TooOld
<1>2. Reps * Len(Schedule) \in Nat \ {0}
  BY <1>1
<1>3. Cycle = 2 * (Reps * Len(Schedule))
  BY <1>1 DEF Cycle
<1> QED BY <1>1, <1>2, <1>3

\* A time of a plugin is in a slot of the round.
LEMMA SlotIs ==
    ASSUME NEW m \in State, NEW lead \in Int
    PROVE  /\ SlotIn(m, lead) \in Nat
           /\ SlotIn(m, lead) \div Reps \in 0 .. Len(Schedule) - 1
           /\ get_scheduled_producer(m, lead) \in Range(Schedule)
<1> DEFINE x == (m.phase + lead) % Cycle
<1>1. m.phase \in Int /\ Cycle \in Nat \ {0}
  BY Lengths DEF State
<1>2. x \in 0 .. Cycle - 1
  BY <1>1
<1> HIDE DEF x
<1>3. x \div 2 \in Nat /\ x \div 2 < Reps * Len(Schedule)
  BY <1>2, Lengths
<1>4. SlotIn(m, lead) = x \div 2
  BY DEF SlotIn, x
<1>5. SlotIn(m, lead) \div Reps \in 0 .. Len(Schedule) - 1
  BY <1>3, <1>4, Lengths, QuotientBelow, Zenon
<1>6. SlotIn(m, lead) \div Reps + 1 \in DOMAIN Schedule
  BY <1>5, Lengths, LoopAssumption
<1> QED BY <1>3, <1>4, <1>5, <1>6 DEF get_scheduled_producer, Range

\* A half of a slot later, a time that is a half less away is in the same slot.
LEMMA SlotStays ==
    ASSUME NEW m \in State, NEW k \in State, k.phase = (m.phase + 1) % Cycle, NEW lead \in Int
    PROVE  get_scheduled_producer(k, lead - 1) = get_scheduled_producer(m, lead)
<1> DEFINE c == Cycle
<1>1. c \in Nat \ {0} /\ m.phase \in 0 .. c - 1
  BY Lengths DEF State
<1>2. k.phase = (m.phase + 1) % c
  OBVIOUS
<1> HIDE DEF c
<1>3. (k.phase + (lead - 1)) % c = (m.phase + lead) % c
  <2>1. CASE m.phase + 1 < c
    <3>1. k.phase = m.phase + 1
      BY <1>1, <1>2, <2>1
    <3>2. k.phase + (lead - 1) = m.phase + lead
      BY <1>1, <3>1
    <3> QED BY <3>2
  <2>2. CASE m.phase + 1 = c
    <3>1. c % c = 0
      <4>1. (0 + c) % c = 0 % c
        BY <1>1, SameRemainder
      <4>2. 0 % c = 0
        BY <1>1
      <4> QED BY <1>1, <4>1, <4>2
    <3>2. k.phase = 0
      BY <1>2, <2>2, <3>1
    <3>3. m.phase + lead = (lead - 1) + c /\ k.phase + (lead - 1) = lead - 1
      BY <1>1, <2>2, <3>2
    <3>4. ((lead - 1) + c) % c = (lead - 1) % c
      <4>1. lead - 1 \in Int
        OBVIOUS
      <4> QED BY <1>1, <4>1, SameRemainder, Zenon
    <3> QED BY <3>3, <3>4
  <2> QED BY <1>1, <2>1, <2>2
<1> QED BY <1>3 DEF SlotIn, get_scheduled_producer, c

\* The next block is at an even distance after the head and after now.
LEMMA PendingTime ==
    ASSUME NEW m \in State
    PROVE  /\ calculate_pending_block_time(m) \in Int
           /\ calculate_pending_block_time(m) >= 1
           /\ calculate_pending_block_time(m) > m.head
<1> DEFINE base == IF m.head > 0 THEN m.head ELSE 0
<1>1. base \in Nat /\ base >= m.head /\ m.phase \in Nat /\ m.head \in Int
  BY Lengths DEF State
<1>2. calculate_pending_block_time(m) = base + 2 - ((m.phase + base) % 2)
  BY DEF calculate_pending_block_time
<1> HIDE DEF base
<1>3. (m.phase + base) % 2 \in {0, 1}
  BY <1>1
<1> QED BY <1>1, <1>2, <1>3

\* A time of wake-up is found when there is a producer to wake up for, and it is not
\* before the block under construction.
LEMMA WakesUp ==
    ASSUME NEW m \in State, NEW current \in Int, Local \cap Range(Schedule) # {}
    PROVE  /\ calculate_producer_wake_up_time(m, current) # None
           /\ calculate_producer_wake_up_time(m, current) \in Int
           /\ calculate_producer_wake_up_time(m, current) >= current
<1>1. ASSUME NEW p \in Local \cap Range(Schedule)
      PROVE  /\ calculate_next_block_time(m, p, current) \in Int
             /\ current + 2 <= calculate_next_block_time(m, p, current)
  <2> DEFINE least == minimum_offset(m, p, current)
             minimum == current + 2 * least
             there == SlotIn(m, minimum) \div Reps
             distance == (IndexOf(p) - 1 - there) % Len(Schedule)
  <2>1. least \in Int /\ least >= 1
    <3> DEFINE ahead == m.watermark[p].num - (IF m.pending # None THEN 1 ELSE 0)
               later == m.watermark[p].time - current
               T == {1} \cup (IF ahead > 0 THEN {ahead + 1} ELSE {})
                        \cup (IF later > 0 THEN {(later \div 2) + 1} ELSE {})
    <3>1. m.watermark[p] \in Watermark
      BY DEF State
    <3>2. ahead \in Int /\ later \in Int
      BY <3>1 DEF Watermark
    <3>3. least = Max(T)
      BY DEF minimum_offset
    <3> HIDE DEF ahead, later, least
    <3>4. later \div 2 \in Int
      BY <3>2
    <3>5. T \subseteq Int /\ 1 \in T
      BY <3>2, <3>4
    <3>6. PICK top \in Int : top >= 1 /\ top >= ahead + 1 /\ top >= (later \div 2) + 1
      <4>1. PICK a \in Int : a >= 1 /\ a >= ahead + 1
        BY <3>2, ahead + 1 >= 1 \/ 1 >= ahead + 1
      <4>2. (later \div 2) + 1 >= a \/ a >= (later \div 2) + 1
        BY <3>4
      <4> QED BY <3>2, <3>4, <4>1, <4>2
    <3>7. \A x \in T : x <= top
      BY <3>6
    <3> HIDE DEF T
    <3>8. Max(T) \in T /\ 1 <= Max(T)
      BY <3>5, <3>7, MaxIs, Zenon
    <3> QED BY <3>3, <3>5, <3>8, Zenon
  <2> HIDE DEF least
  <2>2. minimum \in Int /\ minimum >= current + 2
    BY <2>1
  <2> HIDE DEF minimum
  <2>3. SlotIn(m, minimum) \in Nat /\ there \in Int
    BY <2>2, SlotIs
  <2>4. IndexOf(p) \in Int
    <3>1. \E i \in 1 .. Len(Schedule) : Schedule[i] = p
      BY LoopAssumption DEF Range
    <3>2. IndexOf(p) \in 1 .. Len(Schedule)
      BY <3>1 DEF IndexOf
    <3> QED BY <3>2, Lengths
  <2>5. distance \in Nat
    BY <2>3, <2>4, Lengths
  <2>6. SlotIn(m, minimum) % Reps \in 0 .. Reps - 1
    BY <2>3, Lengths
  <2>7. calculate_next_block_time(m, p, current) =
          IF distance = 0 THEN minimum
          ELSE minimum - 2 * (SlotIn(m, minimum) % Reps) + 2 * distance * Reps
    BY DEF calculate_next_block_time, minimum, least
  <2> DEFINE back == SlotIn(m, minimum) % Reps
             on == 2 * distance * Reps
  <2>8. on \in Nat /\ (distance # 0 => on >= 2 * Reps)
    <3> HIDE DEF distance
    <3>1. on = 2 * (distance * Reps)
      BY <2>5, Lengths
    <3>2. distance * Reps \in Nat
      BY <2>5, Lengths
    <3>3. distance # 0 => distance * Reps >= Reps
      <4>1. distance * Reps = Reps + (distance - 1) * Reps
        BY <2>5, Lengths
      <4>2. distance # 0 => (distance - 1) * Reps >= 0
        BY <2>5, Lengths
      <4> QED BY <2>5, <4>1, <4>2, Lengths
    <3> QED BY <3>1, <3>2, <3>3, Lengths
  <2> HIDE DEF distance, back, on
  <2>9. calculate_next_block_time(m, p, current) =
          IF distance = 0 THEN minimum ELSE minimum - 2 * back + on
    BY <2>7 DEF back, on
  <2>10. back \in 0 .. Reps - 1
    BY <2>6 DEF back
  <2> QED BY <2>2, <2>8, <2>9, <2>10, Lengths
<1> DEFINE S == {calculate_next_block_time(m, p, current) - 2 : p \in Local \cap Range(Schedule)}
           low == current
<1>2. S # {} /\ S \subseteq Int
  BY <1>1
<1>3. low \in Int
  OBVIOUS
<1>4. \A x \in S : low <= x
  <2>1. ASSUME NEW p \in Local \cap Range(Schedule)
        PROVE  low <= calculate_next_block_time(m, p, current) - 2
    BY <1>1
  <2> QED BY <2>1
<1> HIDE DEF low
<1>5. calculate_producer_wake_up_time(m, current) = Min(S)
  BY <1>2 DEF calculate_producer_wake_up_time
<1> HIDE DEF S
<1>6. Min(S) \in S
  BY <1>2, <1>3, <1>4, MinIs, Zenon
<1>7. Min(S) \in Int /\ current <= Min(S)
  BY <1>2, <1>4, <1>6, Zenon DEF low
<1> QED BY <1>5, <1>7, LoopAssumption

-----------------------------------------------------------------------------
(* The invariant.                                                          *)

\* A callback that is armed has no competitor.
Alone(m) ==
    /\ m.timer # None => \A h \in m.posted : ~h.fresh
    /\ \A g, h \in m.posted : g.fresh /\ h.fresh => g = h

\* The block under construction is one that a local producer may sign.
Mine(m) ==
    /\ m.mode = "producing"
    /\ m.pending # None
    /\ m.pending <= 2
    /\ get_scheduled_producer(m, m.pending) \in Local
    /\ m.watermark[get_scheduled_producer(m, m.pending)].num = 0
    /\ m.watermark[get_scheduled_producer(m, m.pending)].time < m.pending

\* No block can be produced, whatever the slot.
Unable(m) == Local \cap Range(Schedule) = {} \/ production_disabled_by_policy(m)

\* A callback comes before a block under construction, or as early or late as one is
\* produced.
InTime(m, left) ==
    left <= m.pending \/ left <= m.pending - Early \/ left <= m.pending - EarlyLast

\* A callback that produces is for such a block, and not for long after it.  A callback
\* that runs the loop comes when the block under construction is not in the future.
Wanted(m, kind, left) ==
    /\ kind = "produce" => Mine(m) /\ InTime(m, left)
    /\ kind = "loop" /\ m.pending # None => m.mode = "speculating" /\ left >= m.pending

\* A posted callback may also be left from a time before the node became unable.
AllWanted(m) ==
    /\ m.timer # None => Wanted(m, m.timer.kind, m.timer.left)
    /\ \A h \in m.posted : h.fresh =>
         /\ h.left <= 0
         /\ Wanted(m, h.kind, h.left) \/ (h.kind = "loop" /\ m.mode = "speculating" /\ Unable(m))

Live(m) == m.timer # None \/ \E h \in m.posted : h.fresh

MustBeLive(m) == m.mode = "producing" \/ ~Unable(m)

AfterHead(m) ==
    m.pending # None => m.pending >= TooOld /\ (m.head > TooOld => m.pending > m.head)

Good(m) ==
    /\ m \in State /\ m.head >= TooOld
    /\ Alone(m) /\ AllWanted(m) /\ (MustBeLive(m) => Live(m)) /\ AfterHead(m)

\* No callback that produces is still current.
Quiet(m) ==
    /\ m \in State /\ m.head >= TooOld /\ AfterHead(m)
    /\ \A g, h \in m.posted : g.fresh /\ h.fresh => g = h
    /\ \A h \in m.posted : h.fresh => h.kind = "loop" /\ h.left <= 0

\* What schedule_production_loop needs: a block under construction is a speculative one
\* that is not in the future.
Ready(m) ==
    /\ Quiet(m)
    /\ m.pending # None => m.mode = "speculating" /\ (Unable(m) \/ m.pending <= 0)

\* The clock and the head are left alone.
Beside(x, m) == x.head = m.head /\ x.phase = m.phase

-----------------------------------------------------------------------------
(* schedule_production_loop.                                               *)

\* What a timer that is set changes.
LEMMA ArmIs ==
    ASSUME NEW m \in State, NEW kind \in {"loop", "produce"}, NEW lead \in Int
    PROVE  LET x == Arm(m, kind, lead)
           IN  /\ x \in State
               /\ \A h \in x.posted : ~h.fresh
               /\ x.timer # None /\ x.timer.kind = kind /\ x.timer.left = Positive(lead)
               /\ x.phase = m.phase /\ x.head = m.head /\ x.pending = m.pending
               /\ x.mode = m.mode /\ x.watermark = m.watermark
<1> DEFINE t == [kind |-> kind, left |-> Positive(lead)]
           q == {[kind |-> h.kind, fresh |-> FALSE, left |-> 0] : h \in m.posted}
<1>1. t \in Timer /\ t # None /\ t.kind = kind /\ t.left = Positive(lead)
  BY LoopAssumption DEF Timer, Positive
<1>2. m.posted \subseteq Handler
  BY DEF State
<1>3. q \subseteq Handler /\ \A h \in q : ~h.fresh
  <2>1. \A h \in Handler : [kind |-> h.kind, fresh |-> FALSE, left |-> 0] \in Handler
    BY DEF Handler
  <2> QED BY <1>2, <2>1
<1>4. Arm(m, kind, lead) = [m EXCEPT !.timer = t, !.posted = q]
  BY DEF Arm
<1> HIDE DEF t, q
<1> QED BY <1>1, <1>3, <1>4, Zenon DEF State

\* A timer that is set to run the loop makes the plugin good.
LEMMA ArmLoop ==
    ASSUME NEW m \in State, m.head >= TooOld, AfterHead(m), NEW lead \in Int,
           m.pending # None => m.mode = "speculating" /\ (m.pending <= lead \/ m.pending <= 0)
    PROVE  Good(Arm(m, "loop", lead)) /\ Beside(Arm(m, "loop", lead), m)
<1> DEFINE x == Arm(m, "loop", lead)
<1>1. /\ x \in State
      /\ \A h \in x.posted : ~h.fresh
      /\ x.timer # None /\ x.timer.kind = "loop" /\ x.timer.left = Positive(lead)
      /\ x.phase = m.phase /\ x.head = m.head /\ x.pending = m.pending /\ x.mode = m.mode
  BY ArmIs
<1> HIDE DEF x
<1>2. Alone(x) /\ Live(x)
  BY <1>1 DEF Alone, Live
<1>3. AllWanted(x)
  <2>1. m.pending # None => m.pending <= Positive(lead)
    BY DEF Positive, State
  <2> QED BY <1>1, <2>1 DEF AllWanted, Wanted, State
<1>4. AfterHead(x)
  BY <1>1 DEF AfterHead
<1>5. Good(x) /\ Beside(x, m)
  BY <1>1, <1>2, <1>3, <1>4 DEF Good, Beside
<1> QED BY <1>5 DEF x

\* A timer that is set to produce the block under construction makes the plugin good.
LEMMA ArmProduce ==
    ASSUME NEW m \in State, m.head >= TooOld, AfterHead(m), Mine(m), NEW exhausted \in BOOLEAN,
           InTime(m, 0)
    PROVE  /\ Good(schedule_maybe_produce_block(m, exhausted))
           /\ Beside(schedule_maybe_produce_block(m, exhausted), m)
<1> DEFINE lead == IF exhausted THEN 0 ELSE calculate_block_deadline(m, m.pending)
           x == Arm(m, "produce", lead)
<1>1. m.pending \in Int /\ Early \in Int /\ EarlyLast \in Int
  BY LoopAssumption DEF State, Mine
<1>2. lead \in Int /\ (lead = 0 \/ lead = m.pending - Early \/ lead = m.pending - EarlyLast)
  BY <1>1 DEF calculate_block_deadline
<1> HIDE DEF lead
<1>3. /\ x \in State
      /\ \A h \in x.posted : ~h.fresh
      /\ x.timer # None /\ x.timer.kind = "produce" /\ x.timer.left = Positive(lead)
      /\ x.phase = m.phase /\ x.head = m.head /\ x.pending = m.pending
      /\ x.mode = m.mode /\ x.watermark = m.watermark
  BY <1>2, ArmIs
<1> HIDE DEF x
<1>4. Alone(x) /\ Live(x)
  BY <1>3 DEF Alone, Live
<1>5. Mine(x)
  BY <1>3 DEF Mine, get_scheduled_producer, SlotIn
<1>6. InTime(m, Positive(lead))
  BY <1>1, <1>2 DEF Positive, InTime
<1>7. AllWanted(x)
  BY <1>3, <1>5, <1>6 DEF AllWanted, Wanted, InTime
<1>8. AfterHead(x)
  BY <1>3 DEF AfterHead
<1>9. Good(x) /\ Beside(x, m)
  BY <1>3, <1>4, <1>7, <1>8 DEF Good, Beside
<1> QED BY <1>9 DEF x, lead, schedule_maybe_produce_block

\* A plugin that need not be live is good without a timer.
LEMMA Rests ==
    ASSUME NEW m, Quiet(m), m.timer = None, ~MustBeLive(m)
    PROVE  Good(m)
<1>1. m.mode = "speculating" /\ Unable(m)
  BY DEF Quiet, State, MustBeLive
<1>2. Alone(m) /\ AllWanted(m)
  BY <1>1 DEF Quiet, Alone, AllWanted
<1> QED BY <1>2 DEF Quiet, Good

\* While the block is speculative the loop is to run before the next local producer's turn.
LEMMA Delayed ==
    ASSUME NEW m, Quiet(m), m.timer = None, m.mode = "speculating", NEW current \in Int,
           m.pending # None => Unable(m) \/ m.pending <= 0 \/ m.pending <= current
    PROVE  LET x == IF Local # {} /\ ~production_disabled_by_policy(m)
                    THEN schedule_delayed_production_loop(m, calculate_producer_wake_up_time(m, current))
                    ELSE m
           IN  Good(x) /\ Beside(x, m)
<1> DEFINE wake == calculate_producer_wake_up_time(m, current)
<1>1. m \in State /\ m.head >= TooOld /\ AfterHead(m)
  BY DEF Quiet
<1>2. CASE ~Unable(m)
  <2>1. Local \cap Range(Schedule) # {} /\ ~production_disabled_by_policy(m) /\ Local # {}
    BY <1>2 DEF Unable
  <2>2. wake # None /\ wake \in Int /\ wake >= current
    BY <1>1, <2>1, WakesUp
  <2> HIDE DEF wake
  <2>3. m.pending # None => m.pending <= wake \/ m.pending <= 0
    BY <1>1, <1>2, <2>2 DEF State
  <2>4. Good(Arm(m, "loop", wake)) /\ Beside(Arm(m, "loop", wake), m)
    BY <1>1, <2>2, <2>3, ArmLoop
  <2> QED BY <2>1, <2>2, <2>4 DEF wake, schedule_delayed_production_loop
<1>3. CASE Unable(m)
  <2>1. Good(m) /\ Beside(m, m)
    BY <1>3, Rests DEF MustBeLive, Beside
  <2>2. CASE Local # {} /\ ~production_disabled_by_policy(m)
    <3>1. wake = None
      BY <1>3, <2>2 DEF calculate_producer_wake_up_time, Unable
    <3> QED BY <2>1, <2>2, <3>1 DEF schedule_delayed_production_loop
  <2> QED BY <2>1, <2>2
<1> QED BY <1>2, <1>3

\* schedule_production_loop leads to a good plugin, on whichever way it returns.
LEMMA LoopIsGood ==
    ASSUME NEW m, Ready(m), NEW ok, NEW x \in schedule_production_loop(m, ok)
    PROVE  Good(x) /\ Beside(x, m)
<1> DEFINE c == Cancelled(m)
           bt == calculate_pending_block_time(c)
           mode == chosen_mode(c, bt)
           k == [c EXCEPT !.mode = mode]
<1>1. /\ c \in State /\ c.timer = None /\ c.posted = m.posted /\ c.head = m.head
      /\ c.phase = m.phase /\ c.pending = m.pending /\ c.watermark = m.watermark /\ c.mode = m.mode
      /\ c.enabled = m.enabled /\ c.paused = m.paused /\ c.old_lib = m.old_lib
  BY DEF Ready, Quiet, Cancelled, State
<1> HIDE DEF c
<1>2. bt \in Int /\ bt >= 1 /\ bt > m.head
  BY <1>1, PendingTime
<1> HIDE DEF bt
<1>3. mode \in {"producing", "speculating"}
  BY DEF chosen_mode
<1>4. mode = "producing" =>
         /\ get_scheduled_producer(c, bt) \in Local
         /\ ~barred(c, get_scheduled_producer(c, bt), bt)
         /\ ~production_disabled_by_policy(c)
  BY DEF chosen_mode
<1> HIDE DEF mode
<1>5. /\ k \in State /\ k.timer = None /\ k.posted = m.posted /\ k.head = m.head /\ k.mode = mode
      /\ k.phase = m.phase /\ k.pending = m.pending /\ k.watermark = m.watermark
      /\ k.enabled = m.enabled /\ k.paused = m.paused /\ k.old_lib = m.old_lib
  BY <1>1, <1>3 DEF State
<1>6. PICK y \in start_block(c) : x = Reacted(y.n, y.result)
  BY DEF schedule_production_loop, c
<1>7. k.head >= TooOld /\ AfterHead(k) /\ Quiet(k) /\ (Unable(k) <=> Unable(m))
  BY <1>5 DEF Ready, Quiet, AfterHead, Unable, production_disabled_by_policy
<1>8. CASE mode = "speculating" /\ c.head < -MaxHeadAge
  <2>1. y = [n |-> k, result |-> "waiting_for_block"]
    BY <1>6, <1>8 DEF start_block, bt, mode
  <2>2. x = Reacted(k, "waiting_for_block")
    BY <1>6, <2>1
  <2> HIDE DEF k
  <2>3. calculate_pending_block_time(k) \in Int
    BY <1>5, PendingTime
  <2>4. x = IF Local # {} /\ ~production_disabled_by_policy(k)
            THEN schedule_delayed_production_loop(k,
                     calculate_producer_wake_up_time(k, calculate_pending_block_time(k)))
            ELSE k
    BY <2>2 DEF Reacted
  <2>5. Good(x) /\ Beside(x, k)
    <3>1. k.pending # None => Unable(k) \/ k.pending <= 0
      BY <1>5, <1>7 DEF Ready
    <3> QED BY <1>5, <1>7, <1>8, <2>3, <2>4, <3>1, Delayed
  <2> QED BY <1>5, <2>5 DEF Beside
<1>9. CASE mode = "producing" /\ bt - 2 > 0
  <2> DEFINE wake == calculate_producer_wake_up_time(k, bt - 2)
  <2>1. y = [n |-> schedule_delayed_production_loop(k, wake), result |-> "waiting_for_production"]
    BY <1>6, <1>9 DEF start_block, bt, mode
  <2> HIDE DEF k
  <2>2. x = schedule_delayed_production_loop(k, wake)
    <3> HIDE DEF wake
    <3> QED BY <1>6, <2>1 DEF Reacted
  <2>3. Local \cap Range(Schedule) # {}
    BY <1>1, <1>2, <1>4, <1>9, SlotIs
  <2>4. wake # None /\ wake \in Int
    BY <1>2, <1>5, <2>3, WakesUp, bt - 2 \in Int
  <2> HIDE DEF wake
  <2>5. m.pending = None
    <3>1. ASSUME m.pending # None PROVE FALSE
      <4>1. ~Unable(m)
        BY <1>1, <1>4, <1>9, <2>3 DEF Unable, production_disabled_by_policy
      <4>2. m.pending <= 0 /\ m.pending \in Int /\ m.head \in Int
        BY <3>1, <4>1 DEF Ready, Quiet, State
      <4>3. m.head <= 0
        BY <3>1, <4>2, LoopAssumption DEF Ready, Quiet, AfterHead, TooOld
      <4>4. bt <= 2
        <5>1. bt = 0 + 2 - ((c.phase + 0) % 2)
          BY <1>1, <4>2, <4>3 DEF bt, calculate_pending_block_time
        <5>2. c.phase \in Int
          BY <1>1, Lengths DEF State
        <5> QED BY <5>1, <5>2
      <4> QED BY <1>2, <1>9, <4>4
    <3> QED BY <3>1
  <2>6. Good(Arm(k, "loop", wake)) /\ Beside(Arm(k, "loop", wake), k)
    BY <1>5, <1>7, <2>4, <2>5, ArmLoop
  <2> QED BY <1>5, <2>2, <2>4, <2>6 DEF schedule_delayed_production_loop, Beside
<1>10. CASE mode = "speculating" /\ c.mode = "producing" /\ ~(c.head < -MaxHeadAge)
  <2>1. y = [n |-> schedule_delayed_production_loop(k, bt - 2), result |-> "waiting_for_production"]
    BY <1>6, <1>10 DEF start_block, bt, mode
  <2> HIDE DEF k
  <2>2. x = schedule_delayed_production_loop(k, bt - 2)
    BY <1>6, <2>1 DEF Reacted
  <2>3. bt - 2 # None /\ bt - 2 \in Int
    BY <1>2, LoopAssumption
  <2>4. Good(Arm(k, "loop", bt - 2)) /\ Beside(Arm(k, "loop", bt - 2), k)
    <3>1. k.pending = None
      BY <1>1, <1>5, <1>10 DEF Ready
    <3> QED BY <1>5, <1>7, <2>3, <3>1, ArmLoop
  <2> QED BY <1>5, <2>2, <2>3, <2>4 DEF schedule_delayed_production_loop, Beside
<1>11. CASE /\ ~(mode = "speculating" /\ c.head < -MaxHeadAge)
            /\ ~(mode = "producing" /\ bt - 2 > 0)
            /\ ~(mode = "speculating" /\ c.mode = "producing")
  <2> DEFINE d == [k EXCEPT !.pending = bt]
             f == [k EXCEPT !.pending = None]
  <2>1. \/ \E r \in {"succeeded", "exhausted"} : y = [n |-> d, result |-> r]
        \/ y = [n |-> f, result |-> "failed"]
    <3>1. y \in {[n |-> d, result |-> r] : r \in {"succeeded", "exhausted"}}
                \cup {[n |-> f, result |-> "failed"]}
      BY <1>6, <1>11 DEF start_block, bt, mode
    <3> HIDE DEF d, f
    <3> QED BY <3>1
  <2> HIDE DEF k
  <2>2. CASE y = [n |-> f, result |-> "failed"]
    <3>1. f \in State /\ f.head = k.head /\ f.phase = k.phase /\ f.pending = None
      BY <1>5 DEF State
    <3> HIDE DEF f
    <3>2. AfterHead(f)
      BY <3>1 DEF AfterHead
    <3>3. x = Arm(f, "loop", 0)
      BY <1>6, <2>2 DEF Reacted
    <3>4. Good(x) /\ Beside(x, f)
      BY <1>7, <3>1, <3>2, <3>3, ArmLoop
    <3> QED BY <1>5, <3>1, <3>4 DEF Beside
  <2>3. ASSUME NEW r \in {"succeeded", "exhausted"}, y = [n |-> d, result |-> r]
        PROVE  Good(x) /\ Beside(x, m)
    <3>1. /\ d \in State /\ d.head = m.head /\ d.phase = m.phase /\ d.pending = bt /\ d.timer = None
          /\ d.mode = mode /\ d.posted = m.posted /\ d.watermark = m.watermark
          /\ d.enabled = m.enabled /\ d.paused = m.paused /\ d.old_lib = m.old_lib
      BY <1>2, <1>5 DEF State
    <3> HIDE DEF d
    <3>2. d.head >= TooOld /\ AfterHead(d) /\ Quiet(d)
      <4>1. bt >= TooOld
        BY <1>2, LoopAssumption DEF TooOld
      <4> QED BY <1>2, <3>1, <4>1 DEF AfterHead, Ready, Quiet
    <3>3. x = Reacted(d, r)
      BY <1>6, <2>3
    <3>4. x = IF d.mode = "producing" THEN schedule_maybe_produce_block(d, r = "exhausted")
              ELSE IF Local # {} /\ ~production_disabled_by_policy(d)
              THEN schedule_delayed_production_loop(d, calculate_producer_wake_up_time(d, d.pending))
              ELSE d
      BY <3>3 DEF Reacted
    <3>5. CASE mode = "producing"
      <4> DEFINE p == get_scheduled_producer(c, bt)
      <4>1. get_scheduled_producer(d, bt) = p
        BY <1>1, <3>1 DEF get_scheduled_producer, SlotIn
      <4>2. p \in Local /\ ~barred(c, p, bt)
        BY <1>4, <3>5
      <4> HIDE DEF p
      <4>3. d.watermark[p] \in Watermark /\ d.watermark = c.watermark
        BY <1>1, <3>1, <4>2 DEF State
      <4>4. d.watermark[p].num = 0 /\ d.watermark[p].time < bt
        BY <1>2, <4>2, <4>3 DEF barred, Watermark
      <4>5. Mine(d)
        BY <1>2, <1>11, <3>1, <3>5, <4>1, <4>2, <4>4, LoopAssumption DEF Mine
      <4>6. Good(x) /\ Beside(x, d)
        <5>1. (r = "exhausted") \in BOOLEAN /\ InTime(d, 0)
          BY <1>2, <3>1 DEF InTime
        <5>2. x = schedule_maybe_produce_block(d, r = "exhausted")
          BY <3>1, <3>4, <3>5
        <5> QED BY <3>1, <3>2, <4>5, <5>1, <5>2, ArmProduce, Zenon
      <4> QED BY <3>1, <4>6 DEF Beside
    <3>6. CASE mode = "speculating"
      <4>1. Good(x) /\ Beside(x, d)
        <5>1. d.pending <= d.pending
          BY <1>2, <3>1
        <5> QED BY <1>2, <3>1, <3>2, <3>4, <3>6, <5>1, Delayed
      <4> QED BY <3>1, <4>1 DEF Beside
    <3> QED BY <1>3, <3>5, <3>6
  <2> QED BY <2>1, <2>2, <2>3
<1> QED BY <1>3, <1>8, <1>9, <1>10, <1>11

-----------------------------------------------------------------------------
(* The steps.                                                              *)

\* What a block that is produced or received changes.
LEMMA HeadedIs ==
    ASSUME NEW m \in State, NEW lead \in Int
    PROVE  LET x == Headed(m, lead)
           IN  /\ x \in State /\ x.head = lead /\ x.pending = None
               /\ x.phase = m.phase /\ x.posted = m.posted
<1> DEFINE p == get_scheduled_producer(m, lead)
           w == [q \in Local |->
                    [num  |-> Positive(m.watermark[q].num - 1),
                     time |-> IF q = p THEN Max({m.watermark[q].time, lead}) ELSE m.watermark[q].time]]
<1>1. ASSUME NEW q \in Local PROVE w[q] \in Watermark
  <2>1. m.watermark[q] \in Watermark
    BY DEF State
  <2>2. m.watermark[q].num \in Nat /\ m.watermark[q].time \in Int
    BY <2>1 DEF Watermark
  <2>3. Max({m.watermark[q].time, lead}) \in Int
    BY <2>2, MaxOfTwo
  <2>4. Positive(m.watermark[q].num - 1) \in Nat
    BY <2>2 DEF Positive
  <2> QED BY <2>2, <2>3, <2>4 DEF Watermark
<1>2. w \in [Local -> Watermark]
  BY <1>1
<1>3. Headed(m, lead) = [m EXCEPT !.head = lead, !.pending = None, !.watermark = w]
  BY DEF Headed
<1> HIDE DEF w
<1> QED BY <1>2, <1>3, Zenon DEF State

\* A block that a callback may produce is still such a block half a slot later, when the
\* callback is not too late.
LEMMA MineStays ==
    ASSUME Good(n), Tick, n' \in State, Mine(n), NEW left \in Int, left > -MaxLag,
           InTime(n, left)
    PROVE  Mine(n') /\ InTime(n', left - 1)
<1> DEFINE p == get_scheduled_producer(n, n.pending)
<1>1. n \in State /\ n.pending \in Int /\ Early \in Int /\ EarlyLast \in Int /\ MaxLag \in Int /\ MaxHeadAge \in Nat
  BY LoopAssumption DEF Good, State, Mine
<1>2. MaxLag <= MaxHeadAge /\ MaxLag - Early <= MaxHeadAge /\ MaxLag - EarlyLast <= MaxHeadAge
  BY LoopAssumption
<1>3. n.pending - 1 > TooOld
  BY <1>1, <1>2 DEF TooOld, InTime
<1>4. TooOld \in Int
  BY Lengths
<1>5. Max({n.pending - 1, TooOld}) = n.pending - 1
  BY <1>1, <1>3, <1>4, MaxOfTwo
<1>6. n'.pending = n.pending - 1
  BY <1>1, <1>5, Zenon DEF Tick, Mine, State
<1>7. n'.phase = (n.phase + 1) % Cycle /\ n'.mode = n.mode
  BY <1>1, Zenon DEF Tick, State
<1>8. get_scheduled_producer(n', n'.pending) = p
  BY <1>1, <1>6, <1>7, SlotStays
<1>9. p \in Local /\ n.watermark[p] \in Watermark
  BY <1>1 DEF Mine, State
<1>10. n.watermark[p].num = 0 /\ n.watermark[p].time < n.pending /\ n.pending <= 2
  BY DEF Mine
<1> HIDE DEF p
<1>11. n'.watermark = [q \in Local |-> [num  |-> n.watermark[q].num,
                                        time |-> Max({n.watermark[q].time - 1, TooOld})]]
  BY <1>1, Zenon DEF Tick, State
<1>12. n'.watermark[p].num = 0 /\ n'.watermark[p].time = Max({n.watermark[p].time - 1, TooOld})
  BY <1>9, <1>10, <1>11
<1>13. n'.watermark[p].time < n.pending - 1
  <2>1. n.watermark[p].time \in Int
    BY <1>9 DEF Watermark
  <2> QED BY <1>1, <1>3, <1>4, <1>10, <1>12, <2>1, MaxOfTwo
<1>14. n'.mode = "producing" /\ n'.pending # None /\ n'.pending <= 2
  BY <1>1, <1>6, <1>7, <1>10, LoopAssumption DEF Mine
<1>15. Mine(n')
  BY <1>6, <1>8, <1>9, <1>12, <1>13, <1>14 DEF Mine
<1> QED BY <1>1, <1>6, <1>15 DEF InTime

\* A half of a slot passes.
LEMMA TickIsGood ==
    ASSUME Good(n), Tick
    PROVE  Good(n') /\ n'.head <= n.head
<1>1. /\ n \in State /\ n.head >= TooOld /\ Alone(n) /\ AllWanted(n) /\ AfterHead(n)
      /\ MustBeLive(n) => Live(n)
  BY DEF Good
<1>2. TooOld \in Int /\ n.head \in Int /\ n.posted \subseteq Handler
  BY <1>1, Lengths DEF State
<1>3. /\ Max({n.head - 1, TooOld}) \in Int
      /\ Max({n.head - 1, TooOld}) >= TooOld
      /\ Max({n.head - 1, TooOld}) <= n.head
      /\ Max({n.head - 1, TooOld}) > TooOld => Max({n.head - 1, TooOld}) = n.head - 1
  BY <1>1, <1>2, MaxOfTwo
<1>4. n.pending # None => n.pending \in Int /\ Max({n.pending - 1, TooOld}) \in Int
                          /\ Max({n.pending - 1, TooOld}) >= n.pending - 1
  <2>1. n.pending # None => n.pending \in Int /\ n.pending - 1 \in Int
    BY <1>1 DEF State
  <2> QED BY <1>2, <2>1, MaxOfTwo
<1>5. \A h \in Handler : Later(h) \in Handler /\ Later(h).kind = h.kind /\ Later(h).fresh = h.fresh
                         /\ (h.fresh => Later(h).left = h.left - 1)
  BY DEF Handler, Later
<1>6. n.timer # None => /\ n.timer \in Timer
                        /\ [kind |-> n.timer.kind, left |-> n.timer.left - 1] \in Timer
                        /\ [kind |-> n.timer.kind, left |-> n.timer.left - 1].kind = n.timer.kind
                        /\ [kind |-> n.timer.kind, left |-> n.timer.left - 1].left = n.timer.left - 1
  BY <1>1 DEF State, Timer
<1> DEFINE w == [p \in Local |-> [num |-> n.watermark[p].num, time |-> Max({n.watermark[p].time - 1, TooOld})]]
           t == IF n.timer = None THEN None ELSE [kind |-> n.timer.kind, left |-> n.timer.left - 1]
           b == IF n.pending = None THEN None ELSE Max({n.pending - 1, TooOld})
           q == {Later(h) : h \in n.posted}
           c == (n.phase + 1) % Cycle
           e == Max({n.head - 1, TooOld})
<1>7. w \in [Local -> Watermark]
  <2>1. ASSUME NEW p \in Local PROVE w[p] \in Watermark
    <3>1. n.watermark[p] \in Watermark
      BY <1>1 DEF State
    <3>2. n.watermark[p].num \in Nat /\ n.watermark[p].time \in Int
      BY <3>1 DEF Watermark
    <3>3. Max({n.watermark[p].time - 1, TooOld}) \in Int
      BY <1>2, <3>2, MaxOfTwo
    <3> QED BY <3>2, <3>3 DEF Watermark
  <2> QED BY <2>1
<1>8. n' = [n EXCEPT !.phase = c, !.head = e, !.pending = b, !.timer = t, !.posted = q, !.watermark = w]
  BY DEF Tick
<1>9. t \in Timer \cup {None} /\ b \in Int \cup {None}
  BY <1>4, <1>6
<1>10. q \subseteq Handler
  BY <1>2, <1>5
<1>11. c \in 0 .. Cycle - 1
  <2>1. n.phase \in Int
    BY <1>1, Lengths DEF State
  <2> QED BY <2>1, Lengths
<1>12. e \in Int
  BY <1>3
<1>13. ASSUME NEW g \in q PROVE \E h \in n.posted : g = Later(h)
  OBVIOUS
<1> HIDE DEF w, t, b, q, c, e
<1>14. /\ n' \in State /\ n'.head = e /\ n'.pending = b /\ n'.timer = t /\ n'.posted = q
       /\ n'.mode = n.mode /\ n'.enabled = n.enabled /\ n'.paused = n.paused /\ n'.old_lib = n.old_lib
  BY <1>1, <1>7, <1>8, <1>9, <1>10, <1>11, <1>12, Zenon DEF State
<1>15. Alone(n')
  <2>1. ASSUME NEW g \in n'.posted PROVE \E h \in n.posted : g = Later(h) /\ g.fresh = h.fresh
    BY <1>2, <1>5, <1>13, <1>14
  <2>2. t # None => n.timer # None
    BY DEF t
  <2> QED BY <1>1, <1>14, <2>1, <2>2 DEF Alone
<1>16. AllWanted(n')
  <2>0. ASSUME NEW left \in Int, left > -MaxLag, NEW kind, Wanted(n, kind, left)
        PROVE  Wanted(n', kind, left - 1)
    <3>1. kind = "produce" =>
            Mine(n') /\ InTime(n', left - 1)
      BY <1>14, <2>0, MineStays DEF Wanted
    <3>2. ASSUME kind = "loop", n'.pending # None
          PROVE  n'.mode = "speculating" /\ left - 1 >= n'.pending
      <4>1. n.pending # None /\ n.pending \in Int /\ n'.pending = Max({n.pending - 1, TooOld})
        BY <1>4, <1>14, <3>2 DEF b
      <4>2. n.mode = "speculating" /\ left >= n.pending
        BY <2>0, <3>2, <4>1 DEF Wanted
      <4>3. left - 1 >= TooOld
        BY <2>0, LoopAssumption DEF TooOld
      <4> QED BY <1>2, <1>14, <4>1, <4>2, <4>3, MaxOfTwo
    <3> QED BY <3>1, <3>2 DEF Wanted
  <2>1. ASSUME n'.timer # None PROVE Wanted(n', n'.timer.kind, n'.timer.left)
    <3>1. n.timer # None /\ n'.timer.kind = n.timer.kind /\ n'.timer.left = n.timer.left - 1
      BY <1>6, <1>14, <2>1 DEF t
    <3>2. n.timer.left \in Int /\ n.timer.left > -MaxLag
      BY <1>6, <3>1 DEF Tick, Due, Timer
    <3>3. Wanted(n, n.timer.kind, n.timer.left)
      BY <1>1, <3>1 DEF AllWanted
    <3> QED BY <2>0, <3>1, <3>2, <3>3
  <2>2. ASSUME NEW g \in n'.posted, g.fresh
        PROVE  /\ g.left <= 0
               /\ Wanted(n', g.kind, g.left) \/ (g.kind = "loop" /\ n'.mode = "speculating" /\ Unable(n'))
    <3>1. PICK h \in n.posted : g = Later(h)
      BY <1>13, <1>14
    <3>2. h \in Handler /\ h.fresh /\ g.kind = h.kind /\ g.left = h.left - 1
      BY <1>2, <1>5, <2>2, <3>1
    <3>3. h.left \in Int /\ h.left > -MaxLag
      BY <3>2 DEF Tick, Due, Handler
    <3>4. /\ h.left <= 0
          /\ Wanted(n, h.kind, h.left) \/ (h.kind = "loop" /\ n.mode = "speculating" /\ Unable(n))
      BY <1>1, <3>2 DEF AllWanted
    <3>5. Unable(n) => Unable(n')
      BY <1>14 DEF Unable, production_disabled_by_policy
    <3> QED BY <1>14, <2>0, <3>2, <3>3, <3>4, <3>5
  <2> QED BY <2>1, <2>2 DEF AllWanted
<1>17. MustBeLive(n') => Live(n')
  <2>1. MustBeLive(n') => MustBeLive(n)
    BY <1>14 DEF MustBeLive, Unable, production_disabled_by_policy
  <2>2. n.timer # None => t # None
    BY <1>6, LoopAssumption DEF t, Timer
  <2>3. ASSUME NEW h \in n.posted, h.fresh PROVE Later(h) \in q /\ Later(h).fresh
    BY <1>2, <1>5, <2>3 DEF q
  <2> QED BY <1>1, <1>14, <2>1, <2>2, <2>3 DEF Live
<1>18. AfterHead(n')
  <2>1. ASSUME n'.pending # None
        PROVE  n'.pending >= TooOld /\ (n'.head > TooOld => n'.pending > n'.head)
    <3>1. n.pending # None /\ n'.pending = Max({n.pending - 1, TooOld}) /\ n.pending - 1 \in Int
      BY <1>4, <1>14, <2>1 DEF b
    <3>2. n'.pending >= TooOld
      BY <1>2, <3>1, MaxOfTwo
    <3>3. ASSUME n'.head > TooOld PROVE n'.pending > n'.head
      <4>1. e = n.head - 1 /\ n.head > TooOld
        BY <1>2, <1>3, <1>14, <3>3 DEF e
      <4>2. n.pending > n.head
        BY <1>1, <3>1, <4>1 DEF AfterHead
      <4> QED BY <1>2, <1>4, <1>14, <3>1, <4>1, <4>2
    <3> QED BY <3>2, <3>3
  <2> QED BY <2>1 DEF AfterHead
<1>19. n'.head >= TooOld /\ n'.head <= n.head
  BY <1>3, <1>14 DEF e
<1> QED BY <1>14, <1>15, <1>16, <1>17, <1>18, <1>19 DEF Good

\* The timer expires.
LEMMA ExpireIsGood ==
    ASSUME Good(n), Expire
    PROVE  Good(n') /\ n'.head <= n.head
<1> DEFINE g == [kind |-> n.timer.kind, fresh |-> TRUE, left |-> n.timer.left]
<1>1. /\ n \in State /\ n.head >= TooOld /\ Alone(n) /\ AllWanted(n) /\ AfterHead(n)
  BY DEF Good
<1>2. n.timer # None /\ n.timer \in Timer
  BY <1>1 DEF Expire, State
<1>3. g \in Handler /\ g.fresh = TRUE /\ g.kind = n.timer.kind /\ g.left = n.timer.left
  BY <1>2 DEF Timer, Handler
<1>4. n' = [n EXCEPT !.timer = None, !.posted = n.posted \cup {g}]
  BY DEF Expire
<1> HIDE DEF g
<1>5. /\ n' \in State /\ n'.timer = None /\ n'.posted = n.posted \cup {g} /\ n'.head = n.head
      /\ n'.pending = n.pending /\ n'.mode = n.mode /\ n'.watermark = n.watermark /\ n'.phase = n.phase
  BY <1>1, <1>3, <1>4, Zenon DEF State
<1>6. Alone(n')
  BY <1>1, <1>2, <1>5 DEF Alone
<1>7. Live(n')
  BY <1>3, <1>5 DEF Live
<1>8. Mine(n) => Mine(n')
  BY <1>5 DEF Mine, get_scheduled_producer, SlotIn
<1>9. AllWanted(n')
  <2>1. n.timer.left <= 0
    BY DEF Expire
  <2>2. \A h \in n'.posted : h.fresh => h = g
    BY <1>1, <1>2, <1>5 DEF Alone
  <2>3. Wanted(n', g.kind, g.left)
    BY <1>1, <1>2, <1>3, <1>5, <1>8 DEF AllWanted, Wanted, InTime
  <2>4. g.left <= 0
    BY <1>3, <2>1
  <2>5. \A h \in n'.posted : h.fresh => h.left <= 0 /\ Wanted(n', h.kind, h.left)
    BY <2>2, <2>3, <2>4
  <2> QED BY <1>5, <2>5 DEF AllWanted
<1>10. AfterHead(n') /\ n'.head >= TooOld
  BY <1>1, <1>5 DEF AfterHead
<1>11. n'.head <= n.head
  BY <1>1, <1>5 DEF State
<1> QED BY <1>5, <1>6, <1>7, <1>9, <1>10, <1>11 DEF Good

\* What OwnSlots says of a step that produced a block.
Owned ==
    LET p == get_scheduled_producer(n', n'.head)
    IN  /\ p \in Local
        /\ n'.head <= 2
        /\ n.watermark[p].num = 0
        /\ n.watermark[p].time < n'.head

\* A callback runs: only one that is current and for a block produces.
LEMMA CallbackIsGood ==
    ASSUME Good(n), NEW h, NEW ok, Callback(h, ok)
    PROVE  Good(n') /\ (n'.head > n.head => Owned)
<1> DEFINE m == [n EXCEPT !.posted = @ \ {h}]
<1>1. /\ n \in State /\ n.head >= TooOld /\ Alone(n) /\ AllWanted(n) /\ AfterHead(n)
      /\ MustBeLive(n) => Live(n)
  BY DEF Good
<1>2. /\ m \in State /\ m.posted = n.posted \ {h} /\ m.head = n.head /\ m.phase = n.phase
      /\ m.pending = n.pending /\ m.mode = n.mode /\ m.watermark = n.watermark /\ m.timer = n.timer
      /\ m.enabled = n.enabled /\ m.paused = n.paused /\ m.old_lib = n.old_lib
  BY <1>1 DEF State
<1>3. h \in n.posted
  BY DEF Callback
<1>4. n.head \in Int
  BY <1>1 DEF State
<1>5. CASE ~h.fresh
  <2>1. n' = m
    BY <1>5 DEF Callback, acts
  <2> HIDE DEF m
  <2>2. Alone(m) /\ AfterHead(m)
    BY <1>1, <1>2, Zenon DEF Alone, AfterHead
  <2>3. Mine(n) => Mine(m)
    BY <1>2, Zenon DEF Mine, get_scheduled_producer, SlotIn
  <2>4. AllWanted(m)
    <3>1. Unable(n) => Unable(m)
      BY <1>2 DEF Unable, production_disabled_by_policy
    <3> QED BY <1>1, <1>2, <2>3, <3>1 DEF AllWanted, Wanted, InTime
  <2>5. MustBeLive(m) => Live(m)
    BY <1>1, <1>2, <1>5, Zenon DEF MustBeLive, Unable, Live, production_disabled_by_policy
  <2>6. Good(m)
    BY <1>1, <1>2, <2>2, <2>4, <2>5 DEF Good
  <2> QED BY <1>2, <1>4, <2>1, <2>6
<1>6. CASE h.fresh
  <2>1. \A g \in m.posted : ~g.fresh
    BY <1>1, <1>2, <1>3, <1>6 DEF Alone
  <2>2. CASE h.kind = "produce"
    <3>1. Mine(n)
      BY <1>1, <1>3, <1>6, <2>2 DEF AllWanted, Wanted
    <3>2. n.pending \in Int /\ n.pending # None
      BY <1>1, <3>1 DEF Mine, State
    <3> DEFINE z == [(IF ok THEN produce_block(m) ELSE m) EXCEPT !.pending = None]
    <3>3. n' \in schedule_production_loop(z, ok)
      BY <1>6, <2>2 DEF Callback, acts, maybe_produce_block
    <3> HIDE DEF m
    <3>4. CASE ok
      <4>1. produce_block(m) = Headed(m, n.pending)
        BY <1>2, <3>1, <3>2 DEF produce_block, Mine
      <4> DEFINE d == Headed(m, n.pending)
      <4>2. d \in State /\ d.head = n.pending /\ d.phase = m.phase /\ d.posted = m.posted
        BY <1>2, <3>2, HeadedIs
      <4>3. z = [d EXCEPT !.pending = None]
        BY <3>4, <4>1
      <4> HIDE DEF d
      <4>4. z \in State /\ z.head = n.pending /\ z.phase = n.phase /\ z.posted = m.posted /\ z.pending = None
        BY <1>2, <4>2, <4>3 DEF State
      <4> HIDE DEF z
      <4>5. n.pending >= TooOld
        BY <1>1, <3>2 DEF AfterHead
      <4>6. Ready(z)
        BY <2>1, <4>4, <4>5 DEF Ready, Quiet, AfterHead
      <4>7. Good(n') /\ Beside(n', z)
        BY <3>3, <4>6, LoopIsGood
      <4>8. n'.head = n.pending /\ get_scheduled_producer(n', n'.head) = get_scheduled_producer(n, n.pending)
        BY <4>4, <4>7 DEF Beside, get_scheduled_producer, SlotIn
      <4>9. Owned
        BY <3>1, <4>8 DEF Mine, Owned
      <4> QED BY <4>7, <4>9
    <3>5. CASE ~ok
      <4>1. z = [m EXCEPT !.pending = None]
        BY <3>5
      <4>2. z \in State /\ z.head = n.head /\ z.posted = m.posted /\ z.pending = None
        BY <1>2, <4>1 DEF State
      <4> HIDE DEF z
      <4>3. Ready(z)
        BY <1>1, <2>1, <4>2 DEF Ready, Quiet, AfterHead
      <4>4. Good(n') /\ Beside(n', z)
        BY <3>3, <4>3, LoopIsGood
      <4> QED BY <1>4, <4>2, <4>4 DEF Beside
    <3> QED BY <3>4, <3>5
  <2>3. CASE h.kind # "produce"
    <3>1. n' \in schedule_production_loop(m, ok)
      BY <1>6, <2>3 DEF Callback, acts
    <3> HIDE DEF m
    <3>2. Ready(m)
      <4>1. h.kind = "loop" /\ h.left <= 0 /\ h.left \in Int
        BY <1>1, <1>3, <1>6, <2>3, Zenon DEF State, Handler, AllWanted
      <4>2. m.pending # None => m.mode = "speculating" /\ (Unable(n) \/ m.pending <= h.left)
        BY <1>1, <1>2, <1>3, <1>6, <4>1 DEF AllWanted, Wanted
      <4>3. Unable(n) => Unable(m)
        BY <1>2 DEF Unable, production_disabled_by_policy
      <4>4. m.pending # None => m.pending \in Int
        BY <1>2 DEF State
      <4>5. Quiet(m)
        BY <1>1, <1>2, <2>1 DEF Quiet, AfterHead
      <4> QED BY <4>1, <4>2, <4>3, <4>4, <4>5 DEF Ready
    <3>3. Good(n') /\ Beside(n', m)
      BY <3>1, <3>2, LoopIsGood
    <3> QED BY <1>2, <1>4, <3>3 DEF Beside
  <2> QED BY <2>2, <2>3
<1> QED BY <1>5, <1>6

\* A transaction does not fit: the timer is set to now.
LEMMA ExhaustIsGood ==
    ASSUME Good(n), incoming_exhausts
    PROVE  Good(n') /\ n'.head <= n.head
<1>1. n \in State /\ n.head >= TooOld /\ AllWanted(n) /\ AfterHead(n) /\ (MustBeLive(n) => Live(n))
  BY DEF Good
<1>2. n.mode = "producing" /\ n.pending # None /\ n.posted = {}
  BY DEF incoming_exhausts, nothing_ready
<1>3. n.timer # None /\ n.timer \in Timer
  BY <1>1, <1>2 DEF MustBeLive, Live, State
<1>4. n.timer.left > 0 /\ n.timer.left \in Int /\ n.pending \in Int /\ n.head \in Int
  BY <1>1, <1>2, <1>3 DEF incoming_exhausts, Due, Timer, State
<1>5. Wanted(n, n.timer.kind, n.timer.left) /\ n.timer.kind \in {"loop", "produce"}
  BY <1>1, <1>3 DEF AllWanted, Timer
<1>6. Mine(n) /\ InTime(n, n.timer.left)
  BY <1>2, <1>5 DEF Wanted
<1>7. InTime(n, 0)
  BY <1>4, <1>6, LoopAssumption DEF InTime
<1>8. n' = schedule_maybe_produce_block(n, TRUE)
  BY DEF incoming_exhausts
<1>9. Good(n') /\ Beside(n', n)
  BY <1>1, <1>6, <1>7, <1>8, ArmProduce, Zenon
<1> QED BY <1>4, <1>9 DEF Beside

\* A block of another producer is applied, or one fails, or the branch changes.
LEMMA IncomingIsGood ==
    ASSUME Good(n),
           \/ \E lead \in TooOld .. 2, lib \in BOOLEAN : on_incoming_block(lead, lib)
           \/ on_incoming_fork
    PROVE  Good(n') /\ n.mode # "producing"
<1>1. /\ n \in State /\ n.head >= TooOld /\ Alone(n) /\ AllWanted(n) /\ AfterHead(n)
  BY Zenon DEF Good
<1>2. n.mode # "producing"
  BY Zenon DEF on_incoming_block, on_incoming_fork
<1>3. ASSUME NEW z, z \in State, z.posted = n.posted, z.pending = None, z.head >= TooOld
      PROVE  Ready(z)
  <2>1. \A h \in n.posted : h \in Handler
    BY <1>1 DEF State
  <2>2. \A h \in n.posted : h.fresh => h.kind = "loop" /\ h.left <= 0
    BY <1>1, <1>2, <2>1 DEF AllWanted, Wanted, Mine, Handler
  <2> QED BY <1>1, <1>3, <2>2 DEF Ready, Quiet, AfterHead, Alone
<1>4. CASE \E lead \in TooOld .. 2, lib \in BOOLEAN : on_incoming_block(lead, lib)
  <2>1. PICK lead \in TooOld .. 2, lib \in BOOLEAN : on_incoming_block(lead, lib)
    BY <1>4
  <2> DEFINE d == Headed(n, lead)
             z == [d EXCEPT !.enabled = @ \/ enables(lead), !.old_lib = @ /\ ~lib]
  <2>2. n' \in schedule_production_loop(z, TRUE)
    BY <2>1, Zenon DEF on_incoming_block
  <2>3. lead \in Int /\ lead >= TooOld
    BY Lengths
  <2>4. d \in State /\ d.head = lead /\ d.pending = None /\ d.posted = n.posted
    BY <1>1, <2>3, HeadedIs
  <2> HIDE DEF d
  <2>5. (d.enabled \/ enables(lead)) \in BOOLEAN /\ (d.old_lib /\ ~lib) \in BOOLEAN
    OBVIOUS
  <2>6. z \in State /\ z.head = lead /\ z.pending = None /\ z.posted = n.posted
    BY <2>4, <2>5, Zenon DEF State
  <2> HIDE DEF z
  <2>7. Ready(z)
    BY <1>3, <2>3, <2>6
  <2> QED BY <1>2, <2>2, <2>7, LoopIsGood, Zenon
<1>5. CASE n' \in schedule_production_loop([n EXCEPT !.pending = None], TRUE)
  <2> DEFINE z == [n EXCEPT !.pending = None]
  <2>1. z \in State /\ z.head = n.head /\ z.pending = None /\ z.posted = n.posted
    BY <1>1 DEF State
  <2> HIDE DEF z
  <2>2. Ready(z)
    BY <1>1, <1>3, <2>1
  <2> QED BY <1>2, <1>5, <2>2, LoopIsGood, Zenon DEF z
<1>6. ASSUME NEW lead \in TooOld .. 0, NEW num \in 0 .. MaxLead,
             n' \in schedule_production_loop(
                       [n EXCEPT !.head = lead, !.pending = None, !.enabled = @ \/ enables(lead),
                                 !.watermark = [p \in Local |-> [num |-> num, time |-> @[p].time]]], TRUE)
      PROVE  Good(n')
  <2> DEFINE w == [p \in Local |-> [num |-> num, time |-> n.watermark[p].time]]
             z == [n EXCEPT !.head = lead, !.pending = None, !.enabled = @ \/ enables(lead), !.watermark = w]
  <2>1. n' \in schedule_production_loop(z, TRUE)
    BY <1>6, Zenon
  <2>2. w \in [Local -> Watermark]
    <3>1. ASSUME NEW p \in Local PROVE w[p] \in Watermark
      <4>1. n.watermark[p] \in Watermark
        BY <1>1 DEF State
      <4> QED BY <4>1 DEF Watermark
    <3> QED BY <3>1
  <2> HIDE DEF w
  <2>3. lead \in Int /\ lead >= TooOld
    BY Lengths
  <2>4. (n.enabled \/ enables(lead)) \in BOOLEAN
    OBVIOUS
  <2>5. z \in State /\ z.head = lead /\ z.pending = None /\ z.posted = n.posted
    BY <1>1, <2>2, <2>3, <2>4, Zenon DEF State
  <2> HIDE DEF z
  <2>6. Ready(z)
    BY <1>3, <2>3, <2>5
  <2> QED BY <2>1, <2>6, LoopIsGood, Zenon
<1> QED BY <1>2, <1>4, <1>5, <1>6, Zenon DEF on_incoming_fork

\* The calls of the API, and the age of the irreversible block.
LEMMA ApiIsGood ==
    ASSUME Good(n), Api
    PROVE  Good(n') /\ n'.head <= n.head
<1>1. /\ n \in State /\ n.head >= TooOld /\ Alone(n) /\ AllWanted(n) /\ AfterHead(n)
      /\ MustBeLive(n) => Live(n)
  BY DEF Good
<1>2. n.head \in Int
  BY <1>1 DEF State
<1>3. ASSUME NEW z, z \in State, z.posted = n.posted, z.timer = n.timer, z.head = n.head,
             z.phase = n.phase, z.pending = n.pending, z.mode = n.mode, z.watermark = n.watermark,
             \/ Unable(n) => Unable(z)
             \/ n.posted = {},
             MustBeLive(z) => MustBeLive(n)
      PROVE  Good(z)
  <2>1. Mine(n) => Mine(z)
    BY <1>3 DEF Mine, get_scheduled_producer, SlotIn
  <2>2. AllWanted(z)
    BY <1>1, <1>3, <2>1, Zenon DEF AllWanted, Wanted, InTime
  <2>3. Alone(z) /\ AfterHead(z) /\ (MustBeLive(z) => Live(z))
    BY <1>1, <1>3, Zenon DEF Alone, AfterHead, Live
  <2> QED BY <1>1, <1>3, <2>2, <2>3 DEF Good
<1>4. ASSUME NEW z, z \in State, z.posted = {}, z.pending = None, z.head = n.head,
             n' \in schedule_production_loop(z, TRUE)
      PROVE  Good(n') /\ n'.head <= n.head
  <2>1. Ready(z)
    BY <1>1, <1>4 DEF Ready, Quiet, AfterHead
  <2>2. Good(n') /\ Beside(n', z)
    BY <1>4, <2>1, LoopIsGood, Zenon
  <2> QED BY <1>2, <1>4, <2>2 DEF Beside
<1>5. ASSUME NEW z, z \in State, z.posted = n.posted, z.timer = n.timer, z.head = n.head,
             z.phase = n.phase, z.pending = n.pending, z.mode = n.mode, z.watermark = n.watermark,
             n.posted = {}, n' \in Rescheduled(z)
      PROVE  Good(n') /\ n'.head <= n.head
  <2>1. CASE z.mode = "speculating"
    <3> DEFINE y == [z EXCEPT !.pending = None]
    <3>1. y \in State /\ y.posted = {} /\ y.pending = None /\ y.head = n.head
      BY <1>5 DEF State
    <3>2. n' \in schedule_production_loop(y, TRUE)
      BY <1>5, <2>1, Zenon DEF Rescheduled
    <3> HIDE DEF y
    <3> QED BY <1>4, <3>1, <3>2, Zenon
  <2>2. CASE z.mode # "speculating"
    <3>1. n' = z /\ n.mode = "producing"
      BY <1>5, <2>2 DEF Rescheduled, State
    <3>2. MustBeLive(n)
      BY <3>1 DEF MustBeLive
    <3> QED BY <1>2, <1>3, <1>5, <3>1, <3>2
  <2> QED BY <2>1, <2>2
<1>6. CASE pause \/ lib_ages
  <2>1. \/ n' = [n EXCEPT !.paused = TRUE]
        \/ n' = [n EXCEPT !.old_lib = TRUE]
    BY <1>6 DEF pause, lib_ages
  <2>2. /\ n' \in State /\ n'.posted = n.posted /\ n'.timer = n.timer /\ n'.head = n.head
        /\ n'.phase = n.phase /\ n'.pending = n.pending /\ n'.mode = n.mode /\ n'.watermark = n.watermark
    BY <1>1, <2>1, Zenon DEF State
  <2>3. production_disabled_by_policy(n')
    BY <1>1, <2>1 DEF State, production_disabled_by_policy
  <2>4. Unable(n') /\ (MustBeLive(n') => MustBeLive(n))
    BY <2>2, <2>3 DEF Unable, MustBeLive
  <2>5. Good(n')
    BY <1>3, <2>2, <2>4
  <2> QED BY <1>2, <2>2, <2>5
<1>7. CASE nothing_ready /\ resume
  <2> DEFINE z == [n EXCEPT !.paused = FALSE, !.chip_armed = @ \/ n.mode = "speculating"]
  <2>1. n' \in Rescheduled(z) /\ n.posted = {}
    BY <1>7 DEF resume, nothing_ready
  <2>2. (n.chip_armed \/ n.mode = "speculating") \in BOOLEAN
    OBVIOUS
  <2>3. /\ z \in State /\ z.posted = n.posted /\ z.timer = n.timer /\ z.head = n.head
        /\ z.phase = n.phase /\ z.pending = n.pending /\ z.mode = n.mode /\ z.watermark = n.watermark
    BY <1>1, <2>2, Zenon DEF State
  <2> HIDE DEF z
  <2> QED BY <1>5, <2>1, <2>3
<1>8. CASE nothing_ready /\ update_runtime_options
  <2>1. PICK old \in BOOLEAN : n' \in Rescheduled([n EXCEPT !.old_lib = old])
    BY <1>8 DEF update_runtime_options
  <2> DEFINE z == [n EXCEPT !.old_lib = old]
  <2>2. n' \in Rescheduled(z) /\ n.posted = {}
    BY <1>8, <2>1 DEF nothing_ready
  <2>3. /\ z \in State /\ z.posted = n.posted /\ z.timer = n.timer /\ z.head = n.head
        /\ z.phase = n.phase /\ z.pending = n.pending /\ z.mode = n.mode /\ z.watermark = n.watermark
    BY <1>1 DEF State
  <2> HIDE DEF z
  <2> QED BY <1>5, <2>2, <2>3
<1>9. CASE nothing_ready /\ write_snapshot
  <2> DEFINE z == [n EXCEPT !.pending = None]
  <2>1. n' \in schedule_production_loop(z, TRUE) /\ n.posted = {}
    BY <1>9, Zenon DEF write_snapshot, nothing_ready
  <2>2. z \in State /\ z.posted = n.posted /\ z.head = n.head /\ z.pending = None
    BY <1>1 DEF State
  <2> HIDE DEF z
  <2> QED BY <1>4, <2>1, <2>2, Zenon
<1> QED BY <1>6, <1>7, <1>8, <1>9 DEF Api

\* The chipcounter timer does not touch the production loop.
LEMMA ChipIsGood ==
    ASSUME Good(n), ChipExpire \/ ChipCallback
    PROVE  Good(n') /\ n'.head <= n.head
<1>1. /\ n \in State /\ n.head >= TooOld /\ Alone(n) /\ AllWanted(n) /\ AfterHead(n)
      /\ MustBeLive(n) => Live(n)
  BY DEF Good
<1>2. /\ n' \in State /\ n'.posted = n.posted /\ n'.timer = n.timer /\ n'.head = n.head
      /\ n'.phase = n.phase /\ n'.pending = n.pending /\ n'.mode = n.mode /\ n'.watermark = n.watermark
      /\ n'.enabled = n.enabled /\ n'.paused = n.paused /\ n'.old_lib = n.old_lib
  <2>1. CASE ChipExpire
    <3>1. n.chip_posted + 1 \in Int
      BY <1>1 DEF State
    <3>2. n' = [n EXCEPT !.chip_armed = FALSE, !.chip_posted = n.chip_posted + 1]
      BY <2>1 DEF ChipExpire
    <3> QED BY <1>1, <3>1, <3>2, Zenon DEF State
  <2>2. CASE ChipCallback
    <3> DEFINE m == [n EXCEPT !.chip_posted = @ - 1]
    <3>1. /\ m \in State /\ m.posted = n.posted /\ m.timer = n.timer /\ m.head = n.head
          /\ m.phase = n.phase /\ m.pending = n.pending /\ m.mode = n.mode /\ m.watermark = n.watermark
          /\ m.enabled = n.enabled /\ m.paused = n.paused /\ m.old_lib = n.old_lib
      BY <1>1 DEF State
    <3>2. n' = [m EXCEPT !.chip_armed = TRUE]
      BY <2>2 DEF ChipCallback, schedule_chipcounter_loop
    <3> HIDE DEF m
    <3> QED BY <3>1, <3>2, Zenon DEF State
  <2> QED BY <2>1, <2>2
<1>3. Mine(n) => Mine(n')
  BY <1>2 DEF Mine, get_scheduled_producer, SlotIn
<1>4. Unable(n) <=> Unable(n')
  BY <1>2, Zenon DEF Unable, production_disabled_by_policy
<1>5. AllWanted(n')
  BY <1>1, <1>2, <1>3, <1>4, Zenon DEF AllWanted, Wanted, InTime
<1>6. Alone(n') /\ AfterHead(n') /\ (MustBeLive(n') => Live(n'))
  BY <1>1, <1>2, <1>4 DEF Alone, AfterHead, Live, MustBeLive
<1>7. n'.head <= n.head
  BY <1>1, <1>2 DEF State
<1> QED BY <1>1, <1>2, <1>5, <1>6, <1>7 DEF Good

-----------------------------------------------------------------------------
(* The theorems.                                                           *)

\* plugin_startup leaves a good plugin.
LEMMA Initially == Init => Good(n)
<1> SUFFICES ASSUME Init PROVE Good(n)
  OBVIOUS
<1>1. PICK enabled \in BOOLEAN, head \in {TooOld, 0} :
         n \in schedule_production_loop(
                   [phase |-> 0, head |-> head, pending |-> None, mode |-> "speculating",
                    enabled |-> enabled, paused |-> FALSE, old_lib |-> FALSE,
                    watermark |-> [p \in Local |-> [num |-> 0, time |-> TooOld]],
                    timer |-> None, posted |-> {}, chip_armed |-> TRUE, chip_posted |-> 0], TRUE)
  BY Zenon DEF Init
<1> DEFINE w == [p \in Local |-> [num |-> 0, time |-> TooOld]]
           z == [phase |-> 0, head |-> head, pending |-> None, mode |-> "speculating",
                 enabled |-> enabled, paused |-> FALSE, old_lib |-> FALSE, watermark |-> w,
                 timer |-> None, posted |-> {}, chip_armed |-> TRUE, chip_posted |-> 0]
<1>2. n \in schedule_production_loop(z, TRUE)
  BY <1>1, Zenon
<1>3. w \in [Local -> Watermark]
  BY Lengths DEF Watermark
<1> HIDE DEF w
<1>4. 0 \in 0 .. Cycle - 1 /\ head \in Int /\ head >= TooOld
  BY Lengths, LoopAssumption DEF TooOld
<1>5. z \in State /\ z.posted = {} /\ z.pending = None /\ z.head >= TooOld
  BY <1>3, <1>4 DEF State
<1> HIDE DEF z
<1>6. Ready(z)
  BY <1>5 DEF Ready, Quiet, AfterHead
<1> QED BY <1>2, <1>6, LoopIsGood, Zenon

\* Every step keeps the plugin good, and a block is only produced as OwnSlots says.
LEMMA Inductive ==
    ASSUME Good(n), [Next]_vars
    PROVE  Good(n') /\ (n' # n /\ n'.head > n.head /\ n.mode = "producing" => Owned)
<1>1. n.head \in Int
  BY DEF Good, State
<1>2. ASSUME Good(n'), n'.head <= n.head PROVE ~(n'.head > n.head)
  BY <1>1, <1>2 DEF Good, State
<1>3. CASE Tick
  BY <1>2, <1>3, TickIsGood
<1>4. CASE Expire
  BY <1>2, <1>4, ExpireIsGood
<1>5. CASE Callbacks
  BY <1>5, CallbackIsGood DEF Callbacks
<1>6. CASE incoming_exhausts
  BY <1>2, <1>6, ExhaustIsGood
<1>7. CASE \/ \E lead \in TooOld .. 2, lib \in BOOLEAN : on_incoming_block(lead, lib)
           \/ on_incoming_fork
  BY <1>7, IncomingIsGood
<1>8. CASE Api
  BY <1>2, <1>8, ApiIsGood
<1>9. CASE ChipExpire \/ ChipCallback
  BY <1>2, <1>9, ChipIsGood
<1>10. CASE UNCHANGED vars
  BY <1>10 DEF vars
<1> QED BY <1>3, <1>4, <1>5, <1>6, <1>7, <1>8, <1>9, <1>10 DEF Next

IInv == Good(n)

\* The production loop never dies and never runs a callback without its block, whatever
\* the schedule, the local producers, the offset and the number of failures, pauses and
\* switches of forks.
THEOREM LoopAlwaysAlive == Spec => []LoopStaysAlive
<1>1. Init => IInv
  BY Initially DEF IInv
<1>2. IInv /\ [Next]_vars => IInv'
  BY Inductive DEF IInv
<1>3. IInv => LoopStaysAlive
  <2> SUFFICES ASSUME Good(n) PROVE LoopStaysAlive
    BY DEF IInv
  <2>1. AllWanted(n) /\ (MustBeLive(n) => Live(n)) /\ AfterHead(n) /\ n \in State
    BY Zenon DEF Good
  <2>2. LoopIsAlive /\ ProducingHasTimer
    BY <2>1, Zenon DEF MustBeLive, Unable, Live, LoopIsAlive, ProducingHasTimer, Alive
  <2>3. ProduceFindsBlock
    BY <2>1 DEF AllWanted, Wanted, Mine, ProduceFindsBlock
  <2>4. PendingAfterHead
    BY <2>1 DEF AfterHead, PendingAfterHead
  <2> QED BY <2>2, <2>3, <2>4 DEF LoopStaysAlive
<1> QED BY <1>1, <1>2, <1>3, PTL DEF Spec

\* Blocks are only produced in the slots of local producers, not before the slot begins,
\* and after everything that the producer signed.
THEOREM OnlyOwnSlots == Spec => OwnSlots
<1> DEFINE Own == produced' => LET p == get_scheduled_producer(n', n'.head)
                               IN  /\ p \in Local
                                   /\ n'.head <= 2
                                   /\ n.watermark[p].num = 0
                                   /\ n.watermark[p].time < n'.head
<1>1. Init => IInv
  BY Initially DEF IInv
<1>2. IInv /\ [Next]_vars => IInv'
  BY Inductive DEF IInv
<1>3. IInv /\ [Next]_vars => [Own]_vars
  <2> SUFFICES ASSUME Good(n), [Next]_vars, ~UNCHANGED vars, produced' PROVE Owned
    BY DEF IInv, Owned
  <2>1. Next /\ n'.head > n.head /\ n.mode = "producing"
    BY Zenon DEF Next
  <2>2. n' # n
    <3>1. n.head \in Int
      BY DEF Good, State
    <3>2. ~(n.head > n.head)
      BY <3>1
    <3> QED BY <2>1, <3>2
  <2> QED BY <2>1, <2>2, Inductive, Zenon
<1> HIDE DEF Own
<1>4. Spec => [][Own]_vars
  BY <1>1, <1>2, <1>3, PTL DEF Spec
<1> QED BY <1>4 DEF OwnSlots, Own
=============================================================================
