-------------------------- MODULE ConsensusProofs --------------------------
(***************************************************************************)
(* Proofs about Dpos, for any schedule and any number of slots: what a     *)
(* producer confirms, and that branches do not propose different blocks.   *)
(* At the end, proofs about ProducerSchedules, for any proposals: how the  *)
(* versions of schedules grow, and that proposals stop no block.           *)
(***************************************************************************)
EXTENDS Dpos, FiniteSetTheorems, WellFoundedInduction, TLAPS

-----------------------------------------------------------------------------
(* Numbers and finite sets.                                                *)

\* A nonempty set of naturals has a smallest member.
LEMMA LeastNumber ==
    ASSUME NEW T, T \subseteq Nat, T # {}
    PROVE  \E x \in T : \A y \in T : x <= y
<1> DEFINE R == {p \in Nat \X Nat : p[1] < p[2]}
<1>1. IsWellFoundedOn(R, Nat)
  BY NatLessThanWellFounded DEF OpToRel
<1>2. \A x, y \in Nat : y < x => <<y, x>> \in R
  OBVIOUS
<1> HIDE DEF R
<1>3. PICK x \in T : \A y \in T : ~(<<y, x>> \in R)
  BY <1>1, WFMin, Zenon
<1>4. \A y \in T : ~(y < x)
  BY <1>2, <1>3, Zenon
<1> QED BY <1>4

\* The values of a function on a finite set are bounded.
LEMMA FiniteIsBounded ==
    ASSUME NEW P, IsFiniteSet(P), NEW f \in [P -> Nat]
    PROVE  \E top \in Nat : \A p \in P : f[p] <= top
<1> DEFINE size == Cardinality(P)
<1>1. size \in Nat /\ ExistsBijection(1 .. size, P)
  BY FS_CardinalityType
<1>2. PICK b \in [1 .. size -> P] : \A p \in P : \E i \in 1 .. size : b[i] = p
  BY <1>1 DEF ExistsBijection, Bijection, Surjection
<1> DEFINE Bounded(k) == \E top \in Nat : \A i \in 1 .. size : i <= k => f[b[i]] <= top
           T == {k \in Nat : ~Bounded(k)}
<1> HIDE DEF size, Bounded
<1>3. ASSUME T # {} PROVE FALSE
  <2>1. PICK k \in T : \A y \in T : k <= y
    BY <1>3, LeastNumber, Zenon
  <2>2. k \in Nat /\ ~Bounded(k) /\ \A y \in Nat : y < k => Bounded(y)
    BY <2>1
  <2> HIDE DEF T
  <2>3. k # 0
    <3>1. \A i \in 1 .. size : ~(i <= 0)
      BY <1>1
    <3>2. Bounded(0)
      BY <3>1 DEF Bounded
    <3> QED BY <2>2, <3>2
  <2>4. Bounded(k - 1)
    BY <2>2, <2>3
  <2>5. PICK top \in Nat : \A i \in 1 .. size : i <= k - 1 => f[b[i]] <= top
    BY <2>4 DEF Bounded
  <2>6. \A i \in 1 .. size : i <= k => i <= k - 1 \/ i = k
    BY <1>1, <2>2
  <2>7. CASE k \in 1 .. size
    <3>1. b[k] \in P /\ f[b[k]] \in Nat
      BY <1>2, <2>7
    <3>2. PICK more \in Nat : top <= more /\ f[b[k]] <= more
      BY <3>1
    <3>3. ASSUME NEW i \in 1 .. size, i <= k PROVE f[b[i]] <= more
      <4>1. CASE i = k
        BY <3>2, <4>1
      <4>2. CASE i <= k - 1
        <5>1. b[i] \in P /\ f[b[i]] \in Nat /\ f[b[i]] <= top
          BY <1>2, <2>5, <4>2
        <5> QED BY <3>2, <5>1
      <4> QED BY <2>6, <3>3, <4>1, <4>2
    <3> QED BY <2>2, <3>3, Zenon DEF Bounded
  <2>8. CASE k \notin 1 .. size
    BY <2>2, <2>5, <2>6, <2>8, Zenon DEF Bounded
  <2> QED BY <2>7, <2>8
<1>4. Bounded(size)
  BY <1>1, <1>3
<1>5. PICK top \in Nat : \A i \in 1 .. size : f[b[i]] <= top
  BY <1>1, <1>4 DEF Bounded
<1> QED BY <1>2, <1>5, Zenon

\* nth_element finds one of the values.
LEMMA NthElementIsOne ==
    ASSUME NEW P, IsFiniteSet(P), NEW f \in [P -> Nat], NEW i \in Nat, i < Cardinality(P)
    PROVE  nth_element(f, i) \in Nat /\ \E p \in P : nth_element(f, i) = f[p]
<1> DEFINE UpTo(v) == {p \in P : f[p] <= v}
           Below(v) == {p \in P : f[p] < v}
           T == {v \in Nat : i < Cardinality(UpTo(v))}
<1>1. PICK top \in Nat : \A p \in P : f[p] <= top
  BY FiniteIsBounded
<1>2. top \in T
  <2>1. UpTo(top) = P
    BY <1>1
  <2> QED BY <2>1
<1>3. PICK v \in T : \A y \in T : v <= y
  BY <1>2, LeastNumber, Zenon
<1>4. Cardinality(Below(v)) <= i
  <2>1. CASE v = 0
    <3>1. Below(v) = {}
      BY <2>1
    <3> QED BY <3>1, FS_EmptySet
  <2>2. CASE v # 0
    <3>1. v - 1 \in Nat /\ ~(i < Cardinality(UpTo(v - 1)))
      BY <1>3, <2>2
    <3>2. Below(v) = UpTo(v - 1)
      BY <1>3, <2>2
    <3>3. Cardinality(UpTo(v - 1)) \in Nat
      BY FS_Subset, FS_CardinalityType
    <3> QED BY <3>1, <3>2, <3>3
  <2> QED BY <2>1, <2>2
<1>5. \E p \in P : f[p] = v
  <2>1. SUFFICES ASSUME \A p \in P : f[p] # v PROVE FALSE
    OBVIOUS
  <2>2. Below(v) = UpTo(v)
    BY <1>3, <2>1
  <2>3. Cardinality(UpTo(v)) \in Nat
    BY FS_Subset, FS_CardinalityType
  <2> QED BY <1>3, <1>4, <2>2, <2>3
<1>6. DOMAIN f = P /\ Below(v) = {p \in P : f[p] < v} /\ UpTo(v) = {p \in P : f[p] <= v}
  OBVIOUS
<1>7. /\ v \in {f[p] : p \in DOMAIN f}
      /\ Cardinality({p \in DOMAIN f : f[p] < v}) <= i
      /\ i < Cardinality({p \in DOMAIN f : f[p] <= v})
  BY <1>3, <1>4, <1>5, <1>6
<1>8. nth_element(f, i) \in {f[p] : p \in DOMAIN f}
  BY <1>7, Zenon DEF nth_element
<1> QED BY <1>6, <1>8

-----------------------------------------------------------------------------
(* Branches: the lemmas take the function blocks as a parameter B, so that *)
(* they serve for blocks and for blocks'.                                  *)

Root == Start.slot

Num(B, s) == B[s].state.block_num

\* AncestorAt(s, n)
Ancestor(B, s, n) ==
    LET at[x \in DOMAIN B] == IF B[x].state.block_num <= n \/ x = Start.slot
                              THEN x ELSE at[B[x].previous]
    IN  at[s]

\* The blocks are a tree with root Root, and numbered along its branches.
Tree(B, top) ==
    /\ top \in Nat
    /\ DOMAIN B \subseteq 0 .. top
    /\ Root \in DOMAIN B /\ Num(B, Root) = 4
    /\ \A x \in DOMAIN B \ {Root} :
           /\ B[x].previous \in DOMAIN B /\ B[x].previous < x
           /\ Num(B, x) = Num(B, B[x].previous) + 1
    /\ \A x \in DOMAIN B : Num(B, x) \in Nat /\ Num(B, x) >= 4

CanFollow(D, stop, prev) ==
    \E g \in [D -> D] : \A x \in D : g[x] = IF x \in stop THEN x ELSE g[prev[x]]

\* A function that follows a chain of smaller and smaller numbers to its end exists.
LEMMA Descent ==
    ASSUME NEW D, NEW top \in Nat, D \subseteq 0 .. top, NEW stop, NEW prev \in [D -> D],
           \A x \in D \ stop : prev[x] < x
    PROVE  CanFollow(D, stop, prev)
<1> DEFINE Follows(g, m) == \A x \in D : x < m => g[x] = IF x \in stop THEN x ELSE g[prev[x]]
           Upto(m) == \E g \in [D -> D] : Follows(g, m)
           T == {m \in Nat : ~Upto(m)}
<1> HIDE DEF Upto
<1>1. ASSUME T # {} PROVE FALSE
  <2>1. PICK m \in T : \A y \in T : m <= y
    BY <1>1, LeastNumber, Zenon
  <2>2. m \in Nat /\ ~Upto(m) /\ \A y \in Nat : y < m => Upto(y)
    BY <2>1
  <2> HIDE DEF T
  <2>3. m # 0
    <3>1. [x \in D |-> x] \in [D -> D] /\ \A x \in D : ~(x < 0)
      OBVIOUS
    <3>2. Upto(0)
      BY <3>1 DEF Upto
    <3> QED BY <2>2, <3>2
  <2>4. Upto(m - 1)
    BY <2>2, <2>3
  <2>5. PICK g \in [D -> D] : Follows(g, m - 1)
    BY <2>4 DEF Upto
  <2> DEFINE k == m - 1
             h == [x \in D |-> IF x # k THEN g[x] ELSE IF k \in stop THEN k ELSE g[prev[k]]]
  <2>6. \A x \in D : x < m => x < k \/ x = k
    BY <2>2
  <2>7. h \in [D -> D]
    BY <2>5, Zenon
  <2>8. ASSUME NEW x \in D, x < m PROVE h[x] = IF x \in stop THEN x ELSE h[prev[x]]
    <3>1. x \notin stop => prev[x] \in D /\ prev[x] # k
      BY <2>2, <2>8
    <3>2. CASE x = k
      BY <2>5, <3>1, <3>2
    <3>3. CASE x # k
      <4>1. g[x] = IF x \in stop THEN x ELSE g[prev[x]]
        BY <2>5, <2>6, <2>8, <3>3
      <4> QED BY <2>5, <3>1, <3>3, <4>1
    <3> QED BY <3>2, <3>3
  <2> QED BY <2>2, <2>7, <2>8, Zenon DEF Upto
<1>2. top + 1 \in Nat /\ \A x \in D : x < top + 1
  OBVIOUS
<1>3. Upto(top + 1)
  BY <1>1, <1>2
<1> QED BY <1>2, <1>3 DEF Upto, CanFollow

\* The loop that looks for an ancestor.
LEMMA AncestorStep ==
    ASSUME NEW B, NEW top, Tree(B, top), NEW n
    PROVE  \A s \in DOMAIN B :
               /\ Ancestor(B, s, n) \in DOMAIN B
               /\ Ancestor(B, s, n) = IF Num(B, s) <= n \/ s = Root THEN s
                                      ELSE Ancestor(B, B[s].previous, n)
<1> DEFINE D == DOMAIN B
           stop == {x \in D : Num(B, x) <= n \/ x = Root}
           prev == [x \in D |-> IF x = Root THEN Root ELSE B[x].previous]
           Is(g) == g = [x \in D |-> IF B[x].state.block_num <= n \/ x = Start.slot
                                     THEN x ELSE g[B[x].previous]]
           at == CHOOSE g : Is(g)
<1>1. PICK g \in [D -> D] : \A x \in D : g[x] = IF x \in stop THEN x ELSE g[prev[x]]
  <2>1. top \in Nat /\ D \subseteq 0 .. top
    BY DEF Tree
  <2>2. prev \in [D -> D]
    BY DEF Tree
  <2>3. \A x \in D \ stop : prev[x] < x
    BY DEF Tree
  <2> HIDE DEF D, stop, prev
  <2>4. CanFollow(D, stop, prev)
    BY <2>1, <2>2, <2>3, Descent, Zenon
  <2> QED BY <2>4 DEF CanFollow
<1>2. \A x \in D : g[x] = IF B[x].state.block_num <= n \/ x = Start.slot
                          THEN x ELSE g[B[x].previous]
  BY <1>1 DEF Num, Root
<1>3. Is(g)
  BY <1>1, <1>2
<1> HIDE DEF Is
<1>4. Is(at)
  BY <1>3
<1>5. \A s : Ancestor(B, s, n) = at[s]
  BY DEF Ancestor, Is
<1> HIDE DEF at
<1>6. \A x \in D : at[x] = IF Num(B, x) <= n \/ x = Root THEN x ELSE at[B[x].previous]
  BY <1>4 DEF Is, Num, Root
<1>7. ASSUME NEW s \in D, at[s] \notin D PROVE FALSE
  <2> DEFINE T == {x \in D : at[x] \notin D}
  <2>1. T \subseteq Nat /\ T # {}
    BY <1>7 DEF Tree
  <2>2. PICK x \in T : \A y \in T : x <= y
    BY <2>1, LeastNumber, Zenon
  <2>3. x # Root /\ at[x] = at[B[x].previous]
    BY <1>6, <2>2
  <2>4. B[x].previous \in T /\ B[x].previous < x
    BY <2>2, <2>3 DEF Tree
  <2> QED BY <2>1, <2>2, <2>4
<1> QED BY <1>5, <1>6, <1>7

\* t is on the branch of s.
On(B, t, s) == t \in DOMAIN B /\ Ancestor(B, s, Num(B, t)) = t

\* The block of number n on a branch has this number.
LEMMA AncestorNum ==
    ASSUME NEW B, NEW top, Tree(B, top), NEW n \in Nat, n >= 4
    PROVE  \A s \in DOMAIN B : n <= Num(B, s) => Num(B, Ancestor(B, s, n)) = n
<1> DEFINE T == {x \in DOMAIN B : n <= Num(B, x) /\ Num(B, Ancestor(B, x, n)) # n}
<1>1. SUFFICES ASSUME T # {} PROVE FALSE
  OBVIOUS
<1>2. T \subseteq Nat
  BY DEF Tree
<1>3. PICK x \in T : \A y \in T : x <= y
  BY <1>1, <1>2, LeastNumber, Zenon
<1>4. x \in DOMAIN B /\ n <= Num(B, x) /\ Num(B, x) \in Nat /\ Num(B, Ancestor(B, x, n)) # n
  BY <1>3 DEF Tree
<1>5. Num(B, x) # n /\ x # Root
  <2>1. Num(B, x) <= n \/ x = Root => Ancestor(B, x, n) = x
    BY <1>4, AncestorStep
  <2>2. Num(B, Root) = 4
    BY DEF Tree
  <2> QED BY <1>4, <2>1, <2>2
<1>6. Ancestor(B, x, n) = Ancestor(B, B[x].previous, n)
  BY <1>4, <1>5, AncestorStep
<1>7. /\ B[x].previous \in DOMAIN B /\ B[x].previous < x
      /\ Num(B, B[x].previous) \in Nat /\ n <= Num(B, B[x].previous)
  BY <1>4, <1>5 DEF Tree
<1>8. B[x].previous \in T
  BY <1>4, <1>6, <1>7, Zenon
<1> QED BY <1>2, <1>3, <1>7, <1>8

\* A block of a branch has the ancestors of the branch.
LEMMA SameBranch ==
    ASSUME NEW B, NEW top, Tree(B, top), NEW t \in DOMAIN B, NEW n \in Nat, n <= Num(B, t)
    PROVE  \A s \in DOMAIN B : On(B, t, s) => Ancestor(B, s, n) = Ancestor(B, t, n)
<1> DEFINE T == {x \in DOMAIN B : On(B, t, x) /\ Ancestor(B, x, n) # Ancestor(B, t, n)}
<1>1. SUFFICES ASSUME T # {} PROVE FALSE
  OBVIOUS
<1>2. T \subseteq Nat
  BY DEF Tree
<1>3. PICK x \in T : \A y \in T : x <= y
  BY <1>1, <1>2, LeastNumber, Zenon
<1>4. /\ x \in DOMAIN B /\ On(B, t, x) /\ Ancestor(B, x, n) # Ancestor(B, t, n)
      /\ Num(B, x) \in Nat /\ Num(B, t) \in Nat
  BY <1>3 DEF Tree
<1>5. ~(Num(B, x) <= Num(B, t)) /\ x # Root
  BY <1>4, AncestorStep, Zenon DEF On
<1>6. /\ Ancestor(B, x, n) = Ancestor(B, B[x].previous, n)
      /\ Ancestor(B, x, Num(B, t)) = Ancestor(B, B[x].previous, Num(B, t))
  BY <1>4, <1>5, AncestorStep
<1>7. B[x].previous \in DOMAIN B /\ B[x].previous < x
  BY <1>4, <1>5, Zenon DEF Tree
<1>8. B[x].previous \in T
  BY <1>4, <1>6, <1>7, Zenon DEF On
<1> QED BY <1>2, <1>3, <1>7, <1>8

\* C is B with a new block w on s.
Grows(B, C, s, w) ==
    /\ DOMAIN C = DOMAIN B \cup {w}
    /\ \A x \in DOMAIN B : C[x] = B[x]
    /\ s \in DOMAIN B /\ C[w].previous = s
    /\ Num(C, w) = Num(B, s) + 1

\* A new block leaves a tree, ...
LEMMA TreeGrows ==
    ASSUME NEW B, NEW C, NEW top, NEW s, NEW w \in Nat, Tree(B, top), top < w, Grows(B, C, s, w)
    PROVE  Tree(C, w) /\ w \notin DOMAIN B
<1>1. w \notin DOMAIN B /\ top \in Nat /\ DOMAIN B \subseteq 0 .. top
  BY DEF Tree
<1>2. \A x \in DOMAIN B : C[x] = B[x] /\ Num(C, x) = Num(B, x)
  BY DEF Grows, Num
<1>3. DOMAIN C \subseteq 0 .. w /\ Root \in DOMAIN C /\ Num(C, Root) = 4
  BY <1>1, <1>2 DEF Tree, Grows
<1>4. s \in DOMAIN B /\ s < w /\ C[w].previous = s /\ Num(C, w) = Num(C, s) + 1 /\ Num(C, s) \in Nat
  BY <1>1, <1>2 DEF Grows, Tree
<1>5. ASSUME NEW x \in DOMAIN C \ {Root}
      PROVE  /\ C[x].previous \in DOMAIN C /\ C[x].previous < x
             /\ Num(C, x) = Num(C, C[x].previous) + 1
  <2>1. CASE x = w
    BY <1>4, <2>1 DEF Grows
  <2>2. CASE x \in DOMAIN B
    BY <1>2, <1>5, <2>2 DEF Tree, Grows
  <2> QED BY <2>1, <2>2, Zenon DEF Grows
<1>6. ASSUME NEW x \in DOMAIN C PROVE Num(C, x) \in Nat /\ Num(C, x) >= 4
  BY <1>2, <1>4 DEF Tree, Grows
<1> QED BY <1>1, <1>3, <1>5, <1>6, Zenon DEF Tree

\* ... the ancestors of the other blocks, and takes over those of the block it is on.
LEMMA AncestorGrows ==
    ASSUME NEW B, NEW C, NEW top, NEW s, NEW w \in Nat, Tree(B, top), top < w, Grows(B, C, s, w), NEW n
    PROVE  /\ \A x \in DOMAIN B : Ancestor(C, x, n) = Ancestor(B, x, n)
           /\ Ancestor(C, w, n) = IF Num(C, w) <= n THEN w ELSE Ancestor(B, s, n)
<1>1. Tree(C, w) /\ w \notin DOMAIN B
  BY TreeGrows
<1>2. \A x \in DOMAIN B : x \in DOMAIN C /\ C[x] = B[x] /\ Num(C, x) = Num(B, x)
  BY DEF Grows, Num
<1>3. \A x \in DOMAIN B : Ancestor(C, x, n) = Ancestor(B, x, n)
  <2> DEFINE T == {x \in DOMAIN B : Ancestor(C, x, n) # Ancestor(B, x, n)}
  <2>1. SUFFICES ASSUME T # {} PROVE FALSE
    OBVIOUS
  <2>2. T \subseteq Nat
    BY DEF Tree
  <2>3. PICK x \in T : \A y \in T : x <= y
    BY <2>1, <2>2, LeastNumber, Zenon
  <2>4. x \in DOMAIN B /\ Ancestor(C, x, n) # Ancestor(B, x, n)
    BY <2>3, Zenon
  <2>5. /\ Ancestor(B, x, n) = IF Num(B, x) <= n \/ x = Root THEN x ELSE Ancestor(B, B[x].previous, n)
        /\ Ancestor(C, x, n) = IF Num(B, x) <= n \/ x = Root THEN x ELSE Ancestor(C, B[x].previous, n)
    <3>1. Ancestor(C, x, n) = IF Num(C, x) <= n \/ x = Root THEN x ELSE Ancestor(C, C[x].previous, n)
      BY <1>1, <1>2, <2>4, AncestorStep, Zenon
    <3> QED BY <1>2, <2>4, <3>1, AncestorStep, Zenon
  <2>6. x # Root /\ Ancestor(C, B[x].previous, n) # Ancestor(B, B[x].previous, n)
    BY <2>4, <2>5
  <2>7. B[x].previous \in DOMAIN B /\ B[x].previous < x
    BY <2>4, <2>6, Zenon DEF Tree
  <2> QED BY <2>2, <2>3, <2>6, <2>7
<1>4. w \in DOMAIN C /\ w # Root /\ C[w].previous = s /\ s \in DOMAIN B
  BY <1>1, Zenon DEF Grows, Tree
<1>5. Ancestor(C, w, n) = IF Num(C, w) <= n THEN w ELSE Ancestor(C, s, n)
  BY <1>1, <1>4, AncestorStep, Zenon
<1> QED BY <1>3, <1>4, <1>5

\* The new block is on its own branch only, and on it are the blocks of the one it is on.
LEMMA OnGrows ==
    ASSUME NEW B, NEW C, NEW top, NEW s, NEW w \in Nat, Tree(B, top), top < w, Grows(B, C, s, w)
    PROVE  /\ \A x, t \in DOMAIN B : On(C, t, x) <=> On(B, t, x)
           /\ \A x \in DOMAIN B : ~On(C, w, x)
           /\ \A t \in DOMAIN B : On(C, t, w) <=> On(B, t, s)
           /\ On(C, w, w)
<1>1. Tree(C, w) /\ w \notin DOMAIN B
  BY TreeGrows, Zenon
<1>2. /\ DOMAIN C = DOMAIN B \cup {w} /\ s \in DOMAIN B
      /\ \A x \in DOMAIN B : x \in DOMAIN C /\ Num(C, x) = Num(B, x)
  BY DEF Grows, Num
<1>3. \A n : \A x \in DOMAIN B : Ancestor(C, x, n) = Ancestor(B, x, n) /\ Ancestor(B, x, n) \in DOMAIN B
  BY AncestorGrows, AncestorStep
<1>4. \A n : Ancestor(C, w, n) = IF Num(C, w) <= n THEN w ELSE Ancestor(B, s, n)
  BY AncestorGrows
<1>5. ASSUME NEW t \in DOMAIN B, On(B, t, s) PROVE ~(Num(C, w) <= Num(B, t))
  <2>1. Num(B, s) <= Num(B, t) => t = s
    BY <1>2, <1>5, AncestorStep, Zenon DEF On
  <2> QED BY <1>2, <2>1 DEF Grows, Tree
<1>6. Num(C, w) <= Num(C, w)
  BY <1>1, <1>2 DEF Tree
<1> QED BY <1>1, <1>2, <1>3, <1>4, <1>5, <1>6 DEF On

-----------------------------------------------------------------------------
(* Header states under Schedule.                                           *)

Required == (Len(Schedule) * 2) \div 3 + 1

\* What the header states of all blocks from Start on have in common.
Shape(b) ==
    /\ b.block_num \in Nat /\ b.dpos_proposed \in Nat /\ b.dpos_irr \in Nat
    /\ b.active.producers = Schedule /\ b.pending.producers = << >>
    /\ b.confirm_count \in Seq(Int) /\ Len(b.confirm_count) + 4 <= b.block_num
    /\ b.last_implied_irb \in [Producers -> Nat]
    /\ \A q \in DOMAIN b.last_produced : b.last_produced[q] \in Nat

\* The producers are finitely many, as many as the schedule is long.
LEMMA ProducersFinite ==
    /\ Len(Schedule) \in Nat \ {0} /\ IsFiniteSet(Producers)
    /\ Cardinality(Producers) = Len(Schedule) /\ Required \in Nat
<1>1. Len(Schedule) \in Nat \ {0}
  BY ScheduleAssumption
<1>2. IsFiniteSet(1 .. Len(Schedule))
  BY <1>1, FS_Interval
<1> DEFINE f == [i \in 1 .. Len(Schedule) |-> Schedule[i]]
<1>3. f \in Surjection(1 .. Len(Schedule), Producers)
  BY DEF Surjection, Producers, SetOf
<1>4. IsFiniteSet(Producers)
  BY <1>2, <1>3, FS_Surjection, Zenon
<1> QED BY <1>1, <1>4, ScheduleAssumption DEF Producers, Required

\* The irreversible number that next() computes.
LEMMA IrreversibleIsNat ==
    ASSUME NEW b, Shape(b), NEW p PROVE calc_dpos_last_irreversible(b, p) \in Nat
<1> DEFINE irb == [q \in DOMAIN b.last_implied_irb |->
                       IF q = p THEN b.dpos_proposed ELSE b.last_implied_irb[q]]
           i == (Cardinality(DOMAIN irb) - 1) \div 3
<1>1. irb \in [Producers -> Nat] /\ DOMAIN irb = Producers
  BY DEF Shape
<1>2. Cardinality(Producers) \in Nat \ {0} /\ IsFiniteSet(Producers)
  BY ProducersFinite, Zenon
<1>3. i \in Nat /\ i < Cardinality(Producers)
  BY <1>1, <1>2
<1>4. calc_dpos_last_irreversible(b, p) = IF irb = << >> THEN 0 ELSE nth_element(irb, i)
  BY Zenon DEF calc_dpos_last_irreversible
<1> HIDE DEF irb, i
<1>5. nth_element(irb, i) \in Nat
  BY <1>1, <1>2, <1>3, NthElementIsOne, Zenon
<1> QED BY <1>4, <1>5

\* The fields of the next header state, when no schedule is pending or proposed.
LEMMA NextFields ==
    ASSUME NEW b, Shape(b), NEW when, NEW confirm, NEW p \in Producers,
           p = get_scheduled_producer(b, when), NEW c, c = finish_next(next(b, when, confirm), Plain)
    PROVE  /\ c.block_num = b.block_num + 1 /\ c.dpos_irr \in Nat
           /\ c.active.producers = Schedule /\ c.pending.producers = << >>
           /\ c.confirm_count = Confirm(b, confirm).confirm_count
           /\ c.dpos_proposed = Confirm(b, confirm).dpos_proposed
           /\ c.last_implied_irb \in [Producers -> Nat]
           /\ DOMAIN c.last_produced = DOMAIN b.last_produced \cup {p}
           /\ c.last_produced[p] = b.block_num + 1
           /\ \A q \in DOMAIN b.last_produced : q # p => c.last_produced[q] = b.last_produced[q]
<1> DEFINE irr == calc_dpos_last_irreversible(b, p)
           m == next(b, when, confirm)
<1>1. irr \in Nat
  BY IrreversibleIsNat, Zenon
<1>2. ~promotes(b, irr)
  BY DEF promotes, Shape
<1>3. /\ m.block_num = b.block_num + 1 /\ m.dpos_irr = irr
      /\ m.active = b.active /\ m.prev_pending = b.pending /\ ~m.was_pending_promoted
      /\ m.confirm_count = Confirm(b, confirm).confirm_count
      /\ m.dpos_proposed = Confirm(b, confirm).dpos_proposed
      /\ m.last_produced = Rebuilt(b.last_produced, DOMAIN b.last_produced \cup {p}, irr, p, b.block_num + 1)
      /\ m.last_implied_irb = Rebuilt(b.last_implied_irb, DOMAIN b.last_implied_irb \cup {p}, irr, p, b.dpos_proposed)
  BY <1>2, Zenon DEF next
<1> HIDE DEF m
<1>4. /\ c.block_num = m.block_num /\ c.dpos_irr = m.dpos_irr /\ c.active = m.active
      /\ c.confirm_count = m.confirm_count /\ c.dpos_proposed = m.dpos_proposed
      /\ c.last_produced = m.last_produced /\ c.last_implied_irb = m.last_implied_irb
      /\ c.pending = NextPending(m, Plain)
  BY DEF finish_next, m
<1>5. c.pending = b.pending
  BY <1>3, <1>4, Zenon DEF NextPending, Plain
<1>6. DOMAIN b.last_implied_irb \cup {p} = Producers
  BY Zenon DEF Shape
<1> HIDE DEF irr
<1>7. m.last_implied_irb \in [Producers -> Nat]
  BY <1>1, <1>3, <1>6, Zenon DEF Rebuilt, Shape
<1>8. /\ DOMAIN c.last_produced = DOMAIN b.last_produced \cup {p}
      /\ c.last_produced[p] = b.block_num + 1
      /\ \A q \in DOMAIN b.last_produced : q # p => c.last_produced[q] = b.last_produced[q]
  <2>1. c.last_produced = Rebuilt(b.last_produced, DOMAIN b.last_produced \cup {p}, irr, p, b.block_num + 1)
    BY <1>3, <1>4, Zenon
  <2> QED BY <2>1 DEF Rebuilt
<1> QED BY <1>1, <1>3, <1>4, <1>5, <1>7, <1>8, Zenon DEF Shape

\* The number of the next header state.
LEMMA NextNumber ==
    \A b, when, confirm : finish_next(next(b, when, confirm), Plain).block_num = b.block_num + 1
<1>1. \A m : finish_next(m, Plain).block_num = m.block_num
  BY DEF finish_next
<1>2. \A b, when, confirm : next(b, when, confirm).block_num = b.block_num + 1
  BY DEF next
<1> QED BY <1>1, <1>2, Zenon

\* A nonempty set of numbers up to size has a largest member.
LEMMA GreatestNumber ==
    ASSUME NEW size \in Nat, NEW S, S \subseteq 1 .. size, S # {}
    PROVE  \E x \in S : \A y \in S : y <= x
<1> DEFINE T == {d \in Nat : size - d \in S}
<1>1. ASSUME NEW x \in S PROVE x \in Nat /\ size - x \in T
  <2>1. x \in Nat /\ size - x \in Nat /\ size - (size - x) = x
    BY <1>1
  <2> QED BY <2>1
<1>2. PICK d \in T : \A y \in T : d <= y
  BY <1>1, LeastNumber, Zenon
<1>3. ASSUME NEW y \in S PROVE y <= size - d
  <2>1. d <= size - y /\ y \in Nat /\ d \in Nat
    BY <1>1, <1>2, Zenon
  <2> QED BY <2>1
<1> QED BY <1>2, <1>3, Zenon

\* The counters count, of b's and one for the new block: those of the blocks before are
\* kept, except perhaps the oldest one.
IsGrown(b, count) ==
    /\ count \in Seq(Int) /\ Len(count) \in Nat \ {0}
    /\ Len(count) + 4 <= b.block_num + 1 /\ Len(count) <= Len(b.confirm_count) + 1
    /\ count[Len(count)] = Required
    /\ \A i \in 1 .. Len(count) : i # Len(count) =>
           LET j == i + Len(b.confirm_count) + 1 - Len(count)
           IN  j \in 1 .. Len(b.confirm_count) /\ count[i] = b.confirm_count[j]

\* The counters once there is one for the new block.
LEMMA GrownFields ==
    ASSUME NEW b, Shape(b), NEW count, count = Grown(b)
    PROVE  IsGrown(b, count)
<1> DEFINE old == b.confirm_count
           max == maximum_tracked_dpos_confirmations
<1>1. old \in Seq(Int) /\ Len(old) \in Nat /\ Required \in Nat /\ required_confs(b) = Required
  BY ProducersFinite DEF Shape, required_confs, Required
<1>2. count = Append(IF Len(old) < max THEN old ELSE Tail(old), Required)
  BY <1>1 DEF Grown
<1>3. Len(old) + 4 <= b.block_num /\ b.block_num \in Nat /\ max \in Nat \ {0}
  BY ConfigAssumption, Zenon DEF Shape
<1> HIDE DEF old, max
<1>4. CASE Len(old) < max
  <2>1. /\ count \in Seq(Int) /\ Len(count) = Len(old) + 1 /\ count[Len(old) + 1] = Required
        /\ \A i \in 1 .. Len(old) : count[i] = old[i]
    BY <1>1, <1>2, <1>4
  <2>2. ASSUME NEW i \in 1 .. Len(count), i # Len(count)
        PROVE  /\ i + Len(old) + 1 - Len(count) \in 1 .. Len(old)
               /\ count[i] = old[i + Len(old) + 1 - Len(count)]
    <3>1. i + Len(old) + 1 - Len(count) = i /\ i \in 1 .. Len(old)
      BY <1>1, <2>1, <2>2
    <3> QED BY <2>1, <3>1
  <2>3. /\ count \in Seq(Int) /\ Len(count) \in Nat \ {0} /\ count[Len(count)] = Required
        /\ Len(count) + 4 <= b.block_num + 1 /\ Len(count) <= Len(old) + 1
    BY <1>1, <1>3, <2>1
  <2> QED BY <2>2, <2>3, Zenon DEF old, IsGrown
<1>5. CASE ~(Len(old) < max)
  <2>1. Len(old) >= 1 /\ old # << >>
    BY <1>1, <1>3, <1>5
  <2>2. /\ Tail(old) \in Seq(Int) /\ Len(Tail(old)) = Len(old) - 1
        /\ \A i \in 1 .. Len(old) - 1 : Tail(old)[i] = old[i + 1]
    BY <1>1, <2>1
  <2>3. /\ count \in Seq(Int) /\ Len(count) = Len(old) /\ count[Len(old)] = Required
        /\ \A i \in 1 .. Len(old) - 1 : count[i] = old[i + 1]
    BY <1>1, <1>2, <1>5, <2>1, <2>2
  <2>4. ASSUME NEW i \in 1 .. Len(count), i # Len(count)
        PROVE  /\ i + Len(old) + 1 - Len(count) \in 1 .. Len(old)
               /\ count[i] = old[i + Len(old) + 1 - Len(count)]
    <3>1. /\ i + Len(old) + 1 - Len(count) = i + 1 /\ i + 1 \in 1 .. Len(old)
          /\ i \in 1 .. Len(old) - 1
      BY <1>1, <2>3, <2>4
    <3> QED BY <2>3, <3>1
  <2>5. /\ count \in Seq(Int) /\ Len(count) \in Nat \ {0} /\ count[Len(count)] = Required
        /\ Len(count) + 4 <= b.block_num + 1 /\ Len(count) <= Len(old) + 1
    BY <1>1, <1>3, <2>1, <2>3
  <2> QED BY <2>4, <2>5, Zenon DEF old, IsGrown
<1> QED BY <1>4, <1>5, Zenon

\* The counters c.confirm_count that the loop leaves of count, without the first drop.
IsConfirmed(b, confirm, count, c, drop) ==
    /\ c.confirm_count \in Seq(Int) /\ Len(c.confirm_count) = Len(count) - drop
    /\ \A i \in 1 .. Len(count) - drop :
           c.confirm_count[i] = count[drop + i] -
               (IF drop + i > Len(count) - (confirm + 1) THEN 1 ELSE 0)
    /\ \/ drop = 0 /\ c.dpos_proposed = b.dpos_proposed
       \/ /\ drop # 0 /\ drop > Len(count) - (confirm + 1) /\ count[drop] = 1
          /\ c.dpos_proposed = b.block_num + 1 - (Len(count) - drop)

\* What the loop over the counters leaves: those of the numbers that are confirmed are
\* lower by one, and if one of them ran out, it and the ones before it are gone and its
\* number is proposed.
LEMMA ConfirmFields ==
    ASSUME NEW b, Shape(b), NEW confirm \in Int, NEW count, count = Grown(b),
           NEW c, c = Confirm(b, confirm)
    PROVE  \E drop \in 0 .. Len(count) : IsConfirmed(b, confirm, count, c, drop)
<1> DEFINE size == Len(count)
           touched == Touched(size, confirm)
           zero == {i \in touched : count[i] = 1}
<1>1. count \in Seq(Int) /\ size \in Nat
  BY GrownFields DEF IsGrown
<1>2. \A i \in 1 .. size : i \in touched <=> i > size - (confirm + 1)
  BY DEF Touched
<1>3. zero \subseteq 1 .. size /\ touched \subseteq 1 .. size
  BY DEF Touched
<1>4. CASE zero = {}
  <2> DEFINE r == [i \in 1 .. size |-> IF i \in touched THEN count[i] - 1 ELSE count[i]]
  <2>1. c = [confirm_count |-> r, dpos_proposed |-> b.dpos_proposed]
    BY <1>4 DEF Confirm
  <2>2. r \in Seq(Int) /\ Len(r) = size
    <3>1. \A i \in 1 .. size : count[i] \in Int
      BY <1>1
    <3>2. r \in [1 .. size -> Int]
      BY <3>1
    <3> QED BY <1>1, <3>2
  <2>3. \A i \in 1 .. size : r[i] = count[0 + i] - (IF 0 + i > size - (confirm + 1) THEN 1 ELSE 0)
    <3>1. \A i \in 1 .. size : count[i] \in Int /\ 0 + i = i
      BY <1>1
    <3> QED BY <1>2, <3>1
  <2> HIDE DEF r, size
  <2>4. size - 0 = size
    BY <1>1
  <2> QED BY <1>1, <2>1, <2>2, <2>3, <2>4 DEF size, IsConfirmed
<1>5. CASE zero # {}
  <2> DEFINE last == CHOOSE i \in zero : \A j \in zero : j <= i
             r == [i \in 1 .. size - last |-> count[last + i] - 1]
  <2>1. last \in zero
    BY <1>1, <1>3, <1>5, GreatestNumber, Zenon
  <2>2. c = [confirm_count |-> r, dpos_proposed |-> b.block_num + 1 - (size - last)]
    BY <1>5 DEF Confirm
  <2>3. last \in 1 .. size /\ last > size - (confirm + 1) /\ count[last] = 1
    BY <1>2, <1>3, <2>1
  <2> HIDE DEF last, size
  <2>4. \A i \in 1 .. size - last : /\ last + i \in 1 .. size /\ count[last + i] \in Int
                                    /\ last + i > size - (confirm + 1)
    BY <1>1, <2>3 DEF size
  <2>5. r \in [1 .. size - last -> Int] /\ size - last \in Nat
    <3>1. size - last \in Nat
      BY <1>1, <2>3
    <3>2. \A i \in 1 .. size - last : count[last + i] - 1 \in Int
      BY <2>4
    <3> QED BY <3>1, <3>2
  <2>6. r \in Seq(Int) /\ Len(r) = size - last
    BY <2>5
  <2>7. \A i \in 1 .. size - last :
            r[i] = count[last + i] - (IF last + i > size - (confirm + 1) THEN 1 ELSE 0)
    BY <2>4, Zenon
  <2> HIDE DEF r
  <2>8. /\ last \in 0 .. Len(count) /\ last # 0 /\ size = Len(count)
        /\ c.confirm_count = r /\ c.dpos_proposed = b.block_num + 1 - (size - last)
    BY <1>1, <2>2, <2>3 DEF size
  <2> QED BY <2>3, <2>6, <2>7, <2>8, Zenon DEF IsConfirmed
<1> QED BY <1>4, <1>5

-----------------------------------------------------------------------------
(* Confirmations.                                                          *)

\* Block t confirms the block of number n on its branch.
Confirms(B, t, n) == Num(B, t) - B[t].confirmed <= n /\ n <= Num(B, t)

\* The producers that confirmed the block of number n of the branch of s, on this branch.
Confirmers(B, s, n) ==
    {B[t].producer : t \in {x \in DOMAIN B \ {Root} : On(B, x, s) /\ Confirms(B, x, n)}}

\* A counter of a header state is what producers of its branch still have to confirm.
CountsRight(B, s) ==
    LET b == B[s].state IN
    \A i \in 1 .. Len(b.confirm_count) :
        b.confirm_count[i] =
            Required - Cardinality(Confirmers(B, s, b.block_num - Len(b.confirm_count) + i))

\* What is proposed on a branch is Start, or more than two thirds confirmed it there.
ProposedRight(B, s) ==
    LET n == B[s].state.dpos_proposed IN
    /\ n \in 4 .. Num(B, s)
    /\ n # 4 => Cardinality(Confirmers(B, s, n)) >= Required

\* last_produced knows the blocks of its branch.
LastRight(B, s) ==
    LET last == B[s].state.last_produced IN
    \A t \in DOMAIN B \ {Root} :
        On(B, t, s) => B[t].producer \in DOMAIN last /\ last[B[t].producer] >= Num(B, t)

Entry(B, s) == s # Root => B[s].producer \in Producers /\ B[s].confirmed \in Int

Counted(B) ==
    \A s \in DOMAIN B : /\ Shape(B[s].state) /\ Entry(B, s)
                        /\ CountsRight(B, s) /\ ProposedRight(B, s) /\ LastRight(B, s)

\* The confirmers are producers, so they are finitely many.
LEMMA ConfirmersFinite ==
    ASSUME NEW B, \A s \in DOMAIN B : Entry(B, s), NEW s, NEW n
    PROVE  /\ Confirmers(B, s, n) \subseteq Producers /\ IsFiniteSet(Confirmers(B, s, n))
           /\ Cardinality(Confirmers(B, s, n)) \in Nat
<1>1. Confirmers(B, s, n) \subseteq Producers
  BY Zenon DEF Confirmers, Entry
<1> QED BY <1>1, ProducersFinite, FS_Subset, FS_CardinalityType, Zenon

\* A new block confirms on its branch, and nothing elsewhere.
LEMMA ConfirmersGrow ==
    ASSUME NEW B, NEW C, NEW top, NEW s, NEW w \in Nat, Tree(B, top), top < w, Grows(B, C, s, w), NEW n
    PROVE  /\ \A x \in DOMAIN B : Confirmers(C, x, n) = Confirmers(B, x, n)
           /\ Confirmers(C, w, n) = Confirmers(B, s, n)
                                    \cup (IF Confirms(C, w, n) THEN {C[w].producer} ELSE {})
<1> DEFINE Q(A, x) == {t \in DOMAIN A \ {Root} : On(A, t, x) /\ Confirms(A, t, n)}
<1>1. w \notin DOMAIN B /\ Root \in DOMAIN B /\ DOMAIN C = DOMAIN B \cup {w}
  BY TreeGrows DEF Tree, Grows
<1>2. \A x \in DOMAIN B : C[x] = B[x] /\ (Confirms(C, x, n) <=> Confirms(B, x, n))
  BY Zenon DEF Grows, Confirms, Num
<1>3. \A x \in DOMAIN B : Q(C, x) = Q(B, x)
  BY <1>1, <1>2, OnGrows
<1>4. Q(C, w) = Q(B, s) \cup (IF Confirms(C, w, n) THEN {w} ELSE {})
  BY <1>1, <1>2, OnGrows
<1>5. \A x : Q(B, x) \subseteq DOMAIN B
  OBVIOUS
<1>6. \A x : /\ Confirmers(B, x, n) = {B[t].producer : t \in Q(B, x)}
             /\ Confirmers(C, x, n) = {C[t].producer : t \in Q(C, x)}
  BY Zenon DEF Confirmers
<1> HIDE DEF Q
<1>7. \A x : Confirmers(B, x, n) = {C[t].producer : t \in Q(B, x)}
  BY <1>2, <1>5, <1>6
<1>8. \A x \in DOMAIN B : Confirmers(C, x, n) = Confirmers(B, x, n)
  BY <1>3, <1>6, <1>7, Zenon
<1>9. CASE Confirms(C, w, n)
  <2>1. Q(C, w) = Q(B, s) \cup {w}
    BY <1>4, <1>9, Zenon
  <2> QED BY <1>6, <1>7, <1>8, <1>9, <2>1
<1>10. CASE ~Confirms(C, w, n)
  <2>1. Q(C, w) = Q(B, s)
    BY <1>4, <1>10, Zenon
  <2> QED BY <1>6, <1>7, <1>8, <1>10, <2>1, Zenon
<1> QED BY <1>9, <1>10, Zenon

\* The blocks of a branch are not above its last one.
LEMMA OnIsBelow ==
    ASSUME NEW B, NEW top, Tree(B, top), NEW s \in DOMAIN B, NEW t, On(B, t, s)
    PROVE  Num(B, t) <= Num(B, s) /\ Num(B, t) \in Nat
<1>1. t \in DOMAIN B /\ Num(B, t) \in Nat /\ Num(B, s) \in Nat
  BY Zenon DEF On, Tree
<1>2. Num(B, s) <= Num(B, t) => t = s
  BY AncestorStep, Zenon DEF On
<1> QED BY <1>1, <1>2

\* A block that next() allows keeps all counters right.  Its producer did not confirm the
\* numbers before, because last_produced is below them.
LEMMA CountedGrows ==
    ASSUME NEW B, NEW C, NEW top, NEW s, NEW w \in Nat, Tree(B, top), Counted(B), top < w,
           Grows(B, C, s, w), NEW h, h = B[s].state, NEW p \in Producers,
           p = get_scheduled_producer(h, w), NEW confirm \in Int, can_next(h, w, confirm),
           C[w].producer = p, C[w].confirmed = confirm,
           C[w].state = finish_next(next(h, w, confirm), Plain)
    PROVE  Counted(C)
<1> DEFINE c == C[w].state
           count == Grown(h)
           size == Len(count)
           number(j) == h.block_num + 1 - size + j
           touched(j) == j > size - (confirm + 1)
<1>1. /\ s \in DOMAIN B /\ w \notin DOMAIN B /\ Root \in DOMAIN B /\ w # Root
      /\ DOMAIN C = DOMAIN B \cup {w} /\ Tree(C, w)
      /\ \A x \in DOMAIN B : C[x] = B[x] /\ Num(C, x) = Num(B, x)
  BY TreeGrows DEF Tree, Grows, Num
<1>2. Shape(h) /\ h.block_num = Num(B, s) /\ h.block_num \in Nat
  BY <1>1, Zenon DEF Counted, Num, Shape
<1>3. \A x \in DOMAIN B : Entry(B, x)
  BY Zenon DEF Counted
<1>4. /\ c.block_num = h.block_num + 1 /\ c.dpos_irr \in Nat
      /\ c.active.producers = Schedule /\ c.pending.producers = << >>
      /\ c.confirm_count = Confirm(h, confirm).confirm_count
      /\ c.dpos_proposed = Confirm(h, confirm).dpos_proposed
      /\ c.last_implied_irb \in [Producers -> Nat]
  BY <1>2, NextFields
<1>22. /\ DOMAIN c.last_produced = DOMAIN h.last_produced \cup {p}
       /\ c.last_produced[p] = h.block_num + 1
       /\ \A q \in DOMAIN h.last_produced : q # p => c.last_produced[q] = h.last_produced[q]
  BY <1>2, NextFields
<1>5. Num(C, w) = h.block_num + 1
  BY <1>4, Zenon DEF Num
<1>6. IsGrown(h, count)
  BY <1>2, GrownFields, Zenon
<1>7. PICK drop \in 0 .. size : IsConfirmed(h, confirm, count, Confirm(h, confirm), drop)
  BY <1>2, ConfirmFields, Zenon
<1>8. \A n : Cardinality(Confirmers(B, s, n)) \in Nat /\ IsFiniteSet(Confirmers(B, s, n))
  BY <1>3, ConfirmersFinite, Zenon
<1>9. \A n : /\ \A x \in DOMAIN B : Confirmers(C, x, n) = Confirmers(B, x, n)
             /\ Confirmers(C, w, n) = Confirmers(B, s, n) \cup (IF Confirms(C, w, n) THEN {p} ELSE {})
  BY ConfirmersGrow
<1> HIDE DEF c, count
<1>10. h.confirm_count \in Seq(Int) /\ Len(h.confirm_count) \in Nat /\ Required \in Nat
  <2>1. h.confirm_count \in Seq(Int)
    BY <1>2, Zenon DEF Shape
  <2>2. Required \in Nat
    BY ProducersFinite
  <2> QED BY <2>1, <2>2
<1>23. LastRight(B, s)
  BY <1>1, Zenon DEF Counted
<1>20. size \in Nat \ {0} /\ size + 4 <= h.block_num + 1
  BY <1>6, Zenon DEF IsGrown
<1>21. /\ count[size] = Required
       /\ \A i \in 1 .. size : i # size =>
             /\ i + Len(h.confirm_count) + 1 - size \in 1 .. Len(h.confirm_count)
             /\ count[i] = h.confirm_count[i + Len(h.confirm_count) + 1 - size]
  BY <1>6, Zenon DEF IsGrown
<1>13. /\ c.confirm_count \in Seq(Int) /\ Len(c.confirm_count) = size - drop
       /\ \A i \in 1 .. size - drop :
              c.confirm_count[i] = count[drop + i] - (IF touched(drop + i) THEN 1 ELSE 0)
       /\ \/ drop = 0 /\ c.dpos_proposed = h.dpos_proposed
          \/ /\ drop # 0 /\ touched(drop) /\ count[drop] = 1
             /\ c.dpos_proposed = h.block_num + 1 - (size - drop)
  BY <1>4, <1>7, Zenon DEF IsConfirmed
<1> HIDE DEF size
<1>11. ASSUME NEW j \in 1 .. size PROVE count[j] = Required - Cardinality(Confirmers(B, s, number(j)))
  <2>1. CASE j = size
    <3>1. number(j) = h.block_num + 1
      BY <1>2, <1>20, <2>1
    <3>2. ASSUME NEW t \in DOMAIN B, On(B, t, s) PROVE ~Confirms(B, t, number(j))
      <4>1. Num(B, t) <= h.block_num /\ Num(B, t) \in Nat
        BY <1>1, <1>2, <3>2, OnIsBelow, Zenon
      <4> QED BY <1>2, <3>1, <4>1 DEF Confirms
    <3>3. Confirmers(B, s, number(j)) = {}
      BY <3>2 DEF Confirmers
    <3>4. Cardinality(Confirmers(B, s, number(j))) = 0
      BY <3>3, FS_EmptySet, Zenon
    <3> HIDE DEF number
    <3> QED BY <1>10, <1>21, <2>1, <3>4
  <2>2. CASE j # size
    <3> DEFINE k == j + Len(h.confirm_count) + 1 - size
    <3>1. k \in 1 .. Len(h.confirm_count) /\ count[j] = h.confirm_count[k]
      BY <1>21, <2>2, Zenon
    <3>2. h.block_num - Len(h.confirm_count) + k = number(j)
      <4> DEFINE l == Len(h.confirm_count)
      <4>1. l \in Nat /\ size \in Nat /\ h.block_num \in Nat /\ j \in Nat
        BY <1>2, <1>10, <1>20
      <4> HIDE DEF l
      <4>2. h.block_num - l + (j + l + 1 - size) = h.block_num + 1 - size + j
        BY <4>1
      <4> QED BY <4>2 DEF l
    <3> HIDE DEF k, number
    <3>3. h.confirm_count[k] =
              Required - Cardinality(Confirmers(B, s, h.block_num - Len(h.confirm_count) + k))
      BY <1>1, <3>1, Zenon DEF Counted, CountsRight
    <3> QED BY <3>1, <3>2, <3>3, Zenon
  <2> QED BY <2>1, <2>2, Zenon
<1>12. ASSUME NEW j \in 1 .. size
       PROVE  Cardinality(Confirmers(C, w, number(j))) =
                  Cardinality(Confirmers(B, s, number(j))) + (IF touched(j) THEN 1 ELSE 0)
  <2> DEFINE n == number(j)
  <2>1. n \in Int /\ n <= h.block_num + 1
    BY <1>2, <1>20
  <2>2. Confirms(C, w, n) <=> touched(j)
    BY <1>2, <1>5, <1>20 DEF Confirms
  <2>3. CASE ~touched(j)
    <3>1. Confirmers(C, w, n) = Confirmers(B, s, n)
      BY <1>9, <2>2, <2>3, Zenon
    <3> QED BY <1>8, <2>3, <3>1
  <2>4. CASE touched(j)
    <3>1. n >= h.block_num + 1 - confirm
      BY <1>2, <1>20, <2>4
    <3> HIDE DEF n
    <3>2. p \notin Confirmers(B, s, n)
      <4>1. SUFFICES ASSUME NEW t \in DOMAIN B \ {Root}, On(B, t, s), Confirms(B, t, n), B[t].producer = p
                     PROVE  FALSE
        BY Zenon DEF Confirmers
      <4>2. p \in DOMAIN h.last_produced /\ h.last_produced[p] >= Num(B, t)
        BY <1>23, <4>1, Zenon DEF LastRight
      <4>3. h.last_produced[p] < h.block_num + 1 - confirm
        BY <4>2, Zenon DEF can_next
      <4>4. h.last_produced[p] \in Nat /\ Num(B, t) \in Nat /\ n <= Num(B, t)
        BY <1>2, <4>1, <4>2, Zenon DEF Shape, Confirms, Tree
      <4> QED BY <1>2, <2>1, <3>1, <4>2, <4>3, <4>4
    <3>3. Confirmers(C, w, n) = Confirmers(B, s, n) \cup {p}
      BY <1>9, <2>2, <2>4, Zenon DEF n
    <3>4. Cardinality(Confirmers(C, w, n)) = Cardinality(Confirmers(B, s, n)) + 1
      BY <1>8, <3>2, <3>3, FS_AddElement, Zenon
    <3> QED BY <2>4, <3>4, Zenon DEF n
  <2> QED BY <2>3, <2>4, Zenon
<1>14. Shape(c)
  <2>1. Len(c.confirm_count) + 4 <= c.block_num /\ c.block_num \in Nat
    BY <1>2, <1>4, <1>13, <1>20
  <2>2. c.dpos_proposed \in Nat
    <3>1. h.dpos_proposed \in Nat
      BY <1>2, Zenon DEF Shape
    <3>2. h.block_num + 1 - (size - drop) \in Nat
      BY <1>2, <1>20
    <3> QED BY <1>13, <3>1, <3>2, Zenon
  <2>3. \A q \in DOMAIN c.last_produced : c.last_produced[q] \in Nat
    BY <1>2, <1>22 DEF Shape
  <2> QED BY <1>4, <1>13, <2>1, <2>2, <2>3, Zenon DEF Shape
<1>15. CountsRight(C, w)
  <2>1. SUFFICES ASSUME NEW i \in 1 .. Len(c.confirm_count)
                 PROVE  c.confirm_count[i] = Required -
                     Cardinality(Confirmers(C, w, c.block_num - Len(c.confirm_count) + i))
    BY Zenon DEF CountsRight, c
  <2> DEFINE j == drop + i
  <2>2. j \in 1 .. size /\ i \in 1 .. size - drop /\ c.block_num - Len(c.confirm_count) + i = number(j)
    BY <1>2, <1>4, <1>13, <1>20
  <2>3. c.confirm_count[i] = count[j] - (IF touched(j) THEN 1 ELSE 0)
    BY <1>13, <2>2, Zenon
  <2> HIDE DEF j, number, touched
  <2> QED BY <1>8, <1>10, <1>11, <1>12, <2>2, <2>3
<1>16. ProposedRight(C, w)
  <2>1. CASE drop = 0 /\ c.dpos_proposed = h.dpos_proposed
    <3> DEFINE n == h.dpos_proposed
    <3>1. n \in 4 .. Num(B, s) /\ (n # 4 => Cardinality(Confirmers(B, s, n)) >= Required)
      BY <1>1, Zenon DEF Counted, ProposedRight
    <3>2. /\ IsFiniteSet(Confirmers(C, w, n))
          /\ Cardinality(Confirmers(C, w, n)) \in Nat
          /\ Cardinality(Confirmers(B, s, n)) <= Cardinality(Confirmers(C, w, n))
      <4>1. Confirmers(B, s, n) \subseteq Confirmers(C, w, n) /\ IsFiniteSet(Confirmers(C, w, n))
        <5>1. \/ Confirmers(C, w, n) = Confirmers(B, s, n)
              \/ Confirmers(C, w, n) = Confirmers(B, s, n) \cup {p}
          BY <1>9
        <5> QED BY <1>8, <5>1, FS_AddElement
      <4> QED BY <4>1, FS_Subset, FS_CardinalityType, Zenon
    <3>3. n # 4 => Cardinality(Confirmers(C, w, n)) >= Required
      BY <1>8, <1>10, <3>1, <3>2
    <3>4. n \in 4 .. Num(C, w)
      BY <1>2, <1>5, <3>1
    <3> QED BY <2>1, <3>3, <3>4, Zenon DEF ProposedRight, c
  <2>2. CASE /\ drop # 0 /\ touched(drop) /\ count[drop] = 1
             /\ c.dpos_proposed = h.block_num + 1 - (size - drop)
    <3>4. c.dpos_proposed = number(drop)
      BY <1>2, <1>20, <2>2
    <3>1. drop \in 1 .. size
      BY <1>20, <2>2
    <3>2. number(drop) \in 4 .. Num(C, w)
      BY <1>2, <1>5, <1>20, <3>1
    <3> HIDE DEF number, touched
    <3>3. Cardinality(Confirmers(C, w, number(drop))) = Required
      BY <1>8, <1>10, <1>11, <1>12, <2>2, <3>1
    <3> QED BY <1>10, <3>2, <3>3, <3>4 DEF ProposedRight, c
  <2> QED BY <1>13, <2>1, <2>2, Zenon
<1>17. LastRight(C, w)
  <2>1. SUFFICES ASSUME NEW t \in DOMAIN C \ {Root}, On(C, t, w)
                 PROVE  /\ C[t].producer \in DOMAIN c.last_produced
                        /\ c.last_produced[C[t].producer] >= Num(C, t)
    BY Zenon DEF LastRight, c
  <2>2. CASE t = w
    BY <1>2, <1>5, <1>22, <2>2
  <2>3. CASE t \in DOMAIN B
    <3>1. On(B, t, s) /\ C[t].producer = B[t].producer /\ Num(C, t) = Num(B, t)
      BY <1>1, <2>1, <2>3, OnGrows
    <3>2. /\ B[t].producer \in DOMAIN h.last_produced
          /\ h.last_produced[B[t].producer] >= Num(B, t)
      BY <1>23, <2>1, <2>3, <3>1, Zenon DEF LastRight
    <3>3. Num(B, t) <= h.block_num /\ Num(B, t) \in Nat
      BY <1>1, <1>2, <3>1, OnIsBelow, Zenon
    <3>4. CASE B[t].producer = p
      BY <1>2, <1>22, <3>1, <3>3, <3>4
    <3>5. CASE B[t].producer # p
      BY <1>22, <3>1, <3>2, <3>5, Zenon
    <3> QED BY <3>4, <3>5, Zenon
  <2> QED BY <1>1, <2>2, <2>3, Zenon
<1>18. Entry(C, w)
  BY DEF Entry
<1>19. ASSUME NEW x \in DOMAIN B
       PROVE  /\ Shape(C[x].state) /\ Entry(C, x)
              /\ CountsRight(C, x) /\ ProposedRight(C, x) /\ LastRight(C, x)
  <2>1. /\ Shape(B[x].state) /\ Entry(B, x)
        /\ CountsRight(B, x) /\ ProposedRight(B, x) /\ LastRight(B, x)
    BY Zenon DEF Counted
  <2>2. C[x] = B[x] /\ Num(C, x) = Num(B, x) /\ \A n : Confirmers(C, x, n) = Confirmers(B, x, n)
    BY <1>1, <1>9
  <2>3. CountsRight(C, x) /\ ProposedRight(C, x)
    BY <2>1, <2>2, Zenon DEF CountsRight, ProposedRight
  <2>4. LastRight(C, x)
    <3>1. \A t \in DOMAIN C \ {Root} : On(C, t, x) => t \in DOMAIN B \ {Root} /\ On(B, t, x)
      BY <1>1, OnGrows
    <3> QED BY <1>1, <2>1, <2>2, <3>1, Zenon DEF LastRight
  <2> QED BY <2>1, <2>2, <2>3, <2>4, Zenon DEF Entry
<1> QED BY <1>1, <1>14, <1>15, <1>16, <1>17, <1>18, <1>19, Zenon DEF Counted, c

-----------------------------------------------------------------------------
(* Start.                                                                  *)

\* A single producer confirms each of its blocks at once.
LEMMA Alone ==
    ASSUME NEW b, b.block_num \in Nat, b.slot \in Nat, b.confirm_count = << >>,
           b.active.producers = <<Genesis>>
    PROVE  /\ get_scheduled_producer(b, b.slot + 1) = Genesis
           /\ Confirm(b, 0).confirm_count = << >>
           /\ Confirm(b, 0).dpos_proposed = b.block_num + 1
<1> DEFINE r == producer_repetitions
           y == (b.slot + 1) % r
<1>1. y \in 0 .. r - 1 /\ r \in Nat \ {0} /\ Len(<<Genesis>>) * r = r
  BY ConfigAssumption
<1>2. y \div r = 0
  <2> HIDE DEF y, r
  <2> QED BY <1>1
<1>3. get_scheduled_producer(b, b.slot + 1) = <<Genesis>>[y \div r + 1]
  BY <1>1, Zenon DEF get_scheduled_producer
<1>4. get_scheduled_producer(b, b.slot + 1) = Genesis
  BY <1>2, <1>3
<1>5. required_confs(b) = 1 /\ Len(b.confirm_count) = 0
  BY DEF required_confs
<1>6. Grown(b) = <<1>> /\ Len(Grown(b)) = 1
  BY <1>5, ConfigAssumption DEF Grown
<1> DEFINE touched == Touched(1, 0)
           zero == {i \in touched : <<1>>[i] = 1}
<1>7. touched = {1}
  BY DEF Touched
<1>8. zero = {1} /\ (CHOOSE i \in zero : \A j \in zero : j <= i) = 1
  BY <1>7
<1>9. [i \in 1 .. 1 - 1 |-> <<1>>[1 + i] - 1] = << >>
  OBVIOUS
<1>10. Confirm(b, 0) = [confirm_count |-> << >>, dpos_proposed |-> b.block_num + 1 - (1 - 1)]
  BY <1>6, <1>8, <1>9 DEF Confirm
<1> QED BY <1>4, <1>10

\* What a single producer proposed is irreversible in its next block.
LEMMA AloneIrreversible ==
    ASSUME NEW b, b.dpos_proposed \in Nat, b.last_implied_irb \in [{Genesis} -> Nat]
    PROVE  calc_dpos_last_irreversible(b, Genesis) = b.dpos_proposed
<1> DEFINE irb == [q \in DOMAIN b.last_implied_irb |->
                       IF q = Genesis THEN b.dpos_proposed ELSE b.last_implied_irb[q]]
<1>1. irb \in [{Genesis} -> Nat] /\ DOMAIN irb = {Genesis} /\ irb[Genesis] = b.dpos_proposed
  OBVIOUS
<1>2. IsFiniteSet({Genesis}) /\ Cardinality({Genesis}) = 1
  BY FS_Singleton, Zenon
<1>3. irb # << >>
  BY <1>1
<1>4. calc_dpos_last_irreversible(b, Genesis) = nth_element(irb, (1 - 1) \div 3)
  BY <1>1, <1>2, <1>3, Zenon DEF calc_dpos_last_irreversible
<1>5. (1 - 1) \div 3 = 0
  OBVIOUS
<1> HIDE DEF irb
<1>6. \E p \in {Genesis} : nth_element(irb, 0) = irb[p]
  BY <1>1, <1>2, NthElementIsOne
<1> QED BY <1>1, <1>4, <1>5, <1>6, Zenon

\* The fields of next(), with or without a promoted schedule.
IsNext(b, when, confirm, p, irr, m) ==
    /\ m.block_num = b.block_num + 1 /\ m.slot = when /\ m.dpos_irr = irr
    /\ m.confirm_count = Confirm(b, confirm).confirm_count
    /\ m.dpos_proposed = Confirm(b, confirm).dpos_proposed
    /\ m.prev_pending = b.pending
    /\ promotes(b, irr) =>
          /\ m.active = [version |-> b.pending.version, producers |-> b.pending.producers]
          /\ m.last_produced = Rebuilt(b.last_produced, SetOf(b.pending.producers) \cup {p}, irr, p, b.block_num + 1)
          /\ m.last_implied_irb = Rebuilt(b.last_implied_irb, SetOf(b.pending.producers), irr, p, b.dpos_proposed)
          /\ ~b.enable_standby => m.was_pending_promoted
    /\ ~promotes(b, irr) =>
          /\ m.active = b.active /\ ~m.was_pending_promoted
          /\ m.last_produced = Rebuilt(b.last_produced, DOMAIN b.last_produced \cup {p}, irr, p, b.block_num + 1)
          /\ m.last_implied_irb = Rebuilt(b.last_implied_irb, DOMAIN b.last_implied_irb \cup {p}, irr, p, b.dpos_proposed)

\* next() computes them.
LEMMA NextIs ==
    ASSUME NEW b, NEW when, NEW confirm, NEW p, p = get_scheduled_producer(b, when),
           NEW irr, irr = calc_dpos_last_irreversible(b, p), NEW m, m = next(b, when, confirm)
    PROVE  IsNext(b, when, confirm, p, irr, m)
<1>1. CASE promotes(b, irr)
  BY <1>1, Zenon DEF next, IsNext
<1>2. CASE ~promotes(b, irr)
  BY <1>2, Zenon DEF next, IsNext
<1> QED BY <1>1, <1>2, Zenon

\* Start has number 4, slot 3 and the schedule, and proposes itself.
LEMMA StartIs ==
    /\ Shape(Start) /\ Start.block_num = 4 /\ Root = 3
    /\ Start.confirm_count = << >> /\ Start.dpos_proposed = 4
<1> DEFINE sch == [version |-> 0, producers |-> <<Genesis>>]
           new == [version |-> 1, producers |-> Schedule]
           gen == genesis_state(sch)
           h == [Plain EXCEPT !.new_producers = new]
           m2 == next(gen, gen.slot + 1, 0)
           b2 == Following(gen, Plain)
           m3 == next(b2, b2.slot + 1, 0)
           b3 == Following(b2, h)
           m4 == next(b3, b3.slot + 1, 0)
<1>1. Start = Following(b3, Plain)
  BY Zenon DEF Start
<1>2. /\ gen.block_num = 1 /\ gen.slot = 0 /\ gen.confirm_count = << >> /\ gen.dpos_proposed = 0
      /\ gen.active = sch /\ gen.pending = [version |-> 0, producers |-> <<Genesis>>, lib_num |-> 0]
      /\ gen.last_produced = << >> /\ gen.last_implied_irb = << >> /\ ~gen.enable_standby
  BY Zenon DEF genesis_state
<1> HIDE DEF gen
<1>3. calc_dpos_last_irreversible(gen, Genesis) = 0 /\ promotes(gen, 0)
  <2>1. [q \in DOMAIN gen.last_implied_irb |->
             IF q = Genesis THEN gen.dpos_proposed ELSE gen.last_implied_irb[q]] = << >>
    BY <1>2
  <2>2. calc_dpos_last_irreversible(gen, Genesis) = 0
    BY <2>1, Zenon DEF calc_dpos_last_irreversible
  <2> QED BY <1>2, <2>2 DEF promotes
<1>4. /\ get_scheduled_producer(gen, gen.slot + 1) = Genesis
      /\ Confirm(gen, 0).confirm_count = << >> /\ Confirm(gen, 0).dpos_proposed = 2
  BY <1>2, Alone
<1>5. /\ m2.block_num = 2 /\ m2.slot = 1 /\ m2.confirm_count = << >> /\ m2.dpos_proposed = 2
      /\ m2.active.producers = <<Genesis>> /\ m2.was_pending_promoted
      /\ m2.prev_pending = gen.pending /\ m2.last_implied_irb = [q \in {Genesis} |-> 0]
      /\ m2.last_produced = [q \in {Genesis} |-> 2]
  <2>1. SetOf(gen.pending.producers) = {Genesis}
    BY <1>2 DEF SetOf
  <2> HIDE DEF m2
  <2>3. IsNext(gen, gen.slot + 1, 0, Genesis, 0, m2)
    BY <1>3, <1>4, NextIs, Zenon DEF m2
  <2>4. gen.block_num + 1 = 2 /\ gen.slot + 1 = 1
    BY <1>2
  <2>2. /\ m2.block_num = 2 /\ m2.slot = 1 /\ m2.confirm_count = << >> /\ m2.dpos_proposed = 2
        /\ m2.active.producers = <<Genesis>> /\ m2.was_pending_promoted /\ m2.prev_pending = gen.pending
        /\ m2.last_produced = Rebuilt(gen.last_produced, {Genesis} \cup {Genesis}, 0, Genesis, 2)
        /\ m2.last_implied_irb = Rebuilt(gen.last_implied_irb, {Genesis}, 0, Genesis, 0)
    <3>1. /\ m2.last_produced = Rebuilt(gen.last_produced, {Genesis} \cup {Genesis}, 0, Genesis, 2)
          /\ m2.last_implied_irb = Rebuilt(gen.last_implied_irb, {Genesis}, 0, Genesis, 0)
      <4>1. gen.dpos_proposed = 0
        BY <1>2, Zenon
      <4> QED BY <1>3, <2>1, <2>3, <2>4, <4>1, Zenon DEF IsNext
    <3>2. m2.active.producers = <<Genesis>>
      BY <1>2, <1>3, <2>3 DEF IsNext
    <3> QED BY <1>2, <1>3, <1>4, <2>3, <2>4, <3>1, <3>2, Zenon DEF IsNext
  <2> QED BY <2>2 DEF Rebuilt
<1>6. /\ b2.block_num = 2 /\ b2.slot = 1 /\ b2.confirm_count = << >> /\ b2.dpos_proposed = 2
      /\ b2.active.producers = <<Genesis>> /\ b2.last_implied_irb = [q \in {Genesis} |-> 0]
      /\ b2.last_produced = [q \in {Genesis} |-> 2] /\ ~b2.enable_standby
      /\ b2.pending.producers = << >>
  <2>1. b2 = finish_next(m2, Plain)
    BY DEF Following
  <2> HIDE DEF m2, b2
  <2>2. NextPending(m2, Plain).producers = << >>
    BY <1>2, <1>5 DEF NextPending, Plain
  <2> QED BY <1>5, <2>1, <2>2, Zenon DEF finish_next, Plain
<1> HIDE DEF m2, b2
<1>7. /\ get_scheduled_producer(b2, b2.slot + 1) = Genesis
      /\ Confirm(b2, 0).confirm_count = << >> /\ Confirm(b2, 0).dpos_proposed = 3
  BY <1>6, Alone
<1>8. calc_dpos_last_irreversible(b2, Genesis) = 2 /\ ~promotes(b2, 2)
  BY <1>6, AloneIrreversible DEF promotes
<1>9. /\ m3.block_num = 3 /\ m3.slot = 2 /\ m3.confirm_count = << >> /\ m3.dpos_proposed = 3
      /\ m3.active.producers = <<Genesis>> /\ m3.last_implied_irb = [q \in {Genesis} |-> 2]
      /\ m3.last_produced = [q \in {Genesis} |-> 3]
  <2>1. DOMAIN b2.last_implied_irb \cup {Genesis} = {Genesis} /\ DOMAIN b2.last_produced \cup {Genesis} = {Genesis}
    BY <1>6, Zenon
  <2> HIDE DEF m3
  <2>3. IsNext(b2, b2.slot + 1, 0, Genesis, 2, m3)
    BY <1>7, <1>8, NextIs, Zenon DEF m3
  <2>4. b2.block_num + 1 = 3 /\ b2.slot + 1 = 2
    BY <1>6
  <2>2. /\ m3.block_num = 3 /\ m3.slot = 2 /\ m3.confirm_count = << >> /\ m3.dpos_proposed = 3
        /\ m3.active.producers = <<Genesis>>
        /\ m3.last_produced = Rebuilt(b2.last_produced, {Genesis}, 2, Genesis, 3)
        /\ m3.last_implied_irb = Rebuilt(b2.last_implied_irb, {Genesis}, 2, Genesis, 2)
    BY <1>6, <1>7, <1>8, <2>1, <2>3, <2>4, Zenon DEF IsNext
  <2> QED BY <2>2, Zenon DEF Rebuilt
<1>10. /\ b3.block_num = 3 /\ b3.slot = 2 /\ b3.confirm_count = << >> /\ b3.dpos_proposed = 3
       /\ b3.active.producers = <<Genesis>> /\ b3.last_implied_irb = [q \in {Genesis} |-> 2]
       /\ b3.last_produced = [q \in {Genesis} |-> 3] /\ ~b3.enable_standby
       /\ b3.pending = [version |-> 1, producers |-> Schedule, lib_num |-> 3]
  <2>1. b3 = finish_next(m3, h)
    BY DEF Following
  <2> HIDE DEF m3, b3
  <2>2. h.new_producers = new /\ ~h.enable_standby
    BY DEF Plain
  <2>3. NextPending(m3, h) = [version |-> 1, producers |-> Schedule, lib_num |-> 3]
    BY <1>9, <2>2, ScheduleAssumption DEF NextPending
  <2> HIDE DEF h
  <2> QED BY <1>9, <2>1, <2>2, <2>3, Zenon DEF finish_next
<1> HIDE DEF m3, b3
<1>11. /\ get_scheduled_producer(b3, b3.slot + 1) = Genesis
       /\ Confirm(b3, 0).confirm_count = << >> /\ Confirm(b3, 0).dpos_proposed = 4
  BY <1>10, Alone
<1>12. calc_dpos_last_irreversible(b3, Genesis) = 3 /\ promotes(b3, 3)
  BY <1>10, AloneIrreversible, ScheduleAssumption DEF promotes
<1>13. /\ m4.block_num = 4 /\ m4.slot = 3 /\ m4.confirm_count = << >> /\ m4.dpos_proposed = 4
       /\ m4.dpos_irr = 3 /\ m4.active.producers = Schedule /\ m4.was_pending_promoted
       /\ m4.prev_pending = b3.pending
       /\ m4.last_implied_irb = Rebuilt(b3.last_implied_irb, Producers, 3, Genesis, 3)
       /\ m4.last_produced = Rebuilt(b3.last_produced, Producers \cup {Genesis}, 3, Genesis, 4)
  <2>1. SetOf(b3.pending.producers) = Producers /\ b3.block_num + 1 = 4 /\ b3.slot + 1 = 3
    BY <1>10 DEF Producers
  <2> HIDE DEF m4
  <2>2. IsNext(b3, b3.slot + 1, 0, Genesis, 3, m4)
    BY <1>11, <1>12, NextIs, Zenon DEF m4
  <2> QED BY <1>10, <1>11, <1>12, <2>1, <2>2 DEF IsNext
<1>14. /\ Start.block_num = 4 /\ Start.slot = 3 /\ Start.confirm_count = << >>
       /\ Start.dpos_proposed = 4 /\ Start.dpos_irr = 3 /\ Start.active.producers = Schedule
       /\ Start.pending.producers = << >>
       /\ Start.last_implied_irb = m4.last_implied_irb /\ Start.last_produced = m4.last_produced
  <2>1. Start = finish_next(m4, Plain)
    BY <1>1, Zenon DEF Following
  <2> HIDE DEF m4
  <2>2. NextPending(m4, Plain).producers = << >>
    BY <1>10, <1>13 DEF NextPending, Plain
  <2> QED BY <1>13, <2>1, <2>2, Zenon DEF finish_next
<1>15. Start.last_implied_irb \in [Producers -> Nat]
  BY <1>10, <1>13, <1>14 DEF Rebuilt
<1>16. \A q \in DOMAIN Start.last_produced : Start.last_produced[q] \in Nat
  BY <1>10, <1>13, <1>14 DEF Rebuilt
<1> QED BY <1>14, <1>15, <1>16 DEF Shape, Root

-----------------------------------------------------------------------------
(* ConfirmationsAgree.  ConfirmsOnce does not carry itself: the watermark  *)
(* of a producer bounds what it signed.  OneProposed needs what the        *)
(* counters of the header states count.                                    *)

Watermark == [num : Nat, slot : Nat]

\* The watermark of a producer whose node did not restart is not below its blocks.
Marked(p) ==
    \A s \in DOMAIN blocks \ {Root} :
        blocks[s].producer = p /\ p \notin restarted => Num(blocks, s) <= watermark[p].num

\* The inductive invariant
IInv ==
    /\ slot \in Nat /\ Tree(blocks, slot) /\ Counted(blocks)
    /\ watermark \in [Producers -> Watermark] /\ restarted \subseteq Producers
    /\ \A p \in Producers : Marked(p) /\ (watermark[p].num = 0 \/ watermark[p].num >= 4)
    /\ ConfirmsOnce

\* A producer confirms nothing up to its watermark, and nothing at all without one.
LEMMA ConfirmBound ==
    ASSUME NEW w \in Watermark, NEW h, h.block_num \in Nat, h.dpos_irr \in Nat, NEW when,
           may_produce(w, h, when), NEW c, c = blocks_to_confirm(w, h)
    PROVE  /\ c \in Int
           /\ w.num # 0 => w.num < h.block_num + 1 - c
           /\ w.num = 0 => c <= 0
BY DEF Watermark, may_produce, blocks_to_confirm, Smaller

\* The one branch that consists of Start.
LEMMA Initially == Init => IInv
<1> SUFFICES ASSUME Init PROVE IInv
  OBVIOUS
<1>1. Root = 3 /\ Start.block_num = 4
  BY StartIs, Zenon
<1>2. /\ DOMAIN blocks = {Root} /\ Num(blocks, Root) = 4 /\ blocks[Root].state = Start
      /\ slot = 3
  BY <1>1, Zenon DEF Init, Root, Num
<1>3. Tree(blocks, slot)
  BY <1>1, <1>2 DEF Tree
<1>4. Counted(blocks)
  <2>1. Shape(Start) /\ Len(Start.confirm_count) = 0 /\ Start.dpos_proposed = 4
    BY StartIs, Zenon
  <2>2. CountsRight(blocks, Root) /\ ProposedRight(blocks, Root)
    BY <1>2, <2>1 DEF CountsRight, ProposedRight
  <2> QED BY <1>2, <2>1, <2>2, Zenon DEF Counted, Entry, LastRight
<1>5. watermark \in [Producers -> Watermark] /\ \A p \in Producers : watermark[p].num = 0
  BY Zenon DEF Init, NoWatermark, Watermark
<1>6. ConfirmsOnce
  BY <1>1, <1>2 DEF ConfirmsOnce
<1> QED BY <1>1, <1>2, <1>3, <1>4, <1>5, <1>6 DEF IInv, Init, Marked

\* No step leaves the invariant.
LEMMA Inductive == IInv /\ [Next]_vars => IInv'
<1> SUFFICES ASSUME IInv, [Next]_vars PROVE IInv'
  OBVIOUS
<1>1. ASSUME NEW p \in Producers, NEW s \in DOMAIN blocks, produce_block(p, s) PROVE IInv'
  <2> DEFINE when == slot + 1
             h == state(s)
             w == watermark[p]
             confirm == blocks_to_confirm(w, h)
             b == finish_next(next(h, when, confirm), Plain)
             B == blocks
             C == blocks'
  <2>1. /\ slot' = when /\ p = get_scheduled_producer(h, when)
        /\ may_produce(w, h, when) /\ can_next(h, when, confirm)
        /\ watermark' = [watermark EXCEPT ![p] = consider_new_watermark(w, b.block_num, when)]
        /\ restarted' = restarted
    BY <1>1, Zenon DEF produce_block
  <2>15. C = [x \in DOMAIN B \cup {when} |->
                 IF x = when THEN [previous |-> s, producer |-> p, confirmed |-> confirm, state |-> b]
                 ELSE B[x]]
    BY <1>1, Zenon DEF produce_block
  <2>16. \A x \in DOMAIN B : x < when
    BY DEF IInv, Tree
  <2>2. /\ slot \in Nat /\ when \in Nat /\ slot < when /\ Tree(B, slot) /\ Counted(B)
        /\ DOMAIN B \subseteq 0 .. slot
    BY DEF IInv, Tree
  <2>3. Shape(h) /\ h = B[s].state /\ h.block_num \in Nat /\ h.dpos_irr \in Nat /\ h.block_num = Num(B, s)
    BY <2>2, Zenon DEF Counted, Shape, Num, state
  <2>4. w \in Watermark
    BY DEF IInv
  <2>5. /\ confirm \in Int
        /\ w.num # 0 => w.num < h.block_num + 1 - confirm
        /\ w.num = 0 => confirm <= 0
    BY <2>1, <2>3, <2>4, ConfirmBound, Zenon
  <2>6. b.block_num = h.block_num + 1
    BY NextNumber
  <2> HIDE DEF when, h, w, confirm, b
  <2>7. /\ DOMAIN C = DOMAIN B \cup {when} /\ \A x \in DOMAIN B : C[x] = B[x]
        /\ C[when] = [previous |-> s, producer |-> p, confirmed |-> confirm, state |-> b]
    <3> HIDE DEF B, C
    <3>1. when \notin DOMAIN B
      BY <2>2, <2>16
    <3> QED BY <2>15, <3>1, Zenon
  <2>8. Grows(B, C, s, when) /\ Num(C, when) = h.block_num + 1
    BY <2>3, <2>6, <2>7 DEF Grows, Num
  <2>9. Tree(C, when) /\ when \notin DOMAIN B /\ when # Root
    BY <2>2, <2>8, TreeGrows DEF Tree
  <2>10. Counted(C)
    <3>1. C[when].producer = p /\ C[when].confirmed = confirm /\ C[when].state = b
      BY <2>7
    <3>2. b = finish_next(next(h, when, confirm), Plain)
      BY Zenon DEF b
    <3> HIDE DEF B, C
    <3> QED BY <2>1, <2>2, <2>3, <2>5, <2>8, <3>1, <3>2, CountedGrows, Zenon
  <2>11. /\ watermark' \in [Producers -> Watermark]
         /\ watermark'[p].num >= w.num /\ watermark'[p].num >= h.block_num + 1
         /\ watermark'[p].num \in Nat
         /\ \A q \in Producers : q # p => watermark'[q] = watermark[q]
    <3> DEFINE v == consider_new_watermark(w, b.block_num, when)
    <3>1. v \in Watermark /\ v.num >= w.num /\ v.num >= h.block_num + 1
      BY <2>2, <2>3, <2>4, <2>6 DEF consider_new_watermark, Larger, Watermark
    <3> HIDE DEF v
    <3>2. watermark' = [watermark EXCEPT ![p] = v]
      BY <2>1, Zenon DEF v
    <3> QED BY <3>1, <3>2, Zenon DEF IInv, Watermark
  <2>12. \A x \in DOMAIN B : Num(C, x) = Num(B, x) /\ Num(B, x) \in Nat /\ Num(B, x) >= 4
    BY <2>2, <2>7, Zenon DEF Num, Tree
  <2>13. ASSUME NEW q \in Producers PROVE Marked(q)' /\ (watermark'[q].num = 0 \/ watermark'[q].num >= 4)
    <3>1. Marked(q) /\ (watermark[q].num = 0 \/ watermark[q].num >= 4) /\ watermark[q].num \in Nat
      BY Zenon DEF IInv, Watermark
    <3>2. watermark'[q].num >= watermark[q].num /\ watermark'[q].num \in Nat
      BY <2>11, <3>1 DEF w
    <3>3. watermark'[q].num = 0 \/ watermark'[q].num >= 4
      <4>1. h.block_num >= 4
        BY <2>3, <2>12, Zenon
      <4> QED BY <2>3, <2>11, <3>1, <4>1
    <3>4. ASSUME NEW x \in DOMAIN C \ {Root}, C[x].producer = q, q \notin restarted'
          PROVE  Num(C, x) <= watermark'[q].num
      <4>1. CASE x = when
        BY <2>7, <2>8, <2>11, <3>4, <4>1
      <4>2. CASE x \in DOMAIN B
        <5>1. Num(B, x) <= watermark[q].num
          BY <2>1, <2>7, <3>1, <3>4, <4>2, Zenon DEF Marked
        <5> QED BY <2>12, <3>1, <3>2, <4>2, <5>1
      <4> QED BY <2>7, <4>1, <4>2, Zenon
    <3> QED BY <3>3, <3>4, Zenon DEF Marked
  <2>14. ConfirmsOnce'
    <3>1. SUFFICES ASSUME NEW x \in DOMAIN C, NEW t \in DOMAIN C, C[x].producer = C[t].producer, x < t,
                          C[x].producer \notin restarted'
                   PROVE  Num(C, x) < Num(C, t) - C[t].confirmed
      BY Zenon DEF ConfirmsOnce, Num, state
    <3>2. CASE t \in DOMAIN B
      <4>1. x \in DOMAIN B
        BY <2>2, <2>7, <3>1, <3>2 DEF when
      <4> QED BY <2>1, <2>7, <3>1, <3>2, <4>1, Zenon DEF IInv, ConfirmsOnce, Num, state
    <3>3. CASE t = when
      <4>1. x \in DOMAIN B /\ C[x] = B[x] /\ B[x].producer = p /\ p \notin restarted
        BY <2>1, <2>2, <2>7, <3>1, <3>3
      <4>2. Num(B, x) < h.block_num + 1 - confirm
        <5>1. x # Root => Num(B, x) <= w.num
          BY <4>1, Zenon DEF IInv, Marked, w
        <5>2. x = Root => Num(B, x) = 4
          BY <2>2, Zenon DEF Tree
        <5>3. w.num \in Nat /\ (w.num = 0 \/ w.num >= 4) /\ h.block_num >= 4
          BY <2>3, <2>4, <2>12, Zenon DEF IInv, w, Watermark
        <5> QED BY <2>3, <2>5, <2>12, <4>1, <5>1, <5>2, <5>3
      <4>3. /\ Num(C, t) = h.block_num + 1 /\ C[t].confirmed = confirm
            /\ Num(C, x) = Num(B, x)
        BY <2>7, <2>8, <2>12, <3>3, <4>1
      <4> HIDE DEF B, C
      <4>4. Num(C, t) - C[t].confirmed = h.block_num + 1 - confirm
        BY <2>3, <2>5, <4>3
      <4> QED BY <4>2, <4>3, <4>4, Zenon
    <3> QED BY <2>7, <3>2, <3>3, Zenon
  <2> QED BY <2>1, <2>2, <2>9, <2>10, <2>11, <2>13, <2>14, Zenon DEF IInv
<1>2. CASE miss_slot
  <2>1. Tree(blocks, slot)' /\ slot' \in Nat
    BY <1>2 DEF miss_slot, IInv, Tree
  <2> QED BY <1>2, <2>1, Zenon DEF miss_slot, IInv, Marked, ConfirmsOnce, state
<1>3. ASSUME NEW p \in Producers, restart(p) PROVE IInv'
  <2>1. /\ UNCHANGED <<slot, blocks>> /\ restarted' = restarted \cup {p}
        /\ watermark' = [watermark EXCEPT ![p] = NoWatermark]
    BY <1>3, Zenon DEF restart
  <2>2. watermark' \in [Producers -> Watermark] /\ watermark'[p].num = 0
    BY <2>1, Zenon DEF IInv, NoWatermark, Watermark
  <2>3. \A q \in Producers : q # p => watermark'[q] = watermark[q]
    BY <2>1, Zenon DEF IInv
  <2>4. ASSUME NEW q \in Producers PROVE Marked(q)' /\ (watermark'[q].num = 0 \/ watermark'[q].num >= 4)
    BY <2>1, <2>2, <2>3, Zenon DEF IInv, Marked
  <2>5. ConfirmsOnce'
    BY <2>1, Zenon DEF IInv, ConfirmsOnce, state
  <2> QED BY <2>1, <2>2, <2>4, <2>5, Zenon DEF IInv
<1>4. CASE UNCHANGED vars
  BY <1>4, Zenon DEF vars, IInv, Marked, ConfirmsOnce, state
<1> QED BY <1>1, <1>2, <1>3, <1>4, Zenon DEF Next

\* AncestorAt is Ancestor of blocks.
LEMMA AncestorIs == \A s, n : AncestorAt(s, n) = Ancestor(blocks, s, n)
BY Zenon DEF AncestorAt, Ancestor, state

\* Two quorums of more than two thirds have a member outside of any set of fewer than one
\* third.
LEMMA QuorumsMeet ==
    ASSUME NEW Q, NEW R, NEW F, Q \subseteq Producers, R \subseteq Producers, F \subseteq Producers,
           Cardinality(Q) >= Required, Cardinality(R) >= Required,
           3 * Cardinality(F) < Len(Schedule)
    PROVE  \E q \in Q \cap R : q \notin F
<1>1. /\ IsFiniteSet(Q) /\ IsFiniteSet(R) /\ IsFiniteSet(F) /\ IsFiniteSet(Q \cap R)
      /\ IsFiniteSet(Q \cup R) /\ Cardinality(Q \cup R) <= Len(Schedule)
      /\ Len(Schedule) \in Nat
  <2>1. Q \cap R \subseteq Producers /\ Q \cup R \subseteq Producers
    OBVIOUS
  <2> QED BY <2>1, ProducersFinite, FS_Subset, Zenon
<1>2. /\ Cardinality(Q) \in Nat /\ Cardinality(R) \in Nat /\ Cardinality(F) \in Nat
      /\ Cardinality(Q \cap R) \in Nat /\ Cardinality(Q \cup R) \in Nat
  BY <1>1, FS_CardinalityType, Zenon
<1>3. Cardinality(Q \cup R) = Cardinality(Q) + Cardinality(R) - Cardinality(Q \cap R)
  BY <1>1, FS_Union, Zenon
<1>4. Cardinality(Q \cap R) > Cardinality(F)
  BY <1>1, <1>2, <1>3 DEF Required
<1>5. Q \cap R \subseteq F => Cardinality(Q \cap R) <= Cardinality(F)
  BY <1>1, FS_Subset, Zenon
<1> QED BY <1>2, <1>4, <1>5

\* Two blocks of one number that are proposed, on any branches, are the same: a producer
\* that confirmed both did so with one block, and this is on both branches.
LEMMA ProposedAgree == IInv => OneProposed
<1> SUFFICES ASSUME IInv, 3 * Cardinality(restarted) < Len(Schedule),
                    NEW s \in DOMAIN blocks, NEW t \in DOMAIN blocks,
                    state(Proposed(s)).block_num = state(Proposed(t)).block_num
             PROVE  Proposed(s) = Proposed(t)
  BY Zenon DEF OneProposed
<1> DEFINE B == blocks
           n == B[s].state.dpos_proposed
           m == B[t].state.dpos_proposed
<1>1. Tree(B, slot) /\ Counted(B) /\ \A x \in DOMAIN B : Entry(B, x)
  BY DEF IInv, Counted
<1>2. /\ n \in 4 .. Num(B, s) /\ (n # 4 => Cardinality(Confirmers(B, s, n)) >= Required)
      /\ m \in 4 .. Num(B, t) /\ (m # 4 => Cardinality(Confirmers(B, t, m)) >= Required)
  BY <1>1, Zenon DEF Counted, ProposedRight
<1>3. Num(B, s) \in Nat /\ Num(B, t) \in Nat
  BY <1>1, Zenon DEF Tree
<1>4. Proposed(s) = Ancestor(B, s, n) /\ Proposed(t) = Ancestor(B, t, m)
  BY AncestorIs, Zenon DEF Proposed, state
<1> HIDE DEF B
<1>5. n \in Nat /\ n >= 4 /\ n <= Num(B, s) /\ m \in Nat /\ m >= 4 /\ m <= Num(B, t)
  BY <1>2, <1>3
<1>6. Num(B, Ancestor(B, s, n)) = n /\ Num(B, Ancestor(B, t, m)) = m
  BY <1>1, <1>5, AncestorNum, Zenon DEF B
<1>7. n = m
  BY <1>4, <1>6, Zenon DEF Num, state, B
<1>8. CASE n = 4
  <2>1. \A x \in DOMAIN B : Num(B, x) = 4 => x = Root
    BY <1>1 DEF Tree
  <2>2. Ancestor(B, s, n) \in DOMAIN B /\ Ancestor(B, t, m) \in DOMAIN B
    BY <1>1, AncestorStep, Zenon DEF B
  <2> QED BY <1>4, <1>6, <1>7, <1>8, <2>1, <2>2, Zenon
<1>9. CASE n # 4
  <2>1. PICK q \in Confirmers(B, s, n) \cap Confirmers(B, t, n) : q \notin restarted
    <3>1. Confirmers(B, s, n) \subseteq Producers /\ Confirmers(B, t, n) \subseteq Producers
      BY <1>1, ConfirmersFinite, Zenon
    <3>2. /\ Cardinality(Confirmers(B, s, n)) >= Required
          /\ Cardinality(Confirmers(B, t, n)) >= Required
      BY <1>2, <1>7, <1>9, Zenon
    <3>3. restarted \subseteq Producers
      BY Zenon DEF IInv
    <3> QED BY <3>1, <3>2, <3>3, QuorumsMeet, Zenon
  <2>2. PICK a \in DOMAIN B \ {Root} : On(B, a, s) /\ Confirms(B, a, n) /\ q = B[a].producer
    BY <2>1, Zenon DEF Confirmers
  <2>3. PICK b \in DOMAIN B \ {Root} : On(B, b, t) /\ Confirms(B, b, n) /\ q = B[b].producer
    BY <2>1, Zenon DEF Confirmers
  <2>4. /\ Num(B, a) \in Nat /\ Num(B, b) \in Nat /\ a \in Nat /\ b \in Nat
        /\ B[a].confirmed \in Int /\ B[b].confirmed \in Int
    BY <1>1, <2>2, <2>3 DEF Tree, Entry
  <2>5. /\ a < b => Num(B, a) < Num(B, b) - B[b].confirmed
        /\ b < a => Num(B, b) < Num(B, a) - B[a].confirmed
    BY <2>1, <2>2, <2>3, Zenon DEF IInv, ConfirmsOnce, Num, state, B
  <2>6. ~(a < b) /\ ~(b < a)
    <3> HIDE DEF n
    <3>1. /\ Num(B, a) - B[a].confirmed <= n /\ n <= Num(B, a)
          /\ Num(B, b) - B[b].confirmed <= n /\ n <= Num(B, b)
      BY <2>2, <2>3, Zenon DEF Confirms
    <3>2. n \in Nat
      BY <1>5, Zenon
    <3> QED BY <2>4, <2>5, <3>1, <3>2
  <2>7. a = b
    BY <2>4, <2>6
  <2>8. n <= Num(B, a)
    BY <2>2, Zenon DEF Confirms
  <2>9. Ancestor(B, s, n) = Ancestor(B, a, n) /\ Ancestor(B, t, n) = Ancestor(B, a, n)
    BY <1>1, <1>5, <2>2, <2>3, <2>7, <2>8, SameBranch, Zenon DEF B
  <2> QED BY <1>4, <1>7, <2>9, Zenon
<1> QED BY <1>8, <1>9, Zenon

\* For every schedule, however many slots pass and whatever is delayed, lost or missed: a
\* producer whose node did not restart confirms one block of each number, and while fewer
\* than a third of the nodes restarted no two branches propose different blocks of a number.
THEOREM ConfirmationsAlwaysAgree == Spec => []ConfirmationsAgree
<1>1. IInv => ConfirmationsAgree
  BY ProposedAgree, SMTT(30) DEF IInv, ConfirmationsAgree
<1> QED BY <1>1, Initially, Inductive, PTL DEF Spec

-----------------------------------------------------------------------------
(* The schedules of a branch.                                              *)

CONSTANTS Nodes, Proposals, Standby, Online, standby_delay, MaxGap, MaxBlocks, MaxCalls, NoBlock
VARIABLES branch, gpo, building, watermarks, confirmers, calls, restarts

Chain == INSTANCE ProducerSchedules WITH head <- branch, watermark <- watermarks, Producers <- Nodes

\* The number that the next proposal follows: that of the pending schedule, if there is one.
Newest(a, p) == IF p.producers # << >> THEN p.version ELSE a.version

\* A pending schedule is newer than the active one, or it is the active one.
Follows(a, p) ==
    /\ a.version \in Int
    /\ p.producers # << >> =>
           /\ p.version \in Int
           /\ \/ p.version > a.version
              \/ a = [version |-> p.version, producers |-> p.producers]

\* A proposal has the number that follows n.
Proposes(g, n) == g.proposed_num # 0 => g.proposed.version = n + 1

\* The shape of the properties.
HasFields(g) ==
    g = [proposed_num |-> g.proposed_num, proposed |-> g.proposed, standby |-> g.standby,
         enable_standby |-> g.enable_standby, standby_num |-> g.standby_num]

\* The header state that next() has made of the head's.
BuiltOn(p) ==
    /\ p.prev_pending = branch.pending
    /\ \/ p.active = branch.active /\ ~p.was_pending_promoted
       \/ /\ branch.pending.producers # << >>
          /\ p.active = [version |-> branch.pending.version, producers |-> branch.pending.producers]

\* The shape of a pending schedule.
Pended(p) == p = [version |-> p.version, producers |-> p.producers, lib_num |-> p.lib_num]

\* The inductive invariant: the pending schedule follows the active one, and a proposal
\* has the number after the newest of them, both on the head and in the block being built.
SchedInv ==
    /\ Pended(branch.pending)
    /\ Follows(branch.active, branch.pending)
    /\ HasFields(gpo)
    /\ Proposes(gpo, Newest(branch.active, branch.pending))
    /\ building # NoBlock =>
           /\ building = [pbhs |-> building.pbhs, new_producers |-> building.new_producers,
                          gpo |-> building.gpo]
           /\ BuiltOn(building.pbhs)
           /\ building.new_producers.producers # << >> =>
                  building.new_producers.version = Newest(branch.active, branch.pending) + 1
           /\ HasFields(building.gpo)
           /\ Proposes(building.gpo, Newest(building.pbhs.active, Chain!pending_producers))

\* Without standby schedules nothing is switched to one, and a proposal becomes pending
\* only when no schedule is.
PlainInv ==
    /\ ~gpo.enable_standby /\ gpo.standby.producers = << >>
    /\ ~branch.enable_standby
    /\ building # NoBlock =>
           /\ ~building.gpo.enable_standby /\ building.gpo.standby.producers = << >>
           /\ building.new_producers.producers # << >> => branch.pending.producers = << >>

-----------------------------------------------------------------------------
\* What next() takes from the head.
LEMMA BuiltNext ==
    ASSUME NEW when, NEW confirm,
           NEW p, p = Chain!next(branch, when, confirm)
    PROVE  BuiltOn(p) /\ p.active_schedule_version = branch.active.version
  BY DEF Chain!next, BuiltOn, Chain!promotes

\* start_block() moves a proposal, with its number, into the block.
LEMMA StartSched ==
    ASSUME SchedInv, NEW when, Chain!start_block(when)
    PROVE  SchedInv'
<1> DEFINE n == Newest(branch.active, branch.pending)
<1>1. PICK p : p = Chain!next(branch, when, Chain!confirm_at(when))
  OBVIOUS
<1>2. BuiltOn(p)
  BY <1>1, BuiltNext
<1>3. building' = Chain!Started(p) /\ UNCHANGED <<branch, gpo>>
  BY <1>1 DEF Chain!start_block
<1>4. PICK g : g = IF Chain!promotes_proposal(p) THEN [gpo EXCEPT !.proposed_num = 0, !.proposed = Chain!NoProducers]
                   ELSE gpo
  OBVIOUS
<1>5. PICK h : h = IF Chain!standby_done(p) THEN [g EXCEPT !.enable_standby = FALSE, !.standby_num = 0] ELSE g
  OBVIOUS
<1>6. PICK w : w = IF Chain!promotes_proposal(p) THEN gpo.proposed ELSE Chain!NoProducers
  OBVIOUS
<1>7. building' = [pbhs |-> p, new_producers |-> w, gpo |-> h]
  BY <1>3, <1>4, <1>5, <1>6 DEF Chain!Started
<1>8. HasFields(gpo) /\ Proposes(gpo, n) /\ Follows(branch.active, branch.pending)
  BY DEF SchedInv
<1>9. HasFields(g) /\ (Chain!promotes_proposal(p) => g.proposed_num = 0) /\ (~Chain!promotes_proposal(p) => g = gpo)
  <2>1. CASE Chain!promotes_proposal(p)
    <3>1. g = [gpo EXCEPT !.proposed_num = 0, !.proposed = Chain!NoProducers]
      BY <1>4, <2>1
    <3>2. HasFields(g) /\ g.proposed_num = 0
      BY <1>8, <3>1 DEF HasFields
    <3> QED
      BY <2>1, <3>2
  <2>2. CASE ~Chain!promotes_proposal(p)
    BY <1>4, <1>8, <2>2
  <2> QED
    BY <2>1, <2>2
<1>10. HasFields(h) /\ h.proposed_num = g.proposed_num /\ h.proposed = g.proposed
  <2>1. CASE Chain!standby_done(p)
    <3>1. h = [g EXCEPT !.enable_standby = FALSE, !.standby_num = 0]
      BY <1>5, <2>1
    <3> QED
      BY <1>9, <3>1 DEF HasFields
  <2>2. CASE ~Chain!standby_done(p)
    BY <1>5, <1>9, <2>2
  <2> QED
    BY <2>1, <2>2
<1>11. w.producers # << >> => w = gpo.proposed /\ Chain!promotes_proposal(p)
  BY <1>6 DEF Chain!NoProducers
<1>12. w.producers # << >> => w.version = n + 1
  BY <1>8, <1>11 DEF Proposes, Chain!promotes_proposal
<1>13. Newest(p.active, branch.pending) = n
  BY <1>2 DEF Newest, BuiltOn
<1>14. Proposes(h, Newest(p.active, IF w.producers # << >> THEN w ELSE p.prev_pending))
  <2>1. CASE Chain!promotes_proposal(p)
    BY <1>9, <1>10, <2>1 DEF Proposes
  <2>2. CASE ~Chain!promotes_proposal(p)
    BY <1>2, <1>8, <1>9, <1>10, <1>11, <1>13, <2>2 DEF Proposes, BuiltOn
  <2> QED
    BY <2>1, <2>2
<1>15. /\ building'.pbhs = p /\ building'.new_producers = w /\ building'.gpo = h
       /\ building' = [pbhs |-> building'.pbhs, new_producers |-> building'.new_producers,
                       gpo |-> building'.gpo]
       /\ Chain!pending_producers' = IF w.producers # << >> THEN w ELSE p.prev_pending
  BY <1>7 DEF Chain!pending_producers
<1> HIDE DEF n
<1>16. BuiltOn(building.pbhs)' /\ n' = n
  BY <1>2, <1>3, <1>15 DEF BuiltOn, n, Newest
<1> QED
  BY <1>3, <1>8, <1>10, <1>12, <1>14, <1>15, <1>16 DEF SchedInv, n

\* A call that changes the properties to g inside the block.
LEMMA CalledSched ==
    ASSUME SchedInv, building # NoBlock, NEW g, HasFields(g), Chain!Called(g),
           Proposes(g, Newest(building.pbhs.active, Chain!pending_producers))
    PROVE  SchedInv'
<1>1. building = [pbhs |-> building.pbhs, new_producers |-> building.new_producers, gpo |-> building.gpo]
  BY DEF SchedInv
<1>2. building' = [building EXCEPT !.gpo = g] /\ UNCHANGED <<branch, gpo>>
  BY DEF Chain!Called
<1>3. /\ building'.pbhs = building.pbhs /\ building'.new_producers = building.new_producers
      /\ building'.gpo = g
      /\ building' = [pbhs |-> building'.pbhs, new_producers |-> building'.new_producers,
                      gpo |-> building'.gpo]
  BY <1>1, <1>2
<1>4. Chain!pending_producers' = Chain!pending_producers
  BY <1>3 DEF Chain!pending_producers
<1>5. BuiltOn(building.pbhs)'
  BY <1>2, <1>3 DEF SchedInv, BuiltOn
<1> QED
  BY <1>2, <1>3, <1>4, <1>5 DEF SchedInv

\* The number of a proposal that set_proposed_producers() accepts.
LEMMA VersionIs ==
    ASSUME NEW g, NEW producers, Chain!proposal_version(g, producers) > 0
    PROVE  /\ producers # << >>
           /\ Chain!proposal_version(g, producers) = Newest(building.pbhs.active, Chain!pending_producers) + 1
  BY DEF Chain!proposal_version, Newest

\* What set_proposed_producers makes of the properties g.
LEMMA WithProposalIs ==
    ASSUME NEW g, HasFields(g), NEW producers, Chain!proposal_version(g, producers) > 0,
           NEW h, h = Chain!WithProposal(g, producers)
    PROVE  /\ HasFields(h) /\ Proposes(h, Newest(building.pbhs.active, Chain!pending_producers))
           /\ h.standby = g.standby /\ h.enable_standby = g.enable_standby
<1>1. PICK sch : sch = [version |-> Chain!proposal_version(g, producers), producers |-> producers]
  OBVIOUS
<1>2. PICK num : num = building.pbhs.block_num
  OBVIOUS
<1>3. h = [g EXCEPT !.proposed_num = num, !.proposed = sch]
  BY <1>1, <1>2 DEF Chain!WithProposal
<1>4. sch.version = Newest(building.pbhs.active, Chain!pending_producers) + 1
  BY <1>1, VersionIs
<1>5. /\ HasFields(h) /\ h.proposed_num = num /\ h.proposed = sch
      /\ h.standby = g.standby /\ h.enable_standby = g.enable_standby
  BY <1>3 DEF HasFields
<1> QED
  BY <1>4, <1>5 DEF Proposes

\* The calls of contracts propose the number after the newest.
LEMMA CallsSched ==
    ASSUME SchedInv, NEW producers,
           Chain!set_proposed_producers(producers) \/ Chain!set_standby_producers(producers) \/ Chain!enable_standby_producers
    PROVE  SchedInv'
<1>1. building # NoBlock
  BY DEF Chain!set_proposed_producers, Chain!set_standby_producers, Chain!enable_standby_producers
<1>2. HasFields(building.gpo) /\ Proposes(building.gpo, Newest(building.pbhs.active, Chain!pending_producers))
  BY <1>1 DEF SchedInv
<1>3. CASE Chain!set_proposed_producers(producers)
  BY <1>1, <1>2, <1>3, WithProposalIs, CalledSched, SMTT(30) DEF Chain!set_proposed_producers
<1>4. CASE Chain!set_standby_producers(producers)
  <2>1. PICK sch : sch = [version |-> 0, producers |-> producers]
    OBVIOUS
  <2>2. PICK f : f = building.gpo
    OBVIOUS
  <2>3. PICK h : h = [f EXCEPT !.standby = sch]
    OBVIOUS
  <2>4. HasFields(h) /\ h.proposed_num = f.proposed_num /\ h.proposed = f.proposed
    BY <1>2, <2>2, <2>3 DEF HasFields
  <2>5. Chain!Called(h)
    BY <1>4, <2>1, <2>2, <2>3 DEF Chain!set_standby_producers
  <2> QED
    BY <1>1, <1>2, <2>2, <2>4, <2>5, CalledSched DEF Proposes
<1>5. CASE Chain!enable_standby_producers
  <2>1. PICK f : f = building.gpo
    OBVIOUS
  <2>2. PICK num : num = branch.block_num + standby_delay
    OBVIOUS
  <2>3. PICK g : g = [f EXCEPT !.enable_standby = TRUE, !.standby_num = num, !.proposed_num = 0]
    OBVIOUS
  <2>4. HasFields(g)
    BY <1>2, <2>1, <2>3 DEF HasFields
  <2>5. PICK v : v = Chain!proposal_version(g, g.standby.producers)
    OBVIOUS
  <2>6. PICK h : h = Chain!WithProposal(g, g.standby.producers)
    OBVIOUS
  <2>7. PICK k : k = [h EXCEPT !.standby.version = v]
    OBVIOUS
  <2>8. v > 0 /\ Chain!Called(k)
    BY <1>5, <2>1, <2>2, <2>3, <2>5, <2>6, <2>7 DEF Chain!enable_standby_producers
  <2>9. HasFields(h) /\ Proposes(h, Newest(building.pbhs.active, Chain!pending_producers))
    BY <2>4, <2>5, <2>6, <2>8, WithProposalIs
  <2>10. HasFields(k) /\ k.proposed_num = h.proposed_num /\ k.proposed = h.proposed
    BY <2>7, <2>9 DEF HasFields
  <2> QED
    BY <1>1, <2>8, <2>9, <2>10, CalledSched DEF Proposes
<1> QED
  BY <1>3, <1>4, <1>5

\* commit_block() makes the schedules of the block those of the head.
LEMMA CommitSched ==
    ASSUME SchedInv, Chain!commit_block
    PROVE  SchedInv' /\ (branch'.active # branch.active => branch'.active.version > branch.active.version)
<1> DEFINE n == Newest(branch.active, branch.pending)
<1>1. PICK p : p = building.pbhs
  OBVIOUS
<1>2. PICK w : w = building.new_producers
  OBVIOUS
<1>3. PICK q : q = Chain!NextPending(p, Chain!header)
  BY SMTT(30)
<1>4. /\ building # NoBlock /\ branch'.active = p.active /\ branch'.pending = q
      /\ gpo' = building.gpo /\ building' = NoBlock
  BY <1>1, <1>3 DEF Chain!commit_block, Chain!finish_next
<1>5. /\ Follows(branch.active, branch.pending) /\ BuiltOn(p) /\ (w.producers # << >> => w.version = n + 1)
      /\ HasFields(gpo') /\ Pended(branch.pending)
      /\ Proposes(gpo', Newest(p.active, IF w.producers # << >> THEN w ELSE p.prev_pending))
  BY <1>1, <1>2, <1>4 DEF SchedInv, Chain!pending_producers
<1>6. PICK r : r = branch.pending
  OBVIOUS
<1>7. PICK a : a = branch.active
  OBVIOUS
<1>8. PICK b : b = p.active
  OBVIOUS
<1>9. /\ a.version \in Int
      /\ r.producers # << >> => r.version \in Int /\ (r.version > a.version \/ a = [version |-> r.version, producers |-> r.producers])
      /\ \/ b = a /\ ~p.was_pending_promoted
         \/ r.producers # << >> /\ b = [version |-> r.version, producers |-> r.producers]
  BY <1>5, <1>6, <1>7, <1>8 DEF Follows, BuiltOn
<1>10. b.version \in Int /\ b.version <= n /\ n \in Int /\ Newest(b, r) = n
  BY <1>6, <1>7, <1>9 DEF Newest
<1>11. b # a => b.version > a.version
  BY <1>9
<1>12. q = IF w.producers # << >> THEN [version |-> w.version, producers |-> w.producers, lib_num |-> p.block_num]
           ELSE IF p.was_pending_promoted THEN [r EXCEPT !.producers = << >>]
           ELSE r
  BY <1>2, <1>3, <1>5, <1>6 DEF Chain!NextPending, Chain!header, BuiltOn
<1> HIDE DEF n
<1>13. CASE w.producers # << >>
  <2>1. q.version = n + 1 /\ q.producers # << >> /\ q.producers = w.producers /\ Pended(q)
    BY <1>5, <1>12, <1>13 DEF Pended
  <2>2. Follows(b, q)
    BY <1>10, <2>1, SMTT(30) DEF Follows
  <2>3. Newest(b, q) = Newest(b, w)
    BY <1>5, <1>13, <2>1 DEF Newest
  <2>4. SchedInv'
    BY <1>4, <1>5, <1>8, <1>13, <2>1, <2>2, <2>3, SMTT(30) DEF SchedInv
  <2> QED
    BY <1>4, <1>7, <1>8, <1>11, <2>4
<1>14. CASE w.producers = << >> /\ p.was_pending_promoted
  <2>1. q.producers = << >> /\ Pended(q)
    BY <1>5, <1>6, <1>12, <1>14, SMTT(30) DEF Pended
  <2>2. Follows(b, q) /\ Newest(b, q) = b.version
    BY <1>10, <2>1 DEF Follows, Newest
  <2>3. b.version = r.version /\ r.producers # << >>
    BY <1>9, <1>14
  <2>4. Newest(b, q) = Newest(b, r)
    BY <2>2, <2>3 DEF Newest
  <2>5. SchedInv'
    BY <1>4, <1>5, <1>6, <1>8, <1>14, <2>1, <2>2, <2>4, SMTT(30) DEF SchedInv, BuiltOn
  <2> QED
    BY <1>4, <1>7, <1>8, <1>11, <2>5
<1>15. CASE w.producers = << >> /\ ~p.was_pending_promoted
  <2>1. q = r /\ Pended(q)
    BY <1>5, <1>6, <1>12, <1>15, SMTT(30)
  <2>2. Follows(b, r)
    BY <1>9 DEF Follows
  <2>3. SchedInv'
    BY <1>4, <1>5, <1>6, <1>8, <1>15, <2>1, <2>2, SMTT(30) DEF SchedInv, BuiltOn
  <2> QED
    BY <1>4, <1>7, <1>8, <1>11, <2>3
<1> QED
  BY <1>13, <1>14, <1>15

\* The genesis block.
LEMMA InitSched == Chain!Init => SchedInv
<1> SUFFICES ASSUME Chain!Init PROVE SchedInv
  OBVIOUS
<1>1. /\ branch.active = [version |-> 0, producers |-> <<Genesis>>]
      /\ branch.pending = [version |-> 0, producers |-> <<Genesis>>, lib_num |-> 0]
      /\ building = NoBlock
  BY DEF Chain!Init, Chain!genesis_state
<1>2. HasFields(gpo) /\ gpo.proposed_num = 0
  BY DEF Chain!Init, HasFields
<1>3. Pended(branch.pending) /\ Follows(branch.active, branch.pending)
  BY <1>1 DEF Pended, Follows
<1> QED
  BY <1>1, <1>2, <1>3, SMTT(30) DEF SchedInv, Proposes

\* SchedInv is inductive, and a step that changes the active schedule raises its version.
LEMMA NextSched ==
    ASSUME SchedInv, [Chain!Next]_Chain!vars
    PROVE  SchedInv' /\ (branch'.active # branch.active => branch'.active.version > branch.active.version)
<1>1. ASSUME NEW when \in Chain!Slots, Chain!start_block(when) PROVE SchedInv' /\ branch' = branch
  BY <1>1, StartSched DEF Chain!start_block
<1>2. ASSUME NEW producers, Chain!set_proposed_producers(producers) \/ Chain!set_standby_producers(producers)
      PROVE  SchedInv' /\ branch' = branch
  BY <1>2, CallsSched DEF Chain!set_proposed_producers, Chain!set_standby_producers, Chain!Called
<1>3. CASE Chain!enable_standby_producers
  <2>1. branch' = branch
    BY <1>3 DEF Chain!enable_standby_producers, Chain!Called
  <2> QED
    BY <1>3, <2>1, CallsSched
<1>4. CASE Chain!commit_block
  BY <1>4, CommitSched
<1>5. CASE Chain!abort_block
  BY <1>5 DEF Chain!abort_block, SchedInv
<1>6. CASE \/ \E p \in Nodes : Chain!restart(p)
           \/ UNCHANGED Chain!vars
  <2>1. UNCHANGED <<branch, gpo, building>>
    BY <1>6 DEF Chain!restart, Chain!vars
  <2> QED
    BY <2>1 DEF SchedInv, BuiltOn, Chain!pending_producers
<1> QED
  BY <1>1, <1>2, <1>3, <1>4, <1>5, <1>6, SMTT(30) DEF Chain!Next

\* A version names one schedule: the active schedule of the head changes only together with
\* its version, which never goes back, whatever proposals and standby schedules contracts
\* make.
THEOREM VersionsNameSchedules == Chain!Spec => Chain!VersionsName
<1>1. Chain!Init => SchedInv
  BY InitSched
<1>2. SchedInv /\ [Chain!Next]_Chain!vars => SchedInv'
  BY NextSched
<1>3. SchedInv /\ [Chain!Next]_Chain!vars => [branch'.active # branch.active => branch'.active.version > branch.active.version]_Chain!vars
  BY NextSched
<1> QED
  BY <1>1, <1>2, <1>3, PTL DEF Chain!Spec, Chain!VersionsName

-----------------------------------------------------------------------------
\* start_block() promotes a proposal only to follow the active schedule.
LEMMA StartPlain ==
    ASSUME SchedInv, PlainInv, NEW when, Chain!start_block(when)
    PROVE  PlainInv'
<1>1. PICK p : p = Chain!next(branch, when, Chain!confirm_at(when))
  OBVIOUS
<1>2. p.prev_pending = branch.pending
  BY <1>1, BuiltNext DEF BuiltOn
<1>3. /\ building' = [pbhs |-> p, new_producers |-> IF Chain!promotes_proposal(p) THEN gpo.proposed ELSE Chain!NoProducers,
                      gpo |-> IF Chain!promotes_proposal(p)
                              THEN [gpo EXCEPT !.proposed_num = 0, !.proposed = Chain!NoProducers] ELSE gpo]
      /\ UNCHANGED <<branch, gpo>>
  BY <1>1 DEF Chain!start_block, Chain!Started, Chain!standby_done, PlainInv
<1>4. HasFields(gpo)
  BY DEF SchedInv
<1>5. CASE Chain!promotes_proposal(p)
  <2>1. branch.pending.producers = << >>
    BY <1>2, <1>5 DEF Chain!promotes_proposal, PlainInv
  <2>2. building'.gpo = [gpo EXCEPT !.proposed_num = 0, !.proposed = Chain!NoProducers]
    BY <1>3, <1>5
  <2>3. ~building'.gpo.enable_standby /\ building'.gpo.standby = gpo.standby
    BY <1>4, <2>2 DEF HasFields, PlainInv
  <2> QED
    BY <1>3, <2>1, <2>3 DEF PlainInv
<1>6. CASE ~Chain!promotes_proposal(p)
  <2>1. building'.gpo = gpo /\ building'.new_producers.producers = << >>
    BY <1>3, <1>6 DEF Chain!NoProducers
  <2> QED
    BY <1>3, <2>1 DEF PlainInv
<1> QED
  BY <1>5, <1>6

\* PlainInv is inductive.
LEMMA NextPlain ==
    ASSUME Standby = {}, SchedInv, PlainInv, [Chain!Next]_Chain!vars
    PROVE  PlainInv'
<1>1. ASSUME NEW when \in Chain!Slots, Chain!start_block(when) PROVE PlainInv'
  BY <1>1, StartPlain
<1>2. ASSUME NEW producers, Chain!set_proposed_producers(producers) PROVE PlainInv'
  <2>1. PICK h : h = Chain!WithProposal(building.gpo, producers)
    OBVIOUS
  <2>2. building # NoBlock /\ Chain!Called(h) /\ Chain!proposal_version(building.gpo, producers) > 0
    BY <1>2, <2>1 DEF Chain!set_proposed_producers
  <2>3. h.standby = building.gpo.standby /\ h.enable_standby = building.gpo.enable_standby
    BY <2>1, <2>2, WithProposalIs DEF SchedInv
  <2>4. building'.new_producers = building.new_producers /\ building'.gpo = h /\ UNCHANGED <<branch, gpo>>
    BY <2>2 DEF Chain!Called, SchedInv
  <2> QED
    BY <2>2, <2>3, <2>4 DEF PlainInv
<1>3. ~Chain!enable_standby_producers
  <2> SUFFICES ASSUME Chain!enable_standby_producers PROVE FALSE
    OBVIOUS
  <2>1. building # NoBlock /\ HasFields(building.gpo) /\ building.gpo.standby.producers = << >>
    BY DEF Chain!enable_standby_producers, SchedInv, PlainInv
  <2>2. PICK f : f = building.gpo
    OBVIOUS
  <2>3. PICK num : num = branch.block_num + standby_delay
    OBVIOUS
  <2>4. PICK g : g = [f EXCEPT !.enable_standby = TRUE, !.standby_num = num, !.proposed_num = 0]
    OBVIOUS
  <2>5. Chain!proposal_version(g, g.standby.producers) > 0
    BY <2>2, <2>3, <2>4 DEF Chain!enable_standby_producers
  <2>6. g.standby = f.standby
    BY <2>1, <2>2, <2>4 DEF HasFields
  <2> QED
    BY <2>1, <2>2, <2>5, <2>6, VersionIs
<1>4. CASE Chain!commit_block
  <2>1. /\ building # NoBlock /\ building' = NoBlock /\ gpo' = building.gpo
        /\ branch'.enable_standby = building.gpo.enable_standby
    BY <1>4, SMTT(30) DEF Chain!commit_block, Chain!finish_next, Chain!header
  <2> QED
    BY <2>1, SMTT(30) DEF PlainInv
<1>5. CASE Chain!abort_block
  BY <1>5 DEF Chain!abort_block, PlainInv
<1>6. CASE \/ \E p \in Nodes : Chain!restart(p)
           \/ UNCHANGED Chain!vars
  <2>1. UNCHANGED <<branch, gpo, building>>
    BY <1>6 DEF Chain!restart, Chain!vars
  <2> QED
    BY <2>1 DEF PlainInv
<1> QED
  BY <1>1, <1>2, <1>3, <1>4, <1>5, <1>6 DEF Chain!Next

\* As long as no contract sets a standby schedule, the asserts on schedules in start_block
\* and _finish_next hold of every block a node can build, whatever is proposed and when.
THEOREM ProposalsNeverStopBlocks == Standby = {} /\ Chain!Spec => []Chain!BlocksCanBeBuilt
<1> SUFFICES ASSUME Standby = {} PROVE Chain!Spec => []Chain!BlocksCanBeBuilt
  OBVIOUS
<1>1. Chain!Init => SchedInv /\ PlainInv
  <2>1. Chain!Init => PlainInv
    BY DEF Chain!Init, PlainInv, Chain!genesis_state, Chain!NoProducers
  <2> QED
    BY <2>1, InitSched, SMTT(30)
<1>2. SchedInv /\ PlainInv /\ [Chain!Next]_Chain!vars => (SchedInv /\ PlainInv)'
  BY NextSched, NextPlain
<1>3. SchedInv /\ PlainInv => Chain!BlocksCanBeBuilt
  <2> SUFFICES ASSUME SchedInv, PlainInv PROVE Chain!BlocksCanBeBuilt
    OBVIOUS
  <2>1. ASSUME building # NoBlock PROVE Chain!can_finish_next(building.pbhs, Chain!header)
    <3> SUFFICES ASSUME building.new_producers.producers # << >>
                 PROVE  /\ ~building.pbhs.was_pending_promoted
                        /\ building.new_producers.version = building.pbhs.active.version + 1
                        /\ building.pbhs.prev_pending.producers = << >>
      BY DEF Chain!can_finish_next, Chain!header
    <3>1. branch.pending.producers = << >>
      BY <2>1 DEF PlainInv
    <3>2. /\ building.pbhs.prev_pending = branch.pending
          /\ building.pbhs.active = branch.active /\ ~building.pbhs.was_pending_promoted
      BY <2>1, <3>1 DEF SchedInv, BuiltOn
    <3> QED
      BY <2>1, <3>1, <3>2, SMTT(30) DEF SchedInv, Newest
  <2>2. ASSUME NEW when, NEW p, p = Chain!next(branch, when, Chain!confirm_at(when)) PROVE Chain!can_start(p)
    <3>1. p.prev_pending = branch.pending /\ p.active_schedule_version = branch.active.version
      BY <2>2, BuiltNext DEF BuiltOn
    <3> SUFFICES ASSUME Chain!promotes_proposal(p) PROVE gpo.proposed.version = branch.active.version + 1
      BY <3>1 DEF Chain!can_start
    <3>2. branch.pending.producers = << >> /\ gpo.proposed_num # 0
      BY <3>1 DEF Chain!promotes_proposal, PlainInv
    <3> QED
      BY <3>2, SMTT(30) DEF SchedInv, Proposes, Newest
  <2> QED
    BY <2>1, <2>2 DEF Chain!BlocksCanBeBuilt
<1> QED
  BY <1>1, <1>2, <1>3, PTL DEF Chain!Spec
=============================================================================
