------------------------- MODULE ForkDatabaseProofs -------------------------
(***************************************************************************)
(* Proofs about ForkDatabase: the properties checked by TLC hold for any   *)
(* number of blocks and any shape of the tree.                             *)
(***************************************************************************)
EXTENDS ForkDatabase, FiniteSetTheorems, WellFoundedInduction, TLAPS

-----------------------------------------------------------------------------
(* The order of the index.                                                 *)

\* A nonempty set of naturals has a smallest member.
LEMMA LeastNumber ==
    ASSUME NEW T, T \subseteq Nat, T # {}
    PROVE  \E x \in T : \A y \in T : x <= y
<1> DEFINE R == {p \in Nat \X Nat : p[1] < p[2]}
<1>1. IsWellFoundedOn(R, Nat)
  BY NatLessThanWellFounded DEF OpToRel
<1>2. \A x, y \in Nat : y < x => <<y, x>> \in R
  OBVIOUS
<1> HIDE DEF R
<1>3. PICK x \in T : \A y \in T : ~(<<y, x>> \in R)
  BY <1>1, WFMin
<1>4. \A y \in T : ~(y < x)
  BY <1>2, <1>3
<1>5. QED
  BY <1>4

\* The blocks of S have different ids, and n bounds their numbers.
Ordered(S, n) ==
    /\ S \subseteq Block
    /\ \A a, b \in S : a.id = b.id => a = b
    /\ \A b \in S : b.block_num <= n /\ b.dpos_irr <= n

\* A nonempty set of blocks with different ids and bounded numbers has a first
\* member in the order of by_lib_block_num: begin() of the index.
LEMMA BestExists ==
    ASSUME NEW S, NEW n \in Nat, Ordered(S, n), S # {}
    PROVE  /\ Best(S) \in S
           /\ \A c \in S : c = Best(S) \/ precedes(Best(S), c)
<1>1. PICK i \in {n - b.dpos_irr : b \in S} :
               \A j \in {n - b.dpos_irr : b \in S} : i <= j
  <2>1. {n - b.dpos_irr : b \in S} \subseteq Nat
    BY DEF Ordered, Block
  <2>2. QED
    BY <2>1, LeastNumber
<1> DEFINE S1 == {b \in S : n - b.dpos_irr = i}
<1>2. PICK k \in {n - b.block_num : b \in S1} :
               \A j \in {n - b.block_num : b \in S1} : k <= j
  <2>1. {n - b.block_num : b \in S1} \subseteq Nat
    BY DEF Ordered, Block
  <2>2. QED
    BY <1>1, <2>1, LeastNumber
<1> DEFINE S2 == {b \in S1 : n - b.block_num = k}
<1>3. PICK d \in {b.id : b \in S2} : \A j \in {b.id : b \in S2} : d <= j
  <2>1. {b.id : b \in S2} \subseteq Nat
    BY DEF Ordered, Block
  <2>2. {b.id : b \in S2} # {}
    BY <1>2
  <2>3. QED
    BY <2>1, <2>2, LeastNumber
<1>4. PICK b \in S2 : b.id = d
  BY <1>3
<1>5. ASSUME NEW c \in S PROVE c = b \/ precedes(b, c)
  <2>1. /\ b \in Block /\ c \in Block
        /\ n - b.dpos_irr <= n - c.dpos_irr
    BY <1>1, <1>4 DEF Ordered
  <2>2. c.dpos_irr = b.dpos_irr => c.block_num <= b.block_num
    BY <1>1, <1>2, <1>4, <2>1 DEF Block
  <2>3. c.dpos_irr = b.dpos_irr /\ c.block_num = b.block_num => b.id <= c.id
    BY <1>3, <1>4, <2>1 DEF Block
  <2>4. QED
    BY <2>1, <2>2, <2>3 DEF Ordered, precedes, first_preferred, Block
<1>6. QED
  BY <1>4, <1>5 DEF Best

\* Nothing in a set is preferred to its first member.
LEMMA BestPreferred ==
    ASSUME NEW S, NEW n \in Nat, Ordered(S, n), S # {}, NEW h \in Block
    PROVE  /\ \A c \in S : ~first_preferred(c, Best(S))
           /\ ~first_preferred(Best(S), h) => \A c \in S : ~first_preferred(c, h)
<1>1. Best(S) \in S /\ \A c \in S : c = Best(S) \/ precedes(Best(S), c)
  BY BestExists
<1> DEFINE b == Best(S)
<1> HIDE DEF b
<1>2. QED
  BY <1>1 DEF Ordered, Block, precedes, first_preferred, b

-----------------------------------------------------------------------------
(* The tree.                                                               *)

\* With a block, all of its children are descendants.
LEMMA DescendantsClosed ==
    ASSUME NEW ix, NEW id
    PROVE  /\ Descendants(ix, id) \subseteq ix
           /\ \A c \in ix : c.previous = id => c \in Descendants(ix, id)
           /\ \A c \in ix : \A p \in Descendants(ix, id) :
                  c.previous = p.id => c \in Descendants(ix, id)
  BY DEF Descendants

\* A set that holds the children of the block and of its own members holds all of
\* the descendants.
LEMMA DescendantsLeast ==
    ASSUME NEW ix, NEW id, NEW S \in SUBSET ix,
           \A c \in ix : c.previous = id => c \in S,
           \A c \in ix : \A p \in S : c.previous = p.id => c \in S
    PROVE  Descendants(ix, id) \subseteq S
  BY DEF Descendants

\* What TreeInv gives for the two places that choose a best block.
LEMMA TreeOrdered ==
    ASSUME ChainInv, NEW d, TreeInv(d), NEW S \in SUBSET d.index
    PROVE  Cardinality(chain) \in Nat /\ Ordered(S, Cardinality(chain))
<1>1. Cardinality(chain) \in Nat
  BY FS_CardinalityType DEF ChainInv
<1>2. S \subseteq chain
  BY DEF TreeInv
<1>3. QED
  BY <1>1, <1>2 DEF ChainInv, Ordered, Block

\* A block that is not validated has no validated descendant, and so neither it nor
\* a descendant of it is the head.
LEMMA FailedSubtree ==
    ASSUME ChainInv, NEW d, TreeInv(d), NEW b \in unvalidated(d)
    PROVE  /\ Descendants(d.index, b.id) \cap d.validated = {}
           /\ can_remove(d, b.id)
<1> DEFINE S == d.index \ d.validated
<1>1. \A c \in d.index : c.previous = b.id => c \in S
  BY DEF TreeInv, ChainInv, unvalidated
<1>2. \A c \in d.index : \A p \in S : c.previous = p.id => c \in S
  BY DEF TreeInv, ChainInv
<1>3. Descendants(d.index, b.id) \subseteq S
  <2>1. S \in SUBSET d.index
    OBVIOUS
  <2> HIDE DEF S
  <2>2. QED
    BY <1>1, <1>2, <2>1, DescendantsLeast
<1>4. d.head # b /\ d.head.id # b.id
  BY DEF TreeInv, ChainInv, unvalidated
<1>5. QED
  BY <1>3, <1>4 DEF can_remove, TreeInv

\* The blocks of the tree besides b are those that descend from the root by a path
\* around b and those that descend from b, and none is both.
LEMMA SplitAtBlock ==
    ASSUME ChainInv, NEW d, TreeInv(d), NEW b \in d.index
    PROVE  /\ left_behind(d, b) \cap Descendants(d.index, b.id) = {}
           /\ d.index = {b} \cup left_behind(d, b) \cup Descendants(d.index, b.id)
           /\ b \notin left_behind(d, b)
           /\ b \notin Descendants(d.index, b.id)
           /\ \A c \in Descendants(d.index, b.id) : c.block_num > b.block_num
<1> DEFINE L == left_behind(d, b)
           D == Descendants(d.index, b.id)
<1>1. /\ d.index \subseteq chain /\ b \in chain /\ d.root \in chain
      /\ d.root \notin d.index
  BY DEF TreeInv
<1>2. b \notin L
  BY DescendantsClosed DEF left_behind
<1>3. b \notin D /\ \A c \in D : c.block_num > b.block_num
  <2> DEFINE A == {c \in d.index : c.block_num > b.block_num}
  <2>1. \A c \in d.index : c.previous = b.id => c \in A
    BY <1>1 DEF ChainInv, Block
  <2>2. \A c \in d.index : \A p \in A : c.previous = p.id => c \in A
    BY <1>1 DEF ChainInv, Block
  <2>3. D \subseteq A
    BY <2>1, <2>2, DescendantsLeast
  <2>4. QED
    BY <1>1, <2>3 DEF ChainInv, Block
<1>4. L \cap D = {}
  <2> DEFINE A == (d.index \ {b}) \ D
  <2>1. ASSUME NEW x \in D, x.previous # b.id,
               \A p \in D : x.previous # p.id
        PROVE  FALSE
    <3> DEFINE E == D \ {x}
    <3>1. E \in SUBSET d.index
      BY DescendantsClosed
    <3>2. \A c \in d.index : c.previous = b.id => c \in E
      BY <2>1, DescendantsClosed
    <3>3. \A c \in d.index : \A p \in E : c.previous = p.id => c \in E
      BY <2>1, DescendantsClosed
    <3> HIDE DEF E
    <3>4. D \subseteq E
      BY <3>1, <3>2, <3>3, DescendantsLeast
    <3>5. QED
      BY <3>4 DEF E
  <2>2. \A c \in d.index \ {b} : c.previous = d.root.id => c \in A
    <3>1. \A p \in D : p.id # d.root.id
      BY <1>1, DescendantsClosed DEF ChainInv
    <3>2. b.id # d.root.id
      BY <1>1 DEF ChainInv
    <3>3. QED
      BY <2>1, <3>1, <3>2
  <2>3. \A c \in d.index \ {b} : \A p \in A : c.previous = p.id => c \in A
    <3>1. \A p \in A : p.id # b.id /\ \A q \in D : q.id # p.id
      BY <1>1, DescendantsClosed DEF ChainInv
    <3>2. QED
      BY <2>1, <3>1
  <2>4. L \subseteq A
    <3>1. A \in SUBSET (d.index \ {b})
      OBVIOUS
    <3> HIDE DEF A
    <3>2. QED
      BY <2>2, <2>3, <3>1, DescendantsLeast DEF left_behind
  <2>5. QED
    BY <2>4
<1>5. d.index \subseteq {b} \cup L \cup D
  <2> DEFINE A == d.index \ ({b} \cup L \cup D)
  <2>1. SUFFICES ASSUME A # {} PROVE FALSE
    OBVIOUS
  <2>2. {c.block_num : c \in A} \subseteq Nat
    BY <1>1 DEF ChainInv, Block
  <2>3. PICK n \in {c.block_num : c \in A} : \A m \in {c.block_num : c \in A} : n <= m
    <3> HIDE DEF A
    <3>1. {c.block_num : c \in A} # {}
      BY <2>1
    <3>2. QED
      BY <2>2, <3>1, LeastNumber
  <2>4. PICK c \in A : c.block_num = n
    BY <2>3
  <2>5. PICK p \in Known(d) : p.id = c.previous
    BY <2>4 DEF TreeInv, linkable
  <2>6. p # d.root /\ p \notin L
    BY <2>4, <2>5, DescendantsClosed DEF left_behind
  <2>7. p # b /\ p \notin D
    BY <2>4, <2>5, DescendantsClosed
  <2>8. p \in A
    BY <2>5, <2>6, <2>7 DEF Known
  <2>9. n = p.block_num + 1 /\ n <= p.block_num
    BY <1>1, <2>3, <2>4, <2>5, <2>8 DEF ChainInv
  <2>10. QED
    BY <1>1, <2>8, <2>9 DEF ChainInv, Block
<1>6. L \subseteq d.index /\ D \subseteq d.index
  BY DescendantsClosed DEF left_behind
<1>7. QED
  BY <1>2, <1>3, <1>4, <1>5, <1>6

\* The root can be advanced along the branch of the head.
LEMMA AdvanceFacts ==
    ASSUME ChainInv, NEW d, TreeInv(d), NEW b \in fetch_branch(d, d.head)
    PROVE  /\ b \in d.index
           /\ can_advance_root(d, b)
           /\ advance_root(d, b).index = Descendants(d.index, b.id)
<1>1. b \in d.index /\ (d.head = b \/ d.head \in Descendants(d.index, b.id))
  BY DEF fetch_branch
<1>2. d.head # d.root
  BY <1>1, DescendantsClosed DEF TreeInv
<1>3. d.head \notin left_behind(d, b)
  BY <1>1, SplitAtBlock
<1>4. advance_root(d, b).index = d.index \ ({b} \cup left_behind(d, b))
  BY DEF advance_root, Without, TreeInv, Db
<1>5. QED
  BY <1>1, <1>2, <1>3, <1>4, SplitAtBlock DEF can_advance_root

-----------------------------------------------------------------------------
(* Every operation keeps the invariant of the tree.                        *)

LEMMA ResetStep ==
    ASSUME ChainInv, NEW b \in chain
    PROVE  TreeInv(reset(b))
  BY DEF TreeInv, reset, Db, ChainInv

LEMMA AddStep ==
    ASSUME ChainInv, NEW d, TreeInv(d),
           NEW b \in chain, b \notin d.index, linkable(d, b)
    PROVE  TreeInv(add(d, b))
<1> DEFINE h == IF d.validated # {} THEN Best(d.validated) ELSE d.head
           e == [d EXCEPT !.index = @ \cup {b}, !.head = h]
<1>0. add(d, b) = e
  BY DEF add
<1> HIDE DEF h
<1>1. /\ e.root = d.root /\ e.index = d.index \cup {b} /\ e.validated = d.validated
      /\ e.head = h
      /\ h \in Block => e \in Db
  <2>1. d \in Db /\ b \in Block
    BY DEF TreeInv, ChainInv
  <2>2. QED
    BY <2>1 DEF Db
<1> HIDE DEF e
<1>2. d.validated # {} => /\ Best(d.validated) \in d.validated
                          /\ \A c \in d.validated : ~first_preferred(c, Best(d.validated))
  <2>1. Cardinality(chain) \in Nat /\ Ordered(d.validated, Cardinality(chain))
    BY TreeOrdered DEF TreeInv
  <2>2. genesis \in Block
    BY DEF genesis, Block
  <2>3. QED
    BY <2>1, <2>2, BestExists, BestPreferred
<1>3. /\ e.head \in e.validated \cup {e.root}
      /\ \A c \in e.validated : ~first_preferred(c, e.head)
  BY <1>1, <1>2 DEF TreeInv, h
<1>4. \A c \in e.index : linkable(e, c)
  BY <1>1 DEF TreeInv, linkable, Known
<1>5. e \in Db
  BY <1>1, <1>3 DEF TreeInv, Db, ChainInv
<1>6. b.block_num > d.root.block_num
  <2>1. PICK p \in Known(d) : p.id = b.previous
    BY DEF linkable
  <2>2. p \in chain /\ d.root \in chain /\ p.block_num >= d.root.block_num
    BY <2>1 DEF TreeInv, ChainInv, Known, Block
  <2>3. QED
    BY <2>1, <2>2 DEF ChainInv, Block
<1>7. b # d.root
  BY <1>6 DEF TreeInv, Db, Block
<1>8. TreeInv(e)
  BY <1>1, <1>3, <1>4, <1>5, <1>6, <1>7 DEF TreeInv
<1>9. QED
  BY <1>0, <1>8

LEMMA MarkValidStep ==
    ASSUME ChainInv, NEW d, TreeInv(d), NEW b \in d.index,
           \E p \in d.validated \cup {d.root} : p.id = b.previous
    PROVE  TreeInv(mark_valid(d, b))
<1>1. CASE b \in d.validated
  BY <1>1 DEF mark_valid
<1>2. CASE b \notin d.validated
  <2> DEFINE e == mark_valid(d, b)
             v == d.validated \cup {b}
  <2>1. /\ e.root = d.root /\ e.index = d.index /\ e.validated = v
        /\ e.head = IF first_preferred(Best(v), d.head) THEN Best(v) ELSE d.head
        /\ e = [root |-> e.root, head |-> e.head, index |-> e.index, validated |-> e.validated]
    BY <1>2 DEF mark_valid, TreeInv, Db
  <2>2. v \in SUBSET d.index /\ v # {} /\ d.head \in Block /\ d.validated \subseteq v
    BY DEF TreeInv, Db
  <2>3. \A c \in v : \E p \in v \cup {d.root} : p.id = c.previous
    BY DEF TreeInv
  <2> HIDE DEF e, v
  <2>4. Cardinality(chain) \in Nat /\ Ordered(v, Cardinality(chain))
    BY <2>2, TreeOrdered
  <2>5. Best(v) \in v
    BY <2>2, <2>4, BestExists
  <2>6. /\ \A c \in v : ~first_preferred(c, Best(v))
        /\ ~first_preferred(Best(v), d.head) => \A c \in v : ~first_preferred(c, d.head)
    BY <2>2, <2>4, BestPreferred
  <2>7. /\ e.head \in v \cup {d.root}
        /\ \A c \in v : ~first_preferred(c, e.head)
    BY <2>1, <2>2, <2>5, <2>6 DEF TreeInv
  <2>8. e \in Db
    BY <2>1, <2>2, <2>7 DEF TreeInv, Db
  <2>9. \A c \in e.index : linkable(e, c)
    BY <2>1 DEF TreeInv, linkable, Known
  <2>10. TreeInv(e)
    BY <2>1, <2>2, <2>3, <2>7, <2>8, <2>9 DEF TreeInv
  <2>11. QED
    BY <2>10 DEF e
<1>3. QED
  BY <1>1, <1>2

LEMMA RollbackStep ==
    ASSUME ChainInv, NEW d, TreeInv(d)
    PROVE  TreeInv(rollback_head_to_root(d))
<1> DEFINE e == rollback_head_to_root(d)
<1>1. /\ e.root = d.root /\ e.index = d.index /\ e.validated = {} /\ e.head = d.root
      /\ e \in Db
  BY DEF rollback_head_to_root, TreeInv, Db
<1> HIDE DEF e
<1>2. \A c \in e.index : linkable(e, c)
  BY <1>1 DEF TreeInv, linkable, Known
<1>3. TreeInv(e)
  BY <1>1, <1>2 DEF TreeInv
<1>4. QED
  BY <1>3 DEF e

LEMMA RemoveStep ==
    ASSUME ChainInv, NEW d, TreeInv(d), NEW b \in unvalidated(d)
    PROVE  TreeInv(remove(d, b.id))
<1> DEFINE e == remove(d, b.id)
           D == Descendants(d.index, b.id)
<1>1. remove_queue(d.index, b.id) = {b} \cup D
  BY DEF remove_queue, unvalidated, TreeInv, ChainInv
<1>2. D \subseteq d.index /\ D \cap d.validated = {} /\ b \notin d.validated
  BY FailedSubtree, DescendantsClosed DEF unvalidated
<1>3. /\ e.root = d.root /\ e.index = d.index \ ({b} \cup D)
      /\ e.validated = d.validated /\ e.head = d.head /\ e \in Db
  BY <1>1, <1>2 DEF remove, Without, TreeInv, Db
<1>4. ASSUME NEW c \in e.index PROVE linkable(e, c)
  <2>1. PICK p \in Known(d) : p.id = c.previous
    BY <1>3 DEF TreeInv, linkable
  <2>2. p # b /\ p \notin D
    BY <1>3, <2>1, DescendantsClosed
  <2>3. QED
    BY <1>3, <2>1, <2>2 DEF linkable, Known
<1> HIDE DEF e
<1>5. TreeInv(e)
  BY <1>2, <1>3, <1>4 DEF TreeInv
<1>6. QED
  BY <1>5 DEF e

LEMMA AdvanceStep ==
    ASSUME ChainInv, NEW d, TreeInv(d), NEW b \in fetch_branch(d, d.head)
    PROVE  TreeInv(advance_root(d, b))
<1> DEFINE e == advance_root(d, b)
           D == Descendants(d.index, b.id)
           L == left_behind(d, b)
<1>1. /\ b \in d.index /\ D \subseteq d.index /\ e.index = D
      /\ d.index = {b} \cup L \cup D /\ L \cap D = {} /\ b \notin L
      /\ b \notin D /\ \A c \in D : c.block_num > b.block_num
  BY AdvanceFacts, SplitAtBlock, DescendantsClosed
<1>2. /\ e.root = b /\ e.validated = d.validated \ ({b} \cup L) /\ e.head = d.head
      /\ e \in Db
  <2> DEFINE w == Without(d, {b} \cup L)
  <2>1. /\ w \in Db /\ w.validated = d.validated \ ({b} \cup L) /\ w.head = d.head
    BY DEF Without, TreeInv, Db
  <2>2. e = [w EXCEPT !.root = b] /\ b \in Block
    BY <1>1 DEF advance_root, TreeInv, Db
  <2> HIDE DEF w, e
  <2>3. QED
    BY <2>1, <2>2 DEF Db
<1>3. d.head \in d.validated /\ d.head \notin L
  BY AdvanceFacts DEF can_advance_root, TreeInv
<1>4. e.head \in e.validated \cup {e.root} /\ e.validated = d.validated \cap D
  BY <1>1, <1>2, <1>3 DEF TreeInv
<1>5. ASSUME NEW c \in D
      PROVE  \E p \in D \cup {b} : p.id = c.previous
  <2>1. PICK p \in Known(d) : p.id = c.previous
    BY <1>1 DEF TreeInv, linkable
  <2>2. c \in d.index \ {b} /\ c \notin L
    BY <1>1
  <2>3. p # d.root /\ p \notin L
    BY <2>1, <2>2, DescendantsClosed DEF left_behind
  <2>4. QED
    BY <1>1, <2>1, <2>3 DEF Known
<1>6. ASSUME NEW c \in e.validated
      PROVE  \E p \in e.validated \cup {b} : p.id = c.previous
  <2>1. PICK p \in d.validated \cup {d.root} : p.id = c.previous
    BY <1>4 DEF TreeInv
  <2>2. PICK q \in D \cup {b} : q.id = c.previous
    BY <1>4, <1>5
  <2>3. p = q
    BY <1>1, <2>1, <2>2 DEF TreeInv, ChainInv
  <2>4. QED
    BY <1>1, <1>4, <2>1, <2>2, <2>3 DEF TreeInv
<1> HIDE DEF e, L, D
<1>7. \A c \in e.index : linkable(e, c)
  BY <1>1, <1>2, <1>5 DEF linkable, Known
<1>8. /\ e.root \in chain \ e.index /\ e.index \subseteq chain
      /\ e.validated \subseteq e.index
      /\ \A c \in e.index : c.block_num > e.root.block_num
  BY <1>1, <1>2, <1>4 DEF TreeInv
<1>9. \A c \in e.validated : ~first_preferred(c, e.head)
  BY <1>2, <1>4 DEF TreeInv
<1>10. TreeInv(e)
  BY <1>2, <1>4, <1>6, <1>7, <1>8, <1>9 DEF TreeInv
<1>11. QED
  BY <1>10 DEF e

-----------------------------------------------------------------------------
(* The file.                                                               *)

\* A database that satisfies the invariant is saved in a form that reads back
\* unchanged, and that open() accepts exactly when the irreversible numbers rise
\* along its branches: only then a block is preferred to its previous block, and so
\* comes after it.
LEMMA SaveFacts ==
    ASSUME ChainInv, NEW d, TreeInv(d)
    PROVE  (CanLoad(Saved(d)) <=> Rising(d.index)) /\ Loaded(Saved(d)) = d
<1> DEFINE f == Saved(d)
<1>1. /\ f.root = d.root /\ f.blocks = d.index /\ f.validated = d.validated
      /\ f.head = d.head.id
      /\ \A l, r \in d.index : <<l, r>> \in f.before <=> written_before(d, l, r)
  BY DEF Saved
<1> HIDE DEF f
<1>2. ASSUME NEW b \in d.index, NEW p \in d.index, p.id = b.previous
      PROVE  written_before(d, p, b) <=> p.dpos_irr <= b.dpos_irr
  <2>1. /\ p \in chain /\ b \in chain /\ p \in Block /\ b \in Block
        /\ b.block_num = p.block_num + 1
    BY <1>2 DEF TreeInv, ChainInv
  <2>2. first_preferred(b, p) <=> p.dpos_irr <= b.dpos_irr
    BY <2>1 DEF first_preferred, Block
  <2>3. first_preferred(p, b) <=> ~(p.dpos_irr <= b.dpos_irr)
    BY <2>1 DEF first_preferred, Block
  <2>4. QED
    BY <2>2, <2>3 DEF written_before
<1>31. Rising(d.index) => FileLinks(f)
  <2> SUFFICES ASSUME Rising(d.index), NEW b \in d.index
               PROVE  \/ b.previous = d.root.id
                      \/ \E p \in d.index : p.id = b.previous /\ <<p, b>> \in f.before
    BY <1>1 DEF FileLinks
  <2>1. PICK p \in Known(d) : p.id = b.previous
    BY DEF TreeInv, linkable
  <2>2. QED
    BY <1>1, <1>2, <2>1 DEF Known, Rising
<1>32. FileLinks(f) => Rising(d.index)
  <2> SUFFICES ASSUME FileLinks(f), NEW p \in d.index, NEW b \in d.index, p.id = b.previous
               PROVE  p.dpos_irr <= b.dpos_irr
    BY DEF Rising
  <2>1. b.previous # d.root.id
    BY DEF TreeInv, ChainInv
  <2>2. PICK q \in d.index : q.id = b.previous /\ <<q, b>> \in f.before
    BY <1>1, <2>1 DEF FileLinks
  <2>3. q = p
    BY <2>2 DEF TreeInv, ChainInv
  <2>4. QED
    BY <1>1, <1>2, <2>2, <2>3
<1>3. FileLinks(f) <=> Rising(d.index)
  BY <1>31, <1>32
<1>4. d.head = d.root \/ d.head \in d.index
  BY DEF TreeInv
<1>5. FileHasHead(f)
  BY <1>1, <1>4 DEF FileHasHead
<1>6. (IF f.head = f.root.id THEN f.root ELSE CHOOSE b \in f.blocks : b.id = f.head) = d.head
  <2>1. \A b \in d.index \cup {d.root} : b.id = d.head.id => b = d.head
    BY <1>4 DEF TreeInv, ChainInv
  <2>2. QED
    BY <1>1, <1>4, <2>1
<1>7. Loaded(f) = [root |-> d.root, index |-> d.index, validated |-> d.validated, head |-> d.head]
  BY <1>1, <1>6 DEF Loaded
<1>8. Loaded(f) = d
  BY <1>7 DEF TreeInv, Db
<1>9. FileHeadBest(f)
  <2>1. CASE d.validated = {}
    BY <1>1, <2>1 DEF FileHeadBest, TreeInv
  <2>2. CASE d.validated # {}
    <3>1. Cardinality(chain) \in Nat /\ Ordered(d.validated, Cardinality(chain))
      BY TreeOrdered DEF TreeInv
    <3>2. Best(d.validated) \in d.validated
      BY <2>2, <3>1, BestExists
    <3>3. QED
      BY <1>1, <1>8, <2>2, <3>2 DEF FileHeadBest, TreeInv
  <2>3. QED
    BY <2>1, <2>2
<1>10. QED
  BY <1>3, <1>5, <1>8, <1>9 DEF CanLoad, f

-----------------------------------------------------------------------------
(* The invariant of the whole specification.                               *)

LEMMA ProduceStep ==
    ASSUME ChainInv, NEW p \in chain, NEW irr \in 0 .. MaxBlocks, produce(p, irr)
    PROVE  ChainInv' /\ chain \subseteq chain'
<1> DEFINE n == Cardinality(chain)
           b == [id |-> n + 1, previous |-> p.id,
                 block_num |-> p.block_num + 1, dpos_irr |-> irr]
<1>1. n \in Nat /\ IsFiniteSet(chain)
  BY FS_CardinalityType DEF ChainInv
<1>2. /\ chain' = chain \cup {b}
      /\ irr <= p.block_num
  BY DEF produce
<1>3. /\ b \in Block /\ b.id = n + 1 /\ b.previous = p.id
      /\ b.block_num = p.block_num + 1 /\ b.dpos_irr = irr
  BY <1>1 DEF ChainInv, Block
<1>4. p \in Block /\ p.id \in 1 .. n /\ p.block_num <= p.id
  BY DEF ChainInv
<1>5. b \notin chain
  BY <1>1, <1>3 DEF ChainInv
<1> HIDE DEF b
<1>6. IsFiniteSet(chain') /\ Cardinality(chain') = n + 1
  BY <1>1, <1>2, <1>5, FS_AddElement
<1> HIDE DEF n
<1>7. \A c \in chain : /\ c \in Block /\ c.id \in 1 .. n /\ c.previous < c.id
                      /\ c.block_num <= c.id /\ c.dpos_irr <= c.block_num
  BY DEF ChainInv, n
<1>8. \A c \in chain' : /\ c \in Block /\ c.id \in 1 .. n + 1 /\ c.previous < c.id
                       /\ c.block_num <= c.id /\ c.dpos_irr <= c.block_num
  BY <1>1, <1>2, <1>3, <1>4, <1>7 DEF Block
<1>9. \A a, c \in chain' : a.id = c.id => a = c
  BY <1>1, <1>2, <1>3, <1>7 DEF ChainInv
<1>10. \A q, c \in chain' : q.id = c.previous => c.block_num = q.block_num + 1
  <2> SUFFICES ASSUME NEW q \in chain', NEW c \in chain', q.id = c.previous
               PROVE  c.block_num = q.block_num + 1
    OBVIOUS
  <2>1. CASE q \in chain /\ c \in chain
    BY <2>1 DEF ChainInv
  <2>2. CASE q = b
    BY <1>1, <1>2, <1>3, <1>4, <1>7, <2>2 DEF Block
  <2>3. CASE q \in chain /\ c = b
    <3>1. q = p
      BY <1>3, <2>3 DEF ChainInv
    <3>2. QED
      BY <1>2, <1>3, <2>3, <3>1
  <2>4. QED
    BY <1>2, <2>1, <2>2, <2>3
<1>11. QED
  BY <1>2, <1>6, <1>8, <1>9, <1>10 DEF ChainInv

LEMMA InvInit == Init => Inv
<1> SUFFICES ASSUME Init PROVE Inv
  OBVIOUS
<1>1. IsFiniteSet(chain) /\ Cardinality(chain) = 1
  BY FS_Singleton DEF Init
<1>2. genesis \in Block /\ genesis.id = 1 /\ genesis.previous = 0
      /\ genesis.block_num = 1 /\ genesis.dpos_irr = 0
  BY DEF genesis, Block
<1>3. ChainInv
  BY <1>1, <1>2 DEF Init, ChainInv
<1>4. QED
  BY <1>3 DEF Init, Inv

\* A step that only replaces the database by one that satisfies the invariant.
LEMMA BecomesStep ==
    ASSUME Inv, NEW d, Becomes(d), TreeInv(d)
    PROVE  Inv'
<1>1. fork_db' = d /\ chain' = chain /\ file' = file /\ running' = running
  BY DEF Becomes
<1>2. ChainInv'
  BY <1>1 DEF Inv, ChainInv
<1>3. TreeInv(fork_db)'
  BY <1>1 DEF TreeInv
<1>4. file' # NoFile => TreeInv(Loaded(file))' /\ file' = Saved(Loaded(file'))
  BY <1>1 DEF Inv, TreeInv
<1>5. QED
  BY <1>1, <1>2, <1>3, <1>4 DEF Inv

LEMMA InvNext == Inv /\ [Next]_vars => Inv'
<1> SUFFICES ASSUME Inv, [Next]_vars PROVE Inv'
  OBVIOUS
<1>0. ChainInv
  BY DEF Inv
<1>1. CASE UNCHANGED vars
  BY <1>1 DEF vars, Inv, ChainInv, TreeInv
<1>2. ASSUME NEW p \in chain, NEW irr \in 0 .. MaxBlocks, produce(p, irr)
      PROVE  Inv'
  <2>1. ChainInv' /\ chain \subseteq chain'
    BY <1>0, <1>2, ProduceStep
  <2>2. fork_db' = fork_db /\ file' = file /\ running' = running
    BY <1>2 DEF produce
  <2>3. fork_db' # NoDb => TreeInv(fork_db)'
    BY <2>1, <2>2 DEF Inv, TreeInv
  <2>4. file' # NoFile => TreeInv(Loaded(file))' /\ file' = Saved(Loaded(file'))
    BY <2>1, <2>2 DEF Inv, TreeInv
  <2>5. QED
    BY <2>1, <2>2, <2>3, <2>4 DEF Inv
<1>3. CASE open
  <2>1. chain' = chain /\ file' = NoFile /\ running' = TRUE
    BY <1>3 DEF open
  <2>2. ChainInv'
    BY <1>0, <2>1 DEF ChainInv
  <2>3. fork_db' = NoDb \/ (file # NoFile /\ fork_db' = Loaded(file))
    BY <1>3 DEF open
  <2>4. fork_db' # NoDb => TreeInv(fork_db)'
    BY <2>1, <2>3 DEF Inv, TreeInv
  <2>5. QED
    BY <2>1, <2>2, <2>4 DEF Inv
<1>4. CASE close
  <2>1. chain' = chain /\ fork_db' = NoDb /\ running' = FALSE
    BY <1>4 DEF close
  <2>2. ChainInv'
    BY <1>0, <2>1 DEF ChainInv
  <2>3. CASE fork_db = NoDb
    <3>1. file' = file
      BY <1>4, <2>3 DEF close
    <3>2. QED
      BY <2>1, <2>2, <3>1 DEF Inv, TreeInv
  <2>4. CASE fork_db # NoDb
    <3>1. file' = Saved(fork_db) /\ TreeInv(fork_db) /\ Loaded(Saved(fork_db)) = fork_db
      BY <1>0, <1>4, <2>4, SaveFacts DEF close, Inv
    <3>2. Loaded(file') = fork_db /\ file' = Saved(Loaded(file'))
      BY <3>1
    <3>3. TreeInv(Loaded(file))'
      BY <2>1, <3>1, <3>2, SMTT(20) DEF TreeInv
    <3>4. QED
      BY <2>1, <2>2, <3>2, <3>3 DEF Inv
  <2>5. QED
    BY <2>3, <2>4
<1>13. CASE do_hard_replay
  BY <1>13 DEF do_hard_replay, Inv, ChainInv, TreeInv
<1>5. CASE crash
  BY <1>5 DEF crash, Inv, ChainInv, TreeInv
<1>6. CASE roll_back
  BY <1>0, <1>6, RollbackStep, BecomesStep DEF roll_back, Inv
<1>7. ASSUME NEW b \in chain, start_from(b) PROVE Inv'
  BY <1>0, <1>7, ResetStep, BecomesStep DEF start_from
<1>8. ASSUME NEW b \in chain, receive(b) PROVE Inv'
  BY <1>0, <1>8, AddStep, BecomesStep DEF receive, Inv
<1>9. ASSUME NEW b \in chain, applies(b) PROVE Inv'
  BY <1>0, <1>9, MarkValidStep, BecomesStep DEF applies, Inv
<1>10. ASSUME NEW b \in chain, fails(b) PROVE Inv'
  BY <1>0, <1>10, RemoveStep, BecomesStep DEF fails, Inv
<1>11. ASSUME NEW b \in chain, irreversible(b) PROVE Inv'
  BY <1>0, <1>11, AdvanceStep, BecomesStep DEF irreversible, Inv
<1>12. QED
  BY <1>1, <1>2, <1>3, <1>13, <1>4, <1>5, <1>6, <1>7, <1>8, <1>9, <1>10, <1>11 DEF Next

\* The inductive invariant holds of every state of the fork database.
THEOREM Invariance == Spec => []Inv
  BY InvInit, InvNext, PTL DEF Spec

-----------------------------------------------------------------------------
(* The properties that TLC checks, for any number of blocks.               *)

LEMMA InvType == Inv => TypeOK
<1> SUFFICES ASSUME Inv PROVE TypeOK
  OBVIOUS
<1>1. fork_db \in {d \in Db : d.validated \subseteq d.index} \cup {NoDb}
  BY DEF Inv, TreeInv
<1>2. file # NoFile => file \in File
  <2> SUFFICES ASSUME file # NoFile PROVE file \in File
    OBVIOUS
  <2> DEFINE d == Loaded(file)
  <2>1. d \in Db /\ file = Saved(d)
    BY DEF Inv, TreeInv
  <2> HIDE DEF d
  <2>2. d.head.id \in Nat
    BY <2>1 DEF Db, Block
  <2>3. {lr \in d.index \X d.index : written_before(d, lr[1], lr[2])} \in SUBSET (Block \X Block)
    BY <2>1 DEF Db
  <2>4. QED
    BY <2>1, <2>2, <2>3 DEF Db, Saved, File
<1>3. QED
  BY <1>1, <1>2 DEF TypeOK, Inv, ChainInv

\* Every state is well typed.
THEOREM TypeCorrect == Spec => []TypeOK
  BY Invariance, InvType, PTL

\* No branch of the fork database is ever orphaned.
THEOREM Connected == Spec => []NoOrphans
<1>1. Inv => NoOrphans
  BY DEF Inv, TreeInv, NoOrphans
<1>2. QED
  BY <1>1, Invariance, PTL

LEMMA InvHeadIsBest == Inv => HeadIsBest
<1> SUFFICES ASSUME Inv, fork_db # NoDb PROVE HeadIsBest
  BY DEF HeadIsBest
<1> DEFINE d == fork_db
           u == unvalidated(d)
<1>1. ChainInv /\ TreeInv(d)
  BY DEF Inv
<1>2. u \in SUBSET d.index /\ d.head \in Block /\ d.index = u \cup d.validated
  BY <1>1 DEF unvalidated, TreeInv, Db
<1> HIDE DEF u
<1>3. Cardinality(chain) \in Nat /\ Ordered(u, Cardinality(chain))
  BY <1>1, <1>2, TreeOrdered
<1>4. \A b \in d.validated : ~first_preferred(b, d.head)
  BY <1>1 DEF TreeInv
<1>5. \A b \in d.index : ~first_preferred(b, pending_head(d))
  <2>1. CASE u # {} /\ first_preferred(Best(u), d.head)
    <3>1. pending_head(d) = Best(u)
      BY <2>1 DEF pending_head, u
    <3>2. Best(u) \in u /\ \A c \in u : ~first_preferred(c, Best(u))
      BY <1>2, <1>3, <2>1, BestExists, BestPreferred
    <3>3. Best(u) \in Block /\ d.validated \subseteq Block
      BY <1>1, <1>2, <3>2 DEF TreeInv, Db
    <3>4. \A c \in d.validated : ~first_preferred(c, Best(u))
      BY <1>2, <1>4, <2>1, <3>3 DEF first_preferred, Block
    <3>5. QED
      BY <1>2, <3>1, <3>2, <3>4
  <2>2. CASE ~(u # {} /\ first_preferred(Best(u), d.head))
    <3>1. pending_head(d) = d.head
      BY <2>2 DEF pending_head, u
    <3>2. \A c \in u : ~first_preferred(c, d.head)
      BY <1>2, <1>3, <2>2, BestPreferred
    <3>3. QED
      BY <1>2, <1>4, <3>1, <3>2
  <2>3. QED
    BY <2>1, <2>2
<1>6. QED
  BY <1>1, <1>4, <1>5 DEF HeadIsBest, TreeInv

\* The head is always as good as any validated block, and pending_head() as good
\* as any block.
THEOREM BestHead == Spec => []HeadIsBest
  BY Invariance, InvHeadIsBest, PTL

\* remove() never throws in the error path of the controller.
THEOREM SafeRemoval == Spec => []FailureSparesHead
<1>1. Inv => FailureSparesHead
  BY FailedSubtree DEF Inv, FailureSparesHead
<1>2. QED
  BY <1>1, Invariance, PTL

\* advance_root() never throws half way and drops exactly the other branches.
THEOREM SafeAdvance == Spec => []AdvanceKeepsSubtree
<1>1. Inv => AdvanceKeepsSubtree
  BY AdvanceFacts DEF Inv, AdvanceKeepsSubtree
<1>2. QED
  BY <1>1, Invariance, PTL

\* Whatever tree of blocks the fork database holds, a clean shutdown writes it out
\* in full, and the next start accepts the file if and only if no block lowers the
\* irreversible number of its parent.
THEOREM CleanRestart == Spec => []RestartRestores
<1>1. Inv => RestartRestores
  <2> SUFFICES ASSUME Inv PROVE RestartRestores
    OBVIOUS
  <2>1. fork_db # NoDb => /\ CanLoad(Saved(fork_db)) <=> Rising(fork_db.index)
                         /\ Loaded(Saved(fork_db)) = fork_db
    BY SaveFacts DEF Inv
  <2>2. file # NoFile => (CanLoad(Saved(Loaded(file))) <=> Rising(Loaded(file).index))
    BY SaveFacts DEF Inv
  <2>3. QED
    BY <2>1, <2>2 DEF RestartRestores, Inv
<1>2. QED
  BY <1>1, Invariance, PTL
=============================================================================
