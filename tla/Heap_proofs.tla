---------------------------- MODULE Heap_proofs ----------------------------
(***************************************************************************)
(* For any number of nodes, any sizes and any sequence of calls, of        *)
(* kernel_main's list and of others: as long as the list of blocks is      *)
(* sound, its blocks tile the arena and the spare nodes stay apart from    *)
(* them.  The invariant speaks of a set of blocks, which the addresses     *)
(* put in order, and of a set of spare nodes with a rank that falls along  *)
(* next; that the list's walk meets all the blocks is derived from it.     *)
(*                                                                         *)
(* The second part is about kernel_main's list.  Its invariant names the   *)
(* chain of nodes along next: those that were deleted as the first ones,   *)
(* then the items, linked both ways.                                       *)
(***************************************************************************)
EXTENDS LinkedList, FiniteSetTheorems, SequenceTheorems, WellFoundedInduction, TLAPS

LEMMA LeastExists ==
    ASSUME NEW S \in SUBSET Nat, S # {}
    PROVE  \E m \in S : \A n \in S : m <= n
<1>1. PICK m \in S : \A n \in S : ~ (<<n, m>> \in OpToRel(<, Nat))
  BY WFMin, NatLessThanWellFounded
<1>2. \A n \in S : ~ (n < m)
  BY <1>1 DEF OpToRel
<1> QED
  BY <1>2

\* A set of numbers with 0, closed under the successor, has them all.
LEMMA AllNumbers ==
    ASSUME NEW T \in SUBSET Nat, 0 \in T, \A k \in T : k + 1 \in T
    PROVE  T = Nat
<1>1. SUFFICES ASSUME NEW n \in Nat \ T PROVE FALSE
  OBVIOUS
<1>2. PICK m \in Nat \ T : \A k \in Nat \ T : m <= k
  BY <1>1, LeastExists
<1>3. m # 0 /\ m - 1 \in Nat /\ ~(m <= m - 1)
  BY <1>2
<1>4. m - 1 \in T
  BY <1>2, <1>3
<1>5. QED
  BY <1>3, <1>4

-----------------------------------------------------------------------------
\* Walking along next.
Following(f, p, n) ==
    f = [i \in 0 .. n |-> IF i = 0 THEN p
                          ELSE IF f[i - 1] = NULL THEN NULL ELSE node[f[i - 1]].next]

LEMMA WalkExists == ASSUME NEW p, NEW n \in Nat PROVE \E f : Following(f, p, n)
<1> DEFINE T == {m \in Nat : \E f : Following(f, p, m)}
<1>1. 0 \in T
  <2>1. Following([i \in 0 .. 0 |-> p], p, 0)
    BY DEF Following
  <2>2. QED
    BY <2>1
<1>2. ASSUME NEW m \in T PROVE m + 1 \in T
  <2>1. PICK f : Following(f, p, m)
    OBVIOUS
  <2> DEFINE last == IF f[m] = NULL THEN NULL ELSE node[f[m]].next
             g == [i \in 0 .. m + 1 |-> IF i <= m THEN f[i] ELSE last]
  <2>2. ASSUME NEW i \in 0 .. m + 1
        PROVE  g[i] = IF i = 0 THEN p ELSE IF g[i - 1] = NULL THEN NULL ELSE node[g[i - 1]].next
    <3>1. CASE i = 0
      <4>1. g[0] = f[0]
        OBVIOUS
      <4>2. f[0] = p
        BY <2>1 DEF Following
      <4>3. QED
        BY <3>1, <4>1, <4>2
    <3>2. CASE i # 0 /\ i <= m
      <4>1. i \in 0 .. m /\ g[i] = f[i] /\ g[i - 1] = f[i - 1]
        BY <3>2
      <4>2. f[i] = IF f[i - 1] = NULL THEN NULL ELSE node[f[i - 1]].next
        BY <2>1, <3>2, <4>1 DEF Following
      <4>3. QED
        BY <3>2, <4>1, <4>2
    <3>3. CASE i = m + 1
      <4>1. g[i] = last /\ g[i - 1] = f[m]
        BY <3>3
      <4>2. QED
        BY <3>3, <4>1
    <3>4. QED
      BY <3>1, <3>2, <3>3
  <2>3. g = [i \in 0 .. m + 1 |-> g[i]]
    OBVIOUS
  <2> HIDE DEF g
  <2>4. Following(g, p, m + 1)
    BY <2>2, <2>3 DEF Following
  <2>5. QED
    BY <2>4
<1> HIDE DEF T
<1>3. T = Nat
  BY <1>1, <1>2, AllNumbers DEF T
<1>4. QED
  BY <1>3 DEF T

LEMMA Numbers ==
    /\ MaxNodes \in Nat \ {0} /\ NULL \notin Nodes
    /\ Base \in Nat /\ Limit \in Nat /\ Base < Limit /\ Sizes \subseteq Nat \ {0}
BY HeapAssumption DEF NULL, Nodes

LEMMA FromStep ==
    ASSUME NEW p
    PROVE  /\ From(p)[0] = p
           /\ \A i \in Nat : i + 1 <= MaxNodes =>
                From(p)[i + 1] = IF From(p)[i] = NULL THEN NULL ELSE node[From(p)[i]].next
<1> DEFINE nth == CHOOSE f : f = [n \in 0 .. MaxNodes |->
                        IF n = 0 THEN p
                        ELSE IF f[n - 1] = NULL THEN NULL ELSE node[f[n - 1]].next]
<1>1. From(p) = nth
  BY DEF From
<1>2. Following(nth, p, MaxNodes)
  <2>1. MaxNodes \in Nat
    BY Numbers
  <2>2. \E f : Following(f, p, MaxNodes)
    BY <2>1, WalkExists
  <2>3. QED
    BY <2>2 DEF Following
<1> HIDE DEF nth
<1>3. nth[0] = p
  BY <1>2, Numbers DEF Following
<1>4. ASSUME NEW i \in Nat, i + 1 <= MaxNodes
      PROVE  nth[i + 1] = IF nth[i] = NULL THEN NULL ELSE node[nth[i]].next
  <2>1. i + 1 \in 0 .. MaxNodes /\ i + 1 # 0 /\ (i + 1) - 1 = i
    BY <1>4, Numbers
  <2>2. QED
    BY <1>2, <2>1 DEF Following
<1>5. QED
  BY <1>1, <1>3, <1>4

\* The nodes met lie in every set that has the first and is closed under next.
LEMMA StaysIn ==
    ASSUME NEW S \in SUBSET Nodes, NEW p \in S \cup {NULL},
           \A q \in S : node[q].next \in S \cup {NULL}
    PROVE  \A i \in 0 .. MaxNodes : From(p)[i] \in S \cup {NULL}
<1> DEFINE f == From(p)
           T == {i \in Nat : i <= MaxNodes => f[i] \in S \cup {NULL}}
<1>1. 0 \in T
  BY FromStep
<1>2. ASSUME NEW i \in T PROVE i + 1 \in T
  <2>1. SUFFICES ASSUME i + 1 <= MaxNodes PROVE f[i + 1] \in S \cup {NULL}
    OBVIOUS
  <2>2. f[i] \in S \cup {NULL}
    BY <2>1, Numbers
  <2>3. f[i + 1] = IF f[i] = NULL THEN NULL ELSE node[f[i]].next
    BY <2>1, FromStep
  <2> HIDE DEF f
  <2>4. QED
    BY <2>2, <2>3
<1> HIDE DEF T
<1>3. T = Nat
  BY <1>1, <1>2, AllNumbers DEF T
<1>4. QED
  BY <1>3 DEF T

LEMMA ListedIn ==
    ASSUME NEW S \in SUBSET Nodes, NEW p \in S \cup {NULL},
           \A q \in S : node[q].next \in S \cup {NULL}
    PROVE  Listed(p) \subseteq S
BY StaysIn DEF Listed

\* Along a list in which a number grows it grows from any node to any later one.
LEMMA Grows ==
    ASSUME NEW S \in SUBSET Nodes, NEW p \in S \cup {NULL}, NEW key \in [S -> Int],
           \A q \in S : node[q].next # NULL => node[q].next \in S /\ key[q] < key[node[q].next]
    PROVE  \A i \in 0 .. MaxNodes, j \in 0 .. MaxNodes :
              j < i /\ From(p)[i] # NULL =>
                 From(p)[j] \in S /\ From(p)[i] \in S /\ key[From(p)[j]] < key[From(p)[i]]
<1> DEFINE f == From(p)
           T == {i \in Nat : i <= MaxNodes /\ f[i] # NULL =>
                    \A j \in 0 .. i - 1 : f[j] \in S /\ key[f[j]] < key[f[i]]}
<1>0. \A i \in 0 .. MaxNodes : f[i] \in S \cup {NULL}
  BY StaysIn
<1>1. 0 \in T
  OBVIOUS
<1>2. ASSUME NEW i \in T PROVE i + 1 \in T
  <2>1. SUFFICES ASSUME i + 1 <= MaxNodes, f[i + 1] # NULL, NEW j \in 0 .. i
                 PROVE  f[j] \in S /\ key[f[j]] < key[f[i + 1]]
    OBVIOUS
  <2>2. i \in 0 .. MaxNodes /\ i + 1 \in 0 .. MaxNodes
    BY <2>1, Numbers
  <2>3. f[i + 1] = IF f[i] = NULL THEN NULL ELSE node[f[i]].next
    BY <2>1, FromStep
  <2>4. i \in Nat /\ (f[i] # NULL => \A k \in 0 .. i - 1 : f[k] \in S /\ key[f[k]] < key[f[i]])
    BY <2>2
  <2>5. f[i] \in S /\ f[i + 1] \in S
    BY <1>0, <2>1, <2>2, <2>3
  <2> HIDE DEF f
  <2>6. f[i] # NULL /\ key[f[i]] < key[f[i + 1]]
    BY <2>1, <2>3, <2>5, Numbers
  <2>7. key[f[i]] \in Int /\ key[f[i + 1]] \in Int
    BY <2>5
  <2>8. CASE j = i
    BY <2>5, <2>6, <2>8
  <2>9. CASE j # i
    <3>1. j \in 0 .. i - 1
      BY <2>4, <2>9
    <3>2. f[j] \in S /\ key[f[j]] < key[f[i]]
      BY <2>4, <2>6, <3>1
    <3>3. key[f[j]] \in Int
      BY <3>2
    <3>4. QED
      BY <2>6, <2>7, <3>2, <3>3
  <2>10. QED
    BY <2>8, <2>9
<1>3. T = Nat
  <2> HIDE DEF T
  <2>1. QED
    BY <1>1, <1>2, AllNumbers DEF T
<1>4. ASSUME NEW i \in 0 .. MaxNodes, NEW j \in 0 .. MaxNodes, j < i, f[i] # NULL
      PROVE  f[j] \in S /\ f[i] \in S /\ key[f[j]] < key[f[i]]
  <2>1. i \in T /\ j \in 0 .. i - 1
    BY <1>3, <1>4, Numbers
  <2>2. QED
    BY <1>0, <1>4, <2>1
<1>5. QED
  BY <1>4

\* memory_alloc's and memory_free_int's search.
LEMMA FirstFound ==
    ASSUME NEW wanted \in SUBSET Nodes
    PROVE  \/ First(wanted) = NULL /\ \A p \in Listed(root) : p \notin wanted
           \/ First(wanted) \in wanted /\ First(wanted) \in Listed(root)
<1> DEFINE nth == From(root)
           hits == {n \in 0 .. MaxNodes : nth[n] \in wanted}
<1>1. First(wanted) = IF hits = {} THEN NULL
                      ELSE nth[CHOOSE n \in hits : \A m \in hits : n <= m]
  BY DEF First
<1>2. CASE hits = {}
  BY <1>1, <1>2 DEF Listed
<1>3. CASE hits # {}
  <2>1. \E n \in hits : \A m \in hits : n <= m
    <3>1. hits \in SUBSET Nat
      OBVIOUS
    <3> HIDE DEF hits
    <3>2. QED
      BY <1>3, <3>1, LeastExists
  <2>2. PICK n \in hits : First(wanted) = nth[n]
    <3> HIDE DEF hits, nth
    <3>1. QED
      BY <1>1, <1>3, <2>1
  <2>3. nth[n] \in wanted /\ nth[n] # NULL
    BY Numbers
  <2>4. QED
    BY <2>2, <2>3 DEF Listed
<1>4. QED
  BY <1>2, <1>3

-----------------------------------------------------------------------------
BlockType == [free : BOOLEAN, begin : Int, end : Int, next : Pointers, prev : Pointers]

\* L is the list of blocks: each has its neighbours on both sides, and no two
\* have an address in common.
InPlace(p, L) ==
    /\ Base <= node[p].begin /\ node[p].begin <= node[p].end
    /\ node[p].next = NULL => node[p].end = Limit
    /\ node[p].next # NULL => /\ node[p].next \in L
                              /\ node[node[p].next].begin = node[p].end + 1
                              /\ node[node[p].next].prev = p
    /\ node[p].prev = NULL => p = root
    /\ node[p].prev # NULL => node[p].prev \in L /\ node[node[p].prev].next = p

Apart(p, q) == node[p].end < node[q].begin \/ node[q].end < node[p].begin

Blocks(L) ==
    /\ root \in L /\ node[root].begin = Base /\ node[root].prev = NULL
    /\ \A p \in L : InPlace(p, L)
    /\ \A p, q \in L : p # q => Apart(p, q)

\* F are the nodes on the freelist.
Spare(F, rank) ==
    /\ freelist \in F \cup {NULL}
    /\ \A p \in F : node[p].next # NULL => node[p].next \in F /\ rank[node[p].next] < rank[p]

\* Only the block that is being merged may be free beside a free one.
Merged(L) ==
    /\ merging # NULL => merging \in L /\ node[merging].free
    /\ \A p \in L : node[p].free /\ node[p].next # NULL /\ node[node[p].next].free =>
          merging = p \/ merging = node[p].next

Sound(L, F, rank) ==
    /\ node \in [Nodes -> BlockType] /\ used \in Nodes
    /\ L \cup F \subseteq 1 .. used /\ L \cap F = {}
    /\ Blocks(L) /\ Spare(F, rank) /\ Owned(L) /\ Merged(L)

HeapInv ==
    /\ odd \in Nat
    /\ odd = 0 => \E L, F \in SUBSET Nodes, rank \in [Nodes -> Nat] : Sound(L, F, rank)

LEMMA HeapInitInv == Init => HeapInv
<1> SUFFICES ASSUME Init PROVE HeapInv
  OBVIOUS
<1>1. \A p \in Nodes : node[p] = [free |-> TRUE, begin |-> Base, end |-> Limit,
                                  next |-> NULL, prev |-> NULL]
  BY DEF Init
<1>2. /\ 1 \in Nodes /\ root = 1 /\ used = 1 /\ freelist = NULL /\ merging = NULL
      /\ owned = <<>> /\ odd = 0
  BY Numbers DEF Init, Nodes
<1>3. node \in [Nodes -> BlockType]
  BY Numbers DEF Init, BlockType, Pointers
<1>4. Blocks({1})
  BY <1>1, <1>2, Numbers DEF Blocks, InPlace, Apart
<1>5. Owned({1}) /\ Merged({1})
  BY <1>1, <1>2 DEF Owned, Merged
<1>6. Spare({}, [p \in Nodes |-> 0])
  BY <1>2 DEF Spare
<1>7. Sound({1}, {}, [p \in Nodes |-> 0])
  BY <1>2, <1>3, <1>4, <1>5, <1>6 DEF Sound
<1>8. QED
  BY <1>2, <1>7 DEF HeapInv

-----------------------------------------------------------------------------
\* What a walk from the root meets are the blocks, all of them.
LEMMA InNodes ==
    ASSUME NEW L, NEW F, NEW rank, Sound(L, F, rank)
    PROVE  L \in SUBSET Nodes /\ F \in SUBSET Nodes
BY Numbers DEF Sound, Nodes

LEMMA SpareNodes ==
    ASSUME NEW L, NEW F, NEW rank, Sound(L, F, rank)
    PROVE  /\ freelist \in F \cup {NULL} /\ F \in SUBSET Nodes /\ L \in SUBSET Nodes
           /\ L \cup F \subseteq 1 .. used /\ L \cap F = {} /\ used \in Nodes
           /\ \A q \in F : node[q].next # NULL =>
                 node[q].next \in F /\ rank[node[q].next] < rank[q]
<1>1. Spare(F, rank) /\ L \cup F \subseteq 1 .. used /\ L \cap F = {} /\ used \in Nodes
  BY DEF Sound
<1>2. F \in SUBSET Nodes /\ L \in SUBSET Nodes
  BY InNodes
<1>3. QED
  BY <1>1, <1>2 DEF Spare

LEMMA BlockAt ==
    ASSUME NEW L, NEW F, NEW rank, Sound(L, F, rank), NEW p \in L
    PROVE  /\ p \in Nodes /\ p # NULL
           /\ node[p].begin \in Int /\ node[p].end \in Int /\ node[p].free \in BOOLEAN
           /\ node[p].next \in Pointers /\ node[p].prev \in Pointers
<1>1. p \in Nodes /\ node \in [Nodes -> BlockType]
  BY InNodes DEF Sound
<1>2. node[p] \in BlockType
  BY <1>1
<1>3. QED
  BY <1>1, <1>2, Numbers DEF BlockType

LEMMA WalkRises ==
    ASSUME NEW L, NEW F, NEW rank, Sound(L, F, rank)
    PROVE  \A i \in 0 .. MaxNodes, j \in 0 .. MaxNodes :
              j < i /\ From(root)[i] # NULL =>
                 /\ From(root)[j] \in L /\ From(root)[i] \in L
                 /\ From(root)[j] # From(root)[i]
<1> DEFINE key == [p \in L |-> node[p].begin]
<1>1. L \in SUBSET Nodes /\ root \in L
  BY InNodes DEF Sound, Blocks, InPlace, Apart
<1>2. key \in [L -> Int]
  BY BlockAt
<1>3. ASSUME NEW q \in L, node[q].next # NULL
      PROVE  node[q].next \in L /\ key[q] < key[node[q].next]
  <2>1. /\ node[q].next \in L /\ node[node[q].next].begin = node[q].end + 1
        /\ node[q].begin <= node[q].end
    BY <1>3 DEF Sound, Blocks, InPlace, Apart
  <2>2. node[q].begin \in Int /\ node[q].end \in Int
    BY BlockAt
  <2>3. QED
    BY <2>1, <2>2
<1> HIDE DEF key
<1>4. \A i \in 0 .. MaxNodes, j \in 0 .. MaxNodes :
        j < i /\ From(root)[i] # NULL =>
           From(root)[j] \in L /\ From(root)[i] \in L /\ key[From(root)[j]] < key[From(root)[i]]
  BY <1>1, <1>2, <1>3, Grows
<1>5. TAKE i \in 0 .. MaxNodes, j \in 0 .. MaxNodes
<1>6. HAVE j < i /\ From(root)[i] # NULL
<1>7. /\ From(root)[j] \in L /\ From(root)[i] \in L /\ key[From(root)[j]] < key[From(root)[i]]
  BY <1>4, <1>6
<1>8. ~(key[From(root)[j]] < key[From(root)[j]])
  BY <1>2, <1>7
<1>9. QED
  BY <1>7, <1>8

LEMMA EarlyEnough ==
    ASSUME NEW L, NEW F, NEW rank, Sound(L, F, rank),
           NEW i \in 0 .. MaxNodes, From(root)[i] # NULL
    PROVE  i + 1 <= MaxNodes
<1> DEFINE f == [j \in 0 .. i |-> From(root)[j]]
<1>1. \A j \in 0 .. i : j \in 0 .. MaxNodes
  BY Numbers
<1>2. \A j, k \in 0 .. i : j < k => f[j] \in L /\ f[k] \in L /\ f[j] # f[k]
  <2> SUFFICES ASSUME NEW j \in 0 .. i, NEW k \in 0 .. i, j < k
               PROVE  f[j] \in L /\ f[k] \in L /\ f[j] # f[k]
    OBVIOUS
  <2>1. From(root)[k] # NULL
    <3>1. k < i => From(root)[k] \in L
      BY <1>1, WalkRises
    <3>2. NULL \notin L
      BY BlockAt
    <3>3. k < i \/ k = i
      OBVIOUS
    <3>4. QED
      BY <3>1, <3>2, <3>3
  <2>2. QED
    BY <1>1, <2>1, WalkRises
<1>3. f \in [0 .. i -> Nodes]
  <2>1. ASSUME NEW j \in 0 .. i PROVE f[j] \in Nodes
    <3>1. CASE i = 0
      <4>1. f[j] = root
        BY <3>1, FromStep
      <4>2. QED
        BY <4>1, InNodes DEF Sound, Blocks, InPlace, Apart
    <3>2. CASE j < i
      <4>1. f[j] \in L
        BY <1>2, <3>2
      <4>2. QED
        BY <4>1, InNodes
    <3>3. CASE j = i /\ i # 0
      <4>1. f[0] \in L /\ f[i] \in L
        BY <1>2, <3>3
      <4>2. QED
        BY <3>3, <4>1, InNodes
    <3>4. QED
      BY <3>1, <3>2, <3>3
  <2>2. QED
    BY <2>1
<1>4. IsFiniteSet(0 .. i) /\ Cardinality(0 .. i) = i + 1
  BY FS_Interval
<1>5. IsFiniteSet(Nodes) /\ Cardinality(Nodes) = MaxNodes
  BY FS_Interval, Numbers DEF Nodes
<1>6. \A j, k \in 0 .. i : j # k => f[j] # f[k]
  BY <1>2
<1> HIDE DEF f
<1>7. ~(Cardinality(Nodes) < Cardinality(0 .. i))
  BY <1>3, <1>4, <1>5, <1>6, FS_PigeonHole
<1>8. QED
  BY <1>4, <1>5, <1>7, Numbers

LEMMA AllListed ==
    ASSUME NEW L, NEW F, NEW rank, Sound(L, F, rank)
    PROVE  Listed(root) = L
<1>1. Listed(root) \subseteq L
  <2>1. L \in SUBSET Nodes /\ root \in L
    BY InNodes DEF Sound, Blocks, InPlace, Apart
  <2>2. \A q \in L : node[q].next \in L \cup {NULL}
    BY DEF Sound, Blocks, InPlace, Apart
  <2>3. QED
    BY <2>1, <2>2, ListedIn
<1> DEFINE T == {k \in Nat : \A p \in L : node[p].begin < Base + k =>
                        \E i \in 0 .. MaxNodes : From(root)[i] = p}
<1>2. 0 \in T
  <2>1. ASSUME NEW p \in L PROVE ~(node[p].begin < Base)
    <3>1. Base <= node[p].begin
      BY DEF Sound, Blocks, InPlace, Apart
    <3>2. QED
      BY <3>1, BlockAt, Numbers
  <2>2. QED
    BY <2>1, Numbers
<1>3. ASSUME NEW k \in T PROVE k + 1 \in T
  <2>1. SUFFICES ASSUME NEW p \in L, node[p].begin < Base + (k + 1)
                 PROVE  \E i \in 0 .. MaxNodes : From(root)[i] = p
    OBVIOUS
  <2>2. CASE p = root
    BY <2>2, FromStep, Numbers
  <2>3. CASE p # root
    <3>1. PICK q : q = node[p].prev
      OBVIOUS
    <3>2. q # NULL /\ q \in L /\ node[q].next = p
      BY <2>3, <3>1 DEF Sound, Blocks, InPlace, Apart
    <3>3. node[p].begin = node[q].end + 1 /\ node[q].begin <= node[q].end
      BY <3>2, BlockAt DEF Sound, Blocks, InPlace, Apart
    <3>4. node[q].begin < Base + k
      BY <2>1, <3>2, <3>3, BlockAt, Numbers
    <3>5. PICK i \in 0 .. MaxNodes : From(root)[i] = q
      BY <3>2, <3>4
    <3>6. i + 1 \in 0 .. MaxNodes
      BY <3>2, <3>5, EarlyEnough, Numbers
    <3>7. From(root)[i + 1] = p
      BY <3>2, <3>5, <3>6, FromStep
    <3>8. QED
      BY <3>6, <3>7
  <2>4. QED
    BY <2>2, <2>3
<1>4. T = Nat
  <2> HIDE DEF T
  <2>1. QED
    BY <1>2, <1>3, AllNumbers DEF T
<1>5. ASSUME NEW p \in L PROVE p \in Listed(root)
  <2> DEFINE k == node[p].begin - Base + 1
  <2>1. k \in Nat /\ node[p].begin < Base + k
    <3>1. Base <= node[p].begin /\ node[p].begin \in Int
      BY BlockAt DEF Sound, Blocks, InPlace, Apart
    <3>2. QED
      BY <3>1, Numbers
  <2>2. k \in T
    BY <1>4, <2>1
  <2>3. \E i \in 0 .. MaxNodes : From(root)[i] = p
    BY <2>1, <2>2
  <2>4. p # NULL
    BY BlockAt
  <2>5. QED
    BY <2>3, <2>4 DEF Listed
<1>6. QED
  BY <1>1, <1>5

-----------------------------------------------------------------------------
\* The stores of one field.
Same(a, b) == a.free = b.free /\ a.begin = b.begin /\ a.end = b.end

LEMMA StoreNext ==
    ASSUME NEW m \in [Nodes -> BlockType], NEW p \in Pointers, NEW v \in Pointers
    PROVE  /\ Store(m, p, "next", v) \in [Nodes -> BlockType]
           /\ \A q \in Nodes : /\ Same(Store(m, p, "next", v)[q], m[q])
                               /\ Store(m, p, "next", v)[q].prev = m[q].prev
                               /\ Store(m, p, "next", v)[q].next = IF q = p THEN v ELSE m[q].next
<1>1. CASE p = NULL
  BY <1>1, Numbers DEF Store, Same
<1>2. CASE p # NULL
  <2> DEFINE g == [m EXCEPT ![p] = [m[p] EXCEPT !["next"] = v]]
  <2>1. p \in Nodes /\ m[p] \in BlockType
    BY <1>2 DEF Pointers
  <2>2. [m[p] EXCEPT !["next"] = v] \in BlockType
    BY <2>1 DEF BlockType
  <2>3. Store(m, p, "next", v) = g
    BY <1>2 DEF Store
  <2>4. g \in [Nodes -> BlockType]
    BY <2>1, <2>2
  <2>5. g[p] = [m[p] EXCEPT !["next"] = v] /\ \A q \in Nodes : q # p => g[q] = m[q]
    BY <2>1
  <2>6. Same(g[p], m[p]) /\ g[p].prev = m[p].prev /\ g[p].next = v
    BY <2>1, <2>5 DEF BlockType, Same
  <2> HIDE DEF g
  <2>7. QED
    BY <2>3, <2>4, <2>5, <2>6 DEF Same
<1>3. QED
  BY <1>1, <1>2

LEMMA StorePrev ==
    ASSUME NEW m \in [Nodes -> BlockType], NEW p \in Pointers, NEW v \in Pointers
    PROVE  /\ Store(m, p, "prev", v) \in [Nodes -> BlockType]
           /\ \A q \in Nodes : /\ Same(Store(m, p, "prev", v)[q], m[q])
                               /\ Store(m, p, "prev", v)[q].next = m[q].next
                               /\ Store(m, p, "prev", v)[q].prev = IF q = p THEN v ELSE m[q].prev
<1>1. CASE p = NULL
  BY <1>1, Numbers DEF Store, Same
<1>2. CASE p # NULL
  <2> DEFINE g == [m EXCEPT ![p] = [m[p] EXCEPT !["prev"] = v]]
  <2>1. p \in Nodes /\ m[p] \in BlockType
    BY <1>2 DEF Pointers
  <2>2. [m[p] EXCEPT !["prev"] = v] \in BlockType
    BY <2>1 DEF BlockType
  <2>3. Store(m, p, "prev", v) = g
    BY <1>2 DEF Store
  <2>4. g \in [Nodes -> BlockType]
    BY <2>1, <2>2
  <2>5. g[p] = [m[p] EXCEPT !["prev"] = v] /\ \A q \in Nodes : q # p => g[q] = m[q]
    BY <2>1
  <2>6. Same(g[p], m[p]) /\ g[p].next = m[p].next /\ g[p].prev = v
    BY <2>1, <2>5 DEF BlockType, Same
  <2> HIDE DEF g
  <2>7. QED
    BY <2>3, <2>4, <2>5, <2>6 DEF Same
<1>3. QED
  BY <1>1, <1>2

LEMMA StoreFree ==
    ASSUME NEW m \in [Nodes -> BlockType], NEW p \in Nodes
    PROVE  /\ Store(m, p, "free", TRUE) \in [Nodes -> BlockType]
           /\ \A q \in Nodes : /\ q # p => Store(m, p, "free", TRUE)[q] = m[q]
                               /\ Store(m, p, "free", TRUE)[q].begin = m[q].begin
                               /\ Store(m, p, "free", TRUE)[q].end = m[q].end
                               /\ Store(m, p, "free", TRUE)[q].next = m[q].next
                               /\ Store(m, p, "free", TRUE)[q].prev = m[q].prev
           /\ Store(m, p, "free", TRUE)[p].free
<1> DEFINE g == [m EXCEPT ![p] = [m[p] EXCEPT !["free"] = TRUE]]
<1>1. m[p] \in BlockType /\ p # NULL
  BY Numbers
<1>2. [m[p] EXCEPT !["free"] = TRUE] \in BlockType
  BY <1>1 DEF BlockType
<1>3. Store(m, p, "free", TRUE) = g
  BY <1>1 DEF Store
<1>4. g \in [Nodes -> BlockType]
  BY <1>2
<1>5. g[p] = [m[p] EXCEPT !["free"] = TRUE] /\ \A q \in Nodes : q # p => g[q] = m[q]
  OBVIOUS
<1>6. /\ g[p].begin = m[p].begin /\ g[p].end = m[p].end /\ g[p].free
      /\ g[p].next = m[p].next /\ g[p].prev = m[p].prev
  BY <1>1, <1>5 DEF BlockType
<1> HIDE DEF g
<1>7. QED
  BY <1>3, <1>4, <1>5, <1>6

-----------------------------------------------------------------------------
LEMMA FreedFields ==
    ASSUME node \in [Nodes -> BlockType], NEW n \in Nodes, node' = Store(node, n, "free", TRUE)
    PROVE  /\ node' \in [Nodes -> BlockType]
           /\ \A q \in Nodes : /\ q # n => node'[q] = node[q]
                               /\ node'[q].begin = node[q].begin /\ node'[q].end = node[q].end
                               /\ node'[q].next = node[q].next /\ node'[q].prev = node[q].prev
           /\ node'[n].free
<1> DEFINE g == Store(node, n, "free", TRUE)
<1>1. /\ g \in [Nodes -> BlockType]
      /\ \A q \in Nodes : /\ q # n => g[q] = node[q]
                          /\ g[q].begin = node[q].begin /\ g[q].end = node[q].end
                          /\ g[q].next = node[q].next /\ g[q].prev = node[q].prev
      /\ g[n].free
  BY StoreFree
<1>2. node' = g
  OBVIOUS
<1> HIDE DEF g
<1>3. QED
  BY <1>1, <1>2

\* A block's place has nothing to do with its being free.
LEMMA BlocksKept ==
    ASSUME NEW L, Blocks(L), root' = root,
           \A q \in L : /\ node'[q].begin = node[q].begin /\ node'[q].end = node[q].end
                        /\ node'[q].next = node[q].next /\ node'[q].prev = node[q].prev
    PROVE  Blocks(L)'
<1>1. root' \in L /\ node'[root'].begin = Base /\ node'[root'].prev = NULL
  BY DEF Blocks
<1>2. ASSUME NEW p \in L PROVE InPlace(p, L)'
  <2>1. InPlace(p, L)
    BY DEF Blocks
  <2>2. /\ node'[p].begin = node[p].begin /\ node'[p].end = node[p].end
        /\ node'[p].next = node[p].next /\ node'[p].prev = node[p].prev
    OBVIOUS
  <2>3. node[p].next # NULL => /\ node'[node[p].next].begin = node[node[p].next].begin
                               /\ node'[node[p].next].prev = node[node[p].next].prev
    BY <2>1 DEF InPlace
  <2>4. node[p].prev # NULL => node'[node[p].prev].next = node[node[p].prev].next
    BY <2>1 DEF InPlace
  <2>5. QED
    BY <2>1, <2>2, <2>3, <2>4 DEF InPlace
<1>3. ASSUME NEW p \in L, NEW q \in L, p # q PROVE Apart(p, q)'
  <2>1. Apart(p, q)
    BY <1>3 DEF Blocks
  <2>2. QED
    BY <2>1 DEF Apart
<1>4. QED
  BY <1>1, <1>2, <1>3 DEF Blocks

\* memory_free_int marks the block.
LEMMA MarkedFree ==
    ASSUME NEW L, NEW F, NEW rank, Sound(L, F, rank), merging = NULL,
           NEW n \in L, node' = Store(node, n, "free", TRUE), merging' = n,
           UNCHANGED <<used, root, freelist>>, Owned(L)'
    PROVE  Sound(L, F, rank)'
<1>1. n \in Nodes /\ L \in SUBSET Nodes /\ F \in SUBSET Nodes /\ node \in [Nodes -> BlockType]
  BY InNodes DEF Sound
<1>2. /\ node' \in [Nodes -> BlockType]
      /\ \A q \in Nodes : /\ q # n => node'[q] = node[q]
                          /\ node'[q].begin = node[q].begin /\ node'[q].end = node[q].end
                          /\ node'[q].next = node[q].next /\ node'[q].prev = node[q].prev
      /\ node'[n].free
  BY <1>1, FreedFields
<1>3. Blocks(L)'
  <2>1. \A q \in L : /\ node'[q].begin = node[q].begin /\ node'[q].end = node[q].end
                     /\ node'[q].next = node[q].next /\ node'[q].prev = node[q].prev
    BY <1>1, <1>2
  <2>2. QED
    BY <2>1, BlocksKept DEF Sound
<1>4. Spare(F, rank)'
  BY <1>1, <1>2 DEF Sound, Spare
<1>5. Merged(L)'
  <2>1. ASSUME NEW p \in L, node'[p].free, node'[p].next # NULL, node'[node'[p].next].free
        PROVE  n = p \/ n = node'[p].next
    <3>1. node'[p].next = node[p].next /\ node[p].next \in L
      BY <1>1, <1>2, <2>1 DEF Sound, Blocks, InPlace, Apart
    <3>2. CASE p # n /\ node[p].next # n
      <4>1. node'[p] = node[p] /\ node'[node[p].next] = node[node[p].next]
        BY <1>1, <1>2, <3>1, <3>2
      <4>2. node[p].free /\ node[p].next # NULL /\ node[node[p].next].free
        BY <2>1, <3>1, <4>1
      <4>3. merging = p \/ merging = node[p].next
        BY <4>2 DEF Sound, Merged
      <4>4. QED
        BY <1>1, <4>2, <4>3, Numbers
    <3>3. QED
      BY <3>1, <3>2
  <2>2. QED
    BY <1>2, <2>1 DEF Merged
<1>6. QED
  BY <1>2, <1>3, <1>4, <1>5 DEF Sound

LEMMA FreeKeeps ==
    ASSUME NEW L, NEW F, NEW rank, Sound(L, F, rank), NEW a, Free(a)
    PROVE  Sound(L, F, rank)'
<1> DEFINE n == First({p \in Nodes : node[p].begin = a})
<1>1. /\ merging = NULL /\ a \in DOMAIN owned
      /\ owned' = [b \in DOMAIN owned \ {a} |-> owned[b]]
      /\ node' = Store(node, n, "free", TRUE) /\ merging' = n
      /\ UNCHANGED <<used, root, freelist>>
  BY DEF Free, Callable
<1>2. PICK p \in L : node[p].begin = a /\ ~node[p].free
  BY <1>1 DEF Sound, Owned
<1>3. n \in L /\ node[n].begin = a
  <2>1. p \in Listed(root) /\ p \in Nodes
    BY AllListed, BlockAt
  <2>2. n \in {q \in Nodes : node[q].begin = a} /\ n \in Listed(root)
    BY <1>2, <2>1, FirstFound
  <2> HIDE DEF n
  <2>3. QED
    BY <2>2, AllListed
<1> HIDE DEF n
<1>4. \A q \in L : node[q].begin = a => q = n
  <2> SUFFICES ASSUME NEW q \in L, node[q].begin = a, q # n PROVE FALSE
    OBVIOUS
  <2>1. /\ node[q].end < node[n].begin \/ node[n].end < node[q].begin
        /\ node[q].begin <= node[q].end /\ node[n].begin <= node[n].end
    BY <1>3 DEF Sound, Blocks, InPlace, Apart
  <2>2. QED
    BY <1>3, <2>1, BlockAt
<1>5. Owned(L)'
  <2>1. n \in Nodes /\ L \in SUBSET Nodes /\ node \in [Nodes -> BlockType]
    BY <1>3, InNodes DEF Sound
  <2>2. /\ \A q \in Nodes : /\ q # n => node'[q] = node[q]
                            /\ node'[q].begin = node[q].begin /\ node'[q].end = node[q].end
        /\ node'[n].free
    BY <1>1, <2>1, FreedFields
  <2>3. ASSUME NEW q \in L, ~node'[q].free
        PROVE  /\ node'[q].begin \in DOMAIN owned'
               /\ node'[q].end = node'[q].begin + owned'[node'[q].begin]
    <3>1. q # n /\ node'[q] = node[q]
      BY <2>1, <2>2, <2>3
    <3>2. /\ node[q].begin \in DOMAIN owned
          /\ node[q].end = node[q].begin + owned[node[q].begin]
      BY <2>3, <3>1 DEF Sound, Owned
    <3>3. node[q].begin # a
      BY <1>4, <3>1
    <3>4. QED
      BY <1>1, <3>1, <3>2, <3>3
  <2>4. ASSUME NEW b \in DOMAIN owned'
        PROVE  \E q \in L : node'[q].begin = b /\ ~node'[q].free
    <3>1. b \in DOMAIN owned /\ b # a
      BY <1>1
    <3>2. PICK q \in L : node[q].begin = b /\ ~node[q].free
      BY <3>1 DEF Sound, Owned
    <3>3. q # n
      BY <1>3, <3>1, <3>2
    <3>4. node'[q] = node[q]
      BY <2>1, <2>2, <3>3
    <3>5. QED
      BY <3>2, <3>4
  <2>5. QED
    BY <2>3, <2>4 DEF Owned
<1>6. QED
  BY <1>1, <1>3, <1>5, MarkedFree

\* The list frees an address that no caller holds.
LEMMA StrayFreeKeeps ==
    ASSUME NEW L, NEW F, NEW rank, Sound(L, F, rank), NEW a, a \notin DOMAIN owned,
           merging = NULL, merging' = First({p \in Nodes : node[p].begin = a}),
           node' = Store(node, merging', "free", TRUE),
           UNCHANGED <<used, root, freelist, owned>>
    PROVE  Sound(L, F, rank)'
<1>1. PICK n : n = merging'
  OBVIOUS
<1>2. n = NULL \/ (n \in L /\ node[n].begin = a)
  BY <1>1, FirstFound, AllListed
<1>3. CASE n = NULL
  <2>1. node' = node /\ merging' = merging
    BY <1>1, <1>3 DEF Store
  <2>2. Blocks(L)'
    BY <2>1, BlocksKept DEF Sound
  <2>3. Spare(F, rank)' /\ Owned(L)' /\ Merged(L)'
    BY <2>1 DEF Sound, Spare, Owned, Merged
  <2>4. QED
    BY <2>1, <2>2, <2>3 DEF Sound
<1>4. CASE n \in L /\ node[n].begin = a
  <2>1. node[n].free
    BY <1>4 DEF Sound, Owned
  <2>2. n \in Nodes /\ L \in SUBSET Nodes /\ node \in [Nodes -> BlockType]
    BY <1>4, InNodes DEF Sound
  <2>3. /\ \A q \in Nodes : /\ q # n => node'[q] = node[q]
                            /\ node'[q].begin = node[q].begin /\ node'[q].end = node[q].end
        /\ node'[n].free
    <3>1. node' = Store(node, n, "free", TRUE)
      BY <1>1
    <3>2. QED
      BY <2>2, <3>1, FreedFields
  <2>4. ASSUME NEW q \in L
        PROVE  /\ node'[q].begin = node[q].begin /\ node'[q].end = node[q].end
               /\ ~node'[q].free <=> ~node[q].free
    BY <2>1, <2>2, <2>3
  <2>5. owned' = owned /\ Owned(L)
    BY DEF Sound
  <2>6. Owned(L)'
    <3>1. ASSUME NEW q \in L, ~node'[q].free
          PROVE  /\ node'[q].begin \in DOMAIN owned'
                 /\ node'[q].end = node'[q].begin + owned'[node'[q].begin]
      <4>1. /\ node[q].begin \in DOMAIN owned
            /\ node[q].end = node[q].begin + owned[node[q].begin]
        BY <2>4, <2>5, <3>1 DEF Owned
      <4>2. node'[q].begin = node[q].begin /\ node'[q].end = node[q].end
        BY <2>4
      <4>3. QED
        BY <2>5, <4>1, <4>2
    <3>2. ASSUME NEW b \in DOMAIN owned'
          PROVE  \E q \in L : node'[q].begin = b /\ ~node'[q].free
      <4>1. PICK q \in L : node[q].begin = b /\ ~node[q].free
        BY <2>5, <3>2 DEF Owned
      <4>2. QED
        BY <2>4, <4>1
    <3>3. QED
      BY <3>1, <3>2 DEF Owned
  <2>7. node' = Store(node, n, "free", TRUE) /\ merging' = n
    BY <1>1
  <2>8. QED
    BY <1>4, <2>6, <2>7, MarkedFree
<1>5. QED
  BY <1>2, <1>3, <1>4

-----------------------------------------------------------------------------
\* Neighbours in the list of blocks.
LEMMA Adjacent ==
    ASSUME NEW L, NEW F, NEW rank, Sound(L, F, rank), NEW p \in L, NEW q \in L
    PROVE  /\ node[p].next = q <=> node[q].prev = p
           /\ node[p].next = q => p # q /\ node[q].begin = node[p].end + 1
           /\ node[p].begin <= node[p].end
<1>1. InPlace(p, L) /\ InPlace(q, L)
  BY DEF Sound, Blocks
<1>2. /\ p # NULL /\ q # NULL
      /\ node[p].begin \in Int /\ node[p].end \in Int
      /\ node[q].begin \in Int /\ node[q].end \in Int
  BY BlockAt
<1>3. node[p].next = q <=> node[q].prev = p
  BY <1>1, <1>2 DEF InPlace
<1>4. node[p].begin <= node[p].end
  BY <1>1 DEF InPlace
<1>5. ASSUME node[p].next = q PROVE p # q /\ node[q].begin = node[p].end + 1
  <2>1. node[q].begin = node[p].end + 1
    BY <1>1, <1>2, <1>5 DEF InPlace
  <2>2. QED
    BY <1>2, <1>4, <2>1
<1>6. QED
  BY <1>3, <1>4, <1>5

\* Blocks in different places do not begin at the same address.
LEMMA OneBegin ==
    ASSUME NEW L, NEW F, NEW rank, Sound(L, F, rank), NEW p \in L, NEW q \in L,
           node[p].begin = node[q].begin
    PROVE  p = q
<1>1. SUFFICES ASSUME p # q PROVE FALSE
  OBVIOUS
<1>2. /\ node[p].end < node[q].begin \/ node[q].end < node[p].begin
      /\ node[p].begin <= node[p].end /\ node[q].begin <= node[q].end
  BY <1>1 DEF Sound, Blocks, InPlace, Apart
<1>3. /\ node[p].begin \in Int /\ node[p].end \in Int
      /\ node[q].begin \in Int /\ node[q].end \in Int
  BY BlockAt
<1>4. QED
  BY <1>2, <1>3

-----------------------------------------------------------------------------
\* memory_alloc splits the block n; new is what the caller gets.
LEMMA SplitFields ==
    ASSUME node \in [Nodes -> BlockType], NEW n \in Nodes, NEW new \in Nodes, n # new,
           NEW size \in Nat, node[n].prev # n, node[n].prev # new
    PROVE  /\ Split(n, new, size) \in [Nodes -> BlockType]
           /\ Split(n, new, size)[new]
                = [free |-> FALSE, begin |-> node[n].begin, end |-> node[n].begin + size,
                   next |-> n, prev |-> IF n = root THEN NULL ELSE node[n].prev]
           /\ Split(n, new, size)[n].free = node[n].free
           /\ Split(n, new, size)[n].begin = node[n].begin + size + 1
           /\ Split(n, new, size)[n].end = node[n].end
           /\ Split(n, new, size)[n].next = node[n].next
           /\ Split(n, new, size)[n].prev = new
           /\ \A q \in Nodes : q # n /\ q # new =>
                /\ Same(Split(n, new, size)[q], node[q])
                /\ Split(n, new, size)[q].prev = node[q].prev
                /\ Split(n, new, size)[q].next = IF q = node[n].prev THEN new ELSE node[q].next
<1> DEFINE linked == Store(node, node[n].prev, "next", new)
           taken == [free |-> FALSE, begin |-> node[n].begin, end |-> node[n].begin + size,
                     next |-> n, prev |-> IF n = root THEN NULL ELSE node[n].prev]
           rest == [linked[n] EXCEPT !.begin = node[n].begin + size + 1, !.prev = new]
           g == [linked EXCEPT ![new] = taken, ![n] = rest]
<1>1. node[n] \in BlockType /\ NULL \in Pointers /\ n \in Pointers /\ new \in Pointers
  BY DEF Pointers
<1>2. node[n].prev \in Pointers /\ node[n].begin \in Int
  BY <1>1 DEF BlockType
<1>3. /\ linked \in [Nodes -> BlockType]
      /\ \A q \in Nodes : /\ Same(linked[q], node[q]) /\ linked[q].prev = node[q].prev
                          /\ linked[q].next = IF q = node[n].prev THEN new ELSE node[q].next
  BY <1>1, <1>2, StoreNext
<1> HIDE DEF linked
<1>4. taken \in BlockType
  BY <1>1, <1>2 DEF BlockType
<1>5. linked[n] \in BlockType
  BY <1>3
<1>6. /\ rest \in BlockType /\ rest.free = linked[n].free
      /\ rest.begin = node[n].begin + size + 1 /\ rest.end = linked[n].end
      /\ rest.next = linked[n].next /\ rest.prev = new
  <2>1. PICK r \in BlockType : r = linked[n]
    BY <1>5
  <2>2. PICK b \in Int : b = node[n].begin + size + 1
    BY <1>2
  <2>3. [r EXCEPT !.begin = b, !.prev = new] \in BlockType
    BY <1>1 DEF BlockType
  <2>4. rest = [r EXCEPT !.begin = b, !.prev = new]
    BY <2>1, <2>2
  <2>5. QED
    BY <2>1, <2>2, <2>3, <2>4 DEF BlockType
<1>7. Split(n, new, size) = g
  BY DEF Split, linked
<1> HIDE DEF taken, rest
<1>8. g \in [Nodes -> BlockType]
  BY <1>3, <1>4, <1>6
<1>9. g[new] = taken /\ g[n] = rest /\ \A q \in Nodes : q # n /\ q # new => g[q] = linked[q]
  BY <1>3
<1> HIDE DEF g
<1>10. rest.free = node[n].free /\ rest.end = node[n].end /\ rest.next = node[n].next
  BY <1>3, <1>6 DEF Same
<1>11. Split(n, new, size)[new] = taken
  BY <1>7, <1>9
<1>12. Split(n, new, size)[n] = rest
  BY <1>7, <1>9
<1>13. ASSUME NEW q \in Nodes, q # n, q # new
       PROVE  /\ Same(Split(n, new, size)[q], node[q])
              /\ Split(n, new, size)[q].prev = node[q].prev
              /\ Split(n, new, size)[q].next = IF q = node[n].prev THEN new ELSE node[q].next
  <2>1. Split(n, new, size)[q] = linked[q]
    BY <1>7, <1>9, <1>13
  <2>2. QED
    BY <1>3, <2>1
<1>14. QED
  BY <1>6, <1>7, <1>8, <1>10, <1>11, <1>12, <1>13 DEF taken

\* What the split does to the list of blocks.
Taken(L, n, new, size) ==
    /\ n \in L /\ new \in Nodes \ L
    /\ size \in Nat /\ size < node[n].end - node[n].begin
    /\ root' = IF n = root THEN new ELSE root
    /\ node' = Split(n, new, size)

LEMMA TakenFields ==
    ASSUME NEW L, NEW F, NEW rank, Sound(L, F, rank), NEW n, NEW new, NEW size,
           Taken(L, n, new, size)
    PROVE  /\ node' \in [Nodes -> BlockType]
           /\ ~node'[new].free /\ node'[new].begin = node[n].begin
           /\ node'[new].end = node[n].begin + size
           /\ node'[new].next = n /\ node'[new].prev = node[n].prev
           /\ node'[n].free = node[n].free /\ node'[n].begin = node[n].begin + size + 1
           /\ node'[n].end = node[n].end
           /\ node'[n].next = node[n].next /\ node'[n].prev = new
           /\ \A q \in Nodes : q # n /\ q # new =>
                /\ Same(node'[q], node[q]) /\ node'[q].prev = node[q].prev
                /\ node'[q].next = IF q = node[n].prev THEN new ELSE node[q].next
<1>1. n \in Nodes /\ new \in Nodes /\ n # new /\ size \in Nat /\ node \in [Nodes -> BlockType]
  BY BlockAt DEF Taken, Sound
<1>2. node[n].prev # n /\ node[n].prev # new
  <2>1. node[n].prev # NULL => node[n].prev \in L
    BY DEF Taken, Sound, Blocks, InPlace
  <2>2. new # NULL /\ new \notin L
    BY <1>1, Numbers DEF Taken
  <2>3. node[n].prev # n
    BY Adjacent DEF Taken
  <2>4. QED
    BY <2>1, <2>2, <2>3
<1>3. n = root => node[n].prev = NULL
  BY DEF Sound, Blocks
<1>4. node' = Split(n, new, size)
  BY DEF Taken
<1> DEFINE g == Split(n, new, size)
<1>5. /\ g \in [Nodes -> BlockType]
      /\ g[new] = [free |-> FALSE, begin |-> node[n].begin, end |-> node[n].begin + size,
                   next |-> n, prev |-> IF n = root THEN NULL ELSE node[n].prev]
      /\ g[n].free = node[n].free /\ g[n].begin = node[n].begin + size + 1
      /\ g[n].end = node[n].end /\ g[n].next = node[n].next /\ g[n].prev = new
      /\ \A q \in Nodes : q # n /\ q # new =>
           /\ Same(g[q], node[q]) /\ g[q].prev = node[q].prev
           /\ g[q].next = IF q = node[n].prev THEN new ELSE node[q].next
  BY <1>1, <1>2, SplitFields
<1>6. node' = g
  BY <1>4
<1> HIDE DEF g
<1>7. QED
  BY <1>3, <1>5, <1>6

LEMMA TakenBlocks ==
    ASSUME NEW L, NEW F, NEW rank, Sound(L, F, rank), NEW n, NEW new, NEW size,
           Taken(L, n, new, size)
    PROVE  Blocks(L \cup {new})'
<1> DEFINE M == L \cup {new}
<1>1. n \in L /\ new \notin L /\ new \in Nodes /\ n # new /\ n # NULL /\ new # NULL
  BY BlockAt, Numbers DEF Taken
<1>2. /\ node'[new].begin = node[n].begin /\ node'[new].end = node[n].begin + size
      /\ node'[new].next = n /\ node'[new].prev = node[n].prev
  BY TakenFields
<1>3. /\ node'[n].begin = node[n].begin + size + 1 /\ node'[n].end = node[n].end
      /\ node'[n].next = node[n].next /\ node'[n].prev = new
  BY TakenFields
<1>4. ASSUME NEW q \in L, q # n
      PROVE  /\ node'[q].begin = node[q].begin /\ node'[q].end = node[q].end
             /\ node'[q].prev = node[q].prev
             /\ node'[q].next = IF q = node[n].prev THEN new ELSE node[q].next
  <2>1. q \in Nodes /\ q # new
    BY <1>1, BlockAt
  <2>2. Same(node'[q], node[q])
    BY <1>4, <2>1, TakenFields
  <2>3. QED
    BY <1>4, <2>1, <2>2, TakenFields DEF Same
<1>5. /\ node[n].begin \in Int /\ node[n].end \in Int /\ Base \in Int
      /\ size \in Nat /\ size < node[n].end - node[n].begin
  BY <1>1, BlockAt, Numbers DEF Taken
<1>6. InPlace(n, L) /\ root \in L /\ node[root].begin = Base /\ node[root].prev = NULL
  BY <1>1 DEF Sound, Blocks
<1>7. root' = IF n = root THEN new ELSE root
  BY DEF Taken
<1>8. root' \in M /\ node'[root'].begin = Base /\ node'[root'].prev = NULL
  <2>1. CASE n = root
    BY <1>2, <1>6, <1>7, <2>1
  <2>2. CASE n # root
    BY <1>4, <1>6, <1>7, <2>2
  <2>3. QED
    BY <2>1, <2>2
<1>9. InPlace(new, M)'
  <2>1. Base <= node'[new].begin /\ node'[new].begin <= node'[new].end
    BY <1>2, <1>5, <1>6 DEF InPlace
  <2>2. /\ node'[new].next # NULL /\ n \in M
        /\ node'[n].begin = node'[new].end + 1 /\ node'[n].prev = new
    BY <1>1, <1>2, <1>3
  <2>3. node'[new].prev = NULL => new = root'
    BY <1>2, <1>6, <1>7 DEF InPlace
  <2>4. ASSUME node'[new].prev # NULL
        PROVE  node'[new].prev \in M /\ node'[node'[new].prev].next = new
    <3>1. node[n].prev \in L /\ node[n].prev # n
      BY <1>1, <1>2, <1>6, <2>4, Adjacent DEF InPlace
    <3>2. QED
      BY <1>2, <1>4, <3>1
  <2>5. QED
    BY <1>2, <2>1, <2>2, <2>3, <2>4 DEF InPlace
<1>10. InPlace(n, M)'
  <2>1. Base <= node'[n].begin /\ node'[n].begin <= node'[n].end
    BY <1>3, <1>5, <1>6 DEF InPlace
  <2>2. node'[n].next = NULL => node'[n].end = Limit
    BY <1>3, <1>6 DEF InPlace
  <2>3. ASSUME node'[n].next # NULL
        PROVE  /\ node'[n].next \in M
               /\ node'[node'[n].next].begin = node'[n].end + 1
               /\ node'[node'[n].next].prev = n
    <3>1. /\ node[n].next \in L /\ node[node[n].next].begin = node[n].end + 1
          /\ node[node[n].next].prev = n
      BY <1>3, <1>6, <2>3 DEF InPlace
    <3>2. node[n].next # n
      BY <1>1, Adjacent
    <3>3. QED
      BY <1>3, <1>4, <3>1, <3>2
  <2>4. node'[n].prev # NULL /\ node'[n].prev \in M /\ node'[node'[n].prev].next = n
    BY <1>1, <1>2, <1>3
  <2>5. QED
    BY <2>1, <2>2, <2>3, <2>4 DEF InPlace
<1>11. ASSUME NEW p \in L, p # n PROVE InPlace(p, M)'
  <2>1. InPlace(p, L) /\ p # NULL /\ p # new
    BY <1>1, BlockAt DEF Sound, Blocks
  <2>2. /\ node'[p].begin = node[p].begin /\ node'[p].end = node[p].end
        /\ node'[p].prev = node[p].prev
        /\ node'[p].next = IF p = node[n].prev THEN new ELSE node[p].next
    BY <1>4, <1>11
  <2>3. node[p].next = n <=> p = node[n].prev
    BY <1>1, Adjacent
  <2>4. Base <= node'[p].begin /\ node'[p].begin <= node'[p].end
    BY <2>1, <2>2 DEF InPlace
  <2>5. node'[p].next = NULL => node'[p].end = Limit
    BY <1>1, <2>1, <2>2 DEF InPlace
  <2>6. ASSUME node'[p].next # NULL
        PROVE  /\ node'[p].next \in M
               /\ node'[node'[p].next].begin = node'[p].end + 1
               /\ node'[node'[p].next].prev = p
    <3>1. CASE p = node[n].prev
      <4>1. node[n].begin = node[p].end + 1
        BY <1>1, <2>3, <3>1, Adjacent
      <4>2. QED
        BY <1>2, <2>2, <3>1, <4>1
    <3>2. CASE p # node[n].prev
      <4>1. /\ node[p].next \in L /\ node[node[p].next].begin = node[p].end + 1
            /\ node[node[p].next].prev = p /\ node[p].next # n
        BY <2>1, <2>2, <2>3, <2>6, <3>2 DEF InPlace
      <4>2. QED
        BY <1>4, <2>2, <3>2, <4>1
    <3>3. QED
      BY <3>1, <3>2
  <2>7. node'[p].prev = NULL => p = root'
    BY <1>7, <1>11, <2>1, <2>2 DEF InPlace
  <2>8. ASSUME node'[p].prev # NULL
        PROVE  node'[p].prev \in M /\ node'[node'[p].prev].next = p
    <3>1. node[p].prev \in L /\ node[node[p].prev].next = p
      BY <2>1, <2>2, <2>8 DEF InPlace
    <3>2. CASE node[p].prev = n
      BY <1>3, <2>2, <3>1, <3>2
    <3>3. CASE node[p].prev # n
      <4>1. node[p].prev # node[n].prev
        BY <1>1, <1>11, <3>1, Adjacent
      <4>2. QED
        BY <1>4, <2>2, <3>1, <3>3, <4>1
    <3>4. QED
      BY <3>2, <3>3
  <2>9. QED
    BY <2>4, <2>5, <2>6, <2>7, <2>8 DEF InPlace
<1>12. ASSUME NEW q \in L, q # n PROVE Apart(n, q)' /\ Apart(new, q)'
  <2>1. Apart(n, q)
    BY <1>1, <1>12 DEF Sound, Blocks
  <2>2. node[q].begin \in Int /\ node[q].end \in Int
    BY BlockAt
  <2>3. node'[q].begin = node[q].begin /\ node'[q].end = node[q].end
    BY <1>4, <1>12
  <2>4. Apart(n, q)'
    BY <1>3, <1>5, <2>1, <2>2, <2>3 DEF Apart
  <2>5. Apart(new, q)'
    BY <1>2, <1>5, <2>1, <2>2, <2>3 DEF Apart
  <2>6. QED
    BY <2>4, <2>5
<1>13. Apart(n, new)'
  BY <1>2, <1>3, <1>5 DEF Apart
<1>14. ASSUME NEW p \in L, NEW q \in L, p # q, p # n, q # n PROVE Apart(p, q)'
  <2>1. Apart(p, q)
    BY <1>14 DEF Sound, Blocks
  <2>2. /\ node'[q].begin = node[q].begin /\ node'[q].end = node[q].end
        /\ node'[p].begin = node[p].begin /\ node'[p].end = node[p].end
    BY <1>4, <1>14
  <2>3. QED
    BY <2>1, <2>2 DEF Apart
<1>15. \A p, q : Apart(p, q)' <=> Apart(q, p)'
  BY DEF Apart
<1>16. \A p, q \in M : p # q => Apart(p, q)'
  BY <1>12, <1>13, <1>14, <1>15
<1>17. \A p \in M : InPlace(p, M)'
  BY <1>9, <1>10, <1>11
<1>18. QED
  BY <1>8, <1>16, <1>17 DEF Blocks

\* A freelist has the spare nodes that rank below its head.
LEMMA TakenSpare ==
    ASSUME NEW L, NEW F, NEW rank \in [Nodes -> Nat], Sound(L, F, rank),
           NEW n, NEW size, Taken(L, n, FreeNode, size),
           IF freelist # NULL THEN freelist' = node[freelist].next /\ used' = used
           ELSE freelist' = freelist /\ used' = used + 1
    PROVE  \E G \in SUBSET Nodes : /\ Spare(G, rank)'
                                   /\ L \cup {FreeNode} \cup G \subseteq 1 .. used'
                                   /\ (L \cup {FreeNode}) \cap G = {}
                                   /\ used' \in Nodes
<1>1. n \in L /\ FreeNode \in Nodes /\ FreeNode \notin L
  BY DEF Taken
<1>2. ASSUME NEW q \in F, q # FreeNode PROVE node'[q].next = node[q].next
  <2>1. q \in Nodes /\ q \notin L
    BY InNodes DEF Sound
  <2>2. q # n
    BY <1>1, <2>1
  <2>3. q # node[n].prev
    <3>1. node[n].prev \in L \cup {NULL}
      BY <1>1 DEF Sound, Blocks, InPlace
    <3>2. q # NULL
      BY <2>1, Numbers
    <3>3. QED
      BY <2>1, <3>1, <3>2
  <2>4. QED
    BY <1>2, <2>1, <2>2, <2>3, TakenFields
<1>3. /\ freelist \in F \cup {NULL}
      /\ \A p \in F : node[p].next # NULL => node[p].next \in F /\ rank[node[p].next] < rank[p]
      /\ L \cup F \subseteq 1 .. used /\ L \cap F = {} /\ F \in SUBSET Nodes
      /\ used \in Nodes
  BY SpareNodes
<1>4. CASE freelist # NULL
  <2>0. PICK G : G = {q \in F : rank[q] < rank[freelist]}
    OBVIOUS
  <2>1. FreeNode = freelist /\ freelist \in F
    BY <1>3, <1>4 DEF FreeNode
  <2>2. G \in SUBSET Nodes /\ freelist \notin G
    BY <1>3, <2>0, <2>1
  <2>3. freelist' \in G \cup {NULL}
    BY <1>3, <1>4, <2>0, <2>1
  <2>4. ASSUME NEW p \in G, node'[p].next # NULL
        PROVE  node'[p].next \in G /\ rank[node'[p].next] < rank[p]
    <3>1. node'[p].next = node[p].next
      BY <1>2, <2>0, <2>1, <2>2, <2>4
    <3>2. node[p].next \in F /\ rank[node[p].next] < rank[p] /\ rank[p] < rank[freelist]
      BY <1>3, <2>0, <2>4, <3>1
    <3>3. rank[node[p].next] \in Nat /\ rank[p] \in Nat /\ rank[freelist] \in Nat
      BY <1>3, <2>0, <2>1, <2>4, <3>2
    <3>4. rank[node[p].next] < rank[freelist]
      BY <3>2, <3>3
    <3>5. QED
      BY <2>0, <3>1, <3>2, <3>4
  <2>5. Spare(G, rank)'
    BY <2>3, <2>4 DEF Spare
  <2>6. L \cup {FreeNode} \cup G \subseteq 1 .. used' /\ (L \cup {FreeNode}) \cap G = {}
    BY <1>3, <1>4, <2>0, <2>1, <2>2
  <2>7. QED
    BY <1>3, <1>4, <2>2, <2>5, <2>6
<1>5. CASE freelist = NULL
  <2>1. FreeNode = used + 1 /\ used' = used + 1 /\ freelist' = NULL
    BY <1>5 DEF FreeNode
  <2>2. used \in Nat
    BY <1>3 DEF Nodes
  <2>3. FreeNode \notin F
    BY <1>3, <2>1, <2>2
  <2>4. Spare(F, rank)'
    <3>1. \A p \in F : node'[p].next = node[p].next
      BY <1>2, <2>3
    <3>2. QED
      BY <1>3, <2>1, <3>1 DEF Spare
  <2>5. L \cup {FreeNode} \cup F \subseteq 1 .. used'
    BY <1>3, <2>1, <2>2
  <2>6. (L \cup {FreeNode}) \cap F = {}
    BY <1>3, <2>3
  <2>7. used' \in Nodes
    BY <1>1, <2>1
  <2>8. QED
    BY <1>3, <2>4, <2>5, <2>6, <2>7
<1>6. QED
  BY <1>4, <1>5

LEMMA AllocKeeps ==
    ASSUME NEW L, NEW F, NEW rank \in [Nodes -> Nat], Sound(L, F, rank),
           NEW size \in Sizes, Alloc(size), odd = 0, odd' = 0
    PROVE  \E M, G \in SUBSET Nodes : Sound(M, G, rank)'
<1>1. PICK n : n = First({p \in Nodes : Sufficient(p, size)})
  OBVIOUS
<1>2. /\ merging = NULL /\ n # NULL /\ FreeNode \in Nodes
      /\ node' = Split(n, FreeNode, size)
      /\ root' = IF n = root THEN FreeNode ELSE root
      /\ merging' = merging
  BY <1>1 DEF Alloc, Callable
<1>3. IF freelist # NULL THEN freelist' = node[freelist].next /\ used' = used
      ELSE freelist' = freelist /\ used' = used + 1
  BY DEF Alloc
<1>4. owned' = [a \in DOMAIN owned \cup {node[n].begin} |->
                  IF a = node[n].begin THEN size ELSE owned[a]]
  BY <1>1 DEF Alloc
<1>5. n \in L /\ node[n].free
  <2>1. n \in {p \in Nodes : Sufficient(p, size)} /\ n \in Listed(root)
    BY <1>1, <1>2, FirstFound
  <2>2. QED
    BY <2>1, AllListed DEF Sufficient
<1>6. ~(node[n].end - node[n].begin <= size)
  <2>1. odd' = IF node[n].end - node[n].begin <= size THEN odd + 1 ELSE NextOdd
    BY <1>1 DEF Alloc
  <2>2. QED
    BY <2>1
<1>7. FreeNode \notin L
  <2>1. freelist # NULL => FreeNode \in F /\ L \cap F = {}
    BY DEF FreeNode, Sound, Spare
  <2>2. freelist = NULL => FreeNode = used + 1 /\ used \in Nat /\ L \subseteq 1 .. used
    BY DEF FreeNode, Sound, Nodes
  <2>3. QED
    BY <2>1, <2>2
<1>8. Taken(L, n, FreeNode, size)
  <2>1. size \in Nat /\ node[n].begin \in Int /\ node[n].end \in Int
    BY <1>5, BlockAt, Numbers
  <2>2. size < node[n].end - node[n].begin
    BY <1>6, <2>1
  <2>3. QED
    BY <1>2, <1>5, <1>7, <2>1, <2>2 DEF Taken
<1>9. PICK new : new = FreeNode
  OBVIOUS
<1> DEFINE M == L \cup {new}
<1>10. Taken(L, n, new, size) /\ new \in Nodes /\ new \notin L
  BY <1>2, <1>7, <1>8, <1>9
<1>11. Blocks(M)'
  BY <1>10, TakenBlocks
<1>12. PICK G \in SUBSET Nodes : /\ Spare(G, rank)' /\ M \cup G \subseteq 1 .. used'
                                 /\ M \cap G = {} /\ used' \in Nodes
  BY <1>3, <1>8, <1>9, TakenSpare
<1>13. /\ node' \in [Nodes -> BlockType]
       /\ ~node'[new].free /\ node'[new].begin = node[n].begin
       /\ node'[new].end = node[n].begin + size /\ node'[new].next = n
       /\ node'[n].free = node[n].free /\ node'[n].next = node[n].next
  BY <1>10, TakenFields
<1>14. ASSUME NEW q \in L, q # n
       PROVE  /\ node'[q].free = node[q].free /\ node'[q].begin = node[q].begin
              /\ node'[q].end = node[q].end
              /\ node'[q].next = IF q = node[n].prev THEN new ELSE node[q].next
  <2>1. q \in Nodes /\ q # new
    BY <1>10, BlockAt
  <2>2. QED
    BY <1>10, <1>14, <2>1, TakenFields DEF Same
<1>15. Owned(M)'
  <2>1. ASSUME NEW p \in M, ~node'[p].free
        PROVE  /\ node'[p].begin \in DOMAIN owned'
               /\ node'[p].end = node'[p].begin + owned'[node'[p].begin]
    <3>1. CASE p = new
      BY <1>4, <1>13, <3>1
    <3>2. CASE p # new
      <4>1. p \in L /\ p # n
        BY <1>5, <1>13, <2>1, <3>2
      <4>2. ~node[p].free /\ node'[p].begin = node[p].begin /\ node'[p].end = node[p].end
        BY <1>14, <2>1, <4>1
      <4>3. node[p].begin \in DOMAIN owned /\ node[p].end = node[p].begin + owned[node[p].begin]
        BY <4>1, <4>2 DEF Sound, Owned
      <4>4. node[p].begin # node[n].begin
        BY <1>5, <4>1, OneBegin
      <4>5. QED
        BY <1>4, <4>2, <4>3, <4>4
    <3>3. QED
      BY <3>1, <3>2
  <2>2. ASSUME NEW a \in DOMAIN owned'
        PROVE  \E p \in M : node'[p].begin = a /\ ~node'[p].free
    <3>1. CASE a = node[n].begin
      BY <1>13, <3>1
    <3>2. CASE a # node[n].begin
      <4>1. a \in DOMAIN owned
        BY <1>4, <3>2
      <4>2. PICK p \in L : node[p].begin = a /\ ~node[p].free
        BY <4>1 DEF Sound, Owned
      <4>3. p # n
        BY <1>5, <4>2
      <4>4. QED
        BY <1>14, <4>2, <4>3
    <3>3. QED
      BY <3>1, <3>2
  <2>3. QED
    BY <2>1, <2>2 DEF Owned
<1>16. Merged(M)'
  <2>1. ASSUME NEW p \in L, node[p].free, node[p].next # NULL, node[node[p].next].free
        PROVE  FALSE
    <3>1. merging = p \/ merging = node[p].next
      BY <2>1 DEF Sound, Merged
    <3>2. QED
      BY <1>2, <2>1, <3>1, BlockAt
  <2>2. ASSUME NEW p \in M, node'[p].free, node'[p].next # NULL, node'[node'[p].next].free
        PROVE  FALSE
    <3>1. p # new
      BY <1>13, <2>2
    <3>2. p \in L
      BY <3>1
    <3>3. node'[p].next # new
      BY <1>13, <2>2
    <3>4. node'[p].next = node[p].next /\ node'[p].free = node[p].free
      BY <1>13, <1>14, <3>2, <3>3
    <3>5. node[p].next \in L
      BY <2>2, <3>2, <3>4 DEF Sound, Blocks, InPlace
    <3>6. node'[node[p].next].free = node[node[p].next].free
      BY <1>13, <1>14, <3>5
    <3>7. QED
      BY <2>1, <2>2, <3>2, <3>4, <3>6
  <2>3. merging' = NULL
    BY <1>2
  <2>4. QED
    BY <2>2, <2>3 DEF Merged
<1>17. M \in SUBSET Nodes
  BY <1>10, InNodes
<1>18. Sound(M, G, rank)'
  BY <1>11, <1>12, <1>13, <1>15, <1>16 DEF Sound
<1>19. QED
  BY <1>17, <1>18

-----------------------------------------------------------------------------
\* merge_free_nodes_rec puts a block on the freelist: two stores, and one before
\* them at a neighbour.
LEMMA RetireFields ==
    ASSUME NEW m \in [Nodes -> BlockType], NEW p \in Nodes, freelist \in Pointers,
           freelist # p
    PROVE  /\ Retire(m, p) \in [Nodes -> BlockType]
           /\ \A q \in Nodes :
                /\ Same(Retire(m, p)[q], m[q])
                /\ Retire(m, p)[q].next = IF q = p THEN freelist ELSE m[q].next
                /\ Retire(m, p)[q].prev = IF q = freelist THEN p ELSE m[q].prev
<1> DEFINE g == Store(m, p, "next", freelist)
<1>1. p \in Pointers
  BY DEF Pointers
<1>2. /\ g \in [Nodes -> BlockType]
      /\ \A q \in Nodes : /\ Same(g[q], m[q]) /\ g[q].prev = m[q].prev
                          /\ g[q].next = IF q = p THEN freelist ELSE m[q].next
  BY <1>1, StoreNext
<1>3. Retire(m, p) = Store(g, freelist, "prev", p)
  BY DEF Retire
<1> HIDE DEF g
<1> DEFINE h == Store(g, freelist, "prev", p)
<1>4. /\ h \in [Nodes -> BlockType]
      /\ \A q \in Nodes : /\ Same(h[q], g[q]) /\ h[q].next = g[q].next
                          /\ h[q].prev = IF q = freelist THEN p ELSE g[q].prev
  BY <1>1, <1>2, StorePrev
<1> HIDE DEF h
<1>5. Retire(m, p) = h
  BY <1>3 DEF h
<1>6. ASSUME NEW q \in Nodes
      PROVE  /\ Same(h[q], m[q])
             /\ h[q].next = IF q = p THEN freelist ELSE m[q].next
             /\ h[q].prev = IF q = freelist THEN p ELSE m[q].prev
  <2>1. /\ Same(h[q], g[q]) /\ h[q].next = g[q].next
        /\ h[q].prev = IF q = freelist THEN p ELSE g[q].prev
    BY <1>4
  <2>2. /\ Same(g[q], m[q]) /\ g[q].prev = m[q].prev
        /\ g[q].next = IF q = p THEN freelist ELSE m[q].next
    BY <1>2
  <2>3. QED
    BY <2>1, <2>2 DEF Same
<1>7. QED
  BY <1>4, <1>5, <1>6

\* n takes over the block before it.
WideBefore(n, before, prev) ==
    [node EXCEPT ![n] = [@ EXCEPT !.begin = node[before].begin, !.prev = prev]]

LEMMA MergedBeforeFields ==
    ASSUME node \in [Nodes -> BlockType], NEW n \in Nodes, NEW before \in Nodes,
           NEW prev \in Pointers, freelist \in Pointers, freelist # before, freelist # n,
           prev # before, before # n,
           node' = Retire(Store(WideBefore(n, before, prev), prev, "next", n), before)
    PROVE  /\ node' \in [Nodes -> BlockType]
           /\ \A q \in Nodes :
                /\ node'[q].free = node[q].free /\ node'[q].end = node[q].end
                /\ node'[q].begin = IF q = n THEN node[before].begin ELSE node[q].begin
                /\ node'[q].next = IF q = before THEN freelist
                                   ELSE IF q = prev THEN n ELSE node[q].next
                /\ node'[q].prev = IF q = freelist THEN before
                                   ELSE IF q = n THEN prev ELSE node[q].prev
<1> DEFINE wide == WideBefore(n, before, prev)
           rec == [node[n] EXCEPT !.begin = node[before].begin, !.prev = prev]
<1>1. n \in Pointers
  BY DEF Pointers
<1>2. /\ rec \in BlockType /\ rec.free = node[n].free /\ rec.end = node[n].end
      /\ rec.next = node[n].next /\ rec.begin = node[before].begin /\ rec.prev = prev
  <2>1. PICK r \in BlockType : r = node[n]
    OBVIOUS
  <2>2. PICK b \in Int : b = node[before].begin
    BY DEF BlockType
  <2>3. [r EXCEPT !.begin = b, !.prev = prev] \in BlockType
    BY DEF BlockType
  <2>4. rec = [r EXCEPT !.begin = b, !.prev = prev]
    BY <2>1, <2>2
  <2>5. QED
    BY <2>1, <2>2, <2>3, <2>4 DEF BlockType
<1>3. wide = [node EXCEPT ![n] = rec]
  BY DEF WideBefore
<1> HIDE DEF rec, wide
<1>4. /\ wide \in [Nodes -> BlockType] /\ wide[n] = rec
      /\ \A q \in Nodes : q # n => wide[q] = node[q]
  BY <1>2, <1>3
<1> DEFINE g == Store(wide, prev, "next", n)
<1>5. /\ g \in [Nodes -> BlockType]
      /\ \A q \in Nodes : /\ Same(g[q], wide[q]) /\ g[q].prev = wide[q].prev
                          /\ g[q].next = IF q = prev THEN n ELSE wide[q].next
  <2>1. wide \in [Nodes -> BlockType] /\ prev \in Pointers /\ n \in Pointers
    BY <1>1, <1>4
  <2>2. QED
    BY <2>1, StoreNext
<1>6. node' = Retire(g, before)
  BY DEF wide
<1> HIDE DEF g
<1> DEFINE h == Retire(g, before)
<1>7. /\ h \in [Nodes -> BlockType]
      /\ \A q \in Nodes :
           /\ Same(h[q], g[q])
           /\ h[q].next = IF q = before THEN freelist ELSE g[q].next
           /\ h[q].prev = IF q = freelist THEN before ELSE g[q].prev
  BY <1>5, RetireFields
<1>8. node' = h
  BY <1>6
<1> HIDE DEF h
<1>9. ASSUME NEW q \in Nodes
      PROVE  /\ node'[q].free = node[q].free /\ node'[q].end = node[q].end
             /\ node'[q].begin = IF q = n THEN node[before].begin ELSE node[q].begin
             /\ node'[q].next = IF q = before THEN freelist
                                ELSE IF q = prev THEN n ELSE node[q].next
             /\ node'[q].prev = IF q = freelist THEN before
                                ELSE IF q = n THEN prev ELSE node[q].prev
  <2>1. /\ node'[q].free = g[q].free /\ node'[q].end = g[q].end /\ node'[q].begin = g[q].begin
        /\ node'[q].next = IF q = before THEN freelist ELSE g[q].next
        /\ node'[q].prev = IF q = freelist THEN before ELSE g[q].prev
    BY <1>7, <1>8 DEF Same
  <2>2. /\ g[q].free = wide[q].free /\ g[q].end = wide[q].end /\ g[q].begin = wide[q].begin
        /\ g[q].prev = wide[q].prev
        /\ g[q].next = IF q = prev THEN n ELSE wide[q].next
    BY <1>5 DEF Same
  <2>3. CASE q = n
    BY <1>2, <1>4, <2>1, <2>2, <2>3
  <2>4. CASE q # n
    BY <1>4, <2>1, <2>2, <2>4
  <2>5. QED
    BY <2>3, <2>4
<1>10. QED
  BY <1>7, <1>8, <1>9

\* n takes over the block after it.
WideAfter(n, after, next) ==
    [node EXCEPT ![n] = [@ EXCEPT !.end = MergedEnd(n, after), !.next = next]]

LEMMA MergedAfterFields ==
    ASSUME node \in [Nodes -> BlockType], NEW n \in Nodes, NEW after \in Nodes,
           NEW next \in Pointers, freelist \in Pointers, freelist # after,
           next # after, after # n,
           node' = Retire(Store(WideAfter(n, after, next), next, "prev", n), after)
    PROVE  /\ node' \in [Nodes -> BlockType]
           /\ \A q \in Nodes :
                /\ node'[q].free = node[q].free /\ node'[q].begin = node[q].begin
                /\ node'[q].end = IF q = n THEN node[after].end ELSE node[q].end
                /\ node'[q].next = IF q = after THEN freelist
                                   ELSE IF q = n THEN next ELSE node[q].next
                /\ node'[q].prev = IF q = freelist THEN after
                                   ELSE IF q = next THEN n ELSE node[q].prev
<1> DEFINE wide == WideAfter(n, after, next)
           rec == [node[n] EXCEPT !.end = node[after].end, !.next = next]
<1>1. n \in Pointers
  BY DEF Pointers
<1>2. /\ rec \in BlockType /\ rec.free = node[n].free /\ rec.begin = node[n].begin
      /\ rec.prev = node[n].prev /\ rec.end = node[after].end /\ rec.next = next
  <2>1. PICK r \in BlockType : r = node[n]
    OBVIOUS
  <2>2. PICK b \in Int : b = node[after].end
    BY DEF BlockType
  <2>3. [r EXCEPT !.end = b, !.next = next] \in BlockType
    BY DEF BlockType
  <2>4. rec = [r EXCEPT !.end = b, !.next = next]
    BY <2>1, <2>2
  <2>5. QED
    BY <2>1, <2>2, <2>3, <2>4 DEF BlockType
<1>3. wide = [node EXCEPT ![n] = rec]
  BY DEF WideAfter, MergedEnd
<1> HIDE DEF rec, wide
<1>4. /\ wide \in [Nodes -> BlockType] /\ wide[n] = rec
      /\ \A q \in Nodes : q # n => wide[q] = node[q]
  BY <1>2, <1>3
<1> DEFINE g == Store(wide, next, "prev", n)
<1>5. /\ g \in [Nodes -> BlockType]
      /\ \A q \in Nodes : /\ Same(g[q], wide[q]) /\ g[q].next = wide[q].next
                          /\ g[q].prev = IF q = next THEN n ELSE wide[q].prev
  BY <1>1, <1>4, StorePrev
<1>6. node' = Retire(g, after)
  BY DEF wide
<1> HIDE DEF g
<1> DEFINE h == Retire(g, after)
<1>7. /\ h \in [Nodes -> BlockType]
      /\ \A q \in Nodes :
           /\ Same(h[q], g[q])
           /\ h[q].next = IF q = after THEN freelist ELSE g[q].next
           /\ h[q].prev = IF q = freelist THEN after ELSE g[q].prev
  BY <1>5, RetireFields
<1>8. node' = h
  BY <1>6
<1> HIDE DEF h
<1>9. ASSUME NEW q \in Nodes
      PROVE  /\ node'[q].free = node[q].free /\ node'[q].begin = node[q].begin
             /\ node'[q].end = IF q = n THEN node[after].end ELSE node[q].end
             /\ node'[q].next = IF q = after THEN freelist
                                ELSE IF q = n THEN next ELSE node[q].next
             /\ node'[q].prev = IF q = freelist THEN after
                                ELSE IF q = next THEN n ELSE node[q].prev
  <2>1. /\ node'[q].free = g[q].free /\ node'[q].end = g[q].end /\ node'[q].begin = g[q].begin
        /\ node'[q].next = IF q = after THEN freelist ELSE g[q].next
        /\ node'[q].prev = IF q = freelist THEN after ELSE g[q].prev
    BY <1>7, <1>8 DEF Same
  <2>2. /\ g[q].free = wide[q].free /\ g[q].end = wide[q].end /\ g[q].begin = wide[q].begin
        /\ g[q].next = wide[q].next
        /\ g[q].prev = IF q = next THEN n ELSE wide[q].prev
    BY <1>5 DEF Same
  <2>3. CASE q = n
    BY <1>2, <1>4, <2>1, <2>2, <2>3
  <2>4. CASE q # n
    BY <1>4, <2>1, <2>2, <2>4
  <2>5. QED
    BY <2>3, <2>4
<1>10. QED
  BY <1>7, <1>8, <1>9

-----------------------------------------------------------------------------
\* A block p of the list goes to the freelist.
LEMMA Retired ==
    ASSUME NEW L, NEW F, NEW rank \in [Nodes -> Nat], Sound(L, F, rank), NEW p \in L,
           freelist' = p, used' = used, node'[p].next = freelist,
           \A q \in F : node'[q].next = node[q].next
    PROVE  \E G \in SUBSET Nodes, r \in [Nodes -> Nat] :
              /\ Spare(G, r)' /\ (L \ {p}) \cup G \subseteq 1 .. used' /\ (L \ {p}) \cap G = {}
<1>1. PICK h : h = IF freelist = NULL THEN 0 ELSE rank[freelist] + 1
  OBVIOUS
<1>2. /\ freelist \in F \cup {NULL} /\ F \in SUBSET Nodes /\ L \in SUBSET Nodes
      /\ L \cup F \subseteq 1 .. used /\ L \cap F = {}
      /\ \A q \in F : node[q].next # NULL => node[q].next \in F /\ rank[node[q].next] < rank[q]
  BY SpareNodes
<1>3. h \in Nat /\ (freelist # NULL => rank[freelist] < h)
  <2>1. freelist # NULL => rank[freelist] \in Nat
    BY <1>2
  <2>2. QED
    BY <1>1, <2>1
<1> DEFINE G == F \cup {p}
           r == [rank EXCEPT ![p] = h]
<1>4. p \in Nodes /\ p \notin F
  BY <1>2
<1>5. r \in [Nodes -> Nat] /\ r[p] = h /\ \A q \in F : r[q] = rank[q]
  BY <1>2, <1>3, <1>4
<1> HIDE DEF r
<1>6. ASSUME NEW q \in G, node'[q].next # NULL
      PROVE  node'[q].next \in G /\ r[node'[q].next] < r[q]
  <2>1. CASE q = p
    BY <1>2, <1>3, <1>5, <1>6, <2>1
  <2>2. CASE q # p
    BY <1>2, <1>5, <1>6, <2>2
  <2>3. QED
    BY <2>1, <2>2
<1>7. Spare(G, r)'
  BY <1>6 DEF Spare
<1>8. (L \ {p}) \cup G \subseteq 1 .. used' /\ (L \ {p}) \cap G = {}
  BY <1>2
<1>9. G \in SUBSET Nodes
  BY <1>2, <1>4
<1>10. QED
  BY <1>5, <1>7, <1>8, <1>9

\* The blocks that a merge leaves, their neighbours and their owners: n has the
\* addresses from the first block's begin to the second's end.
LEMMA MergePreviousKeeps ==
    ASSUME NEW L, NEW F, NEW rank \in [Nodes -> Nat], Sound(L, F, rank),
           MergePrevious, odd = 0, odd' = 0
    PROVE  \E M, G \in SUBSET Nodes, r \in [Nodes -> Nat] : Sound(M, G, r)'
<1>1. PICK n : n = merging
  OBVIOUS
<1>2. PICK before : before = node[n].prev
  OBVIOUS
<1>3. /\ n # NULL /\ before # NULL /\ node[before].free
      /\ freelist' = before /\ used' = used /\ merging' = n /\ owned' = owned
  BY <1>1, <1>2 DEF MergePrevious, FreeBefore
<1>4. before # root
  <2>1. odd' = IF before = root THEN odd + 1 ELSE odd
    BY <1>1, <1>2 DEF MergePrevious
  <2>2. QED
    BY <2>1
<1>5. PICK prev : prev = node[before].prev
  OBVIOUS
<1>6. root' = root /\ node' = Retire(Store(WideBefore(n, before, prev), prev, "next", n), before)
  BY <1>1, <1>2, <1>4, <1>5 DEF MergePrevious, WideBefore
<1>7. n \in L /\ node[n].free
  BY <1>1, <1>3 DEF Sound, Merged
<1>8. before \in L /\ node[before].next = n
  BY <1>2, <1>3, <1>7 DEF Sound, Blocks, InPlace
<1>9. prev \in L /\ prev # NULL /\ node[prev].next = before
  BY <1>4, <1>5, <1>8 DEF Sound, Blocks, InPlace
<1>10. /\ before # n /\ node[n].begin = node[before].end + 1
       /\ prev # before /\ node[before].begin = node[prev].end + 1
       /\ node[n].begin <= node[n].end /\ node[before].begin <= node[before].end
       /\ node[prev].begin <= node[prev].end
  BY <1>7, <1>8, <1>9, Adjacent
<1>11. /\ node[n].begin \in Int /\ node[n].end \in Int /\ node[before].begin \in Int
       /\ node[before].end \in Int /\ node[prev].begin \in Int /\ node[prev].end \in Int
       /\ n \in Nodes /\ before \in Nodes /\ prev \in Nodes /\ Base \in Int
  BY <1>7, <1>8, <1>9, BlockAt, Numbers
<1>12. prev # n
  BY <1>10, <1>11
<1>13. /\ freelist \in F \cup {NULL} /\ F \in SUBSET Nodes /\ L \in SUBSET Nodes
       /\ L \cap F = {} /\ NULL \notin L /\ freelist \notin L /\ freelist \in Pointers
       /\ node \in [Nodes -> BlockType]
  <2>1. freelist \in F \cup {NULL} /\ L \cap F = {} /\ node \in [Nodes -> BlockType]
    BY DEF Sound, Spare
  <2>2. F \in SUBSET Nodes /\ L \in SUBSET Nodes /\ NULL \notin L
    BY InNodes, Numbers
  <2>3. QED
    BY <2>1, <2>2 DEF Pointers
<1>14. /\ node' \in [Nodes -> BlockType]
       /\ \A q \in Nodes :
            /\ node'[q].free = node[q].free /\ node'[q].end = node[q].end
            /\ node'[q].begin = IF q = n THEN node[before].begin ELSE node[q].begin
            /\ node'[q].next = IF q = before THEN freelist
                               ELSE IF q = prev THEN n ELSE node[q].next
            /\ node'[q].prev = IF q = freelist THEN before
                               ELSE IF q = n THEN prev ELSE node[q].prev
  <2>1. prev \in Pointers /\ freelist # before /\ freelist # n
    BY <1>7, <1>8, <1>11, <1>13 DEF Pointers
  <2>2. QED
    BY <1>6, <1>10, <1>11, <1>13, <2>1, MergedBeforeFields
<1>15. PICK M : M = L \ {before}
  OBVIOUS
<1>16. ASSUME NEW q \in M
       PROVE  /\ q \in L /\ q # before /\ q # NULL /\ InPlace(q, L)
              /\ node'[q].free = node[q].free /\ node'[q].end = node[q].end
              /\ node'[q].begin = IF q = n THEN node[before].begin ELSE node[q].begin
              /\ node'[q].next = IF q = prev THEN n ELSE node[q].next
              /\ node'[q].prev = IF q = n THEN prev ELSE node[q].prev
              /\ node[q].next = n <=> q = before
              /\ node[q].next = before <=> q = prev
              /\ node[q].next = prev <=> q = node[prev].prev
              /\ node[q].begin \in Int /\ node[q].end \in Int
              /\ node[q].begin <= node[q].end
  <2>1. q \in L /\ q # before /\ q \in Nodes /\ q # freelist /\ q # NULL
    BY <1>13, <1>15
  <2>2. InPlace(q, L)
    BY <2>1 DEF Sound, Blocks
  <2>3. /\ node[q].next = n <=> q = before
        /\ node[q].next = before <=> q = prev
        /\ node[q].next = prev <=> q = node[prev].prev
        /\ node[q].begin <= node[q].end
    BY <1>2, <1>5, <1>7, <1>8, <1>9, <2>1, Adjacent
  <2>4. node[q].begin \in Int /\ node[q].end \in Int
    BY <2>1, BlockAt
  <2>5. QED
    BY <1>14, <2>1, <2>2, <2>3, <2>4
<1>17. n \in M /\ prev \in M /\ root \in M
  BY <1>4, <1>7, <1>9, <1>10, <1>15 DEF Sound, Blocks
<1>18. root' \in M /\ node'[root'].begin = Base /\ node'[root'].prev = NULL
  <2>1. node[root].begin = Base /\ node[root].prev = NULL
    BY DEF Sound, Blocks
  <2>2. root # n
    BY <1>2, <1>3, <2>1
  <2>3. QED
    BY <1>6, <1>16, <1>17, <2>1, <2>2
<1>19. ASSUME NEW p \in M PROVE InPlace(p, M)'
  <2>1. Base <= node'[p].begin /\ node'[p].begin <= node'[p].end
    <3>1. CASE p = n
      <4>1. Base <= node[before].begin
        BY <1>8 DEF Sound, Blocks, InPlace
      <4>2. node[before].begin <= node[n].end
        BY <1>10, <1>11
      <4>3. QED
        BY <1>16, <3>1, <4>1, <4>2
    <3>2. CASE p # n
      BY <1>16, <3>2 DEF InPlace
    <3>3. QED
      BY <3>1, <3>2
  <2>2. node'[p].next = NULL => node'[p].end = Limit
    BY <1>16, <1>17 DEF InPlace
  <2>3. ASSUME node'[p].next # NULL
        PROVE  /\ node'[p].next \in M
               /\ node'[node'[p].next].begin = node'[p].end + 1
               /\ node'[node'[p].next].prev = p
    <3>1. CASE p = prev
      <4>1. node'[p].next = n /\ node'[n].begin = node[before].begin /\ node'[n].prev = prev
        BY <1>16, <1>17, <3>1
      <4>2. QED
        BY <1>10, <1>16, <1>17, <3>1, <4>1
    <3>2. CASE p # prev
      <4>1. /\ node'[p].next = node[p].next /\ node[p].next \in L
            /\ node[node[p].next].begin = node[p].end + 1
            /\ node[node[p].next].prev = p
        BY <1>16, <2>3, <3>2 DEF InPlace
      <4>2. node[p].next # before /\ node[p].next # n
        BY <1>16, <3>2
      <4>3. node[p].next \in M
        BY <1>15, <4>1, <4>2
      <4>4. /\ node'[node[p].next].begin = node[node[p].next].begin
            /\ node'[node[p].next].prev = node[node[p].next].prev
        BY <1>16, <4>2, <4>3
      <4>5. node'[p].end = node[p].end
        BY <1>16
      <4>6. QED
        BY <4>1, <4>3, <4>4, <4>5
    <3>3. QED
      BY <3>1, <3>2
  <2>4. node'[p].prev = NULL => p = root'
    BY <1>6, <1>9, <1>16 DEF InPlace
  <2>5. ASSUME node'[p].prev # NULL
        PROVE  node'[p].prev \in M /\ node'[node'[p].prev].next = p
    <3>1. CASE p = n
      BY <1>16, <1>17, <3>1
    <3>2. CASE p # n
      <4>1. /\ node'[p].prev = node[p].prev /\ node[p].prev \in L
            /\ node[node[p].prev].next = p
        BY <1>16, <2>5, <3>2 DEF InPlace
      <4>2. node[p].prev # before /\ node[p].prev # prev
        BY <1>8, <1>9, <1>16, <3>2, <4>1
      <4>3. node[p].prev \in M
        BY <1>15, <4>1, <4>2
      <4>4. node'[node[p].prev].next = node[node[p].prev].next
        BY <1>16, <4>2, <4>3
      <4>5. QED
        BY <4>1, <4>3, <4>4
    <3>3. QED
      BY <3>1, <3>2
  <2>6. QED
    BY <2>1, <2>2, <2>3, <2>4, <2>5 DEF InPlace
<1>20. ASSUME NEW q \in M, q # n PROVE Apart(n, q)' /\ Apart(q, n)'
  <2>1. Apart(n, q) /\ Apart(before, q)
    BY <1>7, <1>8, <1>16, <1>20 DEF Sound, Blocks
  <2>2. node'[q].begin = node[q].begin /\ node'[q].end = node[q].end
    BY <1>16, <1>20
  <2>3. node'[n].begin = node[before].begin /\ node'[n].end = node[n].end
    BY <1>16, <1>17
  <2>4. node[q].begin \in Int /\ node[q].end \in Int /\ node[q].begin <= node[q].end
    BY <1>16
  <2>5. node[n].end < node[q].begin \/ node[q].end < node[before].begin
    BY <1>10, <1>11, <2>1, <2>4 DEF Apart
  <2>6. QED
    BY <2>2, <2>3, <2>5 DEF Apart
<1>21. ASSUME NEW p \in M, NEW q \in M, p # q PROVE Apart(p, q)'
  <2>1. CASE p # n /\ q # n
    <3>1. Apart(p, q)
      BY <1>16, <1>21 DEF Sound, Blocks
    <3>2. /\ node'[p].begin = node[p].begin /\ node'[p].end = node[p].end
          /\ node'[q].begin = node[q].begin /\ node'[q].end = node[q].end
      BY <1>16, <2>1
    <3>3. QED
      BY <3>1, <3>2 DEF Apart
  <2>2. QED
    BY <1>20, <1>21, <2>1
<1>22. Blocks(M)'
  BY <1>18, <1>19, <1>21 DEF Blocks
<1>23. Owned(M)'
  <2>1. ASSUME NEW p \in M, ~node'[p].free
        PROVE  /\ node'[p].begin \in DOMAIN owned'
               /\ node'[p].end = node'[p].begin + owned'[node'[p].begin]
    <3>1. p \in L /\ ~node[p].free /\ p # n
      BY <1>7, <1>16, <2>1
    <3>2. node'[p].begin = node[p].begin /\ node'[p].end = node[p].end
      BY <1>16, <3>1
    <3>3. /\ node[p].begin \in DOMAIN owned
          /\ node[p].end = node[p].begin + owned[node[p].begin]
      BY <3>1 DEF Sound, Owned
    <3>4. QED
      BY <1>3, <3>2, <3>3
  <2>2. ASSUME NEW a \in DOMAIN owned'
        PROVE  \E p \in M : node'[p].begin = a /\ ~node'[p].free
    <3>1. PICK p \in L : node[p].begin = a /\ ~node[p].free
      BY <1>3, <2>2 DEF Sound, Owned
    <3>2. p \in M /\ p # n
      BY <1>3, <1>7, <1>15, <3>1
    <3>3. QED
      BY <1>16, <3>1, <3>2
  <2>3. QED
    BY <2>1, <2>2 DEF Owned
<1>24. Merged(M)'
  <2>1. ASSUME NEW p \in M, node'[p].free, node'[p].next # NULL, node'[node'[p].next].free
        PROVE  merging' = p \/ merging' = node'[p].next
    <3>1. CASE p = prev
      BY <1>3, <1>16, <3>1
    <3>2. CASE p # prev
      <4>1. node'[p].next = node[p].next /\ node[p].next \in L /\ node[p].next # before
        BY <1>16, <2>1, <3>2 DEF InPlace
      <4>2. node[p].free /\ node[node[p].next].free
        BY <1>15, <1>16, <2>1, <4>1
      <4>3. merging = p \/ merging = node[p].next
        BY <1>16, <2>1, <4>1, <4>2 DEF Sound, Merged
      <4>4. QED
        BY <1>1, <1>3, <4>1, <4>3
    <3>3. QED
      BY <3>1, <3>2
  <2>2. merging' \in M /\ node'[merging'].free
    BY <1>3, <1>7, <1>16, <1>17
  <2>3. QED
    BY <2>1, <2>2 DEF Merged
<1>25. PICK G \in SUBSET Nodes, r \in [Nodes -> Nat] :
         /\ Spare(G, r)' /\ M \cup G \subseteq 1 .. used' /\ M \cap G = {}
  <2>1. node'[before].next = freelist
    BY <1>11, <1>14
  <2>2. \A q \in F : node'[q].next = node[q].next
    BY <1>8, <1>9, <1>13, <1>14
  <2>3. QED
    BY <1>3, <1>8, <1>15, <2>1, <2>2, Retired
<1>26. M \in SUBSET Nodes /\ used' \in Nodes
  BY <1>3, <1>13, <1>15 DEF Sound
<1>27. Sound(M, G, r)'
  BY <1>14, <1>22, <1>23, <1>24, <1>25, <1>26 DEF Sound
<1>28. QED
  BY <1>26, <1>27

LEMMA MergeNextKeeps ==
    ASSUME NEW L, NEW F, NEW rank \in [Nodes -> Nat], Sound(L, F, rank), MergeNext
    PROVE  \E M, G \in SUBSET Nodes, r \in [Nodes -> Nat] : Sound(M, G, r)'
<1>1. PICK n : n = merging
  OBVIOUS
<1>2. PICK after : after = node[n].next
  OBVIOUS
<1>3. PICK next : next = node[after].next
  OBVIOUS
<1>4. /\ n # NULL /\ after # NULL /\ node[after].free
      /\ freelist' = after /\ used' = used /\ merging' = n /\ owned' = owned /\ root' = root
      /\ node' = Retire(Store(WideAfter(n, after, next), next, "prev", n), after)
  BY <1>1, <1>2, <1>3 DEF MergeNext, FreeAfter, WideAfter
<1>5. n \in L /\ node[n].free
  BY <1>1, <1>4 DEF Sound, Merged
<1>6. after \in L /\ node[after].prev = n
  BY <1>2, <1>4, <1>5 DEF Sound, Blocks, InPlace
<1>7. next # NULL => next \in L /\ node[next].prev = after
  BY <1>3, <1>6 DEF Sound, Blocks, InPlace
<1>8. /\ after # n /\ node[after].begin = node[n].end + 1 /\ next # after
      /\ node[n].begin <= node[n].end /\ node[after].begin <= node[after].end
  BY <1>2, <1>3, <1>5, <1>6, Adjacent
<1>9. /\ node[n].begin \in Int /\ node[n].end \in Int /\ node[after].begin \in Int
      /\ node[after].end \in Int /\ n \in Nodes /\ after \in Nodes /\ next \in Pointers
  BY <1>3, <1>5, <1>6, BlockAt
<1>10. next # n
  <2>1. SUFFICES ASSUME next = n PROVE FALSE
    OBVIOUS
  <2>2. node[n].begin = node[after].end + 1
    <3>1. node[after].next = n
      BY <1>3, <2>1
    <3>2. QED
      BY <1>5, <1>6, <3>1, Adjacent
  <2>3. QED
    BY <1>8, <1>9, <2>2
<1>11. /\ freelist \in F \cup {NULL} /\ F \in SUBSET Nodes /\ L \in SUBSET Nodes
       /\ L \cap F = {} /\ NULL \notin L /\ freelist \notin L /\ freelist \in Pointers
       /\ node \in [Nodes -> BlockType]
  <2>1. freelist \in F \cup {NULL} /\ L \cap F = {} /\ node \in [Nodes -> BlockType]
    BY DEF Sound, Spare
  <2>2. F \in SUBSET Nodes /\ L \in SUBSET Nodes /\ NULL \notin L
    BY InNodes, Numbers
  <2>3. QED
    BY <2>1, <2>2 DEF Pointers
<1>12. /\ node' \in [Nodes -> BlockType]
       /\ \A q \in Nodes :
            /\ node'[q].free = node[q].free /\ node'[q].begin = node[q].begin
            /\ node'[q].end = IF q = n THEN node[after].end ELSE node[q].end
            /\ node'[q].next = IF q = after THEN freelist
                               ELSE IF q = n THEN next ELSE node[q].next
            /\ node'[q].prev = IF q = freelist THEN after
                               ELSE IF q = next THEN n ELSE node[q].prev
  <2>1. freelist # after
    BY <1>6, <1>11
  <2>2. QED
    BY <1>4, <1>8, <1>9, <1>11, <2>1, MergedAfterFields
<1>13. PICK M : M = L \ {after}
  OBVIOUS
<1>14. ASSUME NEW q \in M
       PROVE  /\ q \in L /\ q # after /\ q # NULL /\ InPlace(q, L)
              /\ node'[q].free = node[q].free /\ node'[q].begin = node[q].begin
              /\ node'[q].end = IF q = n THEN node[after].end ELSE node[q].end
              /\ node'[q].next = IF q = n THEN next ELSE node[q].next
              /\ node'[q].prev = IF q = next THEN n ELSE node[q].prev
              /\ node[q].next = after <=> q = n
              /\ node[q].prev = after <=> q = next
              /\ node[q].prev = n <=> q = after
              /\ node[q].begin \in Int /\ node[q].end \in Int
              /\ node[q].begin <= node[q].end
  <2>1. q \in L /\ q # after /\ q \in Nodes /\ q # freelist /\ q # NULL
    BY <1>11, <1>13
  <2>2. InPlace(q, L)
    BY <2>1 DEF Sound, Blocks
  <2>3. /\ node[q].next = after <=> q = n
        /\ node[q].prev = after <=> q = next
        /\ node[q].prev = n <=> q = after
        /\ node[q].begin <= node[q].end
    BY <1>2, <1>3, <1>5, <1>6, <2>1, Adjacent
  <2>4. node[q].begin \in Int /\ node[q].end \in Int
    BY <2>1, BlockAt
  <2>5. QED
    BY <1>12, <2>1, <2>2, <2>3, <2>4
<1>15. n \in M /\ (next # NULL => next \in M) /\ root \in M
  <2>1. node[root].prev = NULL /\ root \in L
    BY DEF Sound, Blocks
  <2>2. root # after
    BY <1>4, <1>6, <2>1
  <2>3. QED
    BY <1>5, <1>7, <1>8, <1>13, <2>1, <2>2
<1>16. root' \in M /\ node'[root'].begin = Base /\ node'[root'].prev = NULL
  <2>1. node[root].begin = Base /\ node[root].prev = NULL
    BY DEF Sound, Blocks
  <2>2. root # next
    <3>1. root # NULL
      BY <1>14, <1>15
    <3>2. QED
      BY <1>4, <1>7, <2>1, <3>1
  <2>3. QED
    BY <1>4, <1>14, <1>15, <2>1, <2>2
<1>17. ASSUME NEW p \in M PROVE InPlace(p, M)'
  <2>1. Base <= node'[p].begin /\ node'[p].begin <= node'[p].end
    <3>1. Base <= node[p].begin
      BY <1>14 DEF InPlace
    <3>2. node[n].begin <= node[after].end
      BY <1>8, <1>9
    <3>3. QED
      BY <1>14, <3>1, <3>2
  <2>2. ASSUME node'[p].next = NULL PROVE node'[p].end = Limit
    <3>1. CASE p = n
      <4>1. next = NULL /\ InPlace(after, L)
        BY <1>6, <1>14, <2>2, <3>1 DEF Sound, Blocks
      <4>2. node[after].end = Limit
        BY <1>3, <4>1 DEF InPlace
      <4>3. QED
        BY <1>14, <3>1, <4>2
    <3>2. CASE p # n
      BY <1>14, <2>2, <3>2 DEF InPlace
    <3>3. QED
      BY <3>1, <3>2
  <2>3. ASSUME node'[p].next # NULL
        PROVE  /\ node'[p].next \in M
               /\ node'[node'[p].next].begin = node'[p].end + 1
               /\ node'[node'[p].next].prev = p
    <3>1. CASE p = n
      <4>1. node'[p].next = next /\ next # NULL /\ next \in M /\ next \in L
        BY <1>7, <1>14, <1>15, <2>3, <3>1
      <4>2. node[next].begin = node[after].end + 1
        BY <1>3, <1>6, <4>1, Adjacent
      <4>3. node'[next].begin = node[next].begin /\ node'[next].prev = n
        BY <1>14, <4>1
      <4>4. node'[p].end = node[after].end
        BY <1>14, <3>1
      <4>5. QED
        BY <3>1, <4>1, <4>2, <4>3, <4>4
    <3>2. CASE p # n
      <4>1. /\ node'[p].next = node[p].next /\ node[p].next \in L
            /\ node[node[p].next].begin = node[p].end + 1
            /\ node[node[p].next].prev = p
        BY <1>14, <2>3, <3>2 DEF InPlace
      <4>2. node[p].next # after
        BY <1>14, <3>2
      <4>3. node[p].next \in M
        BY <1>13, <4>1, <4>2
      <4>4. node[p].next # next
        BY <1>14, <4>1, <4>3
      <4>5. /\ node'[node[p].next].begin = node[node[p].next].begin
            /\ node'[node[p].next].prev = node[node[p].next].prev
        BY <1>14, <4>3, <4>4
      <4>6. node'[p].end = node[p].end
        BY <1>14, <3>2
      <4>7. QED
        BY <4>1, <4>3, <4>5, <4>6
    <3>3. QED
      BY <3>1, <3>2
  <2>4. node'[p].prev = NULL => p = root'
    BY <1>4, <1>14 DEF InPlace
  <2>5. ASSUME node'[p].prev # NULL
        PROVE  node'[p].prev \in M /\ node'[node'[p].prev].next = p
    <3>1. CASE p = next
      BY <1>14, <1>15, <3>1
    <3>2. CASE p # next
      <4>1. /\ node'[p].prev = node[p].prev /\ node[p].prev \in L
            /\ node[node[p].prev].next = p
        BY <1>14, <2>5, <3>2 DEF InPlace
      <4>2. node[p].prev # after /\ node[p].prev # n
        BY <1>14, <3>2
      <4>3. node[p].prev \in M
        BY <1>13, <4>1, <4>2
      <4>4. node'[node[p].prev].next = node[node[p].prev].next
        BY <1>14, <4>2, <4>3
      <4>5. QED
        BY <4>1, <4>3, <4>4
    <3>3. QED
      BY <3>1, <3>2
  <2>6. QED
    BY <2>1, <2>2, <2>3, <2>4, <2>5 DEF InPlace
<1>18. ASSUME NEW q \in M, q # n PROVE Apart(n, q)' /\ Apart(q, n)'
  <2>1. Apart(n, q) /\ Apart(after, q)
    BY <1>5, <1>6, <1>14, <1>18 DEF Sound, Blocks
  <2>2. node'[q].begin = node[q].begin /\ node'[q].end = node[q].end
    BY <1>14, <1>18
  <2>3. node'[n].begin = node[n].begin /\ node'[n].end = node[after].end
    BY <1>14, <1>15
  <2>4. node[q].begin \in Int /\ node[q].end \in Int /\ node[q].begin <= node[q].end
    BY <1>14
  <2>5. node[after].end < node[q].begin \/ node[q].end < node[n].begin
    BY <1>8, <1>9, <2>1, <2>4 DEF Apart
  <2>6. QED
    BY <2>2, <2>3, <2>5 DEF Apart
<1>19. ASSUME NEW p \in M, NEW q \in M, p # q PROVE Apart(p, q)'
  <2>1. CASE p # n /\ q # n
    <3>1. Apart(p, q)
      BY <1>14, <1>19 DEF Sound, Blocks
    <3>2. /\ node'[p].begin = node[p].begin /\ node'[p].end = node[p].end
          /\ node'[q].begin = node[q].begin /\ node'[q].end = node[q].end
      BY <1>14, <2>1
    <3>3. QED
      BY <3>1, <3>2 DEF Apart
  <2>2. QED
    BY <1>18, <1>19, <2>1
<1>20. Blocks(M)'
  BY <1>16, <1>17, <1>19 DEF Blocks
<1>21. Owned(M)'
  <2>1. ASSUME NEW p \in M, ~node'[p].free
        PROVE  /\ node'[p].begin \in DOMAIN owned'
               /\ node'[p].end = node'[p].begin + owned'[node'[p].begin]
    <3>1. p \in L /\ ~node[p].free /\ p # n
      BY <1>5, <1>14, <2>1
    <3>2. node'[p].begin = node[p].begin /\ node'[p].end = node[p].end
      BY <1>14, <3>1
    <3>3. /\ node[p].begin \in DOMAIN owned
          /\ node[p].end = node[p].begin + owned[node[p].begin]
      BY <3>1 DEF Sound, Owned
    <3>4. QED
      BY <1>4, <3>2, <3>3
  <2>2. ASSUME NEW a \in DOMAIN owned'
        PROVE  \E p \in M : node'[p].begin = a /\ ~node'[p].free
    <3>1. PICK p \in L : node[p].begin = a /\ ~node[p].free
      BY <1>4, <2>2 DEF Sound, Owned
    <3>2. p \in M
      BY <1>4, <1>13, <3>1
    <3>3. QED
      BY <1>14, <3>1, <3>2
  <2>3. QED
    BY <2>1, <2>2 DEF Owned
<1>22. Merged(M)'
  <2>1. ASSUME NEW p \in M, node'[p].free, node'[p].next # NULL, node'[node'[p].next].free
        PROVE  merging' = p \/ merging' = node'[p].next
    <3>1. CASE p = n
      BY <1>4, <3>1
    <3>2. CASE p # n
      <4>1. node'[p].next = node[p].next /\ node[p].next \in L /\ node[p].next # after
        BY <1>14, <2>1, <3>2 DEF InPlace
      <4>2. node[p].free /\ node[node[p].next].free
        BY <1>13, <1>14, <2>1, <4>1
      <4>3. merging = p \/ merging = node[p].next
        BY <1>14, <2>1, <4>1, <4>2 DEF Sound, Merged
      <4>4. QED
        BY <1>1, <1>4, <4>1, <4>3
    <3>3. QED
      BY <3>1, <3>2
  <2>2. merging' \in M /\ node'[merging'].free
    BY <1>4, <1>5, <1>14, <1>15
  <2>3. QED
    BY <2>1, <2>2 DEF Merged
<1>23. PICK G \in SUBSET Nodes, r \in [Nodes -> Nat] :
         /\ Spare(G, r)' /\ M \cup G \subseteq 1 .. used' /\ M \cap G = {}
  <2>1. node'[after].next = freelist
    BY <1>9, <1>12
  <2>2. \A q \in F : node'[q].next = node[q].next
    BY <1>5, <1>6, <1>11, <1>12
  <2>3. QED
    BY <1>4, <1>6, <1>13, <2>1, <2>2, Retired
<1>24. M \in SUBSET Nodes /\ used' \in Nodes
  BY <1>4, <1>11, <1>13 DEF Sound
<1>25. Sound(M, G, r)'
  BY <1>12, <1>20, <1>21, <1>22, <1>23, <1>24 DEF Sound
<1>26. QED
  BY <1>24, <1>25

LEMMA MergeDoneKeeps ==
    ASSUME NEW L, NEW F, NEW rank, Sound(L, F, rank), MergeDone
    PROVE  Sound(L, F, rank)'
<1>1. /\ merging # NULL /\ ~FreeBefore(merging) /\ ~FreeAfter(merging) /\ merging' = NULL
      /\ UNCHANGED <<node, used, root, freelist, owned>>
  BY DEF MergeDone, blocks
<1>2. Blocks(L)'
  BY <1>1, BlocksKept DEF Sound
<1>3. Spare(F, rank)' /\ Owned(L)'
  BY <1>1 DEF Sound, Spare, Owned
<1>4. Merged(L)'
  <2>1. ASSUME NEW p \in L, node[p].free, node[p].next # NULL, node[node[p].next].free
        PROVE  FALSE
    <3>1. CASE merging = p
      BY <1>1, <2>1, <3>1 DEF FreeAfter
    <3>2. CASE merging = node[p].next
      <4>1. node[merging].prev = p /\ p # NULL
        BY <2>1, <3>2, BlockAt DEF Sound, Blocks, InPlace
      <4>2. QED
        BY <1>1, <2>1, <4>1 DEF FreeBefore
    <3>3. QED
      BY <2>1, <3>1, <3>2 DEF Sound, Merged
  <2>2. QED
    BY <1>1, <2>1 DEF Merged
<1>5. QED
  BY <1>1, <1>2, <1>3, <1>4 DEF Sound

-----------------------------------------------------------------------------
\* Every call of the heap's functions, by whoever.
Call ==
    \/ \E size \in Sizes : Alloc(size) \/ AllocFails(size)
    \/ \E a : FreeBlock(a)
    \/ MergePrevious \/ MergeNext \/ MergeDone

LEMMA OddCounts ==
    ASSUME odd \in Nat, odd' \in {odd, odd + 1, NextOdd}
    PROVE  odd' \in Nat /\ (odd' = 0 => odd = 0)
BY DEF NextOdd

LEMMA SoundGivesInv ==
    ASSUME odd' \in Nat,
           odd' = 0 => \E L, F \in SUBSET Nodes, rank \in [Nodes -> Nat] : Sound(L, F, rank)'
    PROVE  HeapInv'
BY DEF HeapInv

LEMMA UnchangedSound ==
    ASSUME NEW L, NEW F, NEW rank, Sound(L, F, rank),
           UNCHANGED <<blocks, merging, owned>>
    PROVE  Sound(L, F, rank)'
<1>1. UNCHANGED <<node, used, root, freelist, merging, owned>>
  BY DEF blocks
<1>2. Blocks(L)'
  BY <1>1, BlocksKept DEF Sound
<1>3. Spare(F, rank)' /\ Owned(L)' /\ Merged(L)'
  BY <1>1 DEF Sound, Spare, Owned, Merged
<1>4. QED
  BY <1>1, <1>2, <1>3 DEF Sound

LEMMA CallKeepsInv == HeapInv /\ [Call]_vars => HeapInv'
<1> SUFFICES ASSUME HeapInv, [Call]_vars PROVE HeapInv'
  OBVIOUS
<1>0. odd \in Nat
  BY DEF HeapInv
<1>1. ASSUME odd = 0
      PROVE  \E L, F \in SUBSET Nodes, rank \in [Nodes -> Nat] : Sound(L, F, rank)
  BY <1>1 DEF HeapInv
<1>2. ASSUME NEW size \in Sizes, Alloc(size) PROVE HeapInv'
  <2>1. odd' \in {odd, odd + 1, NextOdd}
    BY <1>2 DEF Alloc
  <2>2. odd' \in Nat /\ (odd' = 0 => odd = 0)
    BY <1>0, <2>1, OddCounts
  <2>3. ASSUME odd' = 0
        PROVE  \E L, F \in SUBSET Nodes, rank \in [Nodes -> Nat] : Sound(L, F, rank)'
    <3>1. PICK L \in SUBSET Nodes, F \in SUBSET Nodes, rank \in [Nodes -> Nat] : Sound(L, F, rank)
      BY <1>1, <2>2, <2>3
    <3>2. \E M, G \in SUBSET Nodes : Sound(M, G, rank)'
      BY <1>2, <2>2, <2>3, <3>1, AllocKeeps
    <3>3. QED
      BY <3>2
  <2>4. QED
    BY <2>2, <2>3, SoundGivesInv
<1>3. ASSUME UNCHANGED <<blocks, merging, owned, odd>> PROVE HeapInv'
  <2>1. odd' \in Nat /\ (odd' = 0 => odd = 0)
    BY <1>0, <1>3
  <2>2. ASSUME odd' = 0
        PROVE  \E L, F \in SUBSET Nodes, rank \in [Nodes -> Nat] : Sound(L, F, rank)'
    <3>1. PICK L \in SUBSET Nodes, F \in SUBSET Nodes, rank \in [Nodes -> Nat] : Sound(L, F, rank)
      BY <1>1, <2>1, <2>2
    <3>2. Sound(L, F, rank)'
      BY <1>3, <3>1, UnchangedSound
    <3>3. QED
      BY <3>2
  <2>3. QED
    BY <2>1, <2>2, SoundGivesInv
<1>4. ASSUME NEW size \in Sizes, AllocFails(size) PROVE HeapInv'
  BY <1>3, <1>4 DEF AllocFails
<1>5. ASSUME NEW a, FreeBlock(a) PROVE HeapInv'
  <2>1. odd' = NextOdd
    BY <1>5 DEF FreeBlock, Free
  <2>2. odd' \in Nat /\ (odd' = 0 => odd = 0)
    BY <1>0, <2>1, OddCounts
  <2>3. ASSUME odd' = 0
        PROVE  \E L, F \in SUBSET Nodes, rank \in [Nodes -> Nat] : Sound(L, F, rank)'
    <3>1. PICK L \in SUBSET Nodes, F \in SUBSET Nodes, rank \in [Nodes -> Nat] : Sound(L, F, rank)
      BY <1>1, <2>2, <2>3
    <3>2. CASE Free(a)
      <4>1. Sound(L, F, rank)'
        BY <3>1, <3>2, FreeKeeps
      <4>2. QED
        BY <4>1
    <3>3. CASE ~Free(a)
      <4>1. /\ merging = NULL /\ a \notin DOMAIN owned
            /\ merging' = First({p \in Nodes : node[p].begin = a})
            /\ node' = Store(node, merging', "free", TRUE)
            /\ UNCHANGED <<used, root, freelist, owned>>
        BY <1>5, <3>3 DEF FreeBlock, Callable
      <4>2. Sound(L, F, rank)'
        BY <3>1, <4>1, StrayFreeKeeps
      <4>3. QED
        BY <4>2
    <3>4. QED
      BY <3>2, <3>3
  <2>4. QED
    BY <2>2, <2>3, SoundGivesInv
<1>6. CASE MergePrevious
  <2>1. odd' \in {odd, odd + 1, NextOdd}
    BY <1>6 DEF MergePrevious
  <2>2. odd' \in Nat /\ (odd' = 0 => odd = 0)
    BY <1>0, <2>1, OddCounts
  <2>3. ASSUME odd' = 0
        PROVE  \E L, F \in SUBSET Nodes, rank \in [Nodes -> Nat] : Sound(L, F, rank)'
    <3>1. PICK L \in SUBSET Nodes, F \in SUBSET Nodes, rank \in [Nodes -> Nat] : Sound(L, F, rank)
      BY <1>1, <2>2, <2>3
    <3>2. QED
      BY <1>6, <2>2, <2>3, <3>1, MergePreviousKeeps
  <2>4. QED
    BY <2>2, <2>3, SoundGivesInv
<1>7. CASE MergeNext
  <2>1. odd' = odd
    BY <1>7 DEF MergeNext
  <2>2. ASSUME odd' = 0
        PROVE  \E L, F \in SUBSET Nodes, rank \in [Nodes -> Nat] : Sound(L, F, rank)'
    <3>1. PICK L \in SUBSET Nodes, F \in SUBSET Nodes, rank \in [Nodes -> Nat] : Sound(L, F, rank)
      BY <1>1, <2>1, <2>2
    <3>2. QED
      BY <1>7, <3>1, MergeNextKeeps
  <2>3. QED
    BY <1>0, <2>1, <2>2, SoundGivesInv
<1>8. CASE MergeDone
  <2>1. odd' = odd
    BY <1>8 DEF MergeDone
  <2>2. ASSUME odd' = 0
        PROVE  \E L, F \in SUBSET Nodes, rank \in [Nodes -> Nat] : Sound(L, F, rank)'
    <3>1. PICK L \in SUBSET Nodes, F \in SUBSET Nodes, rank \in [Nodes -> Nat] : Sound(L, F, rank)
      BY <1>1, <2>1, <2>2
    <3>2. Sound(L, F, rank)'
      BY <1>8, <3>1, MergeDoneKeeps
    <3>3. QED
      BY <3>2
  <2>3. QED
    BY <1>0, <2>1, <2>2, SoundGivesInv
<1>9. CASE UNCHANGED vars
  BY <1>3, <1>9 DEF vars
<1>10. QED
  BY <1>2, <1>4, <1>5, <1>6, <1>7, <1>8, <1>9 DEF Call

LEMMA NextIsCall == [Next]_vars => [Call]_vars
BY DEF Next, Call, FreeBlock

LEMMA ListNextIsCall == [ListNext]_listVars => [Call]_vars
<1> SUFFICES ASSUME [ListNext]_listVars PROVE [Call]_vars
  OBVIOUS
<1>1. NodeSize \in Sizes
  BY LinkedListAssumption
<1>2. ASSUME NEW val \in Values, NEW way \in Ways, Push(val, way) PROVE Call
  BY <1>1, <1>2 DEF Push, Call
<1>3. CASE PushFails
  BY <1>1, <1>3 DEF PushFails, Call
<1>4. ASSUME NEW val \in Values, Delete(val) PROVE Call
  BY <1>4 DEF Delete, Call
<1>5. CASE FreeList
  BY <1>5 DEF FreeList
<1>6. CASE FreeListNode
  BY <1>6 DEF FreeListNode, Call
<1>7. CASE OtherCall
  BY <1>7 DEF OtherCall, Call, FreeBlock
<1>8. CASE MergePrevious \/ MergeNext \/ MergeDone
  BY <1>8 DEF Call
<1>9. CASE UNCHANGED listVars
  BY <1>9 DEF listVars
<1>10. QED
  BY <1>2, <1>3, <1>4, <1>5, <1>6, <1>7, <1>8, <1>9 DEF ListNext

LEMMA HeapInvHolds == Spec => []HeapInv
<1>1. HeapInv /\ [Next]_vars => HeapInv'
  BY CallKeepsInv, NextIsCall
<1>2. QED
  BY <1>1, HeapInitInv, PTL DEF Spec

LEMMA ListHeapInvHolds == ListSpec => []HeapInv
<1>1. ListInit => HeapInv
  BY HeapInitInv DEF ListInit
<1>2. HeapInv /\ [ListNext]_listVars => HeapInv'
  BY CallKeepsInv, ListNextIsCall
<1>3. QED
  BY <1>1, <1>2, PTL DEF ListSpec

-----------------------------------------------------------------------------
LEMMA InvGivesTiling == HeapInv => BlocksTile
<1> SUFFICES ASSUME HeapInv, Quiet PROVE Tiled(Listed(root)) /\ Owned(Listed(root))
  BY DEF BlocksTile
<1>1. PICK L \in SUBSET Nodes, F \in SUBSET Nodes, rank \in [Nodes -> Nat] : Sound(L, F, rank)
  BY DEF HeapInv, Quiet
<1>2. Listed(root) = L
  BY <1>1, AllListed
<1>3. Tiled(L)
  BY <1>1 DEF Sound, Blocks, InPlace, Tiled
<1>4. Owned(L)
  BY <1>1 DEF Sound
<1>5. QED
  BY <1>2, <1>3, <1>4

LEMMA InvGivesMerged == HeapInv => FreeBlocksMerge
<1> SUFFICES ASSUME HeapInv, Quiet, NEW p \in Listed(root), node[p].free,
                    node[p].next # NULL, node[node[p].next].free
             PROVE  FALSE
  BY DEF FreeBlocksMerge
<1>1. PICK L \in SUBSET Nodes, F \in SUBSET Nodes, rank \in [Nodes -> Nat] : Sound(L, F, rank)
  BY DEF HeapInv, Quiet
<1>2. p \in L
  BY <1>1, AllListed
<1>3. merging = p \/ merging = node[p].next
  BY <1>1, <1>2 DEF Sound, Merged
<1>4. merging = NULL /\ p # NULL
  BY <1>1, <1>2, BlockAt DEF Quiet
<1>5. QED
  BY <1>3, <1>4

LEMMA InvGivesApart == HeapInv => NodesStayApart
<1> SUFFICES ASSUME HeapInv, odd = 0 PROVE NodesStayApart
  BY DEF NodesStayApart
<1>1. PICK L \in SUBSET Nodes, F \in SUBSET Nodes, rank \in [Nodes -> Nat] : Sound(L, F, rank)
  BY DEF HeapInv
<1>2. /\ freelist \in F \cup {NULL} /\ L \cap F = {}
      /\ \A q \in F : node[q].next # NULL => node[q].next \in F /\ rank[node[q].next] < rank[q]
  BY <1>1 DEF Sound, Spare
<1>3. Listed(root) \cap Listed(freelist) = {}
  <2>1. Listed(freelist) \subseteq F
    <3>1. \A q \in F : node[q].next \in F \cup {NULL}
      BY <1>2
    <3>2. QED
      BY <1>2, <3>1, ListedIn
  <2>2. Listed(root) = L
    BY <1>1, AllListed
  <2>3. QED
    BY <1>2, <2>1, <2>2
<1> DEFINE key == [q \in F |-> 0 - rank[q]]
<1>4. key \in [F -> Int]
  BY <1>1
<1>5. ASSUME NEW q \in F, node[q].next # NULL
      PROVE  node[q].next \in F /\ key[q] < key[node[q].next]
  <2>1. node[q].next \in F /\ rank[node[q].next] < rank[q]
    BY <1>2, <1>5
  <2>2. rank[node[q].next] \in Nat /\ rank[q] \in Nat
    BY <2>1
  <2>3. QED
    BY <2>1, <2>2
<1> HIDE DEF key
<1>6. \A i \in 0 .. MaxNodes, j \in 0 .. MaxNodes :
        j < i /\ From(freelist)[i] # NULL =>
           /\ From(freelist)[j] \in F /\ From(freelist)[i] \in F
           /\ key[From(freelist)[j]] < key[From(freelist)[i]]
  BY <1>2, <1>4, <1>5, Grows
<1>7. ASSUME NEW m \in 0 .. MaxNodes, NEW n \in 0 .. MaxNodes, m < n, From(freelist)[m] # NULL
      PROVE  From(freelist)[m] # From(freelist)[n]
  <2>1. SUFFICES ASSUME From(freelist)[m] = From(freelist)[n] PROVE FALSE
    OBVIOUS
  <2>2. From(freelist)[m] \in F /\ key[From(freelist)[m]] < key[From(freelist)[n]]
    BY <1>6, <1>7, <2>1
  <2>3. key[From(freelist)[m]] \in Int
    BY <1>4, <2>2
  <2>4. QED
    BY <2>1, <2>2, <2>3
<1>8. QED
  BY <1>3, <1>7 DEF NodesStayApart

\* memory_alloc's splits and merge_free_nodes_rec's merges keep the blocks side by
\* side from the arena's first byte to its last, with neighbours that name each
\* other, and the used ones are those that callers hold: whatever kernel_main's list
\* and others call (memory.c 26-147), up to a call that ends in one of the two ways
\* that make the list unsound (memory.c 51, 87).
THEOREM BlocksAlwaysTile == ListSpec => []BlocksTile
<1>1. QED
  BY ListHeapInvHolds, InvGivesTiling, PTL

\* merge_free_nodes_rec (memory.c 76-117) leaves no two free blocks side by side.
THEOREM FreeBlocksAreMerged == ListSpec => []FreeBlocksMerge
<1>1. QED
  BY ListHeapInvHolds, InvGivesMerged, PTL

\* A node on the freelist (memory.c 37, 91) is in no block and is there once, so
\* that memory_alloc never takes a node that the list of blocks still has.
THEOREM NodesStayOnOneList == ListSpec => []NodesStayApart
<1>1. QED
  BY ListHeapInvHolds, InvGivesApart, PTL

\* The same three for any calls of memory_alloc and memory_free_int, in any order
\* and of any sizes, with no list of kernel_main's among the callers.
THEOREM HeapIsSound == Spec => [](BlocksTile /\ FreeBlocksMerge /\ NodesStayApart)
<1>1. QED
  BY HeapInvHolds, InvGivesTiling, InvGivesMerged, InvGivesApart, PTL

-----------------------------------------------------------------------------
\* kernel_main's list.
Pointing == Addresses \cup {NULL}
CellType == [val : Values \cup {0}, next : Pointing, prev : Pointing]
CellsType == [Addresses -> CellType]

LEMMA ArenaNumbers ==
    /\ Base \in Nat /\ Top \in Nat /\ NULL \notin Addresses /\ NULL \in Pointing
    /\ \A a \in Addresses : a \in Int
    /\ \A p \in Pointing : p # NULL => p \in Addresses
BY HeapAssumption, LinkedListAssumption DEF Addresses, NULL, Pointing

LEMMA TwoWays ==
    ASSUME NEW way \in Ways
    PROVE  /\ Back(way) \in Ways /\ Back(way) # way /\ Back(Back(way)) = way
           /\ \A w \in Ways : w = way \/ w = Back(way)
BY DEF Ways, Back

LEMMA CellFields ==
    ASSUME NEW c \in CellsType, NEW a \in Addresses
    PROVE  /\ c[a] \in CellType /\ c[a].val \in Values \cup {0}
           /\ \A way \in Ways : c[a][way] \in Pointing
BY DEF CellsType, CellType, Ways

\* A store to one pointer of a node.
LEMMA PutNext ==
    ASSUME NEW c \in CellsType, NEW p \in Pointing, NEW v \in Pointing
    PROVE  /\ Put(c, p, "next", v) \in CellsType
           /\ \A a \in Addresses :
                /\ Put(c, p, "next", v)[a].val = c[a].val
                /\ Put(c, p, "next", v)[a].prev = c[a].prev
                /\ Put(c, p, "next", v)[a].next = IF a = p THEN v ELSE c[a].next
<1>1. CASE p = NULL
  BY <1>1, ArenaNumbers DEF Put, Store
<1>2. CASE p # NULL
  <2> DEFINE g == [c EXCEPT ![p] = [c[p] EXCEPT !["next"] = v]]
  <2>1. p \in Addresses /\ c[p] \in CellType
    BY <1>2, ArenaNumbers, CellFields
  <2>2. [c[p] EXCEPT !["next"] = v] \in CellType
    BY <2>1 DEF CellType
  <2>3. Put(c, p, "next", v) = g
    BY <1>2 DEF Put, Store
  <2>4. g \in CellsType
    BY <2>1, <2>2 DEF CellsType
  <2>5. g[p] = [c[p] EXCEPT !["next"] = v] /\ \A a \in Addresses : a # p => g[a] = c[a]
    BY <2>1 DEF CellsType
  <2>6. g[p].val = c[p].val /\ g[p].prev = c[p].prev /\ g[p].next = v
    BY <2>1, <2>5 DEF CellType
  <2> HIDE DEF g
  <2>7. QED
    BY <2>3, <2>4, <2>5, <2>6
<1>3. QED
  BY <1>1, <1>2

LEMMA PutPrev ==
    ASSUME NEW c \in CellsType, NEW p \in Pointing, NEW v \in Pointing
    PROVE  /\ Put(c, p, "prev", v) \in CellsType
           /\ \A a \in Addresses :
                /\ Put(c, p, "prev", v)[a].val = c[a].val
                /\ Put(c, p, "prev", v)[a].next = c[a].next
                /\ Put(c, p, "prev", v)[a].prev = IF a = p THEN v ELSE c[a].prev
<1>1. CASE p = NULL
  BY <1>1, ArenaNumbers DEF Put, Store
<1>2. CASE p # NULL
  <2> DEFINE g == [c EXCEPT ![p] = [c[p] EXCEPT !["prev"] = v]]
  <2>1. p \in Addresses /\ c[p] \in CellType
    BY <1>2, ArenaNumbers, CellFields
  <2>2. [c[p] EXCEPT !["prev"] = v] \in CellType
    BY <2>1 DEF CellType
  <2>3. Put(c, p, "prev", v) = g
    BY <1>2 DEF Put, Store
  <2>4. g \in CellsType
    BY <2>1, <2>2 DEF CellsType
  <2>5. g[p] = [c[p] EXCEPT !["prev"] = v] /\ \A a \in Addresses : a # p => g[a] = c[a]
    BY <2>1 DEF CellsType
  <2>6. g[p].val = c[p].val /\ g[p].next = c[p].next /\ g[p].prev = v
    BY <2>1, <2>5 DEF CellType
  <2> HIDE DEF g
  <2>7. QED
    BY <2>3, <2>4, <2>5, <2>6
<1>3. QED
  BY <1>1, <1>2

LEMMA PutVal ==
    ASSUME NEW c \in CellsType, NEW p \in Addresses, NEW v \in Values \cup {0}
    PROVE  /\ Put(c, p, "val", v) \in CellsType
           /\ \A a \in Addresses :
                /\ Put(c, p, "val", v)[a].next = c[a].next
                /\ Put(c, p, "val", v)[a].prev = c[a].prev
                /\ Put(c, p, "val", v)[a].val = IF a = p THEN v ELSE c[a].val
<1> DEFINE g == [c EXCEPT ![p] = [c[p] EXCEPT !["val"] = v]]
<1>1. p # NULL /\ c[p] \in CellType
  BY ArenaNumbers, CellFields
<1>2. [c[p] EXCEPT !["val"] = v] \in CellType
  BY <1>1 DEF CellType
<1>3. Put(c, p, "val", v) = g
  BY <1>1 DEF Put, Store
<1>4. g \in CellsType
  BY <1>2 DEF CellsType
<1>5. g[p] = [c[p] EXCEPT !["val"] = v] /\ \A a \in Addresses : a # p => g[a] = c[a]
  BY DEF CellsType
<1>6. g[p].val = v /\ g[p].next = c[p].next /\ g[p].prev = c[p].prev
  BY <1>1, <1>5 DEF CellType
<1> HIDE DEF g
<1>7. QED
  BY <1>3, <1>4, <1>5, <1>6

-----------------------------------------------------------------------------
\* The walk, as the function that Walk chooses.
Longer(w, n, way) ==
    IF Len(w) < n \/ cell[Last(w)][way] = NULL THEN w ELSE Append(w, cell[Last(w)][way])

Meeting(f, way, m) ==
    f = [n \in 0 .. m |-> IF n = 0 THEN (IF start[way] = NULL THEN <<>> ELSE <<start[way]>>)
                          ELSE Longer(f[n - 1], n, way)]

LEMMA MeetingExists == ASSUME NEW way, NEW n \in Nat PROVE \E f : Meeting(f, way, n)
<1> DEFINE T == {m \in Nat : \E f : Meeting(f, way, m)}
           first == IF start[way] = NULL THEN <<>> ELSE <<start[way]>>
<1>1. 0 \in T
  <2>1. Meeting([i \in 0 .. 0 |-> first], way, 0)
    BY DEF Meeting
  <2>2. QED
    BY <2>1
<1>2. ASSUME NEW m \in T PROVE m + 1 \in T
  <2>1. PICK f : Meeting(f, way, m)
    OBVIOUS
  <2> DEFINE g == [i \in 0 .. m + 1 |-> IF i <= m THEN f[i] ELSE Longer(f[m], m + 1, way)]
  <2> HIDE DEF first
  <2>0. m \in Nat
    OBVIOUS
  <2>2. ASSUME NEW i \in 0 .. m + 1
        PROVE  g[i] = IF i = 0 THEN first ELSE Longer(g[i - 1], i, way)
    <3>1. CASE i = 0
      <4>1. g[0] = f[0]
        BY <2>0
      <4>2. f[0] = first
        BY <2>0, <2>1 DEF Meeting, first
      <4>3. QED
        BY <3>1, <4>1, <4>2
    <3>2. CASE i # 0 /\ i <= m
      <4>1. g[i] = f[i] /\ g[i - 1] = f[i - 1]
        BY <2>0, <3>2
      <4>2. f[i] = Longer(f[i - 1], i, way)
        <5>1. i \in 0 .. m /\ i # 0
          BY <2>0, <3>2
        <5>2. QED
          BY <2>1, <5>1 DEF Meeting
      <4>3. QED
        BY <3>2, <4>1, <4>2
    <3>3. CASE i = m + 1
      <4>1. g[i - 1] = f[m] /\ g[i] = Longer(f[m], m + 1, way) /\ i # 0
        BY <2>0, <3>3
      <4>2. QED
        BY <3>3, <4>1
    <3>4. QED
      BY <2>0, <3>1, <3>2, <3>3
  <2>3. Meeting(g, way, m + 1)
    <3>1. g = [i \in 0 .. m + 1 |-> g[i]]
      OBVIOUS
    <3> HIDE DEF g
    <3>2. QED
      BY <2>2, <3>1 DEF Meeting, first
  <2> HIDE DEF g
  <2>4. QED
    BY <2>0, <2>3
<1>3. T = Nat
  <2> HIDE DEF T
  <2>1. QED
    BY <1>1, <1>2, AllNumbers DEF T
<1>4. QED
  BY <1>3

LEMMA CountOfAddresses ==
    /\ IsFiniteSet(Addresses) /\ Cardinality(Addresses) \in Nat
    /\ \A n \in Nat : \A s \in [1 .. n -> Addresses] :
          (\A i, j \in 1 .. n : s[i] = s[j] => i = j) => n <= Cardinality(Addresses)
<1>1. IsFiniteSet(Addresses)
  BY FS_Interval, ArenaNumbers DEF Addresses
<1>2. Cardinality(Addresses) \in Nat
  BY <1>1, FS_CardinalityType
<1>3. ASSUME NEW n \in Nat, NEW s \in [1 .. n -> Addresses],
             \A i, j \in 1 .. n : s[i] = s[j] => i = j
      PROVE  n <= Cardinality(Addresses)
  <2>1. IsFiniteSet(1 .. n) /\ Cardinality(1 .. n) = n
    BY FS_Interval
  <2>2. ~(Cardinality(Addresses) < Cardinality(1 .. n))
    BY <1>1, <1>3, <2>1, FS_PigeonHole
  <2>3. QED
    BY <1>2, <2>1, <2>2
<1>4. QED
  BY <1>1, <1>2, <1>3

LEMMA WalkSteps ==
    ASSUME NEW way
    PROVE  \E f : /\ f[0] = IF start[way] = NULL THEN <<>> ELSE <<start[way]>>
                  /\ \A n \in Nat : n + 1 <= Cardinality(Addresses) =>
                        f[n + 1] = Longer(f[n], n + 1, way)
                  /\ Walk(way) = f[Cardinality(Addresses)]
<1> DEFINE top == Cardinality(Addresses)
           met == CHOOSE f : f = [n \in 0 .. top |->
                      IF n = 0 THEN (IF start[way] = NULL THEN <<>> ELSE <<start[way]>>)
                      ELSE LET w == f[n - 1]
                           IN  IF Len(w) < n \/ cell[Last(w)][way] = NULL THEN w
                               ELSE Append(w, cell[Last(w)][way])]
<1>1. Walk(way) = met[top]
  BY DEF Walk
<1>2. Meeting(met, way, top)
  <2>1. \E f : Meeting(f, way, top)
    BY CountOfAddresses, MeetingExists
  <2>2. QED
    BY <2>1 DEF Meeting, Longer
<1> HIDE DEF met, top
<1>3. top \in Nat
  BY CountOfAddresses DEF top
<1>4. met[0] = IF start[way] = NULL THEN <<>> ELSE <<start[way]>>
  BY <1>2, <1>3 DEF Meeting
<1>5. ASSUME NEW n \in Nat, n + 1 <= top PROVE met[n + 1] = Longer(met[n], n + 1, way)
  <2>1. n + 1 \in 0 .. top /\ n + 1 # 0 /\ (n + 1) - 1 = n
    BY <1>3, <1>5
  <2>2. QED
    BY <1>2, <2>1 DEF Meeting
<1>6. QED
  BY <1>1, <1>4, <1>5 DEF top

\* The walk follows a chain of nodes, to its end if it has one.
LEMMA WalkFollows ==
    ASSUME cell \in CellsType, NEW way \in Ways, NEW s \in Seq(Addresses), s # <<>>,
           start[way] = s[1],
           \A i, j \in 1 .. Len(s) : s[i] = s[j] => i = j,
           \A i \in 1 .. Len(s) - 1 : cell[s[i]][way] = s[i + 1]
    PROVE  /\ Walk(way) \in Seq(Addresses) /\ Len(s) <= Len(Walk(way))
           /\ \A i \in 1 .. Len(s) : Walk(way)[i] = s[i]
           /\ cell[s[Len(s)]][way] = NULL => Walk(way) = s
<1> DEFINE m == Len(s)
           top == Cardinality(Addresses)
           ends == cell[s[m]][way] = NULL
<1>1. m \in Nat /\ 1 <= m /\ s \in [1 .. m -> Addresses] /\ \A i \in 1 .. m : s[i] \in Addresses
  <2>1. m \in Nat /\ m # 0 /\ s \in [1 .. m -> Addresses]
    BY EmptySeq, LenProperties
  <2> HIDE DEF m
  <2>2. QED
    BY <2>1
<1>2. top \in Nat /\ m <= top
  <2>1. \A i, j \in 1 .. m : s[i] = s[j] => i = j
    OBVIOUS
  <2> HIDE DEF m
  <2>2. QED
    BY <1>1, <2>1, CountOfAddresses
<1>3. PICK f : /\ f[0] = IF start[way] = NULL THEN <<>> ELSE <<start[way]>>
               /\ \A n \in Nat : n + 1 <= top => f[n + 1] = Longer(f[n], n + 1, way)
               /\ Walk(way) = f[top]
  BY WalkSteps
<1> DEFINE P(n) == /\ f[n] \in Seq(Addresses) /\ Len(f[n]) \in Nat /\ 1 <= Len(f[n])
                   /\ \A i \in 1 .. Len(f[n]) : i <= m => f[n][i] = s[i]
                   /\ n + 1 <= m => Len(f[n]) = n + 1
                   /\ m <= n + 1 => m <= Len(f[n])
                   /\ ends => Len(f[n]) <= m
           T == {n \in Nat : n <= top => P(n)}
<1>4. \A i \in 1 .. m - 1 : cell[s[i]][way] = s[i + 1]
  OBVIOUS
<1>5. start[way] = s[1] /\ s[1] \in Addresses /\ s[1] # NULL
  BY <1>1, ArenaNumbers
<1> HIDE DEF m, top, ends
<1>6. P(0)
  <2>1. f[0] = <<s[1]>>
    BY <1>3, <1>5
  <2>2. <<s[1]>> \in Seq(Addresses) /\ Len(<<s[1]>>) = 1 /\ <<s[1]>>[1] = s[1]
    BY <1>5
  <2>3. QED
    BY <1>1, <2>1, <2>2
<1>7. ASSUME NEW n \in Nat, n + 1 <= top, P(n) PROVE P(n + 1)
  <2> DEFINE w == f[n]
             x == cell[Last(w)][way]
             L == Len(w)
  <2>1. f[n + 1] = IF L < n + 1 \/ x = NULL THEN w ELSE Append(w, x)
    BY <1>3, <1>7 DEF Longer
  <2>2. w \in Seq(Addresses) /\ L \in Nat /\ 1 <= L
    BY <1>7
  <2>3. /\ \A i \in 1 .. L : i <= m => w[i] = s[i]
        /\ n + 1 <= m => L = n + 1
        /\ m <= n + 1 => m <= L
        /\ ends => L <= m
    BY <1>7
  <2>4. Last(w) = w[L] /\ w[L] \in Addresses
    <3>1. L \in 1 .. L
      BY <2>2
    <3>2. QED
      BY <2>2, <3>1, ElementOfSeq DEF Last
  <2>5. x \in Pointing /\ (x # NULL => x \in Addresses)
    BY <2>4, CellFields, ArenaNumbers
  <2> DEFINE y == Append(w, x)
  <2>6. x # NULL => /\ y \in Seq(Addresses) /\ Len(y) = L + 1
                    /\ \A i \in 1 .. L : y[i] = w[i]
                    /\ y[L + 1] = x
    BY <2>2, <2>5, AppendProperties
  <2>7. CASE n + 2 <= m
    <3>1. L = n + 1 /\ L <= m /\ L \in 1 .. m - 1
      BY <1>1, <2>2, <2>3, <2>7
    <3>2. w[L] = s[L] /\ x = s[L + 1]
      <4>1. w[L] = s[L]
        BY <2>2, <2>3, <3>1
      <4>2. x = cell[s[L]][way]
        BY <2>4, <4>1
      <4> HIDE DEF x, w, L
      <4>3. QED
        BY <1>4, <3>1, <4>1, <4>2
    <3>3. L + 1 \in 1 .. m
      BY <1>1, <3>1
    <3>4. x # NULL
      BY <1>1, <3>2, <3>3, ArenaNumbers
    <3>5. f[n + 1] = y
      BY <2>1, <3>1, <3>4
    <3> HIDE DEF y, x, w, L
    <3>6. \A i \in 1 .. L + 1 : y[i] = s[i]
      <4>1. TAKE i \in 1 .. L + 1
      <4>2. CASE i = L + 1
        BY <2>6, <3>2, <3>4, <4>2
      <4>3. CASE i # L + 1
        <5>0. L \in Nat /\ m \in Nat /\ L <= m
          BY <1>1, <2>2, <3>1
        <5>1. i \in 1 .. L /\ i <= m
          BY <4>3, <5>0
        <5>2. QED
          BY <2>3, <2>6, <3>4, <5>1
      <4>4. QED
        BY <4>2, <4>3
    <3>7. y \in Seq(Addresses) /\ Len(y) = L + 1
      BY <2>6, <3>4
    <3>8. QED
      BY <1>1, <2>2, <2>7, <3>1, <3>5, <3>6, <3>7
  <2>8. CASE ~(n + 2 <= m)
    <3>1. m <= n + 1 /\ m <= L
      BY <1>1, <2>3, <2>8
    <3>2. CASE f[n + 1] = w
      <4> HIDE DEF x, w, L
      <4>1. f[n + 1] \in Seq(Addresses) /\ Len(f[n + 1]) = L
        BY <2>2, <3>2 DEF L
      <4>2. \A i \in 1 .. L : i <= m => f[n + 1][i] = s[i]
        BY <2>3, <3>2
      <4>3. ~((n + 1) + 1 <= m)
        BY <1>1, <2>8
      <4>4. QED
        BY <2>2, <2>3, <3>1, <4>1, <4>2, <4>3
    <3>3. CASE f[n + 1] # w
      <4>1. x # NULL /\ f[n + 1] = y
        BY <2>1, <3>3
      <4>2. ~ends
        <5>1. SUFFICES ASSUME ends PROVE FALSE
          OBVIOUS
        <5>2. L = m
          BY <1>1, <2>2, <2>3, <3>1, <5>1
        <5>3. w[L] = s[m]
          BY <1>1, <2>2, <2>3, <5>2
        <5>4. QED
          BY <2>4, <4>1, <5>1, <5>3 DEF ends
      <4> HIDE DEF y, x, w, L
      <4>3. y \in Seq(Addresses) /\ Len(y) = L + 1 /\ \A i \in 1 .. L : y[i] = w[i]
        BY <2>6, <4>1
      <4>4. \A i \in 1 .. L + 1 : i <= m => y[i] = s[i]
        <5>1. TAKE i \in 1 .. L + 1
        <5>2. i <= m => i \in 1 .. L
          BY <1>1, <2>2, <3>1
        <5>3. QED
          BY <2>3, <4>3, <5>2
      <4>5. ~((n + 1) + 1 <= m)
        BY <1>1, <2>8
      <4>6. QED
        BY <1>1, <2>2, <3>1, <4>1, <4>2, <4>3, <4>4, <4>5
    <3>4. QED
      BY <3>2, <3>3
  <2>9. QED
    BY <2>7, <2>8
<1>8. T = Nat
  <2> HIDE DEF P
  <2>1. 0 \in T
    BY <1>6
  <2>2. ASSUME NEW n \in T PROVE n + 1 \in T
    <3>1. n \in Nat /\ (n <= top => P(n))
      OBVIOUS
    <3>2. n + 1 <= top => P(n)
      BY <1>2, <3>1
    <3>3. n + 1 <= top => P(n + 1)
      BY <1>7, <3>1, <3>2
    <3>4. QED
      BY <3>1, <3>3
  <2> HIDE DEF T
  <2>3. QED
    BY <2>1, <2>2, AllNumbers DEF T
<1>9. P(top)
  <2> HIDE DEF P
  <2>1. top \in T
    BY <1>2, <1>8
  <2>2. QED
    BY <1>2, <2>1
<1> DEFINE W == Walk(way)
<1>10. /\ W \in Seq(Addresses) /\ Len(W) \in Nat /\ m <= Len(W)
       /\ \A i \in 1 .. Len(W) : i <= m => W[i] = s[i]
       /\ ends => Len(W) <= m
  <2>1. W = f[top]
    BY <1>3
  <2>2. m <= top + 1
    BY <1>1, <1>2
  <2> HIDE DEF W
  <2>3. QED
    BY <1>9, <2>1, <2>2
<1> HIDE DEF W
<1>11. \A i \in 1 .. m : W[i] = s[i]
  <2>1. TAKE i \in 1 .. m
  <2>2. i \in 1 .. Len(W) /\ i <= m
    BY <1>1, <1>10
  <2>3. QED
    BY <1>10, <2>2
<1>12. ends => W = s
  <2>1. SUFFICES ASSUME ends PROVE W = s
    OBVIOUS
  <2>2. Len(W) = Len(s)
    BY <1>1, <1>10, <2>1 DEF m
  <2>3. \A i \in 1 .. Len(W) : W[i] = s[i]
    BY <1>11, <2>2 DEF m
  <2>4. QED
    BY <1>10, <2>2, <2>3, SeqEqual
<1>13. QED
  BY <1>10, <1>11, <1>12 DEF W, m, ends

LEMMA WalkEmpty == ASSUME NEW way, start[way] = NULL PROVE Walk(way) = <<>>
<1> DEFINE top == Cardinality(Addresses)
<1>1. PICK f : /\ f[0] = IF start[way] = NULL THEN <<>> ELSE <<start[way]>>
               /\ \A n \in Nat : n + 1 <= top => f[n + 1] = Longer(f[n], n + 1, way)
               /\ Walk(way) = f[top]
  BY WalkSteps
<1>2. top \in Nat
  BY CountOfAddresses
<1> DEFINE T == {n \in Nat : n <= top => f[n] = <<>>}
<1> HIDE DEF top
<1>3. 0 \in T
  BY <1>1
<1>4. ASSUME NEW n \in T PROVE n + 1 \in T
  <2>1. n \in Nat /\ (n + 1 <= top => f[n] = <<>>)
    BY <1>2
  <2>2. Longer(<<>>, n + 1, way) = <<>>
    <3>1. Len(<<>>) = 0 /\ 0 < n + 1
      BY <2>1
    <3>2. QED
      BY <3>1 DEF Longer
  <2>3. n + 1 <= top => f[n + 1] = <<>>
    BY <1>1, <2>1, <2>2
  <2>4. QED
    BY <2>1, <2>3
<1>5. T = Nat
  <2> HIDE DEF T
  <2>1. QED
    BY <1>3, <1>4, AllNumbers DEF T
<1>6. QED
  BY <1>1, <1>2, <1>5

-----------------------------------------------------------------------------
\* c is the chain along next, up to the last item: first k nodes that were deleted as
\* the first ones, where head still leads, then the items, linked both ways.
Chain(c, k) ==
    /\ Len(c) = k + Len(items)
    /\ items \in Seq([at : Addresses, val : Values]) /\ items # <<>>
    /\ \A i \in 1 .. Len(items) :
          /\ c[k + i] = items[i].at
          /\ cell[items[i].at].val = items[i].val
          /\ items[i].at \in DOMAIN owned
    /\ \A i, j \in 1 .. Len(c) : c[i] = c[j] => i = j
    /\ start["next"] = c[1]
    /\ \A i \in 1 .. Len(c) - 1 : cell[c[i]].next = c[i + 1]
    /\ \A i \in k + 1 .. Len(c) - 1 : cell[c[i + 1]].prev = c[i]
    /\ \/ start["prev"] = c[Len(c)]
       \/ /\ cell[start["prev"]].prev # NULL
          /\ \A i \in k + 1 .. Len(c) : c[i] # start["prev"]
    /\ "next" \in right => k = 0 /\ cell[c[Len(c)]].next = NULL
    /\ "prev" \in right => start["prev"] = c[Len(c)] /\ cell[c[k + 1]].prev = NULL

Followed ==
    /\ cell \in CellsType /\ right \in SUBSET Ways /\ start \in [Ways -> Pointing]
    /\ start["next"] = NULL => start["prev"] = NULL /\ items = <<>>
    /\ start["next"] # NULL =>
          start["prev"] # NULL /\ \E c \in Seq(Addresses), k \in Nat : Chain(c, k)

ListInv == odd = 0 /\ freeing = NULL /\ right # {} => Followed

LEMMA ListInitial == ListInit => ListInv
<1> SUFFICES ASSUME ListInit PROVE Followed
  BY DEF ListInv
<1>1. cell \in CellsType
  <2>1. [val |-> 0, next |-> NULL, prev |-> NULL] \in CellType
    BY ArenaNumbers DEF CellType
  <2>2. QED
    BY <2>1 DEF ListInit, CellsType
<1>2. right = Ways /\ items = <<>> /\ start = [way \in Ways |-> NULL]
  BY DEF ListInit
<1>3. start \in [Ways -> Pointing] /\ start["next"] = NULL /\ start["prev"] = NULL
  BY <1>2, ArenaNumbers DEF Ways
<1>4. QED
  BY <1>1, <1>2, <1>3 DEF Followed

\* What a chain says, with its lengths as numbers.
LEMMA ChainFacts ==
    ASSUME NEW c \in Seq(Addresses), NEW k \in Nat, Chain(c, k), Followed
    PROVE  /\ Len(items) \in Nat \ {0} /\ Len(c) = k + Len(items) /\ Len(c) \in Nat /\ c # <<>>
           /\ c \in [1 .. Len(c) -> Addresses]
           /\ items \in [1 .. Len(items) -> [at : Addresses, val : Values]]
           /\ DOMAIN items = 1 .. Len(items)
           /\ \A i \in 1 .. Len(c) : c[i] \in Addresses /\ c[i] # NULL
           /\ \A i \in 1 .. Len(items) :
                 /\ k + i \in 1 .. Len(c) /\ c[k + i] = items[i].at
                 /\ cell[items[i].at].val = items[i].val /\ items[i].at \in DOMAIN owned
                 /\ items[i].at \in Addresses /\ items[i].val \in Values
           /\ start["prev"] \in Addresses
<1>1. items \in Seq([at : Addresses, val : Values]) /\ items # <<>> /\ Len(c) = k + Len(items)
  BY DEF Chain
<1>2. Len(items) \in Nat \ {0}
  BY <1>1, EmptySeq
<1>3. Len(c) \in Nat /\ c \in [1 .. Len(c) -> Addresses]
  BY LenProperties
<1>4. /\ items \in [1 .. Len(items) -> [at : Addresses, val : Values]]
      /\ DOMAIN items = 1 .. Len(items)
  BY <1>1, LenProperties
<1>5. c # <<>>
  <2>1. Len(c) # 0
    BY <1>1, <1>2
  <2>2. QED
    BY <2>1, EmptySeq
<1>6. \A i \in 1 .. Len(c) : c[i] \in Addresses /\ c[i] # NULL
  BY <1>3, ArenaNumbers
<1>7. ASSUME NEW i \in 1 .. Len(items)
      PROVE  /\ k + i \in 1 .. Len(c) /\ c[k + i] = items[i].at
             /\ cell[items[i].at].val = items[i].val /\ items[i].at \in DOMAIN owned
             /\ items[i].at \in Addresses /\ items[i].val \in Values
  <2>1. k + i \in 1 .. Len(c)
    BY <1>1, <1>2
  <2>2. items[i] \in [at : Addresses, val : Values]
    BY <1>4
  <2>3. QED
    BY <2>1, <2>2 DEF Chain
<1>8. start["prev"] \in Addresses
  <2>1. c[1] # NULL /\ start["next"] = c[1]
    BY <1>1, <1>2, <1>6 DEF Chain
  <2>2. start["prev"] \in Pointing /\ start["prev"] # NULL
    BY <2>1 DEF Followed, Ways
  <2>3. QED
    BY <2>2, ArenaNumbers
<1>9. QED
  BY <1>1, <1>2, <1>3, <1>4, <1>5, <1>6, <1>7, <1>8

-----------------------------------------------------------------------------
\* The invariant says what the walks show.
LEMMA WalkNext ==
    ASSUME Followed, NEW c \in Seq(Addresses), NEW k \in Nat, Chain(c, k)
    PROVE  /\ Walk("next") \in Seq(Addresses) /\ Len(c) <= Len(Walk("next"))
           /\ \A i \in 1 .. Len(c) : Walk("next")[i] = c[i]
           /\ cell[c[Len(c)]].next = NULL => Walk("next") = c
<1>1. c # <<>> /\ cell \in CellsType /\ "next" \in Ways
  BY ChainFacts DEF Followed, Ways
<1>2. /\ start["next"] = c[1] /\ \A i, j \in 1 .. Len(c) : c[i] = c[j] => i = j
      /\ \A i \in 1 .. Len(c) - 1 : cell[c[i]]["next"] = c[i + 1]
  BY DEF Chain
<1>3. QED
  BY <1>1, <1>2, WalkFollows

LEMMA WalkPrev ==
    ASSUME Followed, NEW c \in Seq(Addresses), NEW k \in Nat, Chain(c, k), "prev" \in right
    PROVE  /\ Walk("prev") \in Seq(Addresses) /\ Len(Walk("prev")) = Len(items)
           /\ \A i \in 1 .. Len(items) : Walk("prev")[i] = items[Len(items) + 1 - i].at
<1> DEFINE n == Len(items)
           s == [i \in 1 .. n |-> c[k + n + 1 - i]]
<1>1. n \in Nat \ {0} /\ Len(c) = k + n /\ k \in Nat /\ \A i \in 1 .. Len(c) : c[i] \in Addresses
  BY ChainFacts
<1>2. cell \in CellsType /\ "prev" \in Ways
  BY DEF Followed, Ways
<1>3. /\ start["prev"] = c[Len(c)] /\ cell[c[k + 1]].prev = NULL
      /\ \A i, j \in 1 .. Len(c) : c[i] = c[j] => i = j
      /\ \A i \in k + 1 .. Len(c) - 1 : cell[c[i + 1]].prev = c[i]
      /\ \A i \in 1 .. n : c[k + i] = items[i].at
  BY DEF Chain
<1> HIDE DEF n
<1>4. \A i \in 1 .. n : k + n + 1 - i \in 1 .. Len(c)
  BY <1>1
<1>5. s \in Seq(Addresses) /\ Len(s) = n /\ s # <<>>
  <2>1. \A i \in 1 .. n : c[k + n + 1 - i] \in Addresses
    BY <1>1, <1>4
  <2>2. s \in Seq(Addresses) /\ Len(s) = n
    BY <1>1, <2>1, IsASeq
  <2>3. QED
    BY <1>1, <2>2, EmptySeq
<1>6. \A i \in 1 .. n : s[i] = c[k + n + 1 - i]
  OBVIOUS
<1> HIDE DEF s
<1>7. start["prev"] = s[1]
  <2>1. 1 \in 1 .. n /\ k + n + 1 - 1 = Len(c)
    BY <1>1
  <2>2. QED
    BY <1>3, <1>6, <2>1
<1>8. \A i, j \in 1 .. Len(s) : s[i] = s[j] => i = j
  <2>1. SUFFICES ASSUME NEW i \in 1 .. n, NEW j \in 1 .. n, s[i] = s[j] PROVE i = j
    BY <1>5
  <2>2. k + n + 1 - i = k + n + 1 - j
    BY <1>3, <1>4, <1>6, <2>1
  <2>3. QED
    BY <1>1, <2>2
<1>9. \A i \in 1 .. Len(s) - 1 : cell[s[i]]["prev"] = s[i + 1]
  <2>1. SUFFICES ASSUME NEW i \in 1 .. n - 1 PROVE cell[s[i]].prev = s[i + 1]
    BY <1>5
  <2>2. PICK j \in k + 1 .. Len(c) - 1 : j = k + n + 1 - (i + 1)
    BY <1>1
  <2>3. i \in 1 .. n /\ i + 1 \in 1 .. n /\ k + n + 1 - i = j + 1
    BY <1>1, <2>2
  <2>4. s[i] = c[j + 1] /\ s[i + 1] = c[j]
    BY <1>6, <2>2, <2>3
  <2>5. QED
    BY <1>3, <2>4
<1>10. cell[s[Len(s)]]["prev"] = NULL
  <2>1. n \in 1 .. n /\ k + n + 1 - n = k + 1
    BY <1>1
  <2>2. QED
    BY <1>3, <1>5, <1>6, <2>1
<1>11. Walk("prev") = s
  BY <1>2, <1>5, <1>7, <1>8, <1>9, <1>10, WalkFollows
<1>12. \A i \in 1 .. n : s[i] = items[n + 1 - i].at
  <2>1. TAKE i \in 1 .. n
  <2>2. n + 1 - i \in 1 .. n /\ k + (n + 1 - i) = k + n + 1 - i
    BY <1>1
  <2>3. QED
    BY <1>3, <1>6, <2>2
<1>13. QED
  BY <1>5, <1>11, <1>12 DEF n

LEMMA InvGivesWalks == ListInv => WalksShowTheItems
<1> SUFFICES ASSUME ListInv, odd = 0, freeing = NULL, NEW way \in right
             PROVE  /\ [i \in DOMAIN Walk(way) |-> cell[Walk(way)[i]].val]
                          = [i \in DOMAIN items |-> Along(way)[i].val]
                    /\ ToSet(Walk(way)) \subseteq DOMAIN owned
  BY DEF WalksShowTheItems
<1>1. Followed /\ way \in Ways
  BY DEF ListInv, Followed
<1>2. CASE start["next"] = NULL
  <2>1. start[way] = NULL /\ items = <<>>
    BY <1>1, <1>2 DEF Followed, Ways
  <2>2. Walk(way) = <<>>
    BY <2>1, WalkEmpty
  <2>3. QED
    BY <2>1, <2>2 DEF ToSet
<1>3. CASE start["next"] # NULL
  <2>1. PICK c \in Seq(Addresses), k \in Nat : Chain(c, k)
    BY <1>1, <1>3 DEF Followed
  <2> DEFINE n == Len(items)
             W == Walk(way)
  <2>2. /\ n \in Nat \ {0} /\ Len(c) = k + n /\ DOMAIN items = 1 .. n
        /\ \A i \in 1 .. n : /\ c[k + i] = items[i].at /\ cell[items[i].at].val = items[i].val
                             /\ items[i].at \in DOMAIN owned
    BY <1>1, <2>1, ChainFacts
  <2>3. /\ W \in Seq(Addresses) /\ Len(W) = n
        /\ \A i \in 1 .. n : cell[W[i]].val = Along(way)[i].val /\ W[i] \in DOMAIN owned
    <3>1. CASE way = "next"
      <4>1. k = 0 /\ cell[c[Len(c)]].next = NULL
        BY <2>1, <3>1 DEF Chain
      <4>2. W = c
        BY <1>1, <2>1, <3>1, <4>1, WalkNext
      <4>3. Along(way) = items
        BY <3>1 DEF Along
      <4>4. Len(c) = n /\ \A i \in 1 .. n : c[i] = items[i].at
        <5> HIDE DEF n
        <5>1. QED
          BY <2>2, <4>1
      <4> HIDE DEF W
      <4>5. QED
        BY <2>2, <4>2, <4>3, <4>4
    <3>2. CASE way = "prev"
      <4>1. W \in Seq(Addresses) /\ Len(W) = n /\ \A i \in 1 .. n : W[i] = items[n + 1 - i].at
        BY <1>1, <2>1, <3>2, WalkPrev
      <4>2. ASSUME NEW i \in 1 .. n
            PROVE  cell[W[i]].val = Along(way)[i].val /\ W[i] \in DOMAIN owned
        <5>1. Along(way)[i] = items[(n - i) + 1]
          BY <3>2 DEF Along, Reverse
        <5> HIDE DEF n, W
        <5>2. n + 1 - i \in 1 .. n /\ (n - i) + 1 = n + 1 - i
          BY <2>2
        <5>3. QED
          BY <2>2, <4>1, <5>1, <5>2
      <4>3. QED
        BY <4>1, <4>2
    <3>3. QED
      BY <1>1, <3>1, <3>2 DEF Ways
  <2> HIDE DEF W, n
  <2>4. DOMAIN W = 1 .. n
    BY <2>3, LenProperties
  <2>5. [i \in DOMAIN W |-> cell[W[i]].val] = [i \in DOMAIN items |-> Along(way)[i].val]
    BY <2>2, <2>3, <2>4
  <2>6. ToSet(W) \subseteq DOMAIN owned
    BY <2>3, <2>4 DEF ToSet
  <2>7. QED
    BY <2>5, <2>6 DEF W
<1>4. QED
  BY <1>2, <1>3

-----------------------------------------------------------------------------
\* The block that memory_alloc gives is no one's.
LEMMA NewBlock ==
    ASSUME HeapInv, Alloc(NodeSize), odd = 0
    PROVE  /\ NewNode \in Addresses /\ NewNode \notin DOMAIN owned
           /\ DOMAIN owned' = DOMAIN owned \cup {NewNode}
<1>1. PICK L \in SUBSET Nodes, F \in SUBSET Nodes, rank \in [Nodes -> Nat] : Sound(L, F, rank)
  BY DEF HeapInv
<1>2. PICK n : n = First({p \in Nodes : Sufficient(p, NodeSize)})
  OBVIOUS
<1>3. /\ n # NULL /\ node[n].begin + NodeSize < Top
      /\ owned' = [a \in DOMAIN owned \cup {node[n].begin} |->
                      IF a = node[n].begin THEN NodeSize ELSE owned[a]]
  BY <1>2 DEF Alloc
<1>4. n \in L /\ node[n].free
  <2>1. n \in {p \in Nodes : Sufficient(p, NodeSize)} /\ n \in Listed(root)
    BY <1>2, <1>3, FirstFound
  <2>2. QED
    BY <1>1, <2>1, AllListed DEF Sufficient
<1>5. NewNode = node[n].begin
  BY <1>2 DEF NewNode
<1>6. node[n].begin \in Addresses
  <2>1. node[n].begin \in Int /\ Base <= node[n].begin
    BY <1>1, <1>4, BlockAt DEF Sound, Blocks, InPlace
  <2>2. NodeSize \in Nat /\ Base \in Nat /\ Top \in Nat
    BY HeapAssumption, LinkedListAssumption
  <2>3. node[n].begin <= Top
    BY <1>3, <2>1, <2>2
  <2>4. QED
    BY <2>1, <2>2, <2>3 DEF Addresses
<1>7. node[n].begin \notin DOMAIN owned
  <2>1. SUFFICES ASSUME node[n].begin \in DOMAIN owned PROVE FALSE
    OBVIOUS
  <2>2. PICK p \in L : node[p].begin = node[n].begin /\ ~node[p].free
    BY <1>1, <2>1 DEF Sound, Owned
  <2>3. QED
    BY <1>1, <1>4, <2>2, OneBegin
<1>8. DOMAIN owned' = DOMAIN owned \cup {node[n].begin}
  BY <1>3
<1>9. QED
  BY <1>5, <1>6, <1>7, <1>8

\* memory_calloc and the store of the value leave the old pointers in the node.
LEMMA NodeFilled ==
    ASSUME cell \in CellsType, NEW n \in Addresses, NEW val \in Values
    PROVE  LET c == Put(Calloc(cell, n), n, "val", val)
           IN  /\ c \in CellsType
               /\ \A a \in Addresses : /\ c[a].next = cell[a].next /\ c[a].prev = cell[a].prev
                                       /\ c[a].val = IF a = n THEN val ELSE cell[a].val
<1> DEFINE d == Put(cell, n, "val", 0)
           c == Put(d, n, "val", val)
<1>1. /\ d \in CellsType
      /\ \A a \in Addresses : /\ d[a].next = cell[a].next /\ d[a].prev = cell[a].prev
                              /\ d[a].val = IF a = n THEN 0 ELSE cell[a].val
  BY PutVal
<1> HIDE DEF d
<1>2. /\ c \in CellsType
      /\ \A a \in Addresses : /\ c[a].next = d[a].next /\ c[a].prev = d[a].prev
                              /\ c[a].val = IF a = n THEN val ELSE d[a].val
  BY <1>1, PutVal
<1> HIDE DEF c
<1>3. QED
  BY <1>1, <1>2 DEF c, d, Calloc

\* The first node of a list.
LEMMA PushFirst ==
    ASSUME HeapInv, Followed, odd = 0, NEW val \in Values, NEW way \in Ways, Push(val, way),
           start["next"] = NULL
    PROVE  Followed'
<1> DEFINE n == NewNode
<1>1. n \in Addresses /\ DOMAIN owned' = DOMAIN owned \cup {n} /\ n # NULL
  BY NewBlock, ArenaNumbers DEF Push
<1>2. /\ start["prev"] = NULL /\ items = <<>> /\ cell \in CellsType /\ right \in SUBSET Ways
      /\ \E w \in Ways : start[w] = NULL
  BY DEF Followed, Ways
<1>3. start' = [w \in Ways |-> n]
  BY <1>2 DEF Push
<1>4. items' = <<[at |-> n, val |-> val]>>
  <2>1. items' = IF way = "next" THEN Append(items, [at |-> n, val |-> val])
                 ELSE <<[at |-> n, val |-> val]>> \o items
    BY DEF Push
  <2> DEFINE item == [at |-> n, val |-> val]
  <2>2. Append(<<>>, item) = <<item>> /\ <<item>> \o <<>> = <<item>>
    <3> HIDE DEF item
    <3>1. QED
      OBVIOUS
  <2>3. QED
    BY <1>2, <2>1, <2>2
<1>5. right' = right \ {w \in Ways : cell[n][w] # NULL}
  BY <1>2 DEF Push, Spoils
<1>6. /\ cell' \in CellsType
      /\ \A a \in Addresses : /\ cell'[a].next = cell[a].next /\ cell'[a].prev = cell[a].prev
                              /\ cell'[a].val = IF a = n THEN val ELSE cell[a].val
  <2>1. cell' = Put(Calloc(cell, n), n, "val", val)
    BY <1>2 DEF Push, Linked
  <2>2. QED
    BY <1>1, <1>2, <2>1, NodeFilled
<1> HIDE DEF n
<1>7. start'["next"] = n /\ start'["prev"] = n /\ start' \in [Ways -> Pointing]
  BY <1>1, <1>3 DEF Ways, Pointing
<1>8. PICK c \in Seq(Addresses) : Len(c) = 1 /\ c[1] = n
  <2>1. <<n>> \in Seq(Addresses) /\ Len(<<n>>) = 1 /\ <<n>>[1] = n
    BY <1>1
  <2>2. QED
    BY <2>1
<1>9. items' \in Seq([at : Addresses, val : Values]) /\ Len(items') = 1 /\ items' # <<>>
      /\ items'[1] = [at |-> n, val |-> val]
  <2> DEFINE item == [at |-> n, val |-> val]
  <2>1. item \in [at : Addresses, val : Values]
    BY <1>1
  <2> HIDE DEF item
  <2>2. <<item>> \in Seq([at : Addresses, val : Values]) /\ Len(<<item>>) = 1 /\ <<item>> # <<>>
        /\ <<item>>[1] = item
    BY <2>1
  <2>3. QED
    BY <1>4, <2>2 DEF item
<1>10. Chain(c, 0)'
  <2>1. cell'[n].val = val /\ n \in DOMAIN owned'
    BY <1>1, <1>6
  <2>2. "next" \in right' => cell'[n].next = NULL
    BY <1>1, <1>5, <1>6 DEF Ways
  <2>3. "prev" \in right' => cell'[n].prev = NULL
    BY <1>1, <1>5, <1>6 DEF Ways
  <2>4. \A i \in 1 .. Len(items') : i = 1 /\ items'[i].at = n /\ items'[i].val = val
    BY <1>9
  <2>5. 0 + 1 = 1 /\ 1 - 1 = 0 /\ Len(c) = 0 + Len(items')
    BY <1>8, <1>9
  <2>6. QED
    BY <1>7, <1>8, <1>9, <2>1, <2>2, <2>3, <2>4, <2>5 DEF Chain
<1>11. right' \in SUBSET Ways
  BY <1>2, <1>5
<1>12. start'["next"] # NULL /\ start'["prev"] # NULL
  BY <1>1, <1>7
<1>13. QED
  BY <1>6, <1>7, <1>8, <1>10, <1>11, <1>12 DEF Followed

\* What a push behind another node finds, if it spoils nothing.
LEMMA PushBehind ==
    ASSUME HeapInv, Followed, odd = 0, NEW val \in Values, NEW way \in Ways, Push(val, way),
           start["next"] # NULL, right' # {}
    PROVE  /\ right' = right /\ cell[NewNode][way] = NULL /\ items # <<>>
           /\ Behind(way).at = start[Back(way)]
           /\ start' = [start EXCEPT ![Back(way)] = NewNode]
           /\ cell' = Put(Put(Put(Calloc(cell, NewNode), NewNode, "val", val),
                              start[Back(way)], way, NewNode),
                          NewNode, Back(way), start[Back(way)])
<1>1. ~ \E w \in Ways : start[w] = NULL
  BY DEF Followed, Ways
<1>2. right' = right \ Spoils(NewNode, way) /\ right \in SUBSET Ways
  BY DEF Push, Followed
<1>3. Spoils(NewNode, way) # {way, Back(way)}
  BY <1>2, TwoWays
<1>4. Spoils(NewNode, way) =
          IF cell[NewNode][way] # NULL \/ items = <<>> THEN {way, Back(way)}
          ELSE IF Behind(way).at # start[Back(way)] THEN {way, Back(way)} ELSE {}
  BY <1>1 DEF Spoils
<1>5. /\ start' = [start EXCEPT ![Back(way)] = NewNode]
      /\ cell' = Linked(NewNode, val, way)
  BY <1>1 DEF Push
<1>6. QED
  BY <1>1, <1>2, <1>3, <1>4, <1>5 DEF Linked

LEMMA PushBackKeeps ==
    ASSUME HeapInv, Followed, odd = 0, NEW val \in Values, Push(val, "next"),
           start["next"] # NULL, right' # {}
    PROVE  Followed'
<1> DEFINE n == NewNode
           last == start["prev"]
           item == [at |-> n, val |-> val]
<1>1. n \in Addresses /\ n \notin DOMAIN owned /\ DOMAIN owned' = DOMAIN owned \cup {n} /\ n # NULL
  BY NewBlock, ArenaNumbers DEF Push
<1>2. PICK c \in Seq(Addresses), k \in Nat : Chain(c, k)
  BY DEF Followed
<1>3. "next" \in Ways /\ "prev" \in Ways /\ Back("next") = "prev"
  BY DEF Ways, Back
<1>4. /\ right' = right /\ cell[n].next = NULL /\ items # <<>> /\ Last(items).at = last
      /\ start' = [start EXCEPT !["prev"] = n]
      /\ cell' = Put(Put(Put(Calloc(cell, n), n, "val", val), last, "next", n), n, "prev", last)
  BY <1>3, PushBehind DEF Behind
<1>5. items' = Append(items, item)
  BY DEF Push
<1>6. start \in [Ways -> Pointing] /\ cell \in CellsType /\ right \in SUBSET Ways
  BY DEF Followed
<1>7. last \in Addresses /\ last \in Pointing /\ n \in Pointing
  BY <1>1, <1>2, ChainFacts DEF Pointing
<1> DEFINE N == Len(items)
           m == Len(c)
<1>8. /\ N \in Nat \ {0} /\ m = k + N /\ m \in Nat /\ DOMAIN items = 1 .. N
      /\ c \in [1 .. m -> Addresses] /\ \A i \in 1 .. m : c[i] \in Addresses /\ c[i] # NULL
      /\ \A i \in 1 .. N : /\ k + i \in 1 .. m /\ c[k + i] = items[i].at
                           /\ cell[items[i].at].val = items[i].val /\ items[i].at \in DOMAIN owned
                           /\ items[i].at \in Addresses /\ items[i].val \in Values
  BY <1>2, ChainFacts
<1>9. /\ items \in Seq([at : Addresses, val : Values])
      /\ \A i, j \in 1 .. m : c[i] = c[j] => i = j
      /\ start["next"] = c[1]
      /\ \A i \in 1 .. m - 1 : cell[c[i]].next = c[i + 1]
      /\ \A i \in k + 1 .. m - 1 : cell[c[i + 1]].prev = c[i]
      /\ "next" \in right => k = 0 /\ cell[c[m]].next = NULL
      /\ "prev" \in right => start["prev"] = c[m] /\ cell[c[k + 1]].prev = NULL
  BY <1>2 DEF Chain
<1>10. /\ cell' \in CellsType
       /\ \A a \in Addresses : /\ cell'[a].next = IF a = last THEN n ELSE cell[a].next
                               /\ cell'[a].prev = IF a = n THEN last ELSE cell[a].prev
                               /\ cell'[a].val = IF a = n THEN val ELSE cell[a].val
  <2> DEFINE c0 == Put(Calloc(cell, n), n, "val", val)
             c1 == Put(c0, last, "next", n)
             c2 == Put(c1, n, "prev", last)
  <2> HIDE DEF n, last
  <2>1. /\ c0 \in CellsType
        /\ \A a \in Addresses : /\ c0[a].next = cell[a].next /\ c0[a].prev = cell[a].prev
                                /\ c0[a].val = IF a = n THEN val ELSE cell[a].val
    BY <1>1, <1>6, NodeFilled
  <2> HIDE DEF c0
  <2>2. /\ c1 \in CellsType
        /\ \A a \in Addresses : /\ c1[a].val = c0[a].val /\ c1[a].prev = c0[a].prev
                                /\ c1[a].next = IF a = last THEN n ELSE c0[a].next
    BY <1>7, <2>1, PutNext
  <2> HIDE DEF c1
  <2>3. /\ c2 \in CellsType
        /\ \A a \in Addresses : /\ c2[a].val = c1[a].val /\ c2[a].next = c1[a].next
                                /\ c2[a].prev = IF a = n THEN last ELSE c1[a].prev
    BY <1>7, <2>2, PutPrev
  <2>4. cell' = c2
    BY <1>4 DEF c0, c1
  <2> HIDE DEF c2
  <2>5. QED
    BY <2>1, <2>2, <2>3, <2>4
<1>11. start'["next"] = c[1] /\ start'["prev"] = n /\ start' \in [Ways -> Pointing]
  BY <1>3, <1>4, <1>6, <1>7, <1>9 DEF Ways
<1>12. c[m] = last
  <2>1. N \in 1 .. N /\ Last(items) = items[N]
    BY <1>8 DEF Last
  <2>2. QED
    BY <1>4, <1>8, <2>1
<1> HIDE DEF n, last, N
<1>13. items' \in Seq([at : Addresses, val : Values]) /\ Len(items') = N + 1 /\ items' # <<>>
       /\ \A i \in 1 .. N + 1 : items'[i] = IF i = N + 1 THEN item ELSE items[i]
  <2>1. item \in [at : Addresses, val : Values]
    BY <1>1
  <2> HIDE DEF item
  <2>2. /\ items' \in Seq([at : Addresses, val : Values]) /\ items' # <<>> /\ Len(items') = N + 1
        /\ \A i \in 1 .. N : items'[i] = items[i]
        /\ items'[N + 1] = item
    BY <1>5, <1>9, <2>1, AppendProperties DEF N
  <2>3. QED
    BY <1>8, <2>2
<1>14. PICK d \in Seq(Addresses) : /\ Len(d) = m + 1
                                   /\ \A i \in 1 .. m : d[i] = c[i]
                                   /\ d[m + 1] = n
  <2> DEFINE e == Append(c, n)
  <2>1. /\ e \in Seq(Addresses) /\ Len(e) = m + 1
        /\ \A i \in 1 .. m : e[i] = c[i]
        /\ e[m + 1] = n
    BY <1>1, AppendProperties
  <2> HIDE DEF e
  <2>2. QED
    BY <2>1
<1> HIDE DEF m, item
<1>15. \A i \in 1 .. m : c[i] # n
  <2>1. SUFFICES ASSUME NEW i \in 1 .. m, c[i] = n PROVE FALSE
    OBVIOUS
  <2>2. CASE i < m
    <3>1. cell[c[i]].next = c[i + 1] /\ c[i + 1] # NULL
      BY <1>8, <1>9, <2>2
    <3>2. QED
      BY <1>4, <2>1, <3>1 DEF n
  <2>3. CASE i = m
    <3>1. N \in 1 .. N /\ k + N = m
      BY <1>8
    <3>2. c[m] \in DOMAIN owned
      BY <1>8, <3>1
    <3>3. QED
      BY <1>1, <2>1, <2>3, <3>2
  <2>4. QED
    BY <1>8, <2>2, <2>3
<1>16. Chain(d, k)'
  <2>1. Len(d) = k + Len(items')
    BY <1>8, <1>13, <1>14
  <2>2. ASSUME NEW i \in 1 .. N + 1
        PROVE  /\ d[k + i] = items'[i].at /\ cell'[items'[i].at].val = items'[i].val
               /\ items'[i].at \in DOMAIN owned'
    <3>1. CASE i = N + 1
      <4>1. d[k + i] = n
        BY <1>8, <1>14, <3>1
      <4>2. items'[i] = item
        BY <1>13, <3>1
      <4>3. item.at = n /\ item.val = val
        BY DEF item
      <4>4. cell'[n].val = val
        BY <1>1, <1>10
      <4>5. QED
        BY <1>1, <4>1, <4>2, <4>3, <4>4
    <3>2. CASE i # N + 1
      <4>1. i \in 1 .. N
        BY <1>8, <3>2
      <4>2. items'[i] = items[i] /\ d[k + i] = c[k + i]
        BY <1>8, <1>13, <1>14, <4>1
      <4>3. items[i].at # n
        BY <1>8, <1>15, <4>1
      <4>4. cell'[items[i].at].val = cell[items[i].at].val
        BY <1>8, <1>10, <4>1, <4>3
      <4>5. QED
        BY <1>1, <1>8, <4>1, <4>2, <4>4
    <3>3. QED
      BY <3>1, <3>2
  <2>3. \A i, j \in 1 .. m + 1 : d[i] = d[j] => i = j
    <3>1. SUFFICES ASSUME NEW i \in 1 .. m + 1, NEW j \in 1 .. m + 1, d[i] = d[j] PROVE i = j
      OBVIOUS
    <3>2. CASE i = m + 1 /\ j = m + 1
      BY <3>2
    <3>3. CASE i \in 1 .. m /\ j \in 1 .. m
      BY <1>9, <1>14, <3>1, <3>3
    <3>4. CASE i = m + 1 /\ j \in 1 .. m
      BY <1>14, <1>15, <3>1, <3>4
    <3>5. CASE j = m + 1 /\ i \in 1 .. m
      BY <1>14, <1>15, <3>1, <3>5
    <3>6. QED
      BY <1>8, <3>2, <3>3, <3>4, <3>5
  <2>4. start'["next"] = d[1] /\ start'["prev"] = d[m + 1]
    BY <1>8, <1>11, <1>14
  <2>5. \A i \in 1 .. m : cell'[d[i]].next = d[i + 1]
    <3>1. TAKE i \in 1 .. m
    <3>2. CASE i = m
      BY <1>8, <1>10, <1>12, <1>14, <3>2
    <3>3. CASE i # m
      <4>1. i \in 1 .. m - 1 /\ i + 1 \in 1 .. m /\ m \in 1 .. m
        BY <1>8, <3>3
      <4>2. c[i] # last
        BY <1>9, <1>12, <3>3, <4>1
      <4>3. cell'[c[i]].next = cell[c[i]].next
        BY <1>8, <1>10, <4>2
      <4>4. QED
        BY <1>9, <1>14, <4>1, <4>3
    <3>4. QED
      BY <3>2, <3>3
  <2>6. \A i \in k + 1 .. m : cell'[d[i + 1]].prev = d[i]
    <3>1. TAKE i \in k + 1 .. m
    <3>2. CASE i = m
      BY <1>1, <1>8, <1>10, <1>12, <1>14, <3>2
    <3>3. CASE i # m
      <4>1. i \in k + 1 .. m - 1 /\ i + 1 \in 1 .. m /\ i \in 1 .. m
        BY <1>8, <3>3
      <4>2. cell'[c[i + 1]].prev = cell[c[i + 1]].prev
        BY <1>8, <1>10, <1>15, <4>1
      <4>3. QED
        BY <1>9, <1>14, <4>1, <4>2
    <3>4. QED
      BY <3>2, <3>3
  <2>7. "next" \in right' => k = 0 /\ cell'[d[m + 1]].next = NULL
    <3>1. n # last
      <4>1. m \in 1 .. m
        BY <1>8
      <4>2. QED
        BY <1>12, <1>15, <4>1
    <3>2. cell'[n].next = NULL
      BY <1>1, <1>4, <1>10, <3>1 DEF n
    <3>3. QED
      BY <1>4, <1>9, <1>14, <3>2
  <2>8. "prev" \in right' => cell'[d[k + 1]].prev = NULL
    <3>1. k + 1 \in 1 .. m
      BY <1>8
    <3>2. cell'[c[k + 1]].prev = cell[c[k + 1]].prev
      BY <1>8, <1>10, <1>15, <3>1
    <3>3. QED
      BY <1>4, <1>9, <1>14, <3>1, <3>2
  <2>9. Len(d) = m + 1 /\ (m + 1) - 1 = m /\ Len(items') = N + 1
    BY <1>8, <1>13, <1>14
  <2>10. QED
    BY <1>13, <2>1, <2>2, <2>3, <2>4, <2>5, <2>6, <2>7, <2>8, <2>9 DEF Chain
<1>17. start'["next"] # NULL /\ start'["prev"] # NULL
  <2>1. 1 \in 1 .. m
    BY <1>8
  <2>2. QED
    BY <1>1, <1>8, <1>11, <2>1
<1>18. QED
  BY <1>4, <1>6, <1>10, <1>11, <1>14, <1>16, <1>17 DEF Followed

LEMMA PushFrontKeeps ==
    ASSUME HeapInv, Followed, odd = 0, NEW val \in Values, Push(val, "prev"),
           start["next"] # NULL, right' # {}
    PROVE  Followed'
<1> DEFINE n == NewNode
           first == start["next"]
           last == start["prev"]
           item == [at |-> n, val |-> val]
<1>1. n \in Addresses /\ n \notin DOMAIN owned /\ DOMAIN owned' = DOMAIN owned \cup {n} /\ n # NULL
  BY NewBlock, ArenaNumbers DEF Push
<1>2. PICK c \in Seq(Addresses), k \in Nat : Chain(c, k)
  BY DEF Followed
<1>3. "next" \in Ways /\ "prev" \in Ways /\ Back("prev") = "next" /\ "prev" # "next"
  BY DEF Ways, Back
<1>4. /\ right' = right /\ cell[n].prev = NULL /\ items # <<>> /\ Head(items).at = first
      /\ start' = [start EXCEPT !["next"] = n]
      /\ cell' = Put(Put(Put(Calloc(cell, n), n, "val", val), first, "prev", n), n, "next", first)
  BY <1>3, PushBehind DEF Behind
<1>5. items' = <<item>> \o items
  BY <1>3 DEF Push
<1>6. start \in [Ways -> Pointing] /\ cell \in CellsType /\ right \in SUBSET Ways
  BY DEF Followed
<1> DEFINE N == Len(items)
           m == Len(c)
<1>7. /\ N \in Nat \ {0} /\ m = k + N /\ m \in Nat /\ DOMAIN items = 1 .. N
      /\ c \in [1 .. m -> Addresses] /\ \A i \in 1 .. m : c[i] \in Addresses /\ c[i] # NULL
      /\ \A i \in 1 .. N : /\ k + i \in 1 .. m /\ c[k + i] = items[i].at
                           /\ cell[items[i].at].val = items[i].val /\ items[i].at \in DOMAIN owned
                           /\ items[i].at \in Addresses /\ items[i].val \in Values
      /\ last \in Addresses
  BY <1>2, ChainFacts
<1>8. /\ items \in Seq([at : Addresses, val : Values])
      /\ \A i, j \in 1 .. m : c[i] = c[j] => i = j
      /\ first = c[1]
      /\ \A i \in 1 .. m - 1 : cell[c[i]].next = c[i + 1]
      /\ \A i \in k + 1 .. m - 1 : cell[c[i + 1]].prev = c[i]
      /\ \/ last = c[m]
         \/ cell[last].prev # NULL /\ \A i \in k + 1 .. m : c[i] # last
      /\ "next" \in right => k = 0 /\ cell[c[m]].next = NULL
      /\ "prev" \in right => last = c[m] /\ cell[c[k + 1]].prev = NULL
  BY <1>2 DEF Chain
<1>9. first \in Addresses /\ first \in Pointing /\ n \in Pointing
  <2>1. 1 \in 1 .. m
    <3> HIDE DEF m, N
    <3>1. QED
      BY <1>7
  <2>2. first \in Addresses
    BY <1>7, <1>8, <2>1
  <2>3. QED
    BY <1>1, <2>2 DEF Pointing
<1>10. /\ cell' \in CellsType
       /\ \A a \in Addresses : /\ cell'[a].prev = IF a = first THEN n ELSE cell[a].prev
                               /\ cell'[a].next = IF a = n THEN first ELSE cell[a].next
                               /\ cell'[a].val = IF a = n THEN val ELSE cell[a].val
  <2> DEFINE c0 == Put(Calloc(cell, n), n, "val", val)
             c1 == Put(c0, first, "prev", n)
             c2 == Put(c1, n, "next", first)
  <2> HIDE DEF n, first
  <2>1. /\ c0 \in CellsType
        /\ \A a \in Addresses : /\ c0[a].next = cell[a].next /\ c0[a].prev = cell[a].prev
                                /\ c0[a].val = IF a = n THEN val ELSE cell[a].val
    BY <1>1, <1>6, NodeFilled
  <2> HIDE DEF c0
  <2>2. /\ c1 \in CellsType
        /\ \A a \in Addresses : /\ c1[a].val = c0[a].val /\ c1[a].next = c0[a].next
                                /\ c1[a].prev = IF a = first THEN n ELSE c0[a].prev
    BY <1>9, <2>1, PutPrev
  <2> HIDE DEF c1
  <2>3. /\ c2 \in CellsType
        /\ \A a \in Addresses : /\ c2[a].val = c1[a].val /\ c2[a].prev = c1[a].prev
                                /\ c2[a].next = IF a = n THEN first ELSE c1[a].next
    BY <1>9, <2>2, PutNext
  <2>4. cell' = c2
    BY <1>4 DEF c0, c1
  <2> HIDE DEF c2
  <2>5. QED
    BY <2>1, <2>2, <2>3, <2>4
<1>11. start'["next"] = n /\ start'["prev"] = last /\ start' \in [Ways -> Pointing]
  BY <1>3, <1>4, <1>6, <1>9 DEF Ways
<1>12. k = 0
  <2>1. 1 \in 1 .. N /\ Head(items) = items[1]
    BY <1>4, <1>7, <1>8
  <2>2. c[k + 1] = c[1] /\ k + 1 \in 1 .. m /\ 1 \in 1 .. m
    <3>1. c[k + 1] = first
      BY <1>4, <1>7, <2>1
    <3> HIDE DEF N, m, first
    <3>2. QED
      BY <1>7, <1>8, <2>1, <3>1
  <2>3. QED
    BY <1>8, <2>2
<1> HIDE DEF n, first, last, N
<1>13. items' \in Seq([at : Addresses, val : Values]) /\ Len(items') = N + 1 /\ items' # <<>>
       /\ items'[1] = item /\ \A i \in 1 .. N : items'[i + 1] = items[i]
  <2>1. item \in [at : Addresses, val : Values]
    BY <1>1
  <2> HIDE DEF item
  <2>2. <<item>> \in Seq([at : Addresses, val : Values]) /\ Len(<<item>>) = 1 /\ <<item>>[1] = item
    BY <2>1
  <2>3. /\ items' \in Seq([at : Addresses, val : Values]) /\ Len(items') = 1 + N
        /\ \A i \in 1 .. 1 + N : items'[i] = IF i <= 1 THEN <<item>>[i] ELSE items[i - 1]
    BY <1>5, <1>8, <2>2, ConcatProperties DEF N
  <2>4. items'[1] = item
    BY <1>7, <2>2, <2>3
  <2>5. ASSUME NEW i \in 1 .. N PROVE items'[i + 1] = items[i]
    <3>1. i + 1 \in 1 .. 1 + N /\ ~(i + 1 <= 1) /\ (i + 1) - 1 = i
      BY <1>7
    <3>2. QED
      BY <2>3, <3>1
  <2>6. Len(items') = N + 1 /\ items' # <<>>
    <3>1. Len(items') = N + 1 /\ Len(items') # 0
      BY <1>7, <2>3
    <3>2. QED
      BY <2>3, <3>1, EmptySeq
  <2>7. QED
    BY <2>3, <2>4, <2>5, <2>6
<1>14. PICK d \in Seq(Addresses) : /\ Len(d) = m + 1
                                   /\ d[1] = n
                                   /\ \A i \in 1 .. m : d[i + 1] = c[i]
  <2> DEFINE e == <<n>> \o c
  <2> HIDE DEF m
  <2>1. <<n>> \in Seq(Addresses) /\ Len(<<n>>) = 1 /\ <<n>>[1] = n
    BY <1>1
  <2>2. /\ e \in Seq(Addresses) /\ Len(e) = 1 + m
        /\ \A i \in 1 .. 1 + m : e[i] = IF i <= 1 THEN <<n>>[i] ELSE c[i - 1]
    BY <2>1, ConcatProperties DEF m
  <2> HIDE DEF e
  <2>3. e[1] = n /\ Len(e) = m + 1
    BY <1>7, <2>1, <2>2
  <2>4. ASSUME NEW i \in 1 .. m PROVE e[i + 1] = c[i]
    <3>1. i + 1 \in 1 .. 1 + m /\ ~(i + 1 <= 1) /\ (i + 1) - 1 = i
      BY <1>7
    <3>2. QED
      BY <2>2, <3>1
  <2>5. QED
    BY <2>2, <2>3, <2>4
<1> HIDE DEF m, item
<1>15. /\ m = N /\ \A i \in 1 .. m : /\ c[i] = items[i].at /\ c[i] # n
                                     /\ cell[c[i]].val = items[i].val /\ c[i] \in DOMAIN owned
                                     /\ c[i] \in Addresses
  <2>1. m = N
    BY <1>7, <1>12
  <2>2. ASSUME NEW i \in 1 .. m
        PROVE  /\ c[i] = items[i].at /\ cell[c[i]].val = items[i].val /\ c[i] \in DOMAIN owned
               /\ c[i] \in Addresses
    <3>1. i \in 1 .. N /\ k + i = i
      BY <1>12, <2>1
    <3>2. QED
      BY <1>7, <3>1
  <2>3. QED
    BY <1>1, <2>1, <2>2
<1>16. /\ Len(d) = m + 1 /\ Len(items') = m + 1 /\ m \in Nat /\ 1 \in 1 .. m
       /\ \A i \in 1 .. m : c[i] \in Addresses /\ cell'[c[i]].val = cell[c[i]].val
                            /\ cell'[c[i]].next = cell[c[i]].next
                            /\ cell'[c[i]].prev = IF i = 1 THEN n ELSE cell[c[i]].prev
  <2>1. m \in Nat /\ 1 \in 1 .. m
    BY <1>7, <1>15
  <2>2. \A i \in 1 .. m : c[i] = first <=> i = 1
    BY <1>8, <2>1
  <2>3. QED
    BY <1>10, <1>13, <1>14, <1>15, <2>1, <2>2
<1>17. Chain(d, 0)'
  <2>1. ASSUME NEW i \in 1 .. m + 1
        PROVE  /\ d[i] = items'[i].at /\ cell'[items'[i].at].val = items'[i].val
               /\ items'[i].at \in DOMAIN owned'
    <3>1. CASE i = 1
      <4>1. item.at = n /\ item.val = val
        BY DEF item
      <4>2. cell'[n].val = val
        BY <1>1, <1>10
      <4>3. QED
        BY <1>1, <1>13, <1>14, <3>1, <4>1, <4>2
    <3>2. CASE i # 1
      <4>1. PICK j \in 1 .. m : i = j + 1
        <5>1. i - 1 \in 1 .. m /\ i = (i - 1) + 1
          BY <1>16, <3>2
        <5>2. QED
          BY <5>1
      <4>2. items'[i] = items[j] /\ d[i] = c[j]
        BY <1>13, <1>14, <1>15, <4>1
      <4>3. QED
        BY <1>1, <1>15, <1>16, <4>2
    <3>3. QED
      BY <3>1, <3>2
  <2>2. \A i, j \in 1 .. m + 1 : d[i] = d[j] => i = j
    <3>1. SUFFICES ASSUME NEW i \in 1 .. m + 1, NEW j \in 1 .. m + 1, d[i] = d[j] PROVE i = j
      OBVIOUS
    <3>2. \A h \in 1 .. m + 1 : h = 1 \/ \E g \in 1 .. m : h = g + 1 /\ d[h] = c[g]
      <4>1. TAKE h \in 1 .. m + 1
      <4>2. h = 1 \/ (h - 1 \in 1 .. m /\ h = (h - 1) + 1)
        BY <1>16
      <4>3. QED
        BY <1>14, <4>2
    <3>3. CASE i = 1
      BY <1>14, <1>15, <3>1, <3>2, <3>3
    <3>4. CASE j = 1
      BY <1>14, <1>15, <3>1, <3>2, <3>4
    <3>5. CASE i # 1 /\ j # 1
      <4>1. PICK g \in 1 .. m : i = g + 1 /\ d[i] = c[g]
        BY <3>2, <3>5
      <4>2. PICK h \in 1 .. m : j = h + 1 /\ d[j] = c[h]
        BY <3>2, <3>5
      <4>3. g = h
        BY <1>8, <3>1, <4>1, <4>2
      <4>4. QED
        BY <4>1, <4>2, <4>3
    <3>6. QED
      BY <3>3, <3>4, <3>5
  <2>3. \A i \in 1 .. m : cell'[d[i]].next = d[i + 1]
    <3>1. TAKE i \in 1 .. m
    <3>2. CASE i = 1
      BY <1>1, <1>8, <1>10, <1>14, <1>16, <3>2
    <3>3. CASE i # 1
      <4>1. PICK j \in 1 .. m - 1 : i = j + 1
        <5>1. i - 1 \in 1 .. m - 1 /\ i = (i - 1) + 1
          BY <1>16, <3>3
        <5>2. QED
          BY <5>1
      <4>2. j \in 1 .. m /\ d[i] = c[j] /\ d[i + 1] = c[j + 1]
        BY <1>14, <1>16, <4>1
      <4>3. QED
        BY <1>8, <1>16, <4>1, <4>2
    <3>4. QED
      BY <3>2, <3>3
  <2>4. \A i \in 1 .. m : cell'[d[i + 1]].prev = d[i]
    <3>1. TAKE i \in 1 .. m
    <3>2. CASE i = 1
      BY <1>14, <1>16, <3>2
    <3>3. CASE i # 1
      <4>1. PICK j \in 1 .. m - 1 : i = j + 1
        <5>1. i - 1 \in 1 .. m - 1 /\ i = (i - 1) + 1
          BY <1>16, <3>3
        <5>2. QED
          BY <5>1
      <4>2. j \in 1 .. m /\ d[i] = c[j] /\ d[i + 1] = c[j + 1] /\ j \in k + 1 .. m - 1
        BY <1>12, <1>14, <1>16, <4>1
      <4>3. cell[c[j + 1]].prev = c[j]
        BY <1>8, <4>2
      <4>4. QED
        BY <1>16, <3>3, <4>1, <4>2, <4>3
    <3>4. QED
      BY <3>2, <3>3
  <2>5. d[m + 1] = c[m]
    BY <1>14, <1>16
  <2>6. \/ start'["prev"] = d[m + 1]
        \/ cell'[start'["prev"]].prev # NULL /\ \A i \in 1 .. m + 1 : d[i] # start'["prev"]
    <3>1. CASE last = c[m]
      BY <1>11, <2>5, <3>1
    <3>2. CASE cell[last].prev # NULL /\ \A i \in k + 1 .. m : c[i] # last
      <4>1. last # n
        BY <1>4, <3>2 DEF n
      <4>2. \A i \in 1 .. m : c[i] # last
        BY <1>12, <3>2
      <4>3. last # first
        BY <1>8, <1>16, <4>2
      <4>4. cell'[last].prev # NULL
        BY <1>7, <1>10, <3>2, <4>3
      <4>5. \A i \in 1 .. m + 1 : d[i] # last
        <5>1. TAKE i \in 1 .. m + 1
        <5>2. i = 1 \/ (i - 1 \in 1 .. m /\ i = (i - 1) + 1)
          BY <1>16
        <5>3. QED
          BY <1>14, <4>1, <4>2, <5>2
      <4>6. QED
        BY <1>11, <4>4, <4>5
    <3>3. QED
      BY <1>8, <3>1, <3>2
  <2>7. "next" \in right' => cell'[d[m + 1]].next = NULL
    BY <1>4, <1>8, <1>16, <2>5
  <2>8. "prev" \in right' => start'["prev"] = d[m + 1] /\ cell'[d[1]].prev = NULL
    <3>1. n # first
      BY <1>8, <1>15, <1>16
    <3>2. cell'[n].prev = NULL
      BY <1>1, <1>4, <1>10, <3>1 DEF n
    <3>3. QED
      BY <1>4, <1>8, <1>11, <1>14, <2>5, <3>2
  <2>9. /\ Len(d) = 0 + Len(items') /\ 0 + 1 = 1 /\ (m + 1) - 1 = m /\ start'["next"] = d[1]
        /\ \A i \in 1 .. m + 1 : 0 + i = i
    BY <1>11, <1>14, <1>16
  <2>10. QED
    BY <1>13, <1>16, <2>1, <2>2, <2>3, <2>4, <2>6, <2>7, <2>8, <2>9 DEF Chain
<1>18. start'["next"] # NULL /\ start'["prev"] # NULL
  BY <1>1, <1>7, <1>11, ArenaNumbers
<1>19. QED
  BY <1>4, <1>6, <1>10, <1>11, <1>14, <1>17, <1>18 DEF Followed

LEMMA PushKeeps ==
    ASSUME HeapInv, Followed, odd = 0, NEW val \in Values, NEW way \in Ways, Push(val, way),
           right' # {}
    PROVE  Followed'
<1>1. CASE start["next"] = NULL
  BY <1>1, PushFirst
<1>2. CASE start["next"] # NULL /\ way = "next"
  BY <1>2, PushBackKeeps
<1>3. CASE start["next"] # NULL /\ way = "prev"
  BY <1>3, PushFrontKeeps
<1>4. QED
  BY <1>1, <1>2, <1>3 DEF Ways

-----------------------------------------------------------------------------
LEMMA RemoveAtIs ==
    ASSUME NEW S, NEW s \in Seq(S), NEW j \in 1 .. Len(s)
    PROVE  /\ RemoveAt(s, j) \in Seq(S) /\ Len(RemoveAt(s, j)) = Len(s) - 1
           /\ \A i \in 1 .. Len(s) - 1 : RemoveAt(s, j)[i] = IF i < j THEN s[i] ELSE s[i + 1]
<1> DEFINE n == Len(s)
           a == SubSeq(s, 1, j - 1)
           b == SubSeq(s, j + 1, n)
<1>1. n \in Nat /\ j \in 1 .. n /\ \A i \in 1 .. n : s[i] \in S
  BY LenProperties
<1> HIDE DEF n
<1>2. /\ a \in Seq(S) /\ Len(a) = IF 1 <= j - 1 THEN (j - 1) - 1 + 1 ELSE 0
      /\ \A i \in 1 .. (j - 1) - 1 + 1 : a[i] = s[1 + i - 1]
  <2>1. \A i \in 1 .. j - 1 : s[i] \in S
    BY <1>1
  <2>2. QED
    BY <1>1, <2>1, SubSeqProperties
<1>3. /\ b \in Seq(S) /\ Len(b) = IF j + 1 <= n THEN n - (j + 1) + 1 ELSE 0
      /\ \A i \in 1 .. n - (j + 1) + 1 : b[i] = s[j + 1 + i - 1]
  <2>1. \A i \in j + 1 .. n : s[i] \in S
    BY <1>1
  <2>2. QED
    BY <1>1, <2>1, SubSeqProperties
<1> HIDE DEF a, b
<1>4. Len(a) = j - 1 /\ \A i \in 1 .. j - 1 : a[i] = s[i]
  BY <1>1, <1>2
<1>5. Len(b) = n - j /\ \A i \in 1 .. n - j : b[i] = s[j + i]
  <2>1. Len(b) = n - j
    BY <1>1, <1>3
  <2>2. ASSUME NEW i \in 1 .. n - j PROVE b[i] = s[j + i]
    <3>1. i \in 1 .. n - (j + 1) + 1 /\ j + 1 + i - 1 = j + i
      BY <1>1
    <3>2. QED
      BY <1>3, <3>1
  <2>3. QED
    BY <2>1, <2>2
<1>6. /\ a \o b \in Seq(S) /\ Len(a \o b) = Len(a) + Len(b)
      /\ \A i \in 1 .. Len(a) + Len(b) : (a \o b)[i] = IF i <= Len(a) THEN a[i] ELSE b[i - Len(a)]
  BY <1>2, <1>3, ConcatProperties
<1>7. Len(a) + Len(b) = n - 1
  BY <1>1, <1>4, <1>5
<1>8. ASSUME NEW i \in 1 .. n - 1 PROVE (a \o b)[i] = IF i < j THEN s[i] ELSE s[i + 1]
  <2>1. CASE i < j
    <3>1. i \in 1 .. j - 1 /\ i <= Len(a) /\ i \in 1 .. Len(a) + Len(b)
      BY <1>1, <1>4, <1>7, <2>1
    <3>2. QED
      BY <1>4, <1>6, <2>1, <3>1
  <2>2. CASE ~(i < j)
    <3>1. /\ i \in 1 .. Len(a) + Len(b) /\ ~(i <= Len(a)) /\ i - Len(a) \in 1 .. n - j
          /\ j + (i - Len(a)) = i + 1
      BY <1>1, <1>4, <1>7, <2>2
    <3>2. QED
      BY <1>5, <1>6, <2>2, <3>1
  <2>3. QED
    BY <2>1, <2>2
<1>9. QED
  BY <1>6, <1>7, <1>8 DEF RemoveAt, a, b, n

\* The first item with a value is the one that the history forgets.
LEMMA WithoutIs ==
    ASSUME NEW j \in DOMAIN items, DOMAIN items = 1 .. Len(items), Len(items) \in Nat,
           NEW val, items[j].val = val, \A i \in 1 .. j - 1 : items[i].val # val
    PROVE  Without(val) = RemoveAt(items, j)
<1> DEFINE hits == {i \in DOMAIN items : items[i].val = val}
           h == CHOOSE i \in hits : \A g \in hits : i <= g
<1>1. j \in hits /\ \A g \in hits : j <= g
  <2>1. ASSUME NEW g \in hits PROVE j <= g
    <3>1. g \in 1 .. Len(items) /\ items[g].val = val /\ j \in 1 .. Len(items)
      OBVIOUS
    <3>2. ~(g \in 1 .. j - 1)
      BY <3>1
    <3>3. QED
      BY <3>1, <3>2
  <2>2. QED
    BY <2>1
<1>2. h \in hits /\ \A g \in hits : h <= g
  BY <1>1
<1>3. h = j
  <2>1. h <= j /\ j <= h
    BY <1>1, <1>2
  <2>2. h \in 1 .. Len(items) /\ j \in 1 .. Len(items)
    BY <1>2
  <2> HIDE DEF h, hits
  <2>3. QED
    BY <2>1, <2>2
<1>4. Without(val) = IF hits = {} THEN items ELSE RemoveAt(items, h)
  BY DEF Without
<1> HIDE DEF hits, h
<1>5. QED
  BY <1>1, <1>3, <1>4

\* A node that the search finds is, if it is an item's, the one of the first item with
\* the value.
Met == Walk("next")
Hits(val) == {i \in DOMAIN Met : cell[Met[i]].val = val}
Found(val) == Met[CHOOSE i \in Hits(val) : \A j \in Hits(val) : i <= j]

LEMMA FoundFirst ==
    ASSUME Followed, NEW c \in Seq(Addresses), NEW k \in Nat, Chain(c, k), NEW val,
           Hits(val) # {}, NEW j \in 1 .. Len(items), items[j].at = Found(val)
    PROVE  /\ items[j].val = val /\ \A i \in 1 .. j - 1 : items[i].val # val
           /\ Without(val) = RemoveAt(items, j)
<1> DEFINE least == CHOOSE i \in Hits(val) : \A g \in Hits(val) : i <= g
           W == Met
           m == Len(c)
<1>1. /\ Len(items) \in Nat \ {0} /\ m = k + Len(items) /\ DOMAIN items = 1 .. Len(items)
      /\ \A i \in 1 .. Len(items) : /\ k + i \in 1 .. m /\ c[k + i] = items[i].at
                                    /\ cell[items[i].at].val = items[i].val
  BY ChainFacts
<1>2. \A i, g \in 1 .. m : c[i] = c[g] => i = g
  BY DEF Chain
<1>3. /\ W \in Seq(Addresses) /\ m <= Len(W) /\ \A i \in 1 .. m : W[i] = c[i]
  BY WalkNext DEF Met
<1>4. Len(W) \in Nat /\ DOMAIN W = 1 .. Len(W)
  BY <1>3, LenProperties
<1> HIDE DEF W, m
<1>5. Hits(val) = {i \in 1 .. Len(W) : cell[W[i]].val = val}
  BY <1>4 DEF Hits, W
<1>6. least \in Hits(val) /\ \A g \in Hits(val) : least <= g
  <2>1. Hits(val) \in SUBSET Nat
    BY <1>5
  <2>2. \E i \in Hits(val) : \A g \in Hits(val) : i <= g
    BY <2>1, LeastExists
  <2>3. QED
    BY <2>2
<1>7. Found(val) = W[least]
  BY DEF Found, W
<1> HIDE DEF least
<1>8. least \in 1 .. Len(W) /\ cell[W[least]].val = val
  BY <1>5, <1>6
<1>9. items[j].val = val
  BY <1>1, <1>7, <1>8
<1>10. \A i \in 1 .. Len(items) : items[i].val = val => least <= k + i
  <2>1. SUFFICES ASSUME NEW i \in 1 .. Len(items), items[i].val = val PROVE least <= k + i
    OBVIOUS
  <2>2. k + i \in 1 .. Len(W) /\ W[k + i] = items[i].at
    <3>1. k + i \in 1 .. m /\ m \in Nat
      BY <1>1
    <3>2. QED
      BY <1>1, <1>3, <1>4, <3>1
  <2>3. k + i \in Hits(val)
    BY <1>1, <1>5, <2>1, <2>2
  <2>4. QED
    BY <1>6, <2>3
<1>11. least = k + j
  <2>1. least <= k + j /\ k + j \in 1 .. m
    BY <1>1, <1>9, <1>10
  <2>2. least \in 1 .. m
    BY <1>1, <1>8, <2>1
  <2>3. c[least] = c[k + j]
    BY <1>1, <1>3, <1>7, <2>2
  <2>4. QED
    BY <1>2, <2>1, <2>2, <2>3
<1>12. \A i \in 1 .. j - 1 : items[i].val # val
  <2>1. SUFFICES ASSUME NEW i \in 1 .. j - 1, items[i].val = val PROVE FALSE
    OBVIOUS
  <2>2. i \in 1 .. Len(items)
    BY <1>1
  <2>3. k + j <= k + i
    BY <1>10, <1>11, <2>1, <2>2
  <2>4. QED
    BY <2>3
<1>13. Without(val) = RemoveAt(items, j)
  BY <1>1, <1>9, <1>12, WithoutIs
<1>14. QED
  BY <1>9, <1>12, <1>13

\* head and tail at one item: it is the only one.
LEMMA OnlyItem ==
    ASSUME Followed, NEW c \in Seq(Addresses), NEW k \in Nat, Chain(c, k), right # {},
           start["next"] = start["prev"]
    PROVE  k = 0 /\ Len(items) = 1 /\ items[1].at = start["next"]
<1> DEFINE m == Len(c)
           N == Len(items)
<1>1. N \in Nat \ {0} /\ m = k + N /\ \A i \in 1 .. N : k + i \in 1 .. m /\ c[k + i] = items[i].at
  BY ChainFacts
<1>2. /\ start["next"] = c[1] /\ \A i, j \in 1 .. m : c[i] = c[j] => i = j
      /\ \/ start["prev"] = c[m]
         \/ \A i \in k + 1 .. m : c[i] # start["prev"]
      /\ "next" \in right => k = 0
      /\ "prev" \in right => start["prev"] = c[m]
  BY DEF Chain
<1>3. "next" \in right \/ "prev" \in right
  BY DEF Followed, Ways
<1> HIDE DEF m, N
<1>4. c[1] = c[m]
  <2>1. CASE "next" \in right
    <3>1. k = 0 /\ 1 \in k + 1 .. m
      BY <1>1, <1>2, <2>1
    <3>2. QED
      BY <1>2, <3>1
  <2>2. CASE "prev" \in right
    BY <1>2, <2>2
  <2>3. QED
    BY <1>3, <2>1, <2>2
<1>5. 1 = m
  <2>1. 1 \in 1 .. m /\ m \in 1 .. m
    BY <1>1
  <2>2. QED
    BY <1>2, <1>4, <2>1
<1>6. k = 0 /\ N = 1 /\ k + 1 = 1
  BY <1>1, <1>5
<1>7. QED
  BY <1>1, <1>2, <1>6 DEF N

-----------------------------------------------------------------------------
LEMMA DeleteGives ==
    ASSUME NEW val, Delete(val)
    PROVE  /\ right # {} /\ start["next"] # NULL /\ Hits(val) # {} /\ FreeBlock(Found(val))
           /\ items' = Without(val)
           /\ IF IsOnly(val) THEN start' = Emptied /\ UNCHANGED <<cell, right>>
              ELSE /\ cell' = Unlink(cell, Found(val)) /\ UNCHANGED start
                   /\ right' = IF \E i \in DOMAIN items : items[i].at = Found(val)
                               THEN right \ {w \in Ways : start[w] = Found(val)} ELSE {}
BY DEF Delete, ListCallable, Hits, Found, Met

LEMMA DeleteOnly ==
    ASSUME Followed, NEW val \in Values, Delete(val), IsOnly(val)
    PROVE  Followed'
<1>1. /\ right # {} /\ start["next"] # NULL /\ items' = Without(val)
      /\ start' = Emptied /\ cell' = cell /\ right' = right
  BY DeleteGives
<1>2. PICK c \in Seq(Addresses), k \in Nat : Chain(c, k)
  BY <1>1 DEF Followed
<1>3. start["next"] = start["prev"] /\ cell[start["next"]].val = val
  BY DEF IsOnly
<1>4. Len(items) = 1 /\ items[1].at = start["next"]
  BY <1>1, <1>2, <1>3, OnlyItem
<1>5. items \in Seq([at : Addresses, val : Values]) /\ DOMAIN items = 1 .. 1 /\ items[1].val = val
  <2>1. 1 \in 1 .. Len(items)
    BY <1>4
  <2>2. /\ DOMAIN items = 1 .. Len(items) /\ cell[items[1].at].val = items[1].val
    BY <1>2, <2>1, ChainFacts
  <2>3. QED
    BY <1>2, <1>3, <1>4, <2>2 DEF Chain
<1>6. items' = RemoveAt(items, 1)
  <2>1. 1 \in DOMAIN items /\ Len(items) \in Nat /\ \A i \in 1 .. 1 - 1 : items[i].val # val
    BY <1>4, <1>5
  <2>2. QED
    BY <1>1, <1>4, <1>5, <2>1, WithoutIs
<1>7. items' = <<>>
  <2>1. 1 \in 1 .. Len(items)
    BY <1>4
  <2>2. items' \in Seq([at : Addresses, val : Values]) /\ Len(items') = Len(items) - 1
    BY <1>5, <1>6, <2>1, RemoveAtIs
  <2>3. Len(items') = 0
    BY <1>4, <2>2
  <2>4. QED
    BY <2>2, <2>3, EmptySeq
<1>8. start' \in [Ways -> Pointing] /\ start'["next"] = NULL /\ start'["prev"] = NULL
  BY <1>1, ArenaNumbers DEF Emptied, Ways
<1>9. cell' \in CellsType /\ right' \in SUBSET Ways
  BY <1>1 DEF Followed
<1>10. QED
  BY <1>7, <1>8, <1>9 DEF Followed

\* A deleted item's block is freed, and only that.
LEMMA ItemFreed ==
    ASSUME NEW a \in DOMAIN owned, FreeBlock(a)
    PROVE  DOMAIN owned' = DOMAIN owned \ {a}
BY DEF FreeBlock, Free

\* The items are those before the deleted one and those behind it.
LEMMA ItemsLeft ==
    ASSUME Followed, NEW c \in Seq(Addresses), NEW k \in Nat, Chain(c, k),
           NEW j \in 1 .. Len(items), items' = RemoveAt(items, j), FreeBlock(items[j].at)
    PROVE  /\ items' \in Seq([at : Addresses, val : Values]) /\ Len(items') = Len(items) - 1
           /\ \A i \in 1 .. Len(items) - 1 :
                 /\ items'[i] = IF i < j THEN items[i] ELSE items[i + 1]
                 /\ items'[i].at \in DOMAIN owned'
<1> DEFINE N == Len(items)
<1>1. items \in Seq([at : Addresses, val : Values])
  BY DEF Chain
<1>2. /\ items' \in Seq([at : Addresses, val : Values]) /\ Len(items') = N - 1
      /\ \A i \in 1 .. N - 1 : items'[i] = IF i < j THEN items[i] ELSE items[i + 1]
  BY <1>1, RemoveAtIs
<1>3. /\ N \in Nat \ {0} /\ Len(c) = k + N
      /\ \A i \in 1 .. N : /\ k + i \in 1 .. Len(c) /\ c[k + i] = items[i].at
                           /\ items[i].at \in DOMAIN owned
  BY ChainFacts
<1>4. \A i, g \in 1 .. Len(c) : c[i] = c[g] => i = g
  BY DEF Chain
<1> HIDE DEF N
<1>5. DOMAIN owned' = DOMAIN owned \ {items[j].at}
  <2>1. items[j].at \in DOMAIN owned
    BY <1>3 DEF N
  <2>2. QED
    BY <2>1, ItemFreed
<1>6. \A i \in 1 .. N : i # j => items[i].at \in DOMAIN owned'
  <2>1. SUFFICES ASSUME NEW i \in 1 .. N, i # j PROVE items[i].at \in DOMAIN owned'
    OBVIOUS
  <2>2. k + i # k + j /\ j \in 1 .. N
    BY <1>3, <2>1 DEF N
  <2>3. items[i].at # items[j].at
    BY <1>3, <1>4, <2>2
  <2>4. QED
    BY <1>3, <1>5, <2>3
<1>7. ASSUME NEW i \in 1 .. N - 1 PROVE items'[i].at \in DOMAIN owned'
  <2>1. j \in 1 .. N
    BY DEF N
  <2>2. CASE i < j
    <3>1. i \in 1 .. N /\ i # j
      BY <1>3, <2>1, <2>2
    <3>2. QED
      BY <1>2, <1>6, <2>2, <3>1
  <2>3. CASE ~(i < j)
    <3>1. i + 1 \in 1 .. N /\ i + 1 # j
      BY <1>3, <2>1, <2>3
    <3>2. QED
      BY <1>2, <1>6, <2>3, <3>1
  <2>4. QED
    BY <2>2, <2>3
<1>8. QED
  BY <1>2, <1>7 DEF N

\* Deleting the first item spoils the walk along next; the chain from head stays.
LEMMA DeleteFirst ==
    ASSUME Followed, NEW val \in Values, Delete(val), ~IsOnly(val), right' # {},
           NEW c \in Seq(Addresses), NEW k \in Nat, Chain(c, k),
           items[1].at = Found(val)
    PROVE  Followed'
<1> DEFINE N == Len(items)
           m == Len(c)
           n == Found(val)
<1>1. /\ FreeBlock(n) /\ items' = Without(val) /\ cell' = Unlink(cell, n) /\ start' = start
      /\ Hits(val) # {} /\ start["next"] # NULL
      /\ right' = IF \E i \in DOMAIN items : items[i].at = n
                  THEN right \ {w \in Ways : start[w] = n} ELSE {}
  BY DeleteGives
<1>2. /\ N \in Nat \ {0} /\ m = k + N /\ m \in Nat /\ DOMAIN items = 1 .. N
      /\ \A i \in 1 .. m : c[i] \in Addresses /\ c[i] # NULL
      /\ \A i \in 1 .. N : /\ k + i \in 1 .. m /\ c[k + i] = items[i].at
                           /\ cell[items[i].at].val = items[i].val
                           /\ items[i].at \in Addresses
  BY ChainFacts
<1>3. /\ \A i, j \in 1 .. m : c[i] = c[j] => i = j
      /\ start["next"] = c[1]
      /\ \A i \in 1 .. m - 1 : cell[c[i]].next = c[i + 1]
      /\ \A i \in k + 1 .. m - 1 : cell[c[i + 1]].prev = c[i]
      /\ "next" \in right => k = 0
      /\ "prev" \in right => start["prev"] = c[m] /\ cell[c[k + 1]].prev = NULL
  BY DEF Chain
<1>4. cell \in CellsType /\ right \in SUBSET Ways /\ start \in [Ways -> Pointing]
      /\ start["prev"] # NULL
  BY <1>1 DEF Followed
<1>5. 1 \in 1 .. N
  BY <1>2
<1>6. items' = RemoveAt(items, 1)
  BY <1>1, <1>5, FoundFirst
<1>7. /\ items' \in Seq([at : Addresses, val : Values]) /\ Len(items') = N - 1
      /\ \A i \in 1 .. N - 1 : /\ items'[i] = IF i < 1 THEN items[i] ELSE items[i + 1]
                               /\ items'[i].at \in DOMAIN owned'
  BY <1>1, <1>5, <1>6, ItemsLeft
<1>8. n = c[k + 1] /\ k + 1 \in 1 .. m
  BY <1>2, <1>5
<1>9. right' = right \ {w \in Ways : start[w] = n}
  BY <1>1, <1>2, <1>5
<1> HIDE DEF n, N, m
<1>10. "next" \notin right'
  <2>1. "next" \in right => start["next"] = n
    BY <1>3, <1>8
  <2>2. QED
    BY <1>9, <2>1 DEF Ways
<1>11. "prev" \in right' /\ "prev" \in right /\ start["prev"] # n
  BY <1>4, <1>9, <1>10 DEF Ways
<1>12. start["prev"] = c[m] /\ cell[n].prev = NULL
  BY <1>3, <1>8, <1>11
<1>13. k + 1 # m /\ k + 1 \in 1 .. m - 1 /\ k + 2 \in 1 .. m /\ N - 1 \in Nat \ {0}
  <2>1. k + 1 # m
    BY <1>8, <1>11, <1>12
  <2>2. QED
    BY <1>2, <2>1
<1>14. /\ cell' \in CellsType
       /\ \A a \in Addresses : /\ cell'[a].val = cell[a].val /\ cell'[a].next = cell[a].next
                               /\ cell'[a].prev = IF a = c[k + 2] THEN NULL ELSE cell[a].prev
  <2>1. cell[n].next = c[k + 2] /\ k + 1 + 1 = k + 2
    BY <1>3, <1>8, <1>13
  <2>2. cell' = Put(cell, c[k + 2], "prev", NULL)
    <3>1. Put(cell, cell[n].prev, "next", cell[n].next) = cell
      BY <1>12 DEF Put, Store
    <3>2. QED
      BY <1>1, <1>12, <2>1, <3>1 DEF Unlink
  <2>3. c[k + 2] \in Pointing /\ NULL \in Pointing
    BY <1>2, <1>13, ArenaNumbers DEF Pointing
  <2>4. QED
    BY <1>4, <2>2, <2>3, PutPrev
<1>15. PICK h \in Nat : h = k + 1
  OBVIOUS
<1>16. Chain(c, h)'
  <2>1. m = h + (N - 1) /\ items' # <<>>
    <3>1. m = h + (N - 1) /\ Len(items') # 0
      BY <1>2, <1>7, <1>13, <1>15
    <3>2. QED
      BY <1>7, <3>1, EmptySeq
  <2>2. ASSUME NEW i \in 1 .. N - 1
        PROVE  /\ c[h + i] = items'[i].at /\ cell'[items'[i].at].val = items'[i].val
               /\ items'[i].at \in DOMAIN owned'
    <3>0. N \in Nat /\ k \in Nat
      BY <1>2
    <3>1. i + 1 \in 1 .. N /\ ~(i < 1) /\ h + i = k + (i + 1)
      BY <1>15, <3>0
    <3>2. items'[i] = items[i + 1]
      BY <1>7, <3>1
    <3>3. /\ c[k + (i + 1)] = items[i + 1].at /\ items[i + 1].at \in Addresses
          /\ cell[items[i + 1].at].val = items[i + 1].val
      BY <1>2, <3>1
    <3>4. cell'[items[i + 1].at].val = items[i + 1].val
      BY <1>14, <3>3
    <3>5. QED
      BY <1>7, <3>1, <3>2, <3>3, <3>4
  <2>3. \A i \in 1 .. m - 1 : cell'[c[i]].next = c[i + 1]
    <3>1. TAKE i \in 1 .. m - 1
    <3>2. i \in 1 .. m
      BY <1>2
    <3>3. QED
      BY <1>2, <1>3, <1>14, <3>2
  <2>4. \A i \in h + 1 .. m - 1 : cell'[c[i + 1]].prev = c[i]
    <3>1. TAKE i \in h + 1 .. m - 1
    <3>2. i \in k + 1 .. m - 1 /\ i + 1 \in 1 .. m /\ i + 1 # k + 2
      BY <1>2, <1>15
    <3>3. c[i + 1] # c[k + 2]
      BY <1>3, <1>13, <3>2
    <3>4. QED
      BY <1>2, <1>3, <1>14, <3>2, <3>3
  <2>5. cell'[c[h + 1]].prev = NULL
    <3>1. h + 1 = k + 2
      BY <1>15
    <3>2. QED
      BY <1>2, <1>13, <1>14, <3>1
  <2>6. QED
    BY <1>1, <1>3, <1>7, <1>10, <1>12, <2>1, <2>2, <2>3, <2>4, <2>5 DEF Chain, m
<1>17. right' \in SUBSET Ways
  BY <1>4, <1>9
<1>18. QED
  BY <1>1, <1>4, <1>14, <1>16, <1>17 DEF Followed

\* Unlinking a node that has one before it on the chain.
LEMMA NodeUnlinked ==
    ASSUME cell \in CellsType, NEW n \in Addresses, NEW b \in Addresses, cell[n].prev = b, n # b
    PROVE  /\ Unlink(cell, n) \in CellsType
           /\ \A a \in Addresses :
                /\ Unlink(cell, n)[a].val = cell[a].val
                /\ Unlink(cell, n)[a].next = IF a = b THEN cell[n].next ELSE cell[a].next
                /\ Unlink(cell, n)[a].prev = IF a = cell[n].next THEN b ELSE cell[a].prev
<1> DEFINE q == cell[n].next
           d == Put(cell, b, "next", q)
<1>1. q \in Pointing /\ b \in Pointing
  BY CellFields DEF Ways, Pointing
<1>2. /\ d \in CellsType
      /\ \A a \in Addresses : /\ d[a].val = cell[a].val /\ d[a].prev = cell[a].prev
                              /\ d[a].next = IF a = b THEN q ELSE cell[a].next
  BY <1>1, PutNext
<1>3. Unlink(cell, n) = Put(d, d[n].next, "prev", d[n].prev)
  BY DEF Unlink
<1> HIDE DEF d
<1>4. d[n].next = q /\ d[n].prev = b
  BY <1>2
<1> HIDE DEF q
<1> DEFINE e == Put(d, q, "prev", b)
<1>5. /\ e \in CellsType
      /\ \A a \in Addresses : /\ e[a].val = d[a].val /\ e[a].next = d[a].next
                              /\ e[a].prev = IF a = q THEN b ELSE d[a].prev
  BY <1>1, <1>2, PutPrev
<1>6. Unlink(cell, n) = e
  BY <1>3, <1>4
<1> HIDE DEF e
<1>7. QED
  BY <1>2, <1>5, <1>6 DEF q

\* The chain without one of its nodes.
LEMMA ChainWithout ==
    ASSUME NEW c \in Seq(Addresses), NEW p \in 1 .. Len(c)
    PROVE  \E d \in Seq(Addresses) :
              /\ Len(d) = Len(c) - 1
              /\ \A i \in 1 .. Len(c) - 1 : d[i] = IF i < p THEN c[i] ELSE c[i + 1]
BY RemoveAtIs

\* Deleting a later item closes the chain behind the one before it.
LEMMA DeleteLater ==
    ASSUME Followed, NEW val \in Values, Delete(val), ~IsOnly(val), right' # {},
           NEW c \in Seq(Addresses), NEW k \in Nat, Chain(c, k),
           NEW j \in 1 .. Len(items), j # 1, items[j].at = Found(val)
    PROVE  Followed'
<1> DEFINE N == Len(items)
           m == Len(c)
           n == Found(val)
           q == cell[n].next
<1>1. /\ FreeBlock(n) /\ items' = Without(val) /\ cell' = Unlink(cell, n) /\ start' = start
      /\ Hits(val) # {} /\ start["next"] # NULL
      /\ right' = IF \E i \in DOMAIN items : items[i].at = n
                  THEN right \ {w \in Ways : start[w] = n} ELSE {}
  BY DeleteGives
<1>2. /\ N \in Nat \ {0} /\ m = k + N /\ m \in Nat /\ DOMAIN items = 1 .. N
      /\ \A i \in 1 .. m : c[i] \in Addresses /\ c[i] # NULL
      /\ \A i \in 1 .. N : /\ k + i \in 1 .. m /\ c[k + i] = items[i].at
                           /\ cell[items[i].at].val = items[i].val
                           /\ items[i].at \in Addresses
      /\ start["prev"] \in Addresses
  BY ChainFacts
<1>3. /\ \A i, g \in 1 .. m : c[i] = c[g] => i = g
      /\ start["next"] = c[1]
      /\ \A i \in 1 .. m - 1 : cell[c[i]].next = c[i + 1]
      /\ \A i \in k + 1 .. m - 1 : cell[c[i + 1]].prev = c[i]
      /\ \/ start["prev"] = c[m]
         \/ /\ cell[start["prev"]].prev # NULL
            /\ \A i \in k + 1 .. m : c[i] # start["prev"]
      /\ "next" \in right => k = 0 /\ cell[c[m]].next = NULL
      /\ "prev" \in right => start["prev"] = c[m] /\ cell[c[k + 1]].prev = NULL
  BY DEF Chain
<1>4. cell \in CellsType /\ right \in SUBSET Ways /\ start \in [Ways -> Pointing]
  BY DEF Followed
<1>5. items' = RemoveAt(items, j)
  BY <1>1, FoundFirst
<1>6. /\ items' \in Seq([at : Addresses, val : Values]) /\ Len(items') = N - 1
      /\ \A i \in 1 .. N - 1 : /\ items'[i] = IF i < j THEN items[i] ELSE items[i + 1]
                               /\ items'[i].at \in DOMAIN owned'
  BY <1>1, <1>5, ItemsLeft
<1>7. PICK p \in 1 .. m : p = k + j
  BY <1>2
<1>8. n = c[p] /\ right' = right \ {w \in Ways : start[w] = n}
  BY <1>1, <1>2, <1>7
<1>9. PICK d \in Seq(Addresses) :
          /\ Len(d) = m - 1
          /\ \A i \in 1 .. m - 1 : d[i] = IF i < p THEN c[i] ELSE c[i + 1]
  BY ChainWithout
<1>10. j \in 1 .. N
  OBVIOUS
<1> HIDE DEF n, N, m
<1>11. /\ k + 1 < p /\ p - 1 \in 1 .. m /\ k + 1 \in 1 .. m /\ p - 1 \in k + 1 .. m - 1
       /\ 1 \in 1 .. m /\ m \in 1 .. m /\ N - 1 \in Nat \ {0}
  BY <1>2, <1>7, <1>10
<1>12. n \in Addresses /\ c[p - 1] \in Addresses /\ cell[n].prev = c[p - 1] /\ n # c[p - 1]
  <2>1. c[(p - 1) + 1] = n /\ cell[c[(p - 1) + 1]].prev = c[p - 1]
    <3>1. (p - 1) + 1 = p
      BY <1>2
    <3>2. QED
      BY <1>3, <1>8, <1>11, <3>1
  <2>2. p - 1 # p
    BY <1>2
  <2>3. QED
    BY <1>2, <1>3, <1>8, <1>11, <2>1, <2>2
<1>13. /\ cell' \in CellsType
       /\ \A a \in Addresses : /\ cell'[a].val = cell[a].val
                               /\ cell'[a].next = IF a = c[p - 1] THEN q ELSE cell[a].next
                               /\ cell'[a].prev = IF a = q THEN c[p - 1] ELSE cell[a].prev
  BY <1>1, <1>4, <1>12, NodeUnlinked
<1>14. p # m => p + 1 \in 1 .. m /\ q = c[p + 1]
  <2>1. p # m => p \in 1 .. m - 1 /\ p + 1 \in 1 .. m
    BY <1>2
  <2>2. QED
    BY <1>3, <1>8, <2>1
<1>15. p = m => q = NULL /\ "prev" \notin right'
  <2>1. SUFFICES ASSUME p = m PROVE q = NULL /\ "prev" \notin right'
    OBVIOUS
  <2>2. "prev" \notin right'
    BY <1>3, <1>8, <2>1 DEF Ways
  <2>3. "next" \in right
    BY <1>4, <1>8, <2>2 DEF Ways
  <2>4. QED
    BY <1>3, <1>8, <2>1, <2>2, <2>3
<1> HIDE DEF q
\* what a node of the chain but the one behind n has before it, it keeps
<1>16. \A i \in 1 .. m : i # p + 1 => c[i] # q
  <2>1. TAKE i \in 1 .. m
  <2>2. SUFFICES ASSUME i # p + 1, c[i] = q PROVE FALSE
    OBVIOUS
  <2>3. CASE p = m
    BY <1>2, <1>15, <2>2, <2>3
  <2>4. CASE p # m
    BY <1>3, <1>14, <2>2, <2>4
  <2>5. QED
    BY <2>3, <2>4
<1>17. Chain(d, k)'
  <2>1. Len(d) = k + (N - 1) /\ items' # <<>>
    <3>1. Len(d) = k + (N - 1)
      BY <1>2, <1>9
    <3>2. Len(items') # 0
      BY <1>6, <1>11
    <3>3. QED
      BY <1>6, <3>1, <3>2, EmptySeq
  <2>2. ASSUME NEW i \in 1 .. N - 1
        PROVE  /\ d[k + i] = items'[i].at /\ cell'[items'[i].at].val = items'[i].val
               /\ items'[i].at \in DOMAIN owned'
    <3>0. N \in Nat /\ k + i \in 1 .. m - 1 /\ (k + i < p <=> i < j) /\ (k + i) + 1 = k + (i + 1)
      BY <1>2, <1>7, <1>10
    <3>1. CASE i < j
      <4>1. i \in 1 .. N /\ items'[i] = items[i] /\ d[k + i] = c[k + i]
        <5>1. i \in 1 .. N
          BY <3>0
        <5>2. items'[i] = items[i]
          BY <1>6, <3>1
        <5>3. d[k + i] = c[k + i]
          BY <1>9, <3>0, <3>1
        <5>4. QED
          BY <5>1, <5>2, <5>3
      <4>2. /\ c[k + i] = items[i].at /\ cell[items[i].at].val = items[i].val
            /\ items[i].at \in Addresses
        BY <1>2, <4>1
      <4>3. cell'[items[i].at].val = items[i].val
        BY <1>13, <4>2
      <4>4. QED
        BY <1>6, <4>1, <4>2, <4>3
    <3>2. CASE ~(i < j)
      <4>1. i + 1 \in 1 .. N
        BY <3>0
      <4>2. items'[i] = items[i + 1]
        BY <1>6, <3>2
      <4>3. d[k + i] = c[k + (i + 1)]
        BY <1>9, <3>0, <3>2
      <4>4. /\ c[k + (i + 1)] = items[i + 1].at /\ items[i + 1].at \in Addresses
            /\ cell[items[i + 1].at].val = items[i + 1].val
        BY <1>2, <4>1
      <4>5. cell'[items[i + 1].at].val = items[i + 1].val
        BY <1>13, <4>4
      <4>6. QED
        BY <1>6, <4>2, <4>3, <4>4, <4>5
    <3>3. QED
      BY <3>1, <3>2
  <2>3. \A i, g \in 1 .. m - 1 : d[i] = d[g] => i = g
    <3>1. SUFFICES ASSUME NEW i \in 1 .. m - 1, NEW g \in 1 .. m - 1, d[i] = d[g] PROVE i = g
      OBVIOUS
    <3>2. i \in 1 .. m /\ g \in 1 .. m /\ i + 1 \in 1 .. m /\ g + 1 \in 1 .. m
      BY <1>2
    <3>3. PICK e \in 1 .. m : e = IF i < p THEN i ELSE i + 1
      BY <3>2
    <3>4. PICK f \in 1 .. m : f = IF g < p THEN g ELSE g + 1
      BY <3>2
    <3>5. d[i] = c[e] /\ d[g] = c[f]
      BY <1>9, <3>3, <3>4
    <3>6. c[e] = c[f]
      BY <3>1, <3>5
    <3>7. e = f
      BY <1>3, <3>6
    <3>8. QED
      BY <1>2, <3>3, <3>4, <3>7
  <2>4. start' = start /\ start["next"] = d[1]
    <3>1. 1 \in 1 .. m - 1 /\ 1 < p
      BY <1>2, <1>11
    <3>2. QED
      BY <1>1, <1>3, <1>9, <3>1
  <2>5. \A i \in 1 .. (m - 1) - 1 : cell'[d[i]].next = d[i + 1]
    <3>1. TAKE i \in 1 .. (m - 1) - 1
    <3>2. /\ i \in 1 .. m - 1 /\ i + 1 \in 1 .. m - 1 /\ i \in 1 .. m /\ i + 1 \in 1 .. m
          /\ i + 2 \in 1 .. m /\ (i + 1) + 1 = i + 2 /\ p - 1 \in Int
      BY <1>2
    <3>3. CASE i < p - 1
      <4>1. i < p /\ i + 1 < p /\ i # p - 1
        BY <3>2, <3>3
      <4>2. d[i] = c[i] /\ d[i + 1] = c[i + 1]
        BY <1>9, <3>2, <4>1
      <4>3. c[i] # c[p - 1] /\ c[i] \in Addresses
        BY <1>2, <1>3, <1>11, <3>2, <4>1
      <4>4. cell[c[i]].next = c[i + 1]
        BY <1>3, <3>2
      <4>5. QED
        BY <1>13, <4>2, <4>3, <4>4
    <3>4. CASE i = p - 1
      <4>1. i < p /\ ~(i + 1 < p) /\ p # m /\ i + 2 = p + 1
        BY <1>2, <3>2, <3>4
      <4>2. d[i] = c[p - 1] /\ d[i + 1] = c[p + 1]
        BY <1>9, <3>2, <3>4, <4>1
      <4>3. QED
        BY <1>12, <1>13, <1>14, <4>1, <4>2
    <3>5. CASE i > p - 1
      <4>1. ~(i < p) /\ ~(i + 1 < p) /\ i + 1 # p - 1
        BY <1>2, <3>2, <3>5
      <4>2. d[i] = c[i + 1]
        BY <1>9, <3>2, <4>1
      <4>3. d[i + 1] = c[(i + 1) + 1]
        BY <1>9, <3>2, <4>1
      <4>4. c[i + 1] # c[p - 1] /\ c[i + 1] \in Addresses
        BY <1>2, <1>3, <1>11, <3>2, <4>1
      <4>5. cell[c[i + 1]].next = c[(i + 1) + 1]
        <5>1. i + 1 \in 1 .. m - 1
          BY <3>2
        <5>2. QED
          BY <1>3, <5>1
      <4>6. QED
        BY <1>13, <4>2, <4>3, <4>4, <4>5
    <3>6. QED
      BY <3>2, <3>3, <3>4, <3>5
  <2>6. \A i \in k + 1 .. (m - 1) - 1 : cell'[d[i + 1]].prev = d[i]
    <3>1. TAKE i \in k + 1 .. (m - 1) - 1
    <3>2. /\ i \in 1 .. m - 1 /\ i + 1 \in 1 .. m - 1 /\ i \in 1 .. m /\ i + 1 \in 1 .. m
          /\ i + 2 \in 1 .. m /\ (i + 1) + 1 = i + 2 /\ p - 1 \in Int
          /\ i \in k + 1 .. m - 1 /\ i + 1 \in k + 1 .. m - 1
      BY <1>2
    <3>0. i < p - 1 \/ i = p - 1 \/ i > p - 1
      BY <3>2
    <3>3. CASE i < p - 1
      <4>1. i < p /\ i + 1 < p /\ i + 1 # p + 1
        BY <3>2, <3>3
      <4>2. d[i] = c[i] /\ d[i + 1] = c[i + 1] /\ c[i + 1] # q
        BY <1>9, <1>16, <3>2, <4>1
      <4>3. cell[c[i + 1]].prev = c[i] /\ c[i + 1] \in Addresses
        BY <1>2, <1>3, <3>2
      <4>4. QED
        BY <1>13, <4>2, <4>3
    <3>4. CASE i = p - 1
      <4>0. i + 1 = p
        BY <3>2, <3>4
      <4>1. i < p /\ ~(i + 1 < p) /\ p # m /\ i + 2 = p + 1
        BY <1>2, <4>0
      <4>2. d[i] = c[p - 1] /\ d[i + 1] = c[p + 1]
        BY <1>9, <3>2, <3>4, <4>1
      <4>3. QED
        BY <1>2, <1>13, <1>14, <4>1, <4>2
    <3>5. CASE i > p - 1
      <4>1. ~(i < p) /\ ~(i + 1 < p) /\ (i + 1) + 1 # p + 1
        BY <3>2, <3>5
      <4>2. d[i] = c[i + 1] /\ d[i + 1] = c[(i + 1) + 1]
        BY <1>9, <3>2, <4>1
      <4>3. (i + 1) + 1 \in 1 .. m
        BY <3>2
      <4>4. c[(i + 1) + 1] # q /\ c[(i + 1) + 1] \in Addresses
        BY <1>2, <1>16, <4>1, <4>3
      <4>5. cell[c[(i + 1) + 1]].prev = c[i + 1]
        BY <1>3, <3>2
      <4>6. QED
        BY <1>13, <4>2, <4>4, <4>5
    <3>6. QED
      BY <3>0, <3>3, <3>4, <3>5
  <2>7. p # m => d[m - 1] = c[m] /\ m # p - 1
    <3>1. SUFFICES ASSUME p # m PROVE d[m - 1] = c[m] /\ m # p - 1
      OBVIOUS
    <3>2. m - 1 \in 1 .. m - 1 /\ ~(m - 1 < p) /\ (m - 1) + 1 = m /\ m # p - 1
      BY <1>2, <1>11, <3>1
    <3>3. QED
      BY <1>9, <3>2
  <2>8. \/ start["prev"] = d[m - 1]
        \/ /\ cell'[start["prev"]].prev # NULL
           /\ \A i \in k + 1 .. m - 1 : d[i] # start["prev"]
    <3>0. c[p - 1] # NULL
      BY <1>2, <1>11
    <3>1. CASE start["prev"] = c[m] /\ p # m
      BY <2>7, <3>1
    <3>2. CASE start["prev"] = c[m] /\ p = m
      <4>1. start["prev"] = n
        BY <1>8, <3>2
      <4>2. cell'[n].prev # NULL
        BY <1>12, <1>13, <3>0
      <4>3. \A i \in k + 1 .. m - 1 : d[i] # n
        <5>1. TAKE i \in k + 1 .. m - 1
        <5>2. i \in 1 .. m - 1 /\ i < p /\ i \in 1 .. m /\ i # p
          BY <1>2, <3>2
        <5>3. d[i] = c[i]
          BY <1>9, <5>2
        <5>4. QED
          BY <1>3, <1>8, <5>2, <5>3
      <4>4. QED
        BY <4>1, <4>2, <4>3
    <3>3. CASE cell[start["prev"]].prev # NULL /\ \A i \in k + 1 .. m : c[i] # start["prev"]
      <4>1. cell'[start["prev"]].prev # NULL
        BY <1>2, <1>13, <3>0, <3>3
      <4>2. \A i \in k + 1 .. m - 1 : d[i] # start["prev"]
        <5>1. TAKE i \in k + 1 .. m - 1
        <5>2. i \in 1 .. m - 1 /\ i \in k + 1 .. m /\ i + 1 \in k + 1 .. m
          BY <1>2
        <5>3. QED
          BY <1>9, <3>3, <5>2
      <4>3. QED
        BY <4>1, <4>2
    <3>4. QED
      BY <1>3, <3>1, <3>2, <3>3
  <2>9. "next" \in right' => k = 0 /\ cell'[d[m - 1]].next = NULL
    <3>1. SUFFICES ASSUME "next" \in right' PROVE k = 0 /\ cell'[d[m - 1]].next = NULL
      OBVIOUS
    <3>2. k = 0 /\ cell[c[m]].next = NULL
      BY <1>3, <1>8, <3>1
    <3>3. CASE p # m
      <4>1. c[m] # c[p - 1] /\ c[m] \in Addresses
        BY <1>2, <1>3, <1>11, <2>7, <3>3
      <4>2. QED
        BY <1>13, <2>7, <3>2, <3>3, <4>1
    <3>4. CASE p = m
      <4>1. m - 1 \in 1 .. m - 1 /\ m - 1 < p
        BY <1>2, <1>11, <3>4
      <4>2. d[m - 1] = c[p - 1]
        BY <1>9, <3>4, <4>1
      <4>3. QED
        BY <1>12, <1>13, <1>15, <3>2, <3>4, <4>2
    <3>5. QED
      BY <3>3, <3>4
  <2>10. "prev" \in right' => start["prev"] = d[m - 1] /\ cell'[d[k + 1]].prev = NULL
    <3>1. SUFFICES ASSUME "prev" \in right'
                   PROVE  start["prev"] = d[m - 1] /\ cell'[d[k + 1]].prev = NULL
      OBVIOUS
    <3>2. p # m /\ start["prev"] = c[m] /\ cell[c[k + 1]].prev = NULL
      BY <1>3, <1>8, <1>15, <3>1
    <3>3. k + 1 \in 1 .. m - 1
      BY <1>2, <1>11
    <3>4. k + 1 # p + 1
      BY <1>11
    <3>5. d[k + 1] = c[k + 1] /\ c[k + 1] # q /\ c[k + 1] \in Addresses
      BY <1>2, <1>9, <1>11, <1>16, <3>3, <3>4
    <3>6. cell'[c[k + 1]].prev = NULL
      BY <1>13, <3>2, <3>5
    <3>7. QED
      BY <2>7, <3>2, <3>5, <3>6
  <2> HIDE DEF Followed
  <2>11. Len(d) = m - 1 /\ Len(items') = N - 1
    BY <1>6, <1>9
  <2>12. QED
    BY <1>6, <2>1, <2>2, <2>3, <2>4, <2>5, <2>6, <2>8, <2>9, <2>10, <2>11 DEF Chain
<1>18. right' \in SUBSET Ways
  BY <1>4, <1>8
<1>19. start["prev"] # NULL
  BY <1>1 DEF Followed
<1>20. QED
  BY <1>1, <1>4, <1>13, <1>17, <1>18, <1>19 DEF Followed

LEMMA DeleteKeeps ==
    ASSUME Followed, NEW val \in Values, Delete(val), right' # {}
    PROVE  Followed'
<1>1. CASE IsOnly(val)
  BY <1>1, DeleteOnly
<1>2. CASE ~IsOnly(val)
  <2>1. start["next"] # NULL /\ \E i \in DOMAIN items : items[i].at = Found(val)
    BY <1>2, DeleteGives
  <2>2. PICK c \in Seq(Addresses), k \in Nat : Chain(c, k)
    BY <2>1 DEF Followed
  <2>3. DOMAIN items = 1 .. Len(items)
    BY <2>2, ChainFacts
  <2>4. PICK j \in 1 .. Len(items) : items[j].at = Found(val)
    BY <2>1, <2>3
  <2>5. CASE j = 1
    BY <1>2, <2>2, <2>4, <2>5, DeleteFirst
  <2>6. CASE j # 1
    BY <1>2, <2>2, <2>4, <2>6, DeleteLater
  <2>7. QED
    BY <2>5, <2>6
<1>3. QED
  BY <1>1, <1>2

-----------------------------------------------------------------------------
\* What leaves the list alone keeps it right, if it leaves the blocks to their callers
\* or there is no item.
LEMMA ListLeft ==
    ASSUME Followed, UNCHANGED list, owned' = owned \/ items = <<>>
    PROVE  Followed'
<1>1. cell' = cell /\ start' = start /\ items' = items /\ right' = right
  BY DEF list
<1>2. CASE start["next"] = NULL
  BY <1>1, <1>2 DEF Followed
<1>3. CASE start["next"] # NULL
  <2>1. PICK c \in Seq(Addresses), k \in Nat : Chain(c, k)
    BY <1>3 DEF Followed
  <2>2. owned' = owned
    BY <2>1 DEF Chain
  <2>3. Chain(c, k)'
    BY <1>1, <2>1, <2>2 DEF Chain
  <2>4. QED
    BY <1>1, <1>3, <2>3 DEF Followed
<1>4. QED
  BY <1>2, <1>3

LEMMA OddGrows ==
    ASSUME odd \in Nat, [Call]_vars
    PROVE  odd' = 0 => odd = 0
<1>1. ASSUME NEW size \in Sizes, Alloc(size) \/ AllocFails(size)
      PROVE  odd' \in {odd, odd + 1, NextOdd}
  BY <1>1 DEF Alloc, AllocFails
<1>2. ASSUME NEW a, FreeBlock(a) PROVE odd' \in {odd, odd + 1, NextOdd}
  BY <1>2 DEF FreeBlock, Free
<1>3. ASSUME MergePrevious \/ MergeNext \/ MergeDone PROVE odd' \in {odd, odd + 1, NextOdd}
  BY <1>3 DEF MergePrevious, MergeNext, MergeDone
<1>4. ASSUME UNCHANGED vars PROVE odd' \in {odd, odd + 1, NextOdd}
  BY <1>4 DEF vars
<1>5. QED
  BY <1>1, <1>2, <1>3, <1>4, OddCounts DEF Call

LEMMA ListStep == HeapInv /\ ListInv /\ [ListNext]_listVars => ListInv'
<1> SUFFICES ASSUME HeapInv, ListInv, [ListNext]_listVars,
                    odd' = 0, freeing' = NULL, right' # {}
             PROVE  Followed'
  BY DEF ListInv
<1>1. odd = 0
  <2>1. odd \in Nat
    BY DEF HeapInv
  <2>2. QED
    BY <2>1, ListNextIsCall, OddGrows
<1>2. ASSUME NEW val \in Values, NEW way \in Ways, Push(val, way) PROVE Followed'
  <2>1. freeing = NULL /\ right # {}
    BY <1>2 DEF Push, ListCallable
  <2>2. Followed
    BY <1>1, <2>1 DEF ListInv
  <2>3. QED
    BY <1>1, <1>2, <2>2, PushKeeps
<1>3. CASE PushFails
  <2>1. /\ freeing = NULL /\ right # {} /\ owned' = owned /\ UNCHANGED list
    BY <1>3 DEF PushFails, ListCallable, AllocFails
  <2>2. Followed
    BY <1>1, <2>1 DEF ListInv
  <2>3. QED
    BY <2>1, <2>2, ListLeft
<1>4. ASSUME NEW val \in Values, Delete(val) PROVE Followed'
  <2>1. freeing = NULL /\ right # {}
    BY <1>4 DEF Delete, ListCallable
  <2>2. Followed
    BY <1>1, <2>1 DEF ListInv
  <2>3. QED
    BY <1>4, <2>2, DeleteKeeps
<1>5. CASE FreeList
  BY <1>5 DEF FreeList
<1>6. CASE FreeListNode
  BY <1>6 DEF FreeListNode
<1>7. ASSUME UNCHANGED list, owned' = owned \/ items = <<>> PROVE Followed'
  <2>1. freeing = NULL /\ right # {}
    BY <1>7 DEF list
  <2>2. QED
    BY <1>1, <1>7, <2>1, ListLeft DEF ListInv
<1>8. CASE OtherCall
  BY <1>7, <1>8 DEF OtherCall, Untouched
<1>9. CASE (MergePrevious \/ MergeNext \/ MergeDone) /\ UNCHANGED list
  <2>1. owned' = owned
    BY <1>9 DEF MergePrevious, MergeNext, MergeDone
  <2>2. QED
    BY <1>7, <1>9, <2>1
<1>10. CASE UNCHANGED listVars
  BY <1>7, <1>10 DEF listVars, vars, list
<1>11. QED
  BY <1>2, <1>3, <1>4, <1>5, <1>6, <1>8, <1>9, <1>10 DEF ListNext

LEMMA ListInvHolds == ListSpec => []ListInv
<1>1. HeapInv /\ ListInv /\ [ListNext]_listVars => ListInv'
  BY ListStep
<1>2. QED
  BY <1>1, ListInitial, ListHeapInvHolds, PTL DEF ListSpec

\* What ll_int_print and a walk backwards show is what was pushed and not deleted, in
\* its order (clist_tplit.h, as ll_int instantiates it), and every node they meet
\* is in a block that the list still holds: until the call that spoils that walk.
THEOREM WalksAreRight == ListSpec => []WalksShowTheItems
<1>1. QED
  BY ListInvHolds, InvGivesWalks, PTL
=============================================================================
