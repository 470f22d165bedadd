--------------------------- MODULE FatFiles_proofs ---------------------------
(***************************************************************************)
(* The file commands keep their invariant for every size of the directory, *)
(* the sectors and the table, every set of names and texts and every disk  *)
(* image: files never share a cluster, a file with data is always          *)
(* readable, and the searches never leave the directory.  The second part  *)
(* is about what the files hold: the directory on the disk implements the  *)
(* store of append-only texts, an answer is not given before what it says  *)
(* is on the disk, and read shows the file.                                *)
(***************************************************************************)
EXTENDS FatFilesInv, FiniteSetTheorems, SequenceTheorems, WellFoundedInduction, TLAPS

-----------------------------------------------------------------------------
\* Numbers.
LEMMA LeastElement ==
    ASSUME NEW T \in SUBSET Nat, T # {}
    PROVE  \E m \in T : \A k \in T : m <= k
<1>1. \E x \in T : \A y \in T : ~(<<y, x>> \in OpToRel(<, Nat))
  BY WFMin, NatLessThanWellFounded
<1>2. PICK x \in T : \A y \in T : ~(<<y, x>> \in OpToRel(<, Nat))
  BY <1>1
<1>3. \A y \in T : x <= y
  <2>1. TAKE y \in T
  <2>2. x \in Nat /\ y \in Nat
    OBVIOUS
  <2>3. ~(y < x)
    BY <1>2, <2>2 DEF OpToRel
  <2>4. QED
    BY <2>2, <2>3
<1>4. QED
  BY <1>3

LEMMA Numbers ==
    /\ 0 \in Slots /\ FileSlots = 1 .. DirEntryCount - 1
    /\ ScanLimit \in FileSlots
    /\ DataClusters \subseteq Clusters /\ 0 \in Clusters /\ 1 \in Clusters
    /\ 0 \notin DataClusters /\ 1 \notin DataClusters
    /\ \A c \in Clusters : c = 0 \/ c = 1 \/ c \in DataClusters
BY FatFilesAssumption, SMT DEF Slots, FileSlots, Clusters, DataClusters

LEMMA FatValues ==
    /\ EndOfChain \in FatValue /\ EndOfChain # 0 /\ EndOfChain \in Nat
    /\ 0 \in FatValue
    /\ \A v \in FatValue : v \in Nat
BY SMT DEF EndOfChain, FatValue

\* Directory entries.
LEMMA EntryParts ==
    ASSUME NEW e \in Entries
    PROVE  /\ e.name \in Names \cup {NoName, Label, StampedLabel}
           /\ e.cluster \in Clusters /\ e.cluster \in Nat
           /\ e.size \in 0 .. SectorSize /\ e.size \in Nat
           /\ e = Entry(e.name, e.cluster, e.size)
<1>1. e = Entry(e.name, e.cluster, e.size)
  BY DEF Entries, Entry
<1>2. e.size \in 0 .. SectorSize /\ e.cluster \in Clusters
  BY DEF Entries
<1>3. e.size \in Nat /\ e.cluster \in Nat
  BY <1>2, FatFilesAssumption DEF Clusters
<1>4. QED
  BY <1>1, <1>2, <1>3 DEF Entries

LEMMA EntryIs ==
    ASSUME NEW n, NEW c, NEW s
    PROVE  Entry(n, c, s).name = n /\ Entry(n, c, s).cluster = c /\ Entry(n, c, s).size = s
BY DEF Entry

LEMMA EntryTyped ==
    ASSUME NEW n \in Names \cup {NoName, Label, StampedLabel},
           NEW c \in Clusters, NEW s \in 0 .. SectorSize
    PROVE  Entry(n, c, s) \in Entries
BY DEF Entry, Entries

LEMMA EntryChanged ==
    ASSUME NEW e \in Entries, NEW v
    PROVE  /\ [e EXCEPT !.name = v] = Entry(v, e.cluster, e.size)
           /\ [e EXCEPT !.size = v] = Entry(e.name, e.cluster, v)
BY DEF Entries, Entry

LEMMA UnusedParts == Unused.name = NoName /\ Unused.cluster = 0 /\ Unused.size = 0
BY DEF Unused, Entry

-----------------------------------------------------------------------------
\* In every directory that is sound one of the first entries has no data: the
\* files with data have clusters of their own, and there are fewer of those.
LEMMA SomeEmpty ==
    ASSUME NEW dir \in [Slots -> Entries], DirSound(dir)
    PROVE  \E i \in 1 .. ScanLimit - 1 : dir[i].size = 0
<1> DEFINE first == 1 .. ScanLimit - 1
           f == [i \in first |-> dir[i].cluster]
<1>1. first \subseteq FileSlots /\ FileSlots \subseteq Slots
  BY FatFilesAssumption DEF FileSlots, Slots
<1>2. SUFFICES ASSUME \A i \in first : dir[i].size # 0
               PROVE  FALSE
  OBVIOUS
<1>3. f \in [first -> DataClusters]
  <2>1. SUFFICES ASSUME NEW i \in first PROVE dir[i].cluster \in DataClusters
    OBVIOUS
  <2>2. dir[i] \in Entries
    BY <1>1
  <2>3. dir[i].size > 0
    BY <1>2, <2>2, EntryParts
  <2>4. QED
    BY <1>1, <2>3 DEF DirSound, EntriesSound
<1>4. IsFiniteSet(first) /\ Cardinality(first) = ScanLimit - 1
  BY FS_Interval, FatFilesAssumption
<1>5. IsFiniteSet(DataClusters) /\ Cardinality(DataClusters) = ScanLimit - 2
  BY FS_Interval, FatFilesAssumption DEF DataClusters
<1>6. Cardinality(DataClusters) < Cardinality(first)
  BY <1>4, <1>5, FatFilesAssumption
<1> HIDE DEF first
<1>7. \E x, y \in first : x # y /\ f[x] = f[y]
  <2> HIDE DEF f
  <2>1. QED
    BY FS_PigeonHole, <1>3, <1>4, <1>5, <1>6
<1>8. PICK x \in first, y \in first : x # y /\ f[x] = f[y]
  BY <1>7
<1>9. dir[x].cluster = dir[y].cluster
  BY <1>8
<1>10. f[x] \in DataClusters
  BY <1>3
<1>11. dir[x].cluster # 0
  BY <1>10, Numbers
<1>12. QED
  BY <1>1, <1>8, <1>9, <1>11 DEF DirSound, ClustersDiffer

\* So the entry after those that the allocator can fill is always unused.
LEMMA LastUnused ==
    ASSUME NEW dir \in [Slots -> Entries], DirSound(dir)
    PROVE  dir[ScanLimit] = Unused
<1>1. PICK i \in 1 .. ScanLimit - 1 : dir[i].size = 0
  BY SomeEmpty
<1>2. i \in FileSlots /\ ScanLimit \in FileSlots /\ i < ScanLimit
  BY FatFilesAssumption DEF FileSlots, Slots
<1>3. QED
  BY <1>1, <1>2 DEF DirSound, EmptiesLast

-----------------------------------------------------------------------------
\* The searches.

\* newf's search ends inside the directory, at an entry without data, and every
\* entry before it has data.
LEMMA EmptySlotFacts ==
    ASSUME g_root_directory \in [Slots -> Entries], DirSound(g_root_directory)
    PROVE  /\ EmptySlot \in FileSlots
           /\ g_root_directory[EmptySlot].size = 0
           /\ \A j \in FileSlots : j < EmptySlot => g_root_directory[j].size # 0
<1> DEFINE T == {i \in FileSlots : g_root_directory[i].size = 0}
           P(i) == /\ i \in Slots => g_root_directory[i].size = 0
                   /\ \A j \in 1 .. i - 1 : g_root_directory[j].size # 0
<1>1. FileSlots = 1 .. DirEntryCount - 1 /\ Slots = 0 .. DirEntryCount - 1
      /\ DirEntryCount \in Nat
  BY Numbers, FatFilesAssumption DEF Slots
<1>2. T \subseteq Nat /\ ScanLimit \in T
  BY <1>1, LastUnused, UnusedParts, Numbers
<1>3. PICK m \in T : \A k \in T : m <= k
  <2> HIDE DEF T
  <2>1. QED
    BY <1>2, LeastElement
<1>4. m \in 1 .. DirEntryCount /\ P(m)
  <2>1. m \in FileSlots /\ g_root_directory[m].size = 0
    OBVIOUS
  <2>2. ASSUME NEW j \in 1 .. m - 1 PROVE g_root_directory[j].size # 0
    BY <1>1, <1>3, <2>1
  <2>3. QED
    BY <1>1, <2>1, <2>2
<1>5. EmptySlot \in 1 .. DirEntryCount /\ P(EmptySlot)
  BY <1>4 DEF EmptySlot
<1>6. EmptySlot <= m
  <2>1. SUFFICES ASSUME m < EmptySlot PROVE FALSE
    BY <1>1, <1>3, <1>5
  <2>2. m \in 1 .. EmptySlot - 1
    BY <1>1, <1>3, <1>5, <2>1
  <2>3. QED
    BY <1>5, <2>2
<1>7. EmptySlot \in FileSlots /\ EmptySlot \in Slots
  BY <1>1, <1>3, <1>5, <1>6
<1>8. ASSUME NEW j \in FileSlots, j < EmptySlot PROVE g_root_directory[j].size # 0
  BY <1>1, <1>5, <1>8
<1>9. QED
  BY <1>5, <1>7, <1>8

\* list's loop ends at an unused entry, not behind the entry after those that
\* the allocator can fill.
LEMMA ListEndFacts ==
    ASSUME g_root_directory \in [Slots -> Entries], DirSound(g_root_directory)
    PROVE  /\ ListEnd \in FileSlots /\ ListEnd <= ScanLimit
           /\ g_root_directory[ListEnd].name = NoName
<1> DEFINE T == {i \in FileSlots : g_root_directory[i].name = NoName}
           P(i) == /\ i \in Slots => g_root_directory[i].name = NoName
                   /\ \A j \in 1 .. i - 1 : g_root_directory[j].name # NoName
<1>1. FileSlots = 1 .. DirEntryCount - 1 /\ Slots = 0 .. DirEntryCount - 1
      /\ DirEntryCount \in Nat
  BY Numbers, FatFilesAssumption DEF Slots
<1>2. T \subseteq Nat /\ ScanLimit \in T
  BY <1>1, LastUnused, UnusedParts, Numbers
<1>3. PICK m \in T : \A k \in T : m <= k
  <2> HIDE DEF T
  <2>1. QED
    BY <1>2, LeastElement
<1>4. m \in 1 .. DirEntryCount /\ P(m)
  <2>1. m \in FileSlots /\ g_root_directory[m].name = NoName
    OBVIOUS
  <2>2. ASSUME NEW j \in 1 .. m - 1 PROVE g_root_directory[j].name # NoName
    BY <1>1, <1>3, <2>1
  <2>3. QED
    BY <1>1, <2>1, <2>2
<1>5. ListEnd \in 1 .. DirEntryCount /\ P(ListEnd)
  BY <1>4 DEF ListEnd
<1>6. ListEnd <= ScanLimit
  <2>1. SUFFICES ASSUME ScanLimit < ListEnd PROVE FALSE
    BY <1>1, <1>2, <1>5
  <2>2. ScanLimit \in 1 .. ListEnd - 1
    BY <1>1, <1>2, <1>5, <2>1
  <2>3. QED
    BY <1>2, <1>5, <2>2
<1>7. ListEnd \in FileSlots /\ ListEnd \in Slots
  BY <1>1, <1>2, <1>5, <1>6
<1>8. QED
  BY <1>5, <1>6, <1>7

\* fat_drive_find_file returns the first entry of that name.
LEMMA FindFacts ==
    ASSUME NEW n, Found(n)
    PROVE  /\ Find(n) \in Slots
           /\ g_root_directory[Find(n)].name = n
           /\ \A j \in Slots : g_root_directory[j].name = n => Find(n) <= j
<1> DEFINE T == {i \in Slots : g_root_directory[i].name = n}
<1>1. T \subseteq Nat /\ T # {}
  BY FatFilesAssumption DEF Found, Slots
<1>2. PICK m \in T : \A k \in T : m <= k
  <2> HIDE DEF T
  <2>1. QED
    BY <1>1, LeastElement
<1>3. \E i \in Slots : /\ g_root_directory[i].name = n
                       /\ \A j \in Slots : g_root_directory[j].name = n => i <= j
  BY <1>2
<1>4. QED
  BY <1>3 DEF Find

\* newf takes a free cluster, and never one of the two reserved entries.
LEMMA FirstFreeFacts ==
    ASSUME g_Fat \in [Clusters -> FatValue], FatSound, FreeClusters # {}
    PROVE  FirstFree \in DataClusters /\ g_Fat[FirstFree] = 0
<1>1. FreeClusters \subseteq Nat
  BY FatFilesAssumption DEF FreeClusters, Clusters
<1>2. \E m \in FreeClusters : \A k \in FreeClusters : m <= k
  BY <1>1, LeastElement
<1>3. FirstFree \in FreeClusters
  BY <1>2 DEF FirstFree
<1>4. FirstFree \in Clusters /\ g_Fat[FirstFree] = 0
  BY <1>3 DEF FreeClusters
<1>5. g_Fat[0] # 0 /\ g_Fat[1] # 0
  BY FatFilesAssumption DEF FatSound
<1>6. QED
  BY <1>4, <1>5, Numbers

\* A chain that ends is that of a data cluster: appf and read act on file slots
\* with a name.
LEMMA ChainEndsFacts ==
    ASSUME TypeOK, DirSound(g_root_directory), FatSound,
           g_root_directory[0].name = StampedLabel,
           NEW n, Found(n), ChainEnds(g_root_directory[Find(n)].cluster)
    PROVE  /\ Find(n) \in FileSlots /\ n \in Names /\ n # NoName
           /\ g_root_directory[Find(n)].cluster \in DataClusters
           /\ g_Fat[g_root_directory[Find(n)].cluster] >= EndOfChain
<1> DEFINE k == Find(n)
           e == g_root_directory[k]
<1>1. k \in Slots /\ e.name = n
  BY FindFacts
<1>2. e \in Entries
  BY <1>1 DEF TypeOK
<1>3. g_Fat[e.cluster] >= EndOfChain
  BY DEF ChainEnds
<1>4. e.cluster # 0
  <2>1. MediaEntry \in Nat /\ MediaEntry < EndOfChain
    BY FatFilesAssumption, FatValues
  <2>2. QED
    BY <1>3, <2>1, FatValues DEF FatSound
<1>5. k \in FileSlots
  BY <1>1, <1>4 DEF DirSound, LabelEntry, FileSlots
<1>6. e.cluster \in DataClusters /\ e.name \in Names \cup {NoName}
  BY <1>4, <1>5 DEF DirSound, EntriesSound
<1>7. e.name # NoName
  BY <1>4, <1>5, UnusedParts DEF DirSound, EntriesSound
<1>8. QED
  BY <1>1, <1>3, <1>5, <1>6, <1>7

\* With names of distinct sums appf sets the size of the file it has read.
LEMMA SizeSlotFacts ==
    ASSUME DistinctSums, TypeOK, DirSound(g_root_directory), FatSound,
           g_root_directory[0].name = StampedLabel,
           NEW n, Found(n), ChainEnds(g_root_directory[Find(n)].cluster)
    PROVE  SizeSlot(n) = Find(n)
<1> DEFINE k == Find(n)
           dir == g_root_directory
           P(i) == /\ SameSum(dir[i].name, n)
                   /\ \A j \in Slots : SameSum(dir[j].name, n) => i <= j
<1>1. /\ k \in FileSlots /\ k \in Slots /\ n \in Names /\ n # NoName
      /\ dir[k].name = n /\ dir[k].cluster # 0
      /\ \A j \in Slots : dir[j].name = n => k <= j
  BY ChainEndsFacts, FindFacts, Numbers DEF FileSlots
<1>2. SameSum(dir[k].name, n)
  BY <1>1 DEF SameSum
<1>3. ASSUME NEW j \in Slots, SameSum(dir[j].name, n) PROVE k <= j
  <2>1. k \in Nat /\ j \in Nat
    BY <1>1, FatFilesAssumption DEF Slots
  <2>2. CASE dir[j].name = NoName
    <3>1. j \in FileSlots
      BY <2>2, FatFilesAssumption DEF FileSlots
    <3>2. dir[j].size = 0
      BY <2>2, <3>1, UnusedParts DEF DirSound, EntriesSound
    <3>3. j < k => dir[k] = Unused
      BY <1>1, <3>1, <3>2 DEF DirSound, EmptiesLast
    <3>4. QED
      BY <1>1, <2>1, <3>3, UnusedParts
  <2>3. CASE dir[j].name # NoName
    <3>1. ByteSum[dir[j].name] = ByteSum[n]
      BY <1>1, <1>3, <2>3 DEF SameSum
    <3>2. dir[j].name \in Names \cup {StampedLabel}
      BY <2>3 DEF FileSlots, DirSound, EntriesSound
    <3>3. dir[j].name = n
      BY <1>1, <3>1, <3>2 DEF DistinctSums
    <3>4. QED
      BY <1>1, <3>3
  <2>4. QED
    BY <2>2, <2>3
<1>4. k \in Slots /\ P(k)
  BY <1>1, <1>2, <1>3
<1>5. SizeSlot(n) \in Slots /\ P(SizeSlot(n))
  BY <1>4 DEF SizeSlot
<1>6. SizeSlot(n) <= k /\ k <= SizeSlot(n)
  BY <1>4, <1>5
<1>7. QED
  BY <1>1, <1>5, <1>6, FatFilesAssumption DEF Slots

-----------------------------------------------------------------------------
\* What the commands do to a directory.

\* fat_drive_read_root_dir's stamp touches the label only.
LEMMA StampedFacts ==
    ASSUME NEW dir \in [Slots -> Entries], DirSound(dir)
    PROVE  /\ Stamped(dir) \in [Slots -> Entries] /\ DirSound(Stamped(dir))
           /\ Stamped(dir)[0].name = StampedLabel
           /\ \A i \in FileSlots : Stamped(dir)[i] = dir[i]
<1> DEFINE new == Stamped(dir)
<1>1. 0 \in Slots /\ dir[0] \in Entries
  BY Numbers
<1>2. new = [dir EXCEPT ![0] = Entry(StampedLabel, dir[0].cluster, dir[0].size)]
  <2>1. [dir[0] EXCEPT !.name = StampedLabel] = Entry(StampedLabel, dir[0].cluster, dir[0].size)
    BY <1>1, EntryChanged
  <2>2. QED
    BY <2>1 DEF Stamped
<1>3. Entry(StampedLabel, dir[0].cluster, dir[0].size) \in Entries
  BY <1>1, EntryParts, EntryTyped
<1>4. new \in [Slots -> Entries]
  BY <1>2, <1>3
<1>5. new[0] = Entry(StampedLabel, dir[0].cluster, dir[0].size)
  BY <1>1, <1>2
<1>6. \A i \in FileSlots : new[i] = dir[i]
  BY <1>2 DEF FileSlots
<1>7. LabelEntry(new)
  BY <1>5, EntryIs DEF DirSound, LabelEntry
<1>8. EntriesSound(new) /\ EmptiesLast(new) /\ NamesDiffer(new) /\ ClustersDiffer(new)
  BY <1>6 DEF DirSound, EntriesSound, EmptiesLast, NamesDiffer, ClustersDiffer
<1>9. QED
  BY <1>4, <1>5, <1>6, <1>7, <1>8, EntryIs DEF DirSound

\* newf: a new name, without data, in the first entry that has none.
LEMMA NewEntrySound ==
    ASSUME NEW dir \in [Slots -> Entries], DirSound(dir),
           NEW e \in FileSlots, dir[e].size = 0,
           \A j \in FileSlots : j < e => dir[j].size # 0,
           NEW n \in Names, n # NoName, n # StampedLabel,
           \A i \in FileSlots : dir[i].name # n,
           NEW c \in DataClusters \cup {0},
           c # 0 => \A i \in FileSlots : dir[i].size # 0 => dir[i].cluster # c
    PROVE  LET new == [dir EXCEPT ![e] = Entry(n, c, 0)]
           IN  new \in [Slots -> Entries] /\ DirSound(new)
<1> DEFINE new == [dir EXCEPT ![e] = Entry(n, c, 0)]
<1>1. /\ e \in Slots /\ FileSlots \subseteq Slots /\ FileSlots \subseteq Nat /\ 0 \notin FileSlots
      /\ c \in Clusters /\ 0 \in 0 .. SectorSize
  BY Numbers, FatFilesAssumption DEF FileSlots, Slots
<1>2. new \in [Slots -> Entries]
  BY <1>1, EntryTyped
<1>3. new[e].name = n /\ new[e].cluster = c /\ new[e].size = 0
  BY <1>1, EntryIs
<1>4. \A i \in Slots : i # e => new[i] = dir[i]
  OBVIOUS
<1>5. \A i \in FileSlots : i # e /\ dir[i].size = 0 => dir[i] = Unused
  BY <1>1 DEF DirSound, EmptiesLast
<1> HIDE DEF new
<1>6. LabelEntry(new)
  BY <1>1, <1>4, Numbers DEF DirSound, LabelEntry
<1>7. EntriesSound(new)
  <2>1. SUFFICES ASSUME NEW i \in FileSlots
                 PROVE  /\ new[i].name \in Names \cup {NoName}
                        /\ new[i].name # StampedLabel
                        /\ new[i].cluster \in DataClusters \cup {0}
                        /\ new[i].size > 0 => new[i].cluster # 0
                        /\ new[i].name = NoName => new[i] = Unused
    BY DEF EntriesSound
  <2>2. CASE i = e
    BY <1>3, <2>2
  <2>3. CASE i # e
    BY <1>1, <1>4, <2>3 DEF DirSound, EntriesSound
  <2>4. QED
    BY <2>2, <2>3
<1>8. EmptiesLast(new)
  <2>1. SUFFICES ASSUME NEW i \in FileSlots, NEW j \in FileSlots, i < j, new[i].size = 0
                 PROVE  new[j] = Unused
    BY DEF EmptiesLast
  <2>2. j # e
    BY <1>1, <1>4, <2>1
  <2>3. CASE i = e
    BY <1>1, <1>4, <2>1, <2>2, <2>3 DEF DirSound, EmptiesLast
  <2>4. CASE i # e
    BY <1>1, <1>4, <2>1, <2>2, <2>4 DEF DirSound, EmptiesLast
  <2>5. QED
    BY <2>3, <2>4
<1>9. NamesDiffer(new)
  <2>1. SUFFICES ASSUME NEW i \in FileSlots, NEW j \in FileSlots, i # j, new[i].name # NoName
                 PROVE  new[i].name # new[j].name
    BY DEF NamesDiffer
  <2>2. CASE i = e \/ j = e
    BY <1>1, <1>3, <1>4, <2>1, <2>2
  <2>3. CASE i # e /\ j # e
    BY <1>1, <1>4, <2>1, <2>3 DEF DirSound, NamesDiffer
  <2>4. QED
    BY <2>2, <2>3
<1>10. ClustersDiffer(new)
  <2>1. SUFFICES ASSUME NEW i \in FileSlots, NEW j \in FileSlots, i # j, new[i].cluster # 0
                 PROVE  new[i].cluster # new[j].cluster
    BY DEF ClustersDiffer
  <2>2. ASSUME NEW k \in FileSlots, k # e, c # 0 PROVE dir[k].cluster # c
    BY <1>5, <2>2, UnusedParts
  <2>3. CASE i = e
    BY <1>1, <1>3, <1>4, <2>1, <2>2, <2>3
  <2>4. CASE j = e
    BY <1>1, <1>3, <1>4, <2>1, <2>2, <2>4
  <2>5. CASE i # e /\ j # e
    BY <1>1, <1>4, <2>1, <2>5 DEF DirSound, ClustersDiffer
  <2>6. QED
    BY <2>3, <2>4, <2>5
<1>11. QED
  BY <1>2, <1>6, <1>7, <1>8, <1>9, <1>10 DEF DirSound, new

\* appf: the size of an entry that has a cluster, growing.
WithSize(dir, k, s) == [dir EXCEPT ![k].size = s]

LEMMA SizeSetSound ==
    ASSUME NEW dir \in [Slots -> Entries], DirSound(dir),
           NEW k \in FileSlots, dir[k].cluster # 0,
           NEW s \in 0 .. SectorSize, dir[k].size <= s
    PROVE  /\ WithSize(dir, k, s) \in [Slots -> Entries] /\ DirSound(WithSize(dir, k, s))
           /\ WithSize(dir, k, s)[k] = Entry(dir[k].name, dir[k].cluster, s)
           /\ \A i \in Slots : i # k => WithSize(dir, k, s)[i] = dir[i]
<1> DEFINE new == WithSize(dir, k, s)
<1>1. /\ k \in Slots /\ FileSlots \subseteq Slots /\ FileSlots \subseteq Nat /\ 0 \notin FileSlots
      /\ s \in Nat
  BY Numbers, FatFilesAssumption DEF FileSlots, Slots
<1>2. dir[k] \in Entries
  BY <1>1
<1>3. new = [dir EXCEPT ![k] = Entry(dir[k].name, dir[k].cluster, s)]
  <2>1. [dir[k] EXCEPT !.size = s] = Entry(dir[k].name, dir[k].cluster, s)
    BY <1>2, EntryChanged
  <2>2. QED
    BY <2>1 DEF WithSize
<1>4. new \in [Slots -> Entries]
  <2>1. Entry(dir[k].name, dir[k].cluster, s) \in Entries
    BY <1>2, EntryParts, EntryTyped
  <2>2. QED
    BY <1>3, <2>1
<1>5. new[k] = Entry(dir[k].name, dir[k].cluster, s)
  BY <1>1, <1>3
<1>6. new[k].name = dir[k].name /\ new[k].cluster = dir[k].cluster /\ new[k].size = s
  BY <1>5, EntryIs
<1>7. \A i \in Slots : i # k => new[i] = dir[i]
  BY <1>3
<1>8. dir[k].size \in Nat
  BY <1>2, EntryParts
<1> HIDE DEF new
<1>9. \A i \in FileSlots : new[i].name = dir[i].name /\ new[i].cluster = dir[i].cluster
  BY <1>1, <1>6, <1>7
<1>10. dir[k].name # NoName
  BY UnusedParts DEF DirSound, EntriesSound
<1>11. LabelEntry(new)
  BY <1>1, <1>7, Numbers DEF DirSound, LabelEntry
<1>12. EntriesSound(new)
  <2>1. SUFFICES ASSUME NEW i \in FileSlots
                 PROVE  /\ new[i].name \in Names \cup {NoName}
                        /\ new[i].name # StampedLabel
                        /\ new[i].cluster \in DataClusters \cup {0}
                        /\ new[i].size > 0 => new[i].cluster # 0
                        /\ new[i].name = NoName => new[i] = Unused
    BY DEF EntriesSound
  <2>2. CASE i = k
    BY <1>6, <1>10, <2>2 DEF DirSound, EntriesSound
  <2>3. CASE i # k
    BY <1>1, <1>7, <2>3 DEF DirSound, EntriesSound
  <2>4. QED
    BY <2>2, <2>3
<1>13. EmptiesLast(new)
  <2>1. SUFFICES ASSUME NEW i \in FileSlots, NEW j \in FileSlots, i < j, new[i].size = 0
                 PROVE  new[j] = Unused
    BY DEF EmptiesLast
  <2>2. dir[i].size = 0
    BY <1>1, <1>6, <1>7, <1>8, <2>1
  <2>3. dir[j] = Unused
    BY <2>1, <2>2 DEF DirSound, EmptiesLast
  <2>4. j # k
    BY <2>3, UnusedParts
  <2>5. QED
    BY <1>1, <1>7, <2>3, <2>4
<1>14. NamesDiffer(new) /\ ClustersDiffer(new)
  BY <1>9 DEF DirSound, NamesDiffer, ClustersDiffer
<1>15. QED
  BY <1>4, <1>5, <1>7, <1>11, <1>12, <1>13, <1>14 DEF DirSound, new

\* A directory that is on the disk in part: its entries come from two sound
\* directories that differ only in the sizes, or in entries without data.
LEMMA MixtureSound ==
    ASSUME NEW A \in [Slots -> Entries], DirSound(A),
           NEW B \in [Slots -> Entries], DirSound(B),
           NEW M \in [Slots -> Entries],
           \A i \in Slots : M[i] = A[i] \/ M[i] = B[i],
           \A k \in FileSlots :
              \/ A[k].name = B[k].name /\ A[k].cluster = B[k].cluster
              \/ A[k].size = 0 /\ B[k].size = 0,
           \A i, j \in FileSlots :
              i < j /\ (A[i].size = 0 \/ B[i].size = 0) => A[j] = Unused /\ B[j] = Unused
    PROVE  DirSound(M)
<1>1. FileSlots \subseteq Slots /\ FileSlots \subseteq Nat /\ 0 \in Slots
  BY Numbers, FatFilesAssumption DEF FileSlots, Slots
<1>2. LabelEntry(M)
  BY <1>1 DEF DirSound, LabelEntry
<1>3. EntriesSound(M)
  <2>1. SUFFICES ASSUME NEW i \in FileSlots
                 PROVE  /\ M[i].name \in Names \cup {NoName}
                        /\ M[i].name # StampedLabel
                        /\ M[i].cluster \in DataClusters \cup {0}
                        /\ M[i].size > 0 => M[i].cluster # 0
                        /\ M[i].name = NoName => M[i] = Unused
    BY DEF EntriesSound
  <2>2. CASE M[i] = A[i]
    BY <2>2 DEF DirSound, EntriesSound
  <2>3. CASE M[i] = B[i]
    BY <2>3 DEF DirSound, EntriesSound
  <2>4. QED
    BY <1>1, <2>2, <2>3
<1>4. EmptiesLast(M)
  <2>1. SUFFICES ASSUME NEW i \in FileSlots, NEW j \in FileSlots, i < j, M[i].size = 0
                 PROVE  M[j] = Unused
    BY DEF EmptiesLast
  <2>2. A[i].size = 0 \/ B[i].size = 0
    BY <1>1, <2>1
  <2>3. A[j] = Unused /\ B[j] = Unused
    BY <2>1, <2>2
  <2>4. QED
    BY <1>1, <2>3
\* Two entries that are both without data come from different places only if
\* the later one is unused.
<1>5. ASSUME NEW i \in FileSlots, NEW j \in FileSlots, i # j,
             A[i].size = 0 /\ B[i].size = 0, A[j].size = 0 /\ B[j].size = 0
      PROVE  \/ A[i] = Unused /\ B[i] = Unused
             \/ A[j] = Unused /\ B[j] = Unused
  <2>1. i < j \/ j < i
    BY <1>1, <1>5
  <2>2. QED
    BY <1>5, <2>1
<1>6. NamesDiffer(M)
  <2>1. SUFFICES ASSUME NEW i \in FileSlots, NEW j \in FileSlots, i # j,
                        M[i].name # NoName, M[i].name = M[j].name
                 PROVE  FALSE
    BY DEF NamesDiffer
  <2>2. (M[i] = A[i] \/ M[i] = B[i]) /\ (M[j] = A[j] \/ M[j] = B[j])
    BY <1>1
  <2>3. A[i].name # NoName => A[i].name # A[j].name
    BY <2>1 DEF DirSound, NamesDiffer
  <2>4. B[i].name # NoName => B[i].name # B[j].name
    BY <2>1 DEF DirSound, NamesDiffer
  <2>5. CASE A[i].name = B[i].name \/ A[j].name = B[j].name
    BY <2>1, <2>2, <2>3, <2>4, <2>5
  <2>6. CASE A[i].size = 0 /\ B[i].size = 0 /\ A[j].size = 0 /\ B[j].size = 0
    BY <1>5, <2>1, <2>2, <2>6, UnusedParts
  <2>7. QED
    BY <2>5, <2>6
<1>7. ClustersDiffer(M)
  <2>1. SUFFICES ASSUME NEW i \in FileSlots, NEW j \in FileSlots, i # j,
                        M[i].cluster # 0, M[i].cluster = M[j].cluster
                 PROVE  FALSE
    BY DEF ClustersDiffer
  <2>2. (M[i] = A[i] \/ M[i] = B[i]) /\ (M[j] = A[j] \/ M[j] = B[j])
    BY <1>1
  <2>3. A[i].cluster # 0 => A[i].cluster # A[j].cluster
    BY <2>1 DEF DirSound, ClustersDiffer
  <2>4. B[i].cluster # 0 => B[i].cluster # B[j].cluster
    BY <2>1 DEF DirSound, ClustersDiffer
  <2>5. CASE A[i].cluster = B[i].cluster \/ A[j].cluster = B[j].cluster
    BY <2>1, <2>2, <2>3, <2>4, <2>5
  <2>6. CASE A[i].size = 0 /\ B[i].size = 0 /\ A[j].size = 0 /\ B[j].size = 0
    BY <1>5, <2>1, <2>2, <2>6, UnusedParts
  <2>7. QED
    BY <2>5, <2>6
<1>8. QED
  BY <1>2, <1>3, <1>4, <1>6, <1>7 DEF DirSound

-----------------------------------------------------------------------------
\* The steps.

\* Without a command in flight memory and disk differ in entries without data.
LEMMA AgreeWhenQuiet ==
    ASSUME Agree, pc \notin {"newf", "appf"}, NEW i \in FileSlots
    PROVE  \/ g_root_directory[i] = diskRoot[i]
           \/ /\ g_root_directory[i].size = 0 /\ g_root_directory[i].cluster = 0
              /\ diskRoot[i].size = 0
BY DEF Agree

LEMMA NothingInFlight ==
    ASSUME pc' \notin {"newf", "appf"}
    PROVE  InFlight' /\ NewfInFlight' /\ AppfInFlight'
BY DEF InFlight, NewfInFlight, AppfInFlight

\* Once the whole directory has been written, the disk has what memory has.
LEMMA DirectoryWritten ==
    ASSUME TypeOK, InFlight, pc \in {"newf", "appf"}, DirectoryOnDisk
    PROVE  diskRoot = g_root_directory
<1>1. \A i \in Slots : i < written
  BY FatFilesAssumption DEF TypeOK, DirectoryOnDisk, Slots
<1>2. \A i \in Slots : diskRoot[i] = g_root_directory[i]
  BY <1>1 DEF InFlight
<1>3. QED
  BY <1>2 DEF TypeOK

\* Commands that only answer, and the one that never does.
LEMMA QuietStep ==
    ASSUME Inv, TypeOK', pc = "idle", pc' \in {"idle", "lost"},
           UNCHANGED <<diskRoot, diskFat, diskData, g_root_directory, g_Fat, written>>
    PROVE  Inv'
<1>1. TypeOK'
  OBVIOUS
<1>2. DirSound(g_root_directory)' /\ DirSound(diskRoot)'
      /\ g_root_directory'[0].name = StampedLabel
  BY DEF Inv, DirSound, LabelEntry, EntriesSound, EmptiesLast, NamesDiffer, ClustersDiffer
<1>3. FatSound' /\ DataAllocated(g_root_directory)' /\ DataAllocated(diskRoot)'
  BY DEF Inv, FatSound, DataAllocated
<1>4. Agree'
  BY AgreeWhenQuiet DEF Inv, Agree
<1>5. InFlight' /\ NewfInFlight' /\ AppfInFlight'
  BY NothingInFlight
<1>6. QED
  BY <1>1, <1>2, <1>3, <1>4, <1>5 DEF Inv

\* A name that newf accepts is a file name: an unused entry answers to the
\* empty name, the stamped label to its own.
LEMMA NewName ==
    ASSUME Inv, NEW n \in Names \cup {NoName}, ~Found(n)
    PROVE  /\ n \in Names /\ n # NoName /\ n # StampedLabel
           /\ \A i \in FileSlots : g_root_directory[i].name # n
<1>1. ScanLimit \in Slots /\ 0 \in Slots
  BY Numbers DEF FileSlots
<1>2. g_root_directory[ScanLimit].name = NoName
  BY LastUnused, UnusedParts DEF Inv, TypeOK
<1>3. \A i \in Slots : g_root_directory[i].name # n
  BY DEF Found
<1>4. QED
  BY <1>1, <1>2, <1>3 DEF Inv, FileSlots

LEMMA NewfNoClusterStep ==
    ASSUME Inv, TypeOK', NEW n \in Names \cup {NoName}, NewfNoCluster(n)
    PROVE  Inv'
<1> DEFINE e == EmptySlot
           new == [g_root_directory EXCEPT ![e] = Entry(n, 0, 0)]
<1>1. /\ g_root_directory' = new /\ pc' = "idle" /\ pc = "idle" /\ ~Found(n)
      /\ UNCHANGED <<diskRoot, diskFat, diskData, g_Fat, cmd, written>>
  BY DEF NewfNoCluster, Answer
<1>2. /\ e \in FileSlots /\ e \in Slots /\ g_root_directory[e].size = 0
      /\ \A j \in FileSlots : j < e => g_root_directory[j].size # 0
  BY EmptySlotFacts DEF Inv, TypeOK, FileSlots
<1>3. new \in [Slots -> Entries] /\ DirSound(new)
  BY <1>1, <1>2, NewName, NewEntrySound DEF Inv, TypeOK
<1>4. /\ new[e].size = 0 /\ new[e].cluster = 0
      /\ \A i \in Slots : i # e => new[i] = g_root_directory[i]
  BY <1>2, EntryIs DEF Inv, TypeOK
<1> HIDE DEF new, e
<1>5. TypeOK'
  OBVIOUS
<1>6. DirSound(g_root_directory)' /\ g_root_directory'[0].name = StampedLabel
  BY <1>1, <1>2, <1>3, <1>4, Numbers DEF Inv, FileSlots
<1>7. DirSound(diskRoot)' /\ FatSound' /\ DataAllocated(diskRoot)'
  BY <1>1 DEF Inv, FatSound, DataAllocated
<1>8. DataAllocated(g_root_directory)'
  BY <1>1, <1>4 DEF Inv, DataAllocated, FileSlots
<1>9. Agree'
  <2>1. SUFFICES ASSUME NEW i \in FileSlots
                 PROVE  \/ new[i] = diskRoot[i]
                        \/ new[i].size = 0 /\ new[i].cluster = 0 /\ diskRoot[i].size = 0
    BY <1>1 DEF Agree
  <2>2. CASE i = e
    BY <1>1, <1>2, <1>4, <2>2, AgreeWhenQuiet DEF Inv
  <2>3. CASE i # e
    BY <1>1, <1>4, <2>3, AgreeWhenQuiet DEF Inv, FileSlots
  <2>4. QED
    BY <2>2, <2>3
<1>10. InFlight' /\ NewfInFlight' /\ AppfInFlight'
  BY <1>1, NothingInFlight
<1>11. QED
  BY <1>5, <1>6, <1>7, <1>8, <1>9, <1>10 DEF Inv

LEMMA NewfBeginStep ==
    ASSUME Inv, TypeOK', NEW n \in Names \cup {NoName}, NewfBegin(n)
    PROVE  Inv'
<1> DEFINE e == EmptySlot
           c == FirstFree
           new == [g_root_directory EXCEPT ![e] = Entry(n, c, 0)]
<1>1. /\ g_root_directory' = new /\ pc' = "newf" /\ pc = "idle" /\ ~Found(n)
      /\ cmd' = [name |-> n, text |-> <<>>, at |-> e]
      /\ written' = 0 /\ reply' = NoReply /\ FreeClusters # {}
      /\ UNCHANGED <<diskRoot, diskFat, diskData, g_Fat>>
  BY DEF NewfBegin, Start
<1>2. /\ e \in FileSlots /\ e \in Slots /\ g_root_directory[e].size = 0
      /\ \A j \in FileSlots : j < e => g_root_directory[j].size # 0
  BY EmptySlotFacts DEF Inv, TypeOK, FileSlots
<1>3. c \in DataClusters /\ g_Fat[c] = 0 /\ c # 0
  BY <1>1, FirstFreeFacts, Numbers DEF Inv, TypeOK
<1>4. n \in Names /\ n # NoName /\ n # StampedLabel
      /\ \A i \in FileSlots : g_root_directory[i].name # n
  BY <1>1, NewName
<1>5. \A i \in FileSlots : g_root_directory[i].size # 0 => g_root_directory[i].cluster # c
  <2>1. SUFFICES ASSUME NEW i \in FileSlots, g_root_directory[i].size # 0
                 PROVE  g_Fat[g_root_directory[i].cluster] # 0
    BY <1>3
  <2>2. g_root_directory[i].size > 0
    BY <2>1, EntryParts DEF Inv, TypeOK, FileSlots
  <2>3. g_Fat[g_root_directory[i].cluster] >= EndOfChain
    BY <2>2 DEF Inv, DataAllocated
  <2>4. QED
    BY <2>3, SMT DEF EndOfChain
<1>6. new \in [Slots -> Entries] /\ DirSound(new)
  BY <1>2, <1>3, <1>4, <1>5, NewEntrySound DEF Inv, TypeOK
<1>7. /\ new[e].name = n /\ new[e].size = 0 /\ new[e].cluster = c
      /\ \A i \in Slots : i # e => new[i] = g_root_directory[i]
  BY <1>2, EntryIs DEF Inv, TypeOK
<1> HIDE DEF new, e, c
<1>8. cmd'.name = n /\ cmd'.at = e
  BY <1>1
<1>9. TypeOK'
  OBVIOUS
<1>10. DirSound(g_root_directory)' /\ g_root_directory'[0].name = StampedLabel
  BY <1>1, <1>2, <1>6, <1>7, Numbers DEF Inv, FileSlots
<1>11. DirSound(diskRoot)' /\ FatSound' /\ DataAllocated(diskRoot)'
  BY <1>1 DEF Inv, FatSound, DataAllocated
<1>12. DataAllocated(g_root_directory)'
  BY <1>1, <1>7 DEF Inv, DataAllocated, FileSlots
<1>13. Agree'
  <2>1. SUFFICES ASSUME NEW i \in FileSlots, i # e
                 PROVE  \/ new[i] = diskRoot[i]
                        \/ new[i].size = 0 /\ new[i].cluster = 0 /\ diskRoot[i].size = 0
    BY <1>1, <1>8 DEF Agree
  <2>2. QED
    BY <1>1, <1>7, <2>1, AgreeWhenQuiet DEF Inv, FileSlots
<1>14. InFlight'
  <2>1. \A i \in Slots : ~(i < written')
    BY <1>1, FatFilesAssumption DEF Slots
  <2>2. QED
    BY <1>1, <1>2, <1>3, <1>4, <1>7, <1>8, <2>1 DEF InFlight
<1>15. NewfInFlight'
  <2>1. diskRoot[e].size = 0
    BY <1>1, <1>2, AgreeWhenQuiet DEF Inv
  <2>2. QED
    BY <1>1, <1>3, <1>7, <1>8, <2>1 DEF NewfInFlight
<1>16. AppfInFlight'
  BY <1>1 DEF AppfInFlight
<1>17. QED
  BY <1>9, <1>10, <1>11, <1>12, <1>13, <1>14, <1>15, <1>16 DEF Inv

\* While a command is in flight its entry is the same in memory and on the disk
\* but for the size, or has no data in either; and behind an entry without data
\* in one of the two, both are unused.
LEMMA FlightFacts ==
    ASSUME Inv, pc \in {"newf", "appf"}
    PROVE  /\ \A k \in FileSlots :
                 \/ /\ g_root_directory[k].name = diskRoot[k].name
                    /\ g_root_directory[k].cluster = diskRoot[k].cluster
                 \/ g_root_directory[k].size = 0 /\ diskRoot[k].size = 0
           /\ \A i, j \in FileSlots :
                 i < j /\ (g_root_directory[i].size = 0 \/ diskRoot[i].size = 0)
                    => g_root_directory[j] = Unused /\ diskRoot[j] = Unused
<1> DEFINE mem == g_root_directory
           e == mem[cmd.at]
           old == e.size - Len(cmd.text)
<1>1. cmd.at \in FileSlots /\ mem[cmd.at].name = cmd.name /\ cmd.at \in Slots
  BY DEF Inv, InFlight, FileSlots
<1>2. e.size \in Nat /\ Len(cmd.text) \in Nat
  <2>1. cmd.text \in Texts \cup {<<>>}
    BY DEF Inv, TypeOK
  <2>2. Len(cmd.text) \in Nat
    BY <2>1, FatFilesAssumption
  <2>3. QED
    BY <1>1, <2>2, EntryParts DEF Inv, TypeOK
<1>3. pc = "newf" => mem[cmd.at].size = 0 /\ diskRoot[cmd.at].size = 0
  BY DEF Inv, NewfInFlight
<1>4. pc = "appf" =>
        /\ diskRoot[cmd.at].name = e.name /\ diskRoot[cmd.at].cluster = e.cluster
        /\ diskRoot[cmd.at].size = e.size \/ diskRoot[cmd.at].size = old
        /\ old >= 0
        /\ old = 0 => \A j \in FileSlots : j > cmd.at => mem[j] = Unused
  BY <1>1, EntryIs DEF Inv, AppfInFlight
<1>5. ASSUME NEW k \in FileSlots
      PROVE  \/ mem[k].name = diskRoot[k].name /\ mem[k].cluster = diskRoot[k].cluster
             \/ mem[k].size = 0 /\ diskRoot[k].size = 0
  <2>1. CASE k = cmd.at
    BY <1>3, <1>4, <2>1
  <2>2. CASE k # cmd.at
    BY <2>2 DEF Inv, Agree
  <2>3. QED
    BY <2>1, <2>2
<1>6. ASSUME NEW i \in FileSlots, mem[i].size = 0 PROVE diskRoot[i].size = 0
  <2>1. CASE i = cmd.at
    <3>1. e.size = 0
      BY <1>6, <2>1
    <3>2. CASE pc = "newf"
      BY <1>3, <2>1, <3>2
    <3>3. CASE pc = "appf"
      <4>1. e.size - Len(cmd.text) >= 0
        BY <1>4, <3>3
      <4>2. e.size - Len(cmd.text) = 0
        BY <1>2, <3>1, <4>1
      <4>3. diskRoot[cmd.at].size = e.size \/ diskRoot[cmd.at].size = old
        BY <1>4, <3>3
      <4>4. QED
        BY <2>1, <3>1, <4>2, <4>3
    <3>4. QED
      BY <3>2, <3>3
  <2>2. CASE i # cmd.at
    BY <1>6, <2>2 DEF Inv, Agree
  <2>3. QED
    BY <2>1, <2>2
<1>7. ASSUME NEW i \in FileSlots, NEW j \in FileSlots, i < j, diskRoot[i].size = 0
      PROVE  mem[j] = Unused
  <2>1. CASE mem[i].size = 0
    BY <1>7, <2>1 DEF Inv, DirSound, EmptiesLast
  <2>2. CASE mem[i].size # 0
    <3>1. i = cmd.at /\ pc = "appf"
      BY <1>3, <1>7, <2>2 DEF Inv, Agree
    <3>2. old = 0
      BY <1>4, <1>7, <2>2, <3>1
    <3>3. j > cmd.at
      BY <1>7, <3>1
    <3>4. QED
      BY <1>4, <3>1, <3>2, <3>3
  <2>3. QED
    BY <2>1, <2>2
<1>8. ASSUME NEW i \in FileSlots, NEW j \in FileSlots, i < j, diskRoot[i].size = 0
      PROVE  diskRoot[j] = Unused
  BY <1>8 DEF Inv, DirSound, EmptiesLast
<1>9. QED
  BY <1>5, <1>6, <1>7, <1>8

LEMMA WriteRootSectorStep ==
    ASSUME Inv, TypeOK', WriteRootSector
    PROVE  Inv'
<1> DEFINE mem == g_root_directory
           inSector(i) == written <= i /\ i < written + EntriesPerSector
<1>1. /\ pc \in {"newf", "appf"} /\ pc' = pc /\ cmd' = cmd /\ reply' = reply
      /\ written' = written + EntriesPerSector
      /\ UNCHANGED <<diskFat, diskData, g_root_directory, g_Fat>>
      /\ diskRoot' = [i \in Slots |-> IF inSector(i) THEN mem[i] ELSE diskRoot[i]]
  BY DEF WriteRootSector
<1>2. /\ written \in Nat /\ written' \in Nat
      /\ mem \in [Slots -> Entries] /\ diskRoot \in [Slots -> Entries]
  BY <1>1, FatFilesAssumption DEF Inv, TypeOK
<1>3. \A i \in Slots : diskRoot'[i] = mem[i] \/ diskRoot'[i] = diskRoot[i]
  BY <1>1
<1>4. diskRoot' \in [Slots -> Entries]
  BY <1>1, <1>2
<1>5. \A i \in Slots : i < written' => diskRoot'[i] = mem[i]
  <2>1. SUFFICES ASSUME NEW i \in Slots, i < written' PROVE diskRoot'[i] = mem[i]
    OBVIOUS
  <2>2. i \in Int
    BY DEF Slots
  <2>3. CASE i < written
    <3>1. diskRoot'[i] = mem[i] \/ diskRoot'[i] = diskRoot[i]
      BY <1>3
    <3>2. diskRoot[i] = mem[i]
      BY <1>1, <2>3 DEF Inv, InFlight
    <3>3. QED
      BY <3>1, <3>2
  <2>4. CASE ~(i < written)
    <3>1. inSector(i)
      BY <1>1, <1>2, <2>1, <2>2, <2>4
    <3>2. QED
      BY <1>1, <3>1
  <2>5. QED
    BY <2>3, <2>4
<1>6. TypeOK'
  OBVIOUS
<1>7. DirSound(g_root_directory)' /\ g_root_directory'[0].name = StampedLabel
  BY <1>1 DEF Inv
<1>8. DirSound(diskRoot)'
  BY <1>1, <1>2, <1>3, <1>4, FlightFacts, MixtureSound DEF Inv
<1>9. FatSound' /\ DataAllocated(g_root_directory)'
  BY <1>1 DEF Inv, FatSound, DataAllocated
<1>10. DataAllocated(diskRoot)'
  BY <1>1, <1>3 DEF Inv, DataAllocated, FileSlots
<1>11. Agree'
  BY <1>1, <1>3 DEF Inv, Agree, FileSlots
<1>12. InFlight'
  BY <1>1, <1>5 DEF Inv, InFlight
<1>13. NewfInFlight'
  BY <1>1, <1>3 DEF Inv, NewfInFlight, InFlight, FileSlots
<1>14. AppfInFlight'
  BY <1>1, <1>3 DEF Inv, AppfInFlight, InFlight, FileSlots
<1>15. QED
  BY <1>6, <1>7, <1>8, <1>9, <1>10, <1>11, <1>12, <1>13, <1>14 DEF Inv

LEMMA NewfWriteFatStep ==
    ASSUME Inv, TypeOK', NewfWriteFat
    PROVE  Inv'
<1> DEFINE c == g_root_directory[cmd.at].cluster
<1>1. /\ pc = "newf" /\ pc' = "idle" /\ DirectoryOnDisk
      /\ g_Fat' = [g_Fat EXCEPT ![c] = EndOfChain] /\ diskFat' = g_Fat'
      /\ cmd' = NoCmd /\ written' = 0
      /\ UNCHANGED <<diskRoot, diskData, g_root_directory>>
  BY DEF NewfWriteFat, NewfSetFat, WriteFat, Finish
<1>2. diskRoot = g_root_directory
  BY <1>1, DirectoryWritten DEF Inv
<1>3. c \in DataClusters /\ c \in Clusters
  BY <1>1, Numbers DEF Inv, InFlight, DirSound, EntriesSound
<1>4. \A d \in Clusters : g_Fat'[d] = IF d = c THEN EndOfChain ELSE g_Fat[d]
  BY <1>1, <1>3 DEF Inv, TypeOK
<1>5. g_Fat' \in [Clusters -> FatValue]
  BY <1>1, FatValues DEF Inv, TypeOK
<1>6. \A d \in Clusters : g_Fat[d] >= EndOfChain => g_Fat'[d] >= EndOfChain
  BY <1>4, FatValues
<1>8. TypeOK'
  OBVIOUS
<1>9. DirSound(g_root_directory)' /\ DirSound(diskRoot)'
      /\ g_root_directory'[0].name = StampedLabel
  BY <1>1 DEF Inv
<1>10. FatSound'
  <2>1. \A d \in Clusters \ {0} : g_Fat'[d] = 0 \/ g_Fat'[d] >= EndOfChain
    BY <1>4, FatValues DEF Inv, FatSound
  <2>2. g_Fat'[0] = MediaEntry /\ g_Fat'[1] # 0
    BY <1>3, <1>4, Numbers DEF Inv, FatSound
  <2>3. QED
    BY <1>1, <2>1, <2>2 DEF FatSound
<1>11. DataAllocated(g_root_directory)' /\ DataAllocated(diskRoot)'
  <2>1. ASSUME NEW i \in FileSlots, g_root_directory[i].size > 0
        PROVE  g_Fat'[g_root_directory[i].cluster] >= EndOfChain
    <3>1. g_root_directory[i].cluster \in Clusters
      BY EntryParts DEF Inv, TypeOK, FileSlots
    <3>2. QED
      BY <1>6, <2>1, <3>1 DEF Inv, DataAllocated
  <2>2. QED
    BY <1>1, <1>2, <2>1 DEF DataAllocated
<1>12. Agree'
  BY <1>1, <1>2 DEF Agree
<1>13. InFlight' /\ NewfInFlight' /\ AppfInFlight'
  BY <1>1, NothingInFlight
<1>14. QED
  BY <1>8, <1>9, <1>10, <1>11, <1>12, <1>13 DEF Inv

\* What appf makes of the sector: the old bytes, then the text.
LEMMA OverlayFacts ==
    ASSUME NEW buf \in Sector, NEW at \in Nat, NEW t \in Seq(Byte \ {0}),
           at + Len(t) <= SectorSize
    PROVE  /\ Overlay(buf, at, t) \in Sector
           /\ \A k \in 1 .. at : Overlay(buf, at, t)[k] = buf[k]
           /\ \A k \in 1 .. Len(t) : Overlay(buf, at, t)[at + k] = t[k]
<1> DEFINE new == Overlay(buf, at, t)
<1>1. /\ Len(t) \in Nat /\ SectorSize \in Nat
      /\ \A k \in 1 .. Len(t) : t[k] \in Byte
  BY FatFilesAssumption
<1>2. new = [k \in 1 .. SectorSize |-> IF k \in at + 1 .. at + Len(t) THEN t[k - at] ELSE buf[k]]
  BY DEF Overlay
<1>3. ASSUME NEW k \in 1 .. SectorSize PROVE new[k] \in Byte
  <2>1. CASE k \in at + 1 .. at + Len(t)
    <3>1. k - at \in 1 .. Len(t)
      BY <1>1, <2>1
    <3>2. QED
      BY <1>1, <1>2, <2>1, <3>1
  <2>2. CASE k \notin at + 1 .. at + Len(t)
    BY <1>2, <2>2 DEF Sector
  <2>3. QED
    BY <2>1, <2>2
<1>4. new \in Sector
  BY <1>2, <1>3 DEF Sector
<1>5. ASSUME NEW k \in 1 .. at PROVE new[k] = buf[k]
  <2>1. k \in 1 .. SectorSize /\ k \notin at + 1 .. at + Len(t)
    BY <1>1
  <2>2. QED
    BY <1>2, <2>1
<1>6. ASSUME NEW k \in 1 .. Len(t) PROVE new[at + k] = t[k]
  <2>1. at + k \in 1 .. SectorSize /\ at + k \in at + 1 .. at + Len(t) /\ (at + k) - at = k
    BY <1>1
  <2>2. QED
    BY <1>2, <2>1
<1>7. QED
  BY <1>4, <1>5, <1>6

\* A text that fits behind the file's.
LEMMA FitsFacts ==
    ASSUME NEW f, f.size \in Nat, NEW t, Len(t) \in Nat, Fits(f, t)
    PROVE  /\ f.size + Len(t) \in 0 .. SectorSize /\ f.size <= f.size + Len(t)
           /\ f.size + Len(t) <= SectorSize
<1>1. f.size + Len(t) <= SectorSize /\ SectorSize \in Nat
  BY FatFilesAssumption DEF Fits
<1>2. QED
  BY <1>1

\* Without a mishap appf sets the size of the file it has read.
LEMMA RightSlot ==
    ASSUME Sound', NEW n, NEW t, AppfBegin(n, t)
    PROVE  SizeSlot(n) = Find(n) /\ Sound
BY DEF AppfBegin, Mishap, Sound

LEMMA AppfBeginStep ==
    ASSUME Sound', Inv, TypeOK', NEW n \in Names \cup {NoName}, NEW t \in Texts, AppfBegin(n, t)
    PROVE  Inv'
<1> DEFINE k == Find(n)
           f == g_root_directory[k]
           s == f.size + Len(t)
           new == [g_root_directory EXCEPT ![k].size = s]
           sector == Overlay(diskData[f.cluster], f.size, t)
<1>1. /\ pc = "idle" /\ Found(n) /\ ChainEnds(f.cluster) /\ Fits(f, t)
      /\ diskData' = [diskData EXCEPT ![f.cluster] = sector]
      /\ g_root_directory' = [g_root_directory EXCEPT ![SizeSlot(n)].size = s]
      /\ pc' = "appf" /\ cmd' = [name |-> n, text |-> t, at |-> SizeSlot(n)]
      /\ written' = 0 /\ reply' = NoReply
      /\ UNCHANGED <<diskRoot, diskFat, g_Fat>>
  BY DEF AppfBegin, AppfSetSize, Start
<1>2. SizeSlot(n) = k
  BY RightSlot
<1>3. /\ k \in FileSlots /\ k \in Slots /\ n \in Names /\ n # NoName /\ f.name = n
      /\ f.cluster \in DataClusters /\ f.cluster # 0
      /\ g_Fat[f.cluster] >= EndOfChain
  BY <1>1, ChainEndsFacts, FindFacts, Numbers DEF Inv, FileSlots
<1>4. f \in Entries /\ f.size \in Nat
  BY <1>3, EntryParts DEF Inv, TypeOK
<1>5. t \in Seq(Byte \ {0}) /\ Len(t) \in Nat
  BY FatFilesAssumption
<1>6. s \in 0 .. SectorSize /\ f.size <= s /\ f.size + Len(t) <= SectorSize
  BY <1>1, <1>4, <1>5, FitsFacts
<1>7. /\ new \in [Slots -> Entries] /\ DirSound(new) /\ new[k] = Entry(n, f.cluster, s)
      /\ \A i \in Slots : i # k => new[i] = g_root_directory[i]
  <2>1. g_root_directory \in [Slots -> Entries] /\ DirSound(g_root_directory)
    BY DEF Inv, TypeOK
  <2> HIDE DEF k, s
  <2>2. /\ k \in FileSlots /\ g_root_directory[k].cluster # 0
        /\ g_root_directory[k].size <= s /\ g_root_directory[k].name = n
    BY <1>3, <1>6
  <2>3. new = WithSize(g_root_directory, k, s)
    BY DEF WithSize
  <2> HIDE DEF new
  <2>4. /\ new \in [Slots -> Entries] /\ DirSound(new)
        /\ new[k] = Entry(g_root_directory[k].name, g_root_directory[k].cluster, s)
        /\ \A i \in Slots : i # k => new[i] = g_root_directory[i]
    BY <1>6, <2>1, <2>2, <2>3, SizeSetSound
  <2>5. QED
    BY <2>2, <2>4
<1>8. new[k].name = n /\ new[k].cluster = f.cluster /\ new[k].size = s
  <2> HIDE DEF new, k, s
  <2>1. QED
    BY <1>7, EntryIs
<1>9. /\ sector \in Sector
      /\ \A m \in 1 .. Len(t) : sector[f.size + m] = t[m]
  BY <1>3, <1>4, <1>5, <1>6, OverlayFacts DEF Inv, TypeOK
<1>10. diskData' \in [DataClusters -> Sector] /\ diskData'[f.cluster] = sector
  <2> HIDE DEF sector
  <2>1. QED
    BY <1>1, <1>3, <1>9 DEF Inv, TypeOK
<1>11. g_root_directory' = new /\ cmd' = [name |-> n, text |-> t, at |-> k]
  BY <1>1, <1>2
<1>12. cmd'.name = n /\ cmd'.text = t /\ cmd'.at = k
  BY <1>11
<1> HIDE DEF new, sector, k, s
<1>13. TypeOK'
  OBVIOUS
<1>14. DirSound(g_root_directory)' /\ g_root_directory'[0].name = StampedLabel
  BY <1>3, <1>7, <1>11, Numbers DEF Inv, FileSlots
<1>15. DirSound(diskRoot)' /\ FatSound' /\ DataAllocated(diskRoot)'
  BY <1>1 DEF Inv, FatSound, DataAllocated
<1>16. DataAllocated(g_root_directory)'
  <2>1. SUFFICES ASSUME NEW i \in FileSlots, new[i].size > 0
                 PROVE  g_Fat[new[i].cluster] >= EndOfChain
    BY <1>1, <1>11 DEF DataAllocated
  <2>2. CASE i = k
    BY <1>3, <1>8, <2>2
  <2>3. CASE i # k
    BY <1>7, <2>1, <2>3 DEF Inv, DataAllocated, FileSlots
  <2>4. QED
    BY <2>2, <2>3
<1>17. Agree'
  <2>1. SUFFICES ASSUME NEW i \in FileSlots, i # k
                 PROVE  \/ new[i] = diskRoot[i]
                        \/ new[i].size = 0 /\ new[i].cluster = 0 /\ diskRoot[i].size = 0
    BY <1>1, <1>11, <1>12 DEF Agree
  <2>2. new[i] = g_root_directory[i]
    BY <1>7, <2>1 DEF FileSlots
  <2>3. QED
    BY <1>1, <2>2, AgreeWhenQuiet DEF Inv
<1>18. InFlight'
  <2>1. \A i \in Slots : ~(i < written')
    BY <1>1, FatFilesAssumption DEF Slots
  <2>2. QED
    BY <1>1, <1>3, <1>8, <1>11, <1>12, <2>1 DEF InFlight
<1>19. NewfInFlight'
  BY <1>1 DEF NewfInFlight
<1>20. AppfInFlight'
  <2>1. s - Len(t) = f.size
    BY <1>4, <1>5 DEF s
  <2>2. diskRoot[k] = Entry(n, f.cluster, f.size)
    <3>1. f = diskRoot[k]
      BY <1>1, <1>3, AgreeWhenQuiet DEF Inv
    <3>2. QED
      BY <1>3, <1>4, <3>1, EntryParts
  <2>3. ASSUME f.size = 0, NEW j \in FileSlots, j > k PROVE new[j] = Unused
    <3>1. k < j /\ j # k /\ j \in Slots
      BY <1>3, <2>3, FatFilesAssumption DEF FileSlots, Slots
    <3>2. g_root_directory[j] = Unused
      BY <1>3, <2>3, <3>1 DEF Inv, DirSound, EmptiesLast
    <3>3. QED
      BY <1>7, <3>1, <3>2
  <2>4. g_Fat'[new[k].cluster] >= EndOfChain
    BY <1>1, <1>3, <1>8
  <2>5. \A m \in 1 .. Len(t) : diskData'[new[k].cluster][f.size + m] = t[m]
    BY <1>8, <1>9, <1>10
  <2>6. diskRoot'[k] \in {new[k], Entry(n, new[k].cluster, f.size)}
    BY <1>1, <1>8, <2>2
  <2>7. QED
    BY <1>4, <1>8, <1>11, <1>12, <2>1, <2>3, <2>4, <2>5, <2>6 DEF AppfInFlight
<1>21. QED
  BY <1>13, <1>14, <1>15, <1>16, <1>17, <1>18, <1>19, <1>20 DEF Inv

LEMMA AppfDoneStep ==
    ASSUME Inv, TypeOK', AppfDone
    PROVE  Inv'
<1>1. /\ pc = "appf" /\ pc' = "idle" /\ DirectoryOnDisk
      /\ cmd' = NoCmd /\ written' = 0
      /\ UNCHANGED <<diskRoot, diskFat, diskData, g_root_directory, g_Fat>>
  BY DEF AppfDone, Finish
<1>2. diskRoot = g_root_directory
  BY <1>1, DirectoryWritten DEF Inv
<1>4. TypeOK'
  OBVIOUS
<1>5. DirSound(g_root_directory)' /\ DirSound(diskRoot)'
      /\ g_root_directory'[0].name = StampedLabel
  BY <1>1 DEF Inv
<1>6. FatSound' /\ DataAllocated(g_root_directory)' /\ DataAllocated(diskRoot)'
  BY <1>1 DEF Inv, FatSound, DataAllocated
<1>7. Agree'
  BY <1>1, <1>2 DEF Agree
<1>8. InFlight' /\ NewfInFlight' /\ AppfInFlight'
  BY <1>1, NothingInFlight
<1>9. QED
  BY <1>4, <1>5, <1>6, <1>7, <1>8 DEF Inv

LEMMA RestartStep ==
    ASSUME Inv, TypeOK', Restart
    PROVE  Inv'
<1>1. /\ g_root_directory' = Stamped(diskRoot) /\ g_Fat' = diskFat
      /\ pc' = "idle" /\ cmd' = NoCmd /\ written' = 0
      /\ UNCHANGED <<diskRoot, diskFat, diskData>>
  BY DEF Restart, Finish, disk
<1>2. /\ Stamped(diskRoot) \in [Slots -> Entries] /\ DirSound(Stamped(diskRoot))
      /\ Stamped(diskRoot)[0].name = StampedLabel
      /\ \A i \in FileSlots : Stamped(diskRoot)[i] = diskRoot[i]
  BY StampedFacts DEF Inv, TypeOK
<1>4. g_Fat' = g_Fat
  BY <1>1 DEF Inv, FatSound
<1>5. TypeOK'
  OBVIOUS
<1>6. DirSound(g_root_directory)' /\ DirSound(diskRoot)'
      /\ g_root_directory'[0].name = StampedLabel
  BY <1>1, <1>2 DEF Inv
<1>7. FatSound' /\ DataAllocated(diskRoot)'
  BY <1>1, <1>4 DEF Inv, FatSound, DataAllocated
<1>8. DataAllocated(g_root_directory)'
  BY <1>1, <1>2, <1>4 DEF Inv, DataAllocated
<1>9. Agree'
  BY <1>1, <1>2 DEF Agree
<1>10. InFlight' /\ NewfInFlight' /\ AppfInFlight'
  BY <1>1, NothingInFlight
<1>11. QED
  BY <1>5, <1>6, <1>7, <1>8, <1>9, <1>10 DEF Inv

-----------------------------------------------------------------------------
\* Types, through mishaps too.
LEMMA MishapTyped ==
    ASSUME TypeOK, NEW m \in {"none", "drive_error", "equal_sums"}, Mishap(m)
    PROVE  mishap' \in {"none", "drive_error", "equal_sums"}
BY DEF TypeOK, Mishap

LEMMA NewfTyped ==
    ASSUME TypeOK, NEW n \in Names \cup {NoName}, NewfNoCluster(n) \/ NewfBegin(n)
    PROVE  TypeOK'
<1>1. EmptySlot \in Slots /\ 0 \in Clusters /\ 0 \in 0 .. SectorSize
  BY Numbers, FatFilesAssumption DEF NewfNoCluster, NewfBegin
<1>2. ASSUME NEW c \in Clusters
      PROVE  [g_root_directory EXCEPT ![EmptySlot] = Entry(n, c, 0)] \in [Slots -> Entries]
  BY <1>1, <1>2, EntryTyped DEF TypeOK
<1>3. CASE NewfNoCluster(n)
  <2>1. g_root_directory' \in [Slots -> Entries]
    BY <1>1, <1>2, <1>3 DEF NewfNoCluster
  <2>2. QED
    BY <1>3, <2>1 DEF NewfNoCluster, Answer, TypeOK
<1>4. CASE NewfBegin(n)
  <2>1. FirstFree \in Clusters
    <3>1. FreeClusters \subseteq Nat /\ FreeClusters # {}
      BY <1>4, FatFilesAssumption DEF FreeClusters, Clusters, NewfBegin
    <3>2. \E m \in FreeClusters : \A k \in FreeClusters : m <= k
      BY <3>1, LeastElement
    <3>3. FirstFree \in FreeClusters
      BY <3>2 DEF FirstFree
    <3>4. QED
      BY <3>3 DEF FreeClusters
  <2>2. g_root_directory' \in [Slots -> Entries]
    BY <1>2, <1>4, <2>1 DEF NewfBegin
  <2>3. cmd' \in [name : Names \cup {NoName}, text : Texts \cup {<<>>}, at : Slots]
    BY <1>1, <1>4 DEF NewfBegin, Start
  <2>4. QED
    BY <1>4, <2>2, <2>3 DEF NewfBegin, Start, TypeOK
<1>5. QED
  BY <1>3, <1>4

LEMMA NewfSetFatTyped ==
    ASSUME TypeOK, NewfWriteFat \/ NewfFatFails
    PROVE  TypeOK'
<1>1. g_Fat' \in [Clusters -> FatValue]
  BY FatValues DEF NewfWriteFat, NewfFatFails, NewfSetFat, TypeOK
<1>2. diskFat' \in [Clusters -> FatValue]
  BY <1>1 DEF NewfWriteFat, NewfFatFails, WriteFat, TypeOK
<1>3. mishap' \in {"none", "drive_error", "equal_sums"}
  BY MishapTyped DEF NewfWriteFat, NewfFatFails, TypeOK
<1>4. NoCmd \in [name : Names \cup {NoName}, text : Texts \cup {<<>>}, at : Slots]
  BY Numbers DEF NoCmd
<1>5. QED
  BY <1>1, <1>2, <1>3, <1>4 DEF NewfWriteFat, NewfFatFails, NewfSetFat, Finish, TypeOK

\* The size fits the sector, whichever entry it is set in.
LEMMA AppfTyped ==
    ASSUME TypeOK, NEW n \in Names \cup {NoName}, NEW t \in Texts,
           AppfBegin(n, t) \/ AppfDataFails(n, t)
    PROVE  TypeOK'
<1> DEFINE f == g_root_directory[Find(n)]
           s == f.size + Len(t)
           at == SizeSlot(n)
<1>1. Found(n) /\ Fits(f, t) /\ AppfSetSize(n, t)
  BY DEF AppfBegin, AppfDataFails, AppfSetSize
<1>2. Find(n) \in Slots /\ g_root_directory[Find(n)].name = n
  BY <1>1, FindFacts
<1>3. f \in Entries /\ f.size \in Nat /\ t \in Seq(Byte \ {0}) /\ Len(t) \in Nat
  BY <1>2, EntryParts, FatFilesAssumption DEF TypeOK
<1>4. s \in 0 .. SectorSize /\ f.size + Len(t) <= SectorSize
  BY <1>1, <1>3, FitsFacts
<1>5. at \in Slots
  <2> DEFINE T == {i \in Slots : SameSum(g_root_directory[i].name, n)}
  <2>1. Find(n) \in T /\ T \in SUBSET Nat
    BY <1>2, FatFilesAssumption DEF SameSum, Slots
  <2>2. \E i \in T : \A j \in T : i <= j
    BY <2>1, LeastElement
  <2>3. QED
    BY <2>2 DEF SizeSlot
<1> HIDE DEF at, s
<1>6. g_root_directory' \in [Slots -> Entries]
  <2>1. g_root_directory' = [g_root_directory EXCEPT ![at].size = s]
    BY <1>1 DEF AppfSetSize, at, s
  <2>2. g_root_directory[at] \in Entries
    BY <1>5 DEF TypeOK
  <2>3. [g_root_directory[at] EXCEPT !.size = s] \in Entries
    BY <1>4, <2>2 DEF Entries
  <2>4. QED
    BY <1>5, <2>1, <2>3 DEF TypeOK
<1>7. diskData' \in [DataClusters -> Sector]
  <2>1. CASE AppfBegin(n, t) /\ f.cluster \in DataClusters
    <3>1. diskData[f.cluster] \in Sector
      BY <2>1 DEF TypeOK
    <3>2. Overlay(diskData[f.cluster], f.size, t) \in Sector
      <4> HIDE DEF f
      <4>1. QED
        BY ONLY <1>3, <1>4, <3>1, OverlayFacts
    <3>3. diskData' = [diskData EXCEPT ![f.cluster] = Overlay(@, f.size, t)]
      BY <2>1 DEF AppfBegin
    <3>4. QED
      BY <3>2, <3>3 DEF TypeOK
  <2>2. CASE AppfBegin(n, t) /\ f.cluster \notin DataClusters
    BY <2>2 DEF AppfBegin, TypeOK
  <2>3. CASE AppfDataFails(n, t)
    BY <2>3 DEF AppfDataFails, TypeOK
  <2>4. QED
    BY <2>1, <2>2, <2>3
<1>8. mishap' \in {"none", "drive_error", "equal_sums"}
  <2>1. CASE AppfBegin(n, t)
    BY <2>1, MishapTyped DEF AppfBegin
  <2>2. CASE AppfDataFails(n, t)
    BY <2>2, MishapTyped DEF AppfDataFails
  <2>3. QED
    BY <2>1, <2>2
<1>9. cmd' \in [name : Names \cup {NoName}, text : Texts \cup {<<>>}, at : Slots]
  BY <1>1, <1>5 DEF AppfSetSize, Start, at
<1>10. QED
  BY <1>1, <1>6, <1>7, <1>8, <1>9 DEF AppfSetSize, Start, TypeOK

LEMMA SectorsTyped ==
    ASSUME TypeOK, WriteRootSector \/ RootSectorFails
    PROVE  TypeOK'
<1>1. CASE WriteRootSector
  <2>1. diskRoot' \in [Slots -> Entries] /\ written' \in Nat
    BY <1>1, FatFilesAssumption DEF WriteRootSector, TypeOK
  <2>2. QED
    BY <1>1, <2>1 DEF WriteRootSector, TypeOK
<1>2. CASE RootSectorFails
  <2>1. mishap' \in {"none", "drive_error", "equal_sums"} /\ written' \in Nat
    BY <1>2, MishapTyped, FatFilesAssumption DEF RootSectorFails
  <2>2. QED
    BY <1>2, <2>1 DEF RootSectorFails, disk, TypeOK
<1>3. QED
  BY <1>1, <1>2

LEMMA RestartTyped == TypeOK /\ Restart => TypeOK'
<1> SUFFICES ASSUME TypeOK, Restart PROVE TypeOK'
  OBVIOUS
<1>1. Stamped(diskRoot) \in [Slots -> Entries]
  <2>1. 0 \in Slots /\ diskRoot[0] \in Entries
    BY Numbers, FatFilesAssumption DEF TypeOK, Slots
  <2>2. [diskRoot[0] EXCEPT !.name = StampedLabel] \in Entries
    BY <2>1 DEF Entries
  <2>3. QED
    BY <2>1, <2>2 DEF Stamped, TypeOK
<1>2. NoCmd \in [name : Names \cup {NoName}, text : Texts \cup {<<>>}, at : Slots]
  BY Numbers DEF NoCmd
<1>3. QED
  BY <1>1, <1>2 DEF Restart, Finish, disk, TypeOK

LEMMA TypeStep == TypeOK /\ [Next]_vars => TypeOK'
<1> SUFFICES ASSUME TypeOK, [Next]_vars PROVE TypeOK'
  OBVIOUS
<1>1. NoCmd \in [name : Names \cup {NoName}, text : Texts \cup {<<>>}, at : Slots]
  BY Numbers DEF NoCmd
<1>2. ASSUME NEW n \in Names \cup {NoName}, Command(n) PROVE TypeOK'
  <2>1. CASE NewfNoCluster(n) \/ NewfBegin(n)
    BY <2>1, NewfTyped
  <2>2. CASE \E t \in Texts : AppfBegin(n, t) \/ AppfDataFails(n, t)
    BY <2>2, AppfTyped
  <2>3. CASE \/ NewfExists(n) \/ AppfNotFound(n) \/ ReadNotFound(n) \/ ReadShows(n) \/ Delf(n)
             \/ \E t \in Texts : AppfTooBig(n, t)
    BY <2>3 DEF NewfExists, AppfNotFound, ReadNotFound, ReadShows, Delf, AppfTooBig, Answer,
       TypeOK
  <2>4. CASE RunsAway(n)
    <3>1. cmd' \in [name : Names \cup {NoName}, text : Texts \cup {<<>>}, at : Slots]
      BY <2>4, Numbers DEF RunsAway
    <3>2. QED
      BY <2>4, <3>1 DEF RunsAway, TypeOK
  <2>5. QED
    BY <1>2, <2>1, <2>2, <2>3, <2>4 DEF Command
<1>3. CASE List
  BY <1>3 DEF List, Answer, TypeOK
<1>4. CASE WriteRootSector \/ RootSectorFails
  BY <1>4, SectorsTyped
<1>5. CASE NewfWriteFat \/ NewfFatFails
  BY <1>5, NewfSetFatTyped
<1>6. CASE AppfDone
  BY <1>1, <1>6 DEF AppfDone, Finish, TypeOK
<1>7. CASE Restart
  BY <1>7, RestartTyped
<1>8. CASE UNCHANGED vars
  BY <1>8 DEF vars, TypeOK
<1>9. QED
  BY <1>2, <1>3, <1>4, <1>5, <1>6, <1>7, <1>8 DEF Next

-----------------------------------------------------------------------------
\* The image: files in the first slots, each with the cluster after its slot.
LEMMA ImageFileTyped ==
    ASSUME NEW i \in 1 .. Len(ImageFiles)
    PROVE  /\ ImageFiles[i].name \in Names /\ ImageFiles[i].name # StampedLabel
           /\ ImageFiles[i].text \in Seq(Byte \ {0})
<1> DEFINE R == [name : Names \ {StampedLabel}, text : Seq(Byte \ {0})]
<1>1. ImageFiles \in Seq(R)
  BY ImageAssumption
<1>2. ImageFiles[i] \in R
  <2> HIDE DEF R
  <2>1. QED
    BY <1>1
<1>3. QED
  BY <1>2

LEMMA ImageRootFacts ==
    /\ ImageRoot \in [Slots -> Entries] /\ DirSound(ImageRoot)
    /\ \A i \in FileSlots : ImageRoot[i].size > 0 =>
          ImageFat[ImageRoot[i].cluster] = 4095
<1> DEFINE last == Len(ImageFiles)
           name(i) == ImageFiles[i].name
           size(i) == Len(ImageFiles[i].text)
<1>1. /\ last \in Nat /\ ScanLimit \in Nat /\ SectorSize \in Nat /\ last <= ScanLimit - 2
      /\ 2 <= ScanLimit
      /\ \A i \in 1 .. last : /\ name(i) \in Names /\ name(i) # StampedLabel
                              /\ size(i) \in 1 .. SectorSize
      /\ \A i, j \in 1 .. last : name(i) = name(j) => i = j
      /\ NoName \notin Names
  <2>1. last \in Nat /\ last <= ScanLimit - 2
    BY ImageAssumption
  <2>2. \A i \in 1 .. last : name(i) \in Names /\ name(i) # StampedLabel
    BY ImageFileTyped
  <2>3. /\ \A i \in 1 .. last : size(i) \in 1 .. SectorSize
        /\ \A i, j \in 1 .. last : name(i) = name(j) => i = j
    BY ImageAssumption
  <2>4. QED
    BY <2>1, <2>2, <2>3, FatFilesAssumption
<1>2. /\ 0 \in Slots /\ FileSlots \subseteq Slots /\ Slots \subseteq Nat
      /\ \A i \in Slots : i = 0 \/ i \in FileSlots
      /\ \A i \in FileSlots : i # 0 /\ i \in Nat
  BY Numbers, FatFilesAssumption DEF FileSlots, Slots
<1>3. ImageRoot[0] = Entry(Label, 0, 0)
  BY <1>2 DEF ImageRoot
<1>4. \A i \in FileSlots : ImageRoot[i] = IF i <= last THEN Entry(name(i), i + 1, size(i)) ELSE Unused
  BY <1>2 DEF ImageRoot
<1> HIDE DEF name, size, last
<1>5. \A i \in FileSlots : i <= last =>
         /\ i \in 1 .. last
         /\ ImageRoot[i].name = name(i) /\ ImageRoot[i].cluster = i + 1
         /\ ImageRoot[i].size = size(i)
  <2>1. TAKE i \in FileSlots
  <2>2. HAVE i <= last
  <2>3. i \in 1 .. last
    BY <1>1, <1>2, <2>2
  <2>4. ImageRoot[i] = Entry(name(i), i + 1, size(i))
    BY <1>4, <2>2
  <2>5. QED
    BY <2>3, <2>4, EntryIs
<1>6. \A i \in FileSlots : ~(i <= last) => ImageRoot[i] = Unused
  BY <1>4
<1>7. \A i \in FileSlots : i <= last => i + 1 \in DataClusters /\ i + 1 # 0 /\ size(i) > 0
  BY <1>1, <1>2, <1>5 DEF DataClusters
<1>8. ImageRoot \in [Slots -> Entries]
  <2>1. ImageRoot = [i \in Slots |-> ImageRoot[i]]
    BY DEF ImageRoot
  <2>2. SUFFICES ASSUME NEW i \in Slots PROVE ImageRoot[i] \in Entries
    BY <2>1
  <2>3. 0 \in Clusters /\ 0 \in 0 .. SectorSize
    BY <1>1, Numbers
  <2>4. CASE i = 0
    BY <1>3, <2>3, <2>4, EntryTyped
  <2>5. CASE i \in FileSlots /\ i <= last
    <3>1. i + 1 \in Clusters /\ size(i) \in 0 .. SectorSize /\ name(i) \in Names
      BY <1>1, <1>5, <1>7, <2>5, Numbers
    <3>2. ImageRoot[i] = Entry(name(i), i + 1, size(i))
      BY <1>4, <2>5
    <3>3. QED
      BY <3>1, <3>2, EntryTyped
  <2>6. CASE i \in FileSlots /\ ~(i <= last)
    BY <1>6, <2>3, <2>6, EntryTyped DEF Unused
  <2>7. QED
    BY <1>2, <2>4, <2>5, <2>6
<1>9. LabelEntry(ImageRoot)
  BY <1>3, EntryIs DEF LabelEntry
<1>10. EntriesSound(ImageRoot)
  <2>1. SUFFICES ASSUME NEW i \in FileSlots
                 PROVE  /\ ImageRoot[i].name \in Names \cup {NoName}
                        /\ ImageRoot[i].name # StampedLabel
                        /\ ImageRoot[i].cluster \in DataClusters \cup {0}
                        /\ ImageRoot[i].size > 0 => ImageRoot[i].cluster # 0
                        /\ ImageRoot[i].name = NoName => ImageRoot[i] = Unused
    BY DEF EntriesSound
  <2>2. CASE i <= last
    BY <1>1, <1>5, <1>7, <2>2
  <2>3. CASE ~(i <= last)
    BY <1>6, <2>3, UnusedParts, FatFilesAssumption
  <2>4. QED
    BY <2>2, <2>3
<1>11. EmptiesLast(ImageRoot)
  <2>1. SUFFICES ASSUME NEW i \in FileSlots, NEW j \in FileSlots, i < j, ImageRoot[i].size = 0
                 PROVE  ImageRoot[j] = Unused
    BY DEF EmptiesLast
  <2>2. ~(i <= last)
    BY <1>1, <1>5, <1>7, <2>1
  <2>3. ~(j <= last)
    BY <1>1, <1>2, <2>1, <2>2
  <2>4. QED
    BY <1>6, <2>3
<1>12. NamesDiffer(ImageRoot)
  <2>1. SUFFICES ASSUME NEW i \in FileSlots, NEW j \in FileSlots, i # j,
                        ImageRoot[i].name # NoName
                 PROVE  ImageRoot[i].name # ImageRoot[j].name
    BY DEF NamesDiffer
  <2>2. i <= last
    BY <1>6, <2>1, UnusedParts
  <2>3. CASE j <= last
    BY <1>1, <1>5, <2>1, <2>2, <2>3
  <2>4. CASE ~(j <= last)
    BY <1>6, <2>1, <2>4, UnusedParts
  <2>5. QED
    BY <2>3, <2>4
<1>13. ClustersDiffer(ImageRoot)
  <2>1. SUFFICES ASSUME NEW i \in FileSlots, NEW j \in FileSlots, i # j,
                        ImageRoot[i].cluster # 0
                 PROVE  ImageRoot[i].cluster # ImageRoot[j].cluster
    BY DEF ClustersDiffer
  <2>2. i <= last
    BY <1>6, <2>1, UnusedParts
  <2>3. CASE j <= last
    BY <1>2, <1>5, <2>1, <2>2, <2>3
  <2>4. CASE ~(j <= last)
    BY <1>6, <2>1, <2>4, UnusedParts
  <2>5. QED
    BY <2>3, <2>4
<1>14. ASSUME NEW i \in FileSlots, ImageRoot[i].size > 0
       PROVE  ImageFat[ImageRoot[i].cluster] = 4095
  <2>1. i <= last
    BY <1>6, <1>14, UnusedParts
  <2>2. ImageRoot[i].cluster = i + 1 /\ i + 1 \in Clusters /\ i + 1 # 0 /\ i + 1 <= last + 1
    BY <1>1, <1>2, <1>5, <1>7, <2>1, Numbers
  <2>3. QED
    BY <2>2 DEF ImageFat, last
<1>15. QED
  BY <1>8, <1>9, <1>10, <1>11, <1>12, <1>13, <1>14 DEF DirSound

LEMMA ImageFatFacts ==
    /\ ImageFat \in [Clusters -> FatValue]
    /\ ImageFat[0] = MediaEntry /\ ImageFat[1] # 0
    /\ \A c \in Clusters \ {0} : ImageFat[c] = 0 \/ ImageFat[c] >= EndOfChain
<1>1. 4095 \in FatValue /\ 0 \in FatValue /\ MediaEntry \in FatValue /\ 4095 >= EndOfChain
  BY FatFilesAssumption DEF FatValue, EndOfChain
<1>2. \A c \in Clusters : ImageFat[c] = IF c = 0 THEN MediaEntry
                                        ELSE IF c <= Len(ImageFiles) + 1 THEN 4095 ELSE 0
  BY DEF ImageFat
<1>3. ImageFat \in [Clusters -> FatValue]
  BY <1>1 DEF ImageFat
<1>4. 0 \in Clusters /\ 1 \in Clusters
  BY Numbers
<1>5. Len(ImageFiles) \in Nat
  BY ImageAssumption
<1>6. ImageFat[0] = MediaEntry
  BY <1>2, <1>4
<1>7. ImageFat[1] # 0
  BY <1>2, <1>4, <1>5
<1>8. \A c \in Clusters \ {0} : ImageFat[c] = 0 \/ ImageFat[c] >= EndOfChain
  BY <1>1, <1>2
<1>9. QED
  BY <1>3, <1>6, <1>7, <1>8

LEMMA ImageDataFacts == ImageData \in [DataClusters -> Sector]
<1>1. ASSUME NEW t \in Seq(Byte) PROVE Pad(t) \in Sector
  <2>1. ASSUME NEW k \in 1 .. SectorSize
        PROVE  (IF k <= Len(t) THEN t[k] ELSE 0) \in Byte
    <3>1. Len(t) \in Nat /\ 0 \in Byte /\ SectorSize \in Nat
      BY FatFilesAssumption DEF Byte
    <3>2. k <= Len(t) => t[k] \in Byte
      <4> HIDE DEF Byte
      <4>1. k <= Len(t) => k \in 1 .. Len(t)
        BY <3>1
      <4>2. QED
        BY <4>1
    <3>3. QED
      BY <3>1, <3>2
  <2>2. QED
    BY <2>1 DEF Pad, Sector
<1>2. ASSUME NEW c \in DataClusters
      PROVE  (IF c <= Len(ImageFiles) + 1 THEN ImageFiles[c - 1].text ELSE <<>>) \in Seq(Byte)
  <2>1. CASE c <= Len(ImageFiles) + 1
    <3>1. c - 1 \in 1 .. Len(ImageFiles)
      BY <2>1, ImageAssumption, FatFilesAssumption DEF DataClusters
    <3>2. ImageFiles[c - 1].text \in Seq(Byte \ {0})
      BY <3>1, ImageFileTyped
    <3>3. QED
      BY <2>1, <3>2
  <2>2. CASE ~(c <= Len(ImageFiles) + 1)
    BY <2>2
  <2>3. QED
    BY <2>1, <2>2
<1>3. QED
  BY <1>1, <1>2 DEF ImageData

LEMMA InitInv == Init => Inv
<1> SUFFICES ASSUME Init PROVE Inv
  OBVIOUS
<1>1. /\ diskRoot = ImageRoot /\ diskFat = ImageFat /\ diskData = ImageData
      /\ g_root_directory = Stamped(ImageRoot) /\ g_Fat = ImageFat
      /\ pc = "idle" /\ cmd = NoCmd /\ written = 0 /\ mishap = "none"
  BY DEF Init
<1>2. /\ ImageRoot \in [Slots -> Entries] /\ DirSound(ImageRoot)
      /\ \A i \in FileSlots : ImageRoot[i].size > 0 => ImageFat[ImageRoot[i].cluster] = 4095
  BY ImageRootFacts
<1>3. /\ Stamped(ImageRoot) \in [Slots -> Entries] /\ DirSound(Stamped(ImageRoot))
      /\ Stamped(ImageRoot)[0].name = StampedLabel
      /\ \A i \in FileSlots : Stamped(ImageRoot)[i] = ImageRoot[i]
  BY <1>2, StampedFacts
<1>4. NoCmd \in [name : Names \cup {NoName}, text : Texts \cup {<<>>}, at : Slots]
  BY Numbers DEF NoCmd
<1>5. TypeOK
  BY <1>1, <1>2, <1>3, <1>4, ImageFatFacts, ImageDataFacts DEF TypeOK
<1>6. FatSound
  BY <1>1, ImageFatFacts DEF FatSound
<1>7. DataAllocated(g_root_directory) /\ DataAllocated(diskRoot)
  <2>1. 4095 >= EndOfChain
    BY DEF EndOfChain
  <2>2. QED
    BY <1>1, <1>2, <1>3, <2>1 DEF DataAllocated
<1>8. Agree
  BY <1>1, <1>3 DEF Agree
<1>9. InFlight /\ NewfInFlight /\ AppfInFlight
  BY <1>1 DEF InFlight, NewfInFlight, AppfInFlight
<1>10. QED
  BY <1>1, <1>2, <1>3, <1>5, <1>6, <1>7, <1>8, <1>9 DEF Inv

LEMMA CommandStep ==
    ASSUME Sound', Inv, TypeOK', NEW n \in Names \cup {NoName}, Command(n)
    PROVE  Inv'
<1>1. CASE NewfExists(n)
  BY <1>1, QuietStep DEF NewfExists, Answer
<1>2. CASE NewfNoCluster(n)
  BY <1>2, NewfNoClusterStep
<1>3. CASE NewfBegin(n)
  BY <1>3, NewfBeginStep
<1>4. CASE AppfNotFound(n)
  BY <1>4, QuietStep DEF AppfNotFound, Answer
<1>5. ASSUME NEW t \in Texts, AppfTooBig(n, t)
      PROVE  Inv'
  BY <1>5, QuietStep DEF AppfTooBig, Answer
<1>6. ASSUME NEW t \in Texts, AppfBegin(n, t)
      PROVE  Inv'
  BY <1>6, AppfBeginStep
<1>7. ASSUME NEW t \in Texts, AppfDataFails(n, t)
      PROVE  FALSE
  BY <1>7 DEF AppfDataFails, Mishap, Sound
<1>8. CASE ReadNotFound(n)
  BY <1>8, QuietStep DEF ReadNotFound, Answer
<1>9. CASE ReadShows(n)
  BY <1>9, QuietStep DEF ReadShows, Answer
<1>10. CASE RunsAway(n)
  BY <1>10, QuietStep DEF RunsAway
<1>11. CASE Delf(n)
  BY <1>11, QuietStep DEF Delf, Answer
<1>12. QED
  BY <1>1, <1>2, <1>3, <1>4, <1>5, <1>6, <1>7, <1>8, <1>9, <1>10, <1>11 DEF Command

\* What went wrong stays: a state without mishaps comes from one without.
LEMMA SoundBefore ==
    ASSUME Sound', [Next]_vars
    PROVE  Sound /\ ~RootSectorFails /\ ~NewfFatFails
                 /\ \A n, t : ~AppfDataFails(n, t)
<1>1. ASSUME NEW n \in Names \cup {NoName}, Command(n) PROVE Sound
  BY <1>1 DEF Command, NewfExists, NewfNoCluster, NewfBegin, AppfNotFound, AppfTooBig,
     AppfBegin, AppfDataFails, ReadNotFound, ReadShows, RunsAway, Delf, Answer, Mishap, Sound
<1>2. List \/ WriteRootSector \/ NewfWriteFat \/ AppfDone \/ Restart \/ UNCHANGED vars => Sound
  BY DEF List, Answer, WriteRootSector, NewfWriteFat, AppfDone, Restart, vars, Sound
<1>3. ~RootSectorFails /\ ~NewfFatFails /\ \A n, t : ~AppfDataFails(n, t)
  BY DEF RootSectorFails, NewfFatFails, AppfDataFails, Mishap, Sound
<1>4. QED
  BY <1>1, <1>2, <1>3 DEF Next

\* A step of a state that satisfies the invariant, without a mishap.
CleanStep ==
    /\ Sound /\ Sound' /\ Inv /\ [Next]_vars
    /\ ~RootSectorFails /\ ~NewfFatFails /\ \A n, t : ~AppfDataFails(n, t)

LEMMA StepIsClean == SoundInv /\ [Next]_vars /\ Sound' => CleanStep
BY SoundBefore DEF SoundInv, CleanStep

LEMMA NextInv == TypeOK' /\ SoundInv /\ [Next]_vars => SoundInv'
<1> SUFFICES ASSUME TypeOK', SoundInv, [Next]_vars, Sound' PROVE Inv'
  BY DEF SoundInv
<1>1. Inv /\ ~RootSectorFails /\ ~NewfFatFails
  BY SoundBefore DEF SoundInv
<1>2. ASSUME NEW n \in Names \cup {NoName}, Command(n)
      PROVE  Inv'
  BY <1>1, <1>2, CommandStep
<1>3. CASE List
  BY <1>1, <1>3, QuietStep DEF List, Answer
<1>4. CASE WriteRootSector
  BY <1>1, <1>4, WriteRootSectorStep
<1>5. CASE NewfWriteFat
  BY <1>1, <1>5, NewfWriteFatStep
<1>6. CASE AppfDone
  BY <1>1, <1>6, AppfDoneStep
<1>7. CASE Restart
  BY <1>1, <1>7, RestartStep
<1>8. CASE UNCHANGED vars
  BY <1>1, <1>8 DEF vars, Inv, TypeOK, DirSound, LabelEntry, EntriesSound, EmptiesLast,
     NamesDiffer, ClustersDiffer, FatSound, DataAllocated, Agree, InFlight, NewfInFlight,
     AppfInFlight
<1>9. QED
  BY <1>1, <1>2, <1>3, <1>4, <1>5, <1>6, <1>7, <1>8 DEF Next

-----------------------------------------------------------------------------
\* Types are kept, by every command, mishap and reset: in particular the sizes
\* never exceed the sector (appf's check, shell.c 308), and the clusters in the
\* directory are clusters of the table.
THEOREM TypesHold == Spec => []TypeOK
<1>1. Init => TypeOK
  BY InitInv DEF Inv
<1>2. QED
  BY <1>1, TypeStep, PTL DEF Spec

\* The whole invariant holds until the first mishap: what memory and disk hold
\* stays sound through every command of shell.c, each of its sector writes and a
\* reset between any two of them, on a directory, a FAT and files of any size and
\* with any names, as long as the drive takes its sectors and appf finds the entry
\* it has read.
THEOREM InvariantHolds == Spec => []SoundInv
<1>1. Init => SoundInv
  BY InitInv DEF SoundInv
<1>2. QED
  BY <1>1, NextInv, TypesHold, PTL DEF Spec

\* Before the drive has failed, appf only mistakes the entry (shell.c 330, string.c)
\* when two names, or a name and the stamped label, have the same sum of bytes.
THEOREM DistinctSumsSuffice ==
    ASSUME DistinctSums
    PROVE  Spec => [](mishap # "equal_sums")
<1>1. Init => mishap # "equal_sums"
  BY DEF Init
<1>2. ASSUME TypeOK, SoundInv, mishap # "equal_sums", [Next]_vars PROVE (mishap # "equal_sums")'
  <2>1. ASSUME NEW n \in Names \cup {NoName}, NEW t \in Texts, AppfBegin(n, t)
        PROVE  (mishap # "equal_sums")'
    <3>1. CASE ~Sound
      BY <1>2, <2>1, <3>1 DEF AppfBegin, Mishap, Sound, TypeOK
    <3>2. CASE Sound
      <4>1. SizeSlot(n) = Find(n)
        BY <1>2, <2>1, <3>2, SizeSlotFacts DEF SoundInv, Inv, AppfBegin, AppfSetSize
      <4>2. QED
        BY <1>2, <2>1, <4>1 DEF AppfBegin, Mishap
    <3>3. QED
      BY <3>1, <3>2
  <2>2. ASSUME NEW n \in Names \cup {NoName}, Command(n), \A t \in Texts : ~AppfBegin(n, t)
        PROVE  (mishap # "equal_sums")'
    BY <1>2, <2>2 DEF Command, NewfExists, NewfNoCluster, NewfBegin, AppfNotFound, AppfTooBig,
       AppfDataFails, ReadNotFound, ReadShows, RunsAway, Delf, Answer, Mishap
  <2>3. CASE \/ List \/ WriteRootSector \/ RootSectorFails \/ NewfWriteFat \/ NewfFatFails
             \/ AppfDone \/ Restart \/ UNCHANGED vars
    BY <1>2, <2>3 DEF List, Answer, WriteRootSector, RootSectorFails, NewfWriteFat, NewfFatFails,
       AppfDone, Restart, Mishap, vars
  <2>4. ASSUME NEW n \in Names \cup {NoName}, Command(n) PROVE (mishap # "equal_sums")'
    BY <2>1, <2>2, <2>4
  <2>5. QED
    BY <1>2, <2>3, <2>4 DEF Next
<1>3. QED
  BY <1>1, <1>2, InvariantHolds, TypesHold, PTL DEF Spec

LEMMA SoundIsDisjoint ==
    ASSUME NEW dir \in [Slots -> Entries], DirSound(dir)
    PROVE  Disjoint(dir)
<1>1. SUFFICES ASSUME NEW i \in Slots, NEW j \in Slots, i # j,
                      dir[i].cluster # 0, dir[j].cluster # 0
               PROVE  dir[i].cluster # dir[j].cluster /\ dir[i].name # dir[j].name
  BY DEF Disjoint
<1>2. i \in FileSlots /\ j \in FileSlots
  BY <1>1 DEF DirSound, LabelEntry, FileSlots
<1>3. dir[i].name # NoName
  BY <1>1, <1>2, UnusedParts DEF DirSound, EntriesSound
<1>4. QED
  BY <1>1, <1>2, <1>3 DEF DirSound, NamesDiffer, ClustersDiffer

\* newf never gives a cluster to two files (shell.c 255-263), and no name is
\* given to two: in memory, on the disk, and on a disk that a reset left between
\* the writes of the directory and of the FAT.
THEOREM ClustersNotShared == Spec => []NoSharedClusters
<1>1. SoundInv => NoSharedClusters
  BY SoundIsDisjoint DEF SoundInv, Inv, TypeOK, NoSharedClusters
<1>2. QED
  BY <1>1, InvariantHolds, PTL

\* The cluster of a file with data ends a chain in the FAT on the disk, so that
\* fat_drive_read_file stops: also for the directory that is on the disk while
\* only a part of it has been written.
THEOREM DataStaysReachable == Spec => []DataIsReachable
<1>1. ASSUME Inv PROVE DataIsReachable
  <2>1. ASSUME NEW dir \in [Slots -> Entries], DirSound(dir), DataAllocated(dir),
               NEW i \in Slots, dir[i].size > 0
        PROVE  g_Fat[dir[i].cluster] >= EndOfChain
    <3>1. i # 0
      BY <2>1 DEF DirSound, LabelEntry
    <3>2. QED
      BY <2>1, <3>1 DEF DataAllocated, FileSlots
  <2>2. /\ \A i \in Slots : g_root_directory[i].size > 0 =>
                g_Fat[g_root_directory[i].cluster] >= EndOfChain
        /\ \A i \in Slots : diskRoot[i].size > 0 => g_Fat[diskRoot[i].cluster] >= EndOfChain
    BY <1>1, <2>1 DEF Inv, TypeOK
  <2>3. QED
    BY <1>1, <2>2 DEF Inv, FatSound, DataIsReachable
<1>2. SoundInv => DataIsReachable
  BY <1>1 DEF SoundInv, DataIsReachable
<1>3. QED
  BY <1>2, InvariantHolds, PTL

\* newf's search for an entry and list's loop end inside the directory, and list
\* prints no more lines than string_results has: refused, cut-off and repeated
\* commands never fill more slots than there are clusters to scan, plus one.
THEOREM DirectoryAlwaysFits == Spec => []DirectoryFits
<1>1. ASSUME Inv PROVE DirectoryFits
  <2>1. EmptySlot \in FileSlots /\ ListEnd \in FileSlots /\ ListEnd <= ScanLimit
    BY <1>1, EmptySlotFacts, ListEndFacts DEF Inv, TypeOK
  <2>2. EmptySlot \in Slots /\ ListEnd \in Slots /\ ListEnd \in Int
    BY <2>1, FatFilesAssumption DEF FileSlots, Slots
  <2>3. ListEnd - 1 <= MaxResults
    BY <2>1, <2>2, FatFilesAssumption
  <2>4. QED
    BY <2>2, <2>3 DEF DirectoryFits
<1>2. SoundInv => DirectoryFits
  BY <1>1 DEF SoundInv, DirectoryFits
<1>3. QED
  BY <1>2, InvariantHolds, PTL

\* list prints the name of every file that holds data: the loop that stops at the
\* first unused entry misses none, and what it printed stays true until the next
\* command changes the directory.
THEOREM ListIsComplete == Spec => []ListShowsFiles
<1>1. Init => ListShowsFiles
  BY DEF Init, NoReply, Reply, ListShowsFiles
<1>2. ASSUME CleanStep, ListShowsFiles PROVE ListShowsFiles'
  <2> USE DEF CleanStep
  <2>1. ASSUME List PROVE ListShowsFiles'
    <3>1. /\ UNCHANGED g_root_directory
          /\ reply'.listed = {g_root_directory[i].name : i \in 1 .. ListEnd - 1}
      BY <2>1 DEF List, Answer, Reply
    <3>2. SUFFICES ASSUME NEW i \in Slots, g_root_directory[i].size > 0
                   PROVE  i \in 1 .. ListEnd - 1
      BY <3>1 DEF ListShowsFiles
    <3>3. /\ ListEnd \in FileSlots /\ g_root_directory[ListEnd].name = NoName
      BY <1>2, ListEndFacts DEF Inv, TypeOK
    <3>4. g_root_directory[ListEnd] = Unused
      BY <1>2, <3>3 DEF Inv, DirSound, EntriesSound
    <3>5. i \in FileSlots
      BY <1>2, <3>2 DEF Inv, DirSound, LabelEntry, FileSlots
    <3>6. i # ListEnd
      BY <3>2, <3>4, UnusedParts
    <3>7. ~(ListEnd < i)
      <4>1. SUFFICES ASSUME ListEnd < i PROVE FALSE
        OBVIOUS
      <4>2. g_root_directory[i] = Unused
        BY <1>2, <3>3, <3>4, <3>5, <4>1, UnusedParts DEF Inv, DirSound, EmptiesLast
      <4>3. QED
        BY <3>2, <4>2, UnusedParts
    <3>8. QED
      BY <3>3, <3>5, <3>6, <3>7, Numbers
  <2>2. ASSUME NEW n \in Names \cup {NoName}, Command(n) PROVE reply'.op # "list"
    BY <2>2 DEF Command, NewfExists, NewfNoCluster, NewfBegin, AppfNotFound, AppfTooBig,
       AppfBegin, AppfDataFails, AppfSetSize, ReadNotFound, ReadShows, RunsAway, Delf, Answer,
       Start, Reply, NoReply
  <2>3. CASE WriteRootSector
    BY <1>2, <2>3 DEF WriteRootSector, ListShowsFiles
  <2>4. CASE NewfWriteFat \/ AppfDone \/ Restart
    <3>1. reply'.op # "list"
      BY <2>4 DEF NewfWriteFat, NewfSetFat, AppfDone, Restart, Finish, Reply, NoReply
    <3>2. QED
      BY <3>1 DEF ListShowsFiles
  <2>5. CASE UNCHANGED vars
    BY <1>2, <2>5 DEF vars, ListShowsFiles
  <2>6. QED
    BY <1>2, <2>1, <2>2, <2>3, <2>4, <2>5 DEF Next, ListShowsFiles
<1>3. SoundInv /\ ListShowsFiles /\ [Next]_vars => ListShowsFiles'
  BY <1>2, StepIsClean DEF ListShowsFiles
<1>4. QED
  BY <1>1, <1>3, InvariantHolds, PTL DEF Spec

-----------------------------------------------------------------------------
\* The first bytes of a sector.
LEMMA PrefixFacts ==
    ASSUME NEW f \in Sector, NEW n \in 0 .. SectorSize
    PROVE  /\ SubSeq(f, 1, n) \in Seq(Byte)
           /\ Len(SubSeq(f, 1, n)) = n
           /\ \A k \in 1 .. n : SubSeq(f, 1, n)[k] = f[k]
<1>1. \A k \in 1 .. n : f[k] \in Byte
  BY FatFilesAssumption DEF Sector
<1>2. n \in Nat
  BY FatFilesAssumption
<1>3. /\ SubSeq(f, 1, n) \in Seq(Byte)
      /\ Len(SubSeq(f, 1, n)) = IF 1 <= n THEN n - 1 + 1 ELSE 0
      /\ \A k \in 1 .. n - 1 + 1 : SubSeq(f, 1, n)[k] = f[1 + k - 1]
  BY <1>1, <1>2, SubSeqProperties
<1>4. n - 1 + 1 = n /\ \A k \in 1 .. n : 1 + k - 1 = k
  BY <1>2
<1>5. QED
  BY <1>2, <1>3, <1>4

LEMMA NoBytes ==
    ASSUME NEW f
    PROVE  SubSeq(f, 1, 0) = <<>>
BY SubSeqEmpty

LEMMA SamePrefix ==
    ASSUME NEW f \in Sector, NEW g \in Sector, NEW n \in 0 .. SectorSize,
           \A k \in 1 .. n : f[k] = g[k]
    PROVE  SubSeq(f, 1, n) = SubSeq(g, 1, n)
<1> DEFINE s == SubSeq(f, 1, n)
           t == SubSeq(g, 1, n)
<1>1. s \in Seq(Byte) /\ Len(s) = n /\ \A k \in 1 .. n : s[k] = f[k]
  BY PrefixFacts
<1>2. t \in Seq(Byte) /\ Len(t) = n /\ \A k \in 1 .. n : t[k] = g[k]
  BY PrefixFacts
<1>3. QED
  <2> HIDE DEF s, t
  <2>1. Len(s) = Len(t) /\ \A k \in 1 .. Len(s) : s[k] = t[k]
    BY <1>1, <1>2
  <2>2. s = t
    BY <1>1, <1>2, <2>1, SeqEqual
  <2>3. QED
    BY <2>2 DEF s, t

\* a prefix that ends with a text is a shorter one with the text behind it
LEMMA PrefixGrows ==
    ASSUME NEW f \in Sector, NEW a \in Nat, NEW t \in Seq(Byte),
           a + Len(t) \in 0 .. SectorSize,
           \A k \in 1 .. Len(t) : f[a + k] = t[k]
    PROVE  SubSeq(f, 1, a + Len(t)) = SubSeq(f, 1, a) \o t
<1> DEFINE long == SubSeq(f, 1, a + Len(t))
           short == SubSeq(f, 1, a)
           n == Len(t)
<1>1. n \in Nat /\ a \in 0 .. SectorSize
  BY FatFilesAssumption, LenProperties
<1>2. long \in Seq(Byte) /\ Len(long) = a + n /\ \A k \in 1 .. a + n : long[k] = f[k]
  BY PrefixFacts
<1>3. short \in Seq(Byte) /\ Len(short) = a /\ \A k \in 1 .. a : short[k] = f[k]
  BY <1>1, PrefixFacts
<1>4. QED
  <2> HIDE DEF long, short, n
  <2>1. /\ short \o t \in Seq(Byte)
        /\ Len(short \o t) = a + n
        /\ \A k \in 1 .. a + n : (short \o t)[k] = IF k <= a THEN short[k] ELSE t[k - a]
    BY <1>3, ConcatProperties DEF n
  <2>2. ASSUME NEW k \in 1 .. a + n PROVE long[k] = (short \o t)[k]
    <3>1. CASE k <= a
      <4>1. k \in 1 .. a
        BY <1>1, <3>1
      <4>2. short[k] = f[k]
        BY ONLY <1>3, <4>1
      <4>3. long[k] = f[k]
        BY ONLY <1>2, <2>2
      <4>4. (short \o t)[k] = short[k]
        BY ONLY <2>1, <3>1, <2>2
      <4>5. QED
        BY ONLY <4>2, <4>3, <4>4
    <3>2. CASE ~(k <= a)
      <4>1. k - a \in 1 .. n /\ a + (k - a) = k
        BY <1>1, <3>2
      <4>2. f[k] = t[k - a]
        <5>1. f[a + (k - a)] = t[k - a]
          BY <4>1 DEF n
        <5>2. QED
          BY <4>1, <5>1
      <4>3. QED
        BY <1>2, <2>1, <3>2, <4>2
    <3>3. QED
      BY <3>1, <3>2
  <2>3. long = short \o t
    BY <1>2, <2>1, <2>2, SeqEqual
  <2>4. QED
    BY <2>3 DEF long, short, n

-----------------------------------------------------------------------------
\* Stored, for any directory and data.
HoldingIn(dir, n) == {i \in Slots : i # 0 /\ dir[i].name = n /\ dir[i].size > 0}
EntryBytes(e, data) == SubSeq(data[e.cluster], 1, e.size)
StoredIn(dir, data, n) ==
    IF HoldingIn(dir, n) = {} THEN <<>>
    ELSE EntryBytes(dir[CHOOSE i \in HoldingIn(dir, n) : TRUE], data)

LEMMA StoredIsIn ==
    ASSUME NEW n
    PROVE  /\ Stored(n) = StoredIn(diskRoot, diskData, n)
           /\ Stored(n)' = StoredIn(diskRoot', diskData', n)
BY DEF Stored, Holding, StoredIn, HoldingIn, EntryBytes

\* A name that no entry with data has holds nothing.
LEMMA StoredNothing ==
    ASSUME NEW dir, NEW data, NEW n,
           \A i \in FileSlots : dir[i].name = n => ~(dir[i].size > 0)
    PROVE  StoredIn(dir, data, n) = <<>>
<1>1. HoldingIn(dir, n) = {}
  BY DEF HoldingIn, FileSlots
<1>2. QED
  BY <1>1 DEF StoredIn

\* In a sound directory an entry's name holds the entry's bytes.
LEMMA StoredOfEntry ==
    ASSUME NEW dir \in [Slots -> Entries], DirSound(dir), NEW data,
           NEW i \in FileSlots, dir[i].name \in Names
    PROVE  StoredIn(dir, data, dir[i].name) = EntryBytes(dir[i], data)
<1>1. i \in Slots /\ i # 0 /\ dir[i].name # NoName /\ dir[i].size \in Nat
  BY FatFilesAssumption, EntryParts DEF FileSlots
<1>2. ASSUME NEW j \in HoldingIn(dir, dir[i].name) PROVE j = i
  <2>1. j \in FileSlots /\ dir[j].name = dir[i].name
    BY DEF HoldingIn, FileSlots
  <2>2. QED
    BY <1>1, <2>1 DEF DirSound, NamesDiffer
<1>3. CASE dir[i].size > 0
  <2>1. i \in HoldingIn(dir, dir[i].name)
    BY <1>1, <1>3 DEF HoldingIn
  <2>2. (CHOOSE j \in HoldingIn(dir, dir[i].name) : TRUE) = i
    BY <1>2, <2>1
  <2>3. QED
    BY <2>1, <2>2 DEF StoredIn
<1>4. CASE ~(dir[i].size > 0)
  <2>1. HoldingIn(dir, dir[i].name) = {}
    <3>1. i \notin HoldingIn(dir, dir[i].name)
      BY <1>4 DEF HoldingIn
    <3>2. QED
      BY <1>2, <3>1
  <2>2. dir[i].size = 0
    BY <1>1, <1>4
  <2>3. EntryBytes(dir[i], data) = <<>>
    BY <2>2, NoBytes DEF EntryBytes
  <2>4. QED
    BY <2>1, <2>3 DEF StoredIn
<1>5. QED
  BY <1>3, <1>4

\* An entry with bytes has a data cluster.
LEMMA EntryWithData ==
    ASSUME NEW dir \in [Slots -> Entries], DirSound(dir), NEW i \in FileSlots,
           NEW k \in 1 .. dir[i].size
    PROVE  dir[i].size > 0 /\ dir[i].cluster \in DataClusters /\ dir[i].cluster # 0
<1>1. dir[i].size \in Nat
  BY EntryParts DEF FileSlots
<1>2. dir[i].size > 0
  BY <1>1
<1>3. QED
  BY <1>2 DEF DirSound, EntriesSound

-----------------------------------------------------------------------------
\* Answers.  The steps that give an answer to be asked about are few.
LEMMA OtherReplies ==
    ASSUME CleanStep, Next, ~NewfWriteFat, ~AppfDone,
           ~(\E n \in Names \cup {NoName} : ReadShows(n))
    PROVE  reply'.op \in {"none", "list"} \/ reply'.code # "none"
<1>1. ASSUME NEW n \in Names \cup {NoName}, Command(n)
      PROVE  reply'.op \in {"none", "list"} \/ reply'.code # "none"
  BY <1>1 DEF Command, NewfExists, NewfNoCluster, NewfBegin, AppfNotFound, AppfTooBig,
     AppfBegin, AppfSetSize, ReadNotFound, RunsAway, Delf, Answer, Start, Reply, NoReply,
     CleanStep
<1>2. CASE List
  BY <1>2 DEF List, Answer, Reply
<1>3. CASE WriteRootSector
  <2>1. reply' = NoReply
    BY <1>3 DEF WriteRootSector, CleanStep, Inv, InFlight
  <2>2. QED
    BY <2>1 DEF NoReply, Reply
<1>4. CASE Restart
  BY <1>4 DEF Restart, Finish, NoReply, Reply
<1>5. QED
  BY <1>1, <1>2, <1>3, <1>4 DEF Next, CleanStep

\* The end of appf: the file's entry on the disk has the new size, and its sector
\* the text at its end.
LEMMA AppfDoneIsDurable ==
    ASSUME Inv, AppfDone
    PROVE  LET s == Stored(cmd.name)
           IN  /\ Len(cmd.text) <= Len(s)
               /\ SubSeq(s, Len(s) - Len(cmd.text) + 1, Len(s)) = cmd.text
<1> DEFINE e == diskRoot[cmd.at]
           f == diskData[e.cluster]
           t == cmd.text
           old == e.size - Len(t)
<1>1. diskRoot = g_root_directory
  BY DirectoryWritten DEF AppfDone, Inv
<1>2. /\ pc = "appf" /\ cmd.at \in FileSlots /\ cmd.at \in Slots
      /\ e.name = cmd.name /\ cmd.name \in Names /\ e.cluster # 0 /\ e \in Entries
  BY <1>1 DEF AppfDone, Inv, InFlight, FileSlots, TypeOK
<1>3. t \in Seq(Byte) /\ Len(t) \in Nat
  <2>1. t \in Texts \cup {<<>>}
    BY DEF Inv, TypeOK
  <2>2. t \in Seq(Byte)
    <3>1. <<>> \in Seq(Byte)
      BY EmptySeq
    <3>2. t \in Texts => t \in Seq(Byte)
      BY FatFilesAssumption, SeqMonotonic
    <3>3. QED
      BY <2>1, <3>1, <3>2
  <2>3. QED
    BY <2>2, LenProperties
<1>4. e.size \in 0 .. SectorSize /\ f \in Sector
  <2>1. e.cluster \in DataClusters
    BY <1>2, <1>1 DEF Inv, DirSound, EntriesSound
  <2>2. QED
    BY <1>2, <2>1, EntryParts DEF Inv, TypeOK
<1>5. old >= 0 /\ \A k \in 1 .. Len(t) : f[old + k] = t[k]
  BY <1>1, <1>2 DEF Inv, AppfInFlight
<1>6. Stored(cmd.name) = SubSeq(f, 1, e.size)
  <2>1. DirSound(diskRoot) /\ diskRoot \in [Slots -> Entries]
    BY DEF Inv, TypeOK
  <2>2. StoredIn(diskRoot, diskData, e.name) = EntryBytes(e, diskData)
    BY <1>2, <2>1, StoredOfEntry
  <2>3. QED
    BY <1>2, <2>2, StoredIsIn DEF EntryBytes
<1>7. QED
  <2> DEFINE s == SubSeq(f, 1, e.size)
             n == Len(t)
             m == e.size
             u == SubSeq(s, m - n + 1, m)
  <2>1. s \in Seq(Byte) /\ Len(s) = m /\ \A k \in 1 .. m : s[k] = f[k]
    BY <1>4, PrefixFacts
  <2>2. m \in Nat /\ n \in Nat /\ m - n >= 0 /\ \A k \in 1 .. n : f[(m - n) + k] = t[k]
    BY <1>2, <1>3, <1>5, EntryParts
  <2>3. t \in Seq(Byte) /\ Len(t) = n
    BY <1>3
  <2> HIDE DEF s, n, m, f
  <2>4. \A k \in m - n + 1 .. m : s[k] \in Byte
    BY <2>1, <2>2, ElementOfSeq
  <2>5. /\ u \in Seq(Byte)
        /\ Len(u) = IF m - n + 1 <= m THEN m - (m - n + 1) + 1 ELSE 0
        /\ \A k \in 1 .. m - (m - n + 1) + 1 : u[k] = s[m - n + 1 + k - 1]
    <3>1. m - n + 1 \in Int /\ m \in Int
      BY <2>2
    <3>2. QED
      BY <2>4, <3>1, SubSeqProperties
  <2> HIDE DEF u
  <2>6. Len(u) = n
    BY <2>2, <2>5
  <2>7. ASSUME NEW k \in 1 .. n PROVE u[k] = t[k]
    <3>1. k \in 1 .. m - (m - n + 1) + 1 /\ m - n + 1 + k - 1 = (m - n) + k
      BY <2>2
    <3>2. u[k] = s[(m - n) + k]
      BY <2>5, <3>1
    <3>3. (m - n) + k \in 1 .. m
      BY <2>2
    <3>4. s[(m - n) + k] = f[(m - n) + k]
      BY <2>1, <3>3
    <3>5. QED
      BY <2>2, <3>2, <3>4
  <2>8. u = t
    BY <2>3, <2>5, <2>6, <2>7, SeqEqual
  <2>9. n <= Len(s)
    BY <2>1, <2>2
  <2>10. QED
    BY <1>6, <2>1, <2>8, <2>9 DEF s, u, n, m

\* "Wrote the file" and "Created file" are shown (shell.c 283-285, 346) only when the
\* sectors that make them true are on the disk: the answer survives a reset.
THEOREM AnswersSurviveReset == Spec => []AnswersAreDurable
<1>1. Init => AnswersAreDurable
  BY DEF Init, NoReply, Reply, AnswersAreDurable
<1>2. ASSUME CleanStep, AnswersAreDurable PROVE AnswersAreDurable'
  <2> USE DEF CleanStep
  <2>1. CASE NewfWriteFat
    <3>1. reply'.op = "newf" /\ reply'.name = cmd.name
      BY <2>1 DEF NewfWriteFat, NewfSetFat, Finish, Reply
    <3>2. diskRoot = g_root_directory
      BY <1>2, <2>1, DirectoryWritten DEF NewfWriteFat, NewfSetFat, Inv
    <3>3. diskRoot' = diskRoot /\ cmd.at \in Slots /\ diskRoot[cmd.at].name = cmd.name
      BY <1>2, <2>1, <3>2 DEF NewfWriteFat, NewfSetFat, Inv, InFlight, FileSlots
    <3>4. diskRoot[cmd.at].cluster \in Clusters
      BY <1>2, <3>3, EntryParts DEF Inv, TypeOK
    <3>5. diskFat'[diskRoot[cmd.at].cluster] = EndOfChain
      BY <1>2, <2>1, <3>2, <3>4 DEF NewfWriteFat, NewfSetFat, WriteFat, Inv, TypeOK
    <3>6. QED
      BY <3>1, <3>3, <3>5, FatValues DEF AnswersAreDurable
  <2>2. CASE AppfDone
    <3>1. reply'.op = "appf" /\ reply'.name = cmd.name /\ reply'.text = cmd.text
      BY <2>2 DEF AppfDone, Finish, Reply
    <3>2. Stored(reply.name)' = Stored(cmd.name)
      <4>1. diskRoot' = diskRoot /\ diskData' = diskData
        BY <2>2 DEF AppfDone
      <4>2. Stored(reply.name)' = StoredIn(diskRoot', diskData', reply'.name)
        BY DEF Stored, Holding, StoredIn, HoldingIn, EntryBytes
      <4>3. Stored(cmd.name) = StoredIn(diskRoot, diskData, cmd.name)
        BY StoredIsIn
      <4>4. QED
        BY <3>1, <4>1, <4>2, <4>3
    <3>3. QED
      BY <1>2, <2>2, <3>1, <3>2, AppfDoneIsDurable DEF AnswersAreDurable
  <2>3. CASE \E n \in Names \cup {NoName} : ReadShows(n)
    <3>1. reply'.op = "read"
      BY <2>3 DEF ReadShows, Answer, Reply
    <3>2. QED
      BY <3>1 DEF AnswersAreDurable
  <2>4. CASE UNCHANGED vars
    BY <1>2, <2>4 DEF vars, AnswersAreDurable, Stored, Holding
  <2>5. CASE Next /\ ~NewfWriteFat /\ ~AppfDone
                  /\ ~(\E n \in Names \cup {NoName} : ReadShows(n))
    <3>1. reply'.op \in {"none", "list"} \/ reply'.code # "none"
      BY <1>2, <2>5, OtherReplies
    <3>2. QED
      BY <3>1 DEF AnswersAreDurable
  <2>6. QED
    BY <1>2, <2>1, <2>2, <2>3, <2>4, <2>5
<1>3. SoundInv /\ AnswersAreDurable /\ [Next]_vars => AnswersAreDurable'
  BY <1>2, StepIsClean DEF AnswersAreDurable
<1>4. QED
  BY <1>1, <1>3, InvariantHolds, PTL DEF Spec

-----------------------------------------------------------------------------
\* What appf changes before it writes the directory: one sector behind the file's
\* old bytes, in memory the size of one entry, and nothing that another entry has.
LEMMA AppfBeginFacts ==
    ASSUME Sound', Inv, NEW n \in Names \cup {NoName}, NEW t \in Texts, AppfBegin(n, t)
    PROVE  \E j \in FileSlots :
              LET f == g_root_directory[j]
              IN  /\ f.cluster \in DataClusters /\ f.size \in Nat
                  /\ f.size + Len(t) \in 0 .. SectorSize
                  /\ g_root_directory'[j] = Entry(f.name, f.cluster, f.size + Len(t))
                  /\ \A i \in FileSlots : i # j => g_root_directory'[i] = g_root_directory[i]
                  /\ \A i \in FileSlots : g_root_directory[i].cluster = f.cluster => i = j
                  /\ \A i \in FileSlots : diskRoot[i].size > 0 => diskRoot[i] = g_root_directory[i]
                  /\ diskData' \in [DataClusters -> Sector]
                  /\ \A c \in DataClusters : c # f.cluster => diskData'[c] = diskData[c]
                  /\ \A k \in 1 .. f.size : diskData'[f.cluster][k] = diskData[f.cluster][k]
                  /\ \A k \in 1 .. Len(t) : diskData'[f.cluster][f.size + k] = t[k]
                  /\ diskRoot' = diskRoot
<1> DEFINE j == Find(n)
           f == g_root_directory[j]
           s == f.size + Len(t)
           sector == Overlay(diskData[f.cluster], f.size, t)
<1>1. /\ pc = "idle" /\ Found(n) /\ ChainEnds(f.cluster) /\ Fits(f, t)
      /\ diskData' = [diskData EXCEPT ![f.cluster] = sector]
      /\ g_root_directory' = [g_root_directory EXCEPT ![SizeSlot(n)].size = s]
      /\ diskRoot' = diskRoot
  BY DEF AppfBegin, AppfSetSize, Start
<1>2. SizeSlot(n) = j
  BY RightSlot
<1>3. j \in FileSlots /\ j \in Slots /\ f.cluster \in DataClusters /\ f.cluster # 0
  BY <1>1, ChainEndsFacts, Numbers DEF Inv, FileSlots
<1>4. f \in Entries /\ f.size \in Nat
  BY <1>3, EntryParts DEF Inv, TypeOK
<1>5. t \in Seq(Byte \ {0}) /\ Len(t) \in Nat
  BY FatFilesAssumption
<1>6. s \in 0 .. SectorSize /\ f.size + Len(t) <= SectorSize
  BY <1>1, <1>4, <1>5, FitsFacts
<1>7. /\ sector \in Sector
      /\ \A k \in 1 .. f.size : sector[k] = diskData[f.cluster][k]
      /\ \A k \in 1 .. Len(t) : sector[f.size + k] = t[k]
  <2>1. diskData[f.cluster] \in Sector
    BY <1>3 DEF Inv, TypeOK
  <2> HIDE DEF f
  <2>2. QED
    BY ONLY <1>4, <1>5, <1>6, <2>1, OverlayFacts
<1>8. diskData \in [DataClusters -> Sector] /\ g_root_directory \in [Slots -> Entries]
  BY DEF Inv, TypeOK
<1>9. /\ diskData' \in [DataClusters -> Sector]
      /\ diskData'[f.cluster] = sector
      /\ \A c \in DataClusters : c # f.cluster => diskData'[c] = diskData[c]
  <2> HIDE DEF sector, f
  <2>1. QED
    BY <1>1, <1>3, <1>7, <1>8
<1>10. /\ g_root_directory'[j] = Entry(f.name, f.cluster, s)
       /\ \A i \in FileSlots : i # j => g_root_directory'[i] = g_root_directory[i]
  <2>1. [f EXCEPT !.size = s] = Entry(f.name, f.cluster, s)
    BY <1>4, EntryChanged
  <2>2. g_root_directory' = [g_root_directory EXCEPT ![j] = [f EXCEPT !.size = s]]
    BY <1>1, <1>2
  <2>3. QED
    <3> HIDE DEF j, f, s
    <3>1. QED
      BY <1>3, <1>8, <2>1, <2>2 DEF FileSlots
<1>11. \A i \in FileSlots : g_root_directory[i].cluster = f.cluster => i = j
  BY <1>3 DEF Inv, DirSound, ClustersDiffer
<1>12. \A i \in FileSlots : diskRoot[i].size > 0 => diskRoot[i] = g_root_directory[i]
  BY <1>1, AgreeWhenQuiet DEF Inv
<1>13. QED
  <2> HIDE DEF j, sector
  <2>1. QED
    BY <1>1, <1>3, <1>4, <1>6, <1>7, <1>9, <1>10, <1>11, <1>12

-----------------------------------------------------------------------------
\* The image's files, entry by entry.
LEMMA ImageEntry ==
    ASSUME NEW i \in FileSlots, i <= Len(ImageFiles)
    PROVE  LET t == ImageFiles[i].text
           IN  /\ i \in 1 .. Len(ImageFiles)
               /\ ImageRoot[i] = Entry(ImageFiles[i].name, i + 1, Len(t))
               /\ t \in Seq(Byte \ {0}) /\ Len(t) \in 1 .. SectorSize
               /\ i + 1 \in DataClusters
               /\ \A k \in 1 .. Len(t) : ImageData[i + 1][k] = t[k]
<1> DEFINE t == ImageFiles[i].text
<1>1. Len(ImageFiles) \in Nat /\ i \in 1 .. Len(ImageFiles) /\ i # 0 /\ i \in Slots /\ i \in Nat
  BY ImageAssumption, FatFilesAssumption DEF FileSlots, Slots
<1>2. ImageRoot[i] = Entry(ImageFiles[i].name, i + 1, Len(t))
  BY <1>1 DEF ImageRoot
<1>3. t \in Seq(Byte \ {0}) /\ Len(t) \in 1 .. SectorSize
  BY <1>1, ImageFileTyped, ImageAssumption
<1>4. i + 1 \in DataClusters
  BY <1>1, ImageAssumption, FatFilesAssumption DEF DataClusters
<1>5. ImageData[i + 1] = Pad(t)
  <2>1. PICK c \in DataClusters : c = i + 1
    BY <1>4
  <2>2. c <= Len(ImageFiles) + 1 /\ c - 1 = i
    BY <1>1, <2>1
  <2>3. ImageData[c] = Pad(ImageFiles[c - 1].text)
    BY <2>2 DEF ImageData
  <2>4. ImageFiles[c - 1] = ImageFiles[i]
    BY <2>2
  <2>5. QED
    BY <2>1, <2>3, <2>4
<1>6. ASSUME NEW k \in 1 .. Len(t) PROVE Pad(t)[k] = t[k]
  <2> HIDE DEF t
  <2>1. k \in 1 .. SectorSize /\ k <= Len(t)
    BY <1>3, FatFilesAssumption
  <2>2. QED
    BY <2>1 DEF Pad
<1>7. QED
  BY <1>1, <1>2, <1>3, <1>4, <1>5, <1>6

LEMMA NoImageEntry ==
    ASSUME NEW i \in FileSlots, ~(i <= Len(ImageFiles))
    PROVE  ImageRoot[i] = Unused
BY DEF ImageRoot, FileSlots

-----------------------------------------------------------------------------
\* A file's bytes are text: none is zero, so that read, which prints up to the first
\* zero of the sector, prints all of them.
Filled(e) == \A k \in 1 .. e.size : diskData[e.cluster][k] # 0
TextsFilled == \A i \in FileSlots : Filled(g_root_directory[i]) /\ Filled(diskRoot[i])

LEMMA InitFilled == Init => TextsFilled
<1>1. ASSUME Init, NEW i \in FileSlots PROVE Filled(ImageRoot[i])
  <2>1. CASE i <= Len(ImageFiles)
    <3> DEFINE t == ImageFiles[i].text
    <3>1. /\ ImageRoot[i] = Entry(ImageFiles[i].name, i + 1, Len(t))
          /\ t \in Seq(Byte \ {0}) /\ \A k \in 1 .. Len(t) : ImageData[i + 1][k] = t[k]
      BY <2>1, ImageEntry
    <3>2. diskData = ImageData
      BY <1>1 DEF Init
    <3> HIDE DEF t
    <3>3. \A k \in 1 .. Len(t) : t[k] # 0
      BY <3>1
    <3>4. QED
      BY <3>1, <3>2, <3>3, EntryIs DEF Filled
  <2>2. CASE ~(i <= Len(ImageFiles))
    <3>1. ImageRoot[i].size = 0
      BY <2>2, NoImageEntry, UnusedParts
    <3>2. QED
      BY <3>1 DEF Filled
  <2>3. QED
    BY <2>1, <2>2
<1>2. ASSUME Init, NEW i \in FileSlots PROVE g_root_directory[i] = ImageRoot[i]
  <2>1. g_root_directory = Stamped(ImageRoot)
    BY <1>2 DEF Init
  <2>2. QED
    BY <2>1, ImageRootFacts, StampedFacts
<1>3. QED
  BY <1>1, <1>2 DEF TextsFilled, Init

\* Steps that leave the data alone only move entries between memory and disk.
LEMMA FilledMoves ==
    ASSUME TextsFilled, diskData' = diskData,
           \A i \in FileSlots :
              /\ \/ g_root_directory'[i] \in {g_root_directory[i], diskRoot[i]}
                 \/ g_root_directory'[i].size = 0
              /\ diskRoot'[i] \in {g_root_directory[i], diskRoot[i]}
    PROVE  TextsFilled'
<1>1. SUFFICES ASSUME NEW i \in FileSlots
               PROVE  Filled(g_root_directory[i])' /\ Filled(diskRoot[i])'
  BY DEF TextsFilled
<1>2. Filled(g_root_directory[i]) /\ Filled(diskRoot[i])
  BY DEF TextsFilled
<1>3. QED
  BY <1>2 DEF Filled

LEMMA AppfBeginFilled ==
    ASSUME Sound', Inv, TextsFilled,
           NEW n \in Names \cup {NoName}, NEW t \in Texts, AppfBegin(n, t)
    PROVE  TextsFilled'
<1> DEFINE mem == g_root_directory
<1>1. PICK j \in FileSlots :
          /\ mem[j].cluster \in DataClusters /\ mem[j].size \in Nat
          /\ mem'[j] = Entry(mem[j].name, mem[j].cluster, mem[j].size + Len(t))
          /\ \A i \in FileSlots : i # j => mem'[i] = mem[i]
          /\ \A i \in FileSlots : mem[i].cluster = mem[j].cluster => i = j
          /\ \A i \in FileSlots : diskRoot[i].size > 0 => diskRoot[i] = mem[i]
          /\ \A c \in DataClusters : c # mem[j].cluster => diskData'[c] = diskData[c]
          /\ \A k \in 1 .. mem[j].size : diskData'[mem[j].cluster][k] = diskData[mem[j].cluster][k]
          /\ \A k \in 1 .. Len(t) : diskData'[mem[j].cluster][mem[j].size + k] = t[k]
          /\ diskRoot' = diskRoot
  BY AppfBeginFacts
<1>2. t \in Seq(Byte \ {0}) /\ Len(t) \in Nat
  BY FatFilesAssumption
<1>3. ASSUME NEW i \in FileSlots PROVE Filled(mem[i])'
  <2>1. SUFFICES ASSUME NEW k \in 1 .. mem'[i].size PROVE diskData'[mem'[i].cluster][k] # 0
    BY DEF Filled
  <2>2. CASE i = j
    <3>1. mem'[i].size = mem[j].size + Len(t) /\ mem'[i].cluster = mem[j].cluster
      BY <1>1, <2>2, EntryIs
    <3>2. CASE k \in 1 .. mem[j].size
      <4>1. diskData[mem[j].cluster][k] # 0
        BY <3>2 DEF TextsFilled, Filled
      <4>2. QED
        BY <1>1, <3>1, <3>2, <4>1
    <3>3. CASE ~(k \in 1 .. mem[j].size)
      <4>1. k - mem[j].size \in 1 .. Len(t) /\ mem[j].size + (k - mem[j].size) = k
        BY <1>1, <1>2, <2>1, <3>1, <3>3
      <4>2. t[k - mem[j].size] # 0
        BY <1>2, <4>1
      <4>3. diskData'[mem[j].cluster][mem[j].size + (k - mem[j].size)] = t[k - mem[j].size]
        BY <1>1, <4>1
      <4>4. QED
        BY <3>1, <4>1, <4>2, <4>3
    <3>4. QED
      BY <3>2, <3>3
  <2>3. CASE i # j
    <3>1. mem'[i] = mem[i] /\ mem[i].cluster # mem[j].cluster
      BY <1>1, <2>3
    <3>2. diskData[mem[i].cluster][k] # 0
      BY <2>1, <3>1 DEF TextsFilled, Filled
    <3>3. mem[i].cluster \in DataClusters
      BY <2>1, <3>1, EntryWithData DEF Inv, TypeOK
    <3>4. QED
      BY <1>1, <3>1, <3>2, <3>3
  <2>4. QED
    BY <2>2, <2>3
<1>4. ASSUME NEW i \in FileSlots PROVE Filled(diskRoot[i])'
  <2>1. SUFFICES ASSUME NEW k \in 1 .. diskRoot[i].size
                 PROVE  diskData'[diskRoot[i].cluster][k] # 0
    BY <1>1 DEF Filled
  <2>2. diskRoot[i].cluster \in DataClusters /\ diskRoot[i].size > 0
    BY <2>1, EntryWithData DEF Inv, TypeOK
  <2>3. diskRoot[i] = mem[i]
    BY <1>1, <2>2
  <2>4. diskData[mem[i].cluster][k] # 0
    BY <2>1, <2>3 DEF TextsFilled, Filled
  <2>5. CASE i = j
    BY <1>1, <2>1, <2>3, <2>4, <2>5
  <2>6. CASE i # j
    <3>1. mem[i].cluster # mem[j].cluster /\ mem[i].cluster \in DataClusters
      BY <1>1, <2>2, <2>3, <2>6
    <3>2. QED
      BY <1>1, <2>3, <2>4, <3>1
  <2>7. QED
    BY <2>5, <2>6
<1>5. QED
  BY <1>3, <1>4 DEF TextsFilled

SoundFilled == Sound => TextsFilled

LEMMA FilledStep == SoundInv /\ SoundFilled /\ [Next]_vars => SoundFilled'
<1> SUFFICES ASSUME CleanStep, TextsFilled PROVE TextsFilled'
  BY StepIsClean DEF SoundFilled, CleanStep
<1> USE DEF CleanStep
<1>1. ASSUME NEW slot, NEW e, e.size = 0,
             g_root_directory' = [g_root_directory EXCEPT ![slot] = e],
             diskData' = diskData, diskRoot' = diskRoot
      PROVE  TextsFilled'
  <2>1. g_root_directory \in [Slots -> Entries]
    BY DEF Inv, TypeOK
  <2>2. \A i \in FileSlots : \/ g_root_directory'[i] = g_root_directory[i]
                            \/ g_root_directory'[i].size = 0
    BY <1>1, <2>1 DEF FileSlots
  <2>3. QED
    BY <1>1, <2>2, FilledMoves
<1>2. ASSUME NEW n \in Names \cup {NoName}, NewfNoCluster(n) \/ NewfBegin(n) PROVE TextsFilled'
  <2>1. diskData' = diskData /\ diskRoot' = diskRoot
    BY <1>2 DEF NewfNoCluster, NewfBegin, Answer
  <2>2. PICK c : g_root_directory' = [g_root_directory EXCEPT ![EmptySlot] = Entry(n, c, 0)]
    BY <1>2 DEF NewfNoCluster, NewfBegin
  <2>3. Entry(n, c, 0).size = 0
    BY EntryIs
  <2>4. QED
    BY <1>1, <2>1, <2>2, <2>3
<1>3. ASSUME UNCHANGED <<g_root_directory, diskRoot, diskData>> PROVE TextsFilled'
  BY <1>3, FilledMoves
<1>4. CASE WriteRootSector
  <2>1. diskData' = diskData /\ g_root_directory' = g_root_directory
    BY <1>4 DEF WriteRootSector
  <2>2. \A i \in FileSlots : diskRoot'[i] \in {g_root_directory[i], diskRoot[i]}
    BY <1>4 DEF WriteRootSector, FileSlots
  <2>3. QED
    BY <2>1, <2>2, FilledMoves
<1>5. CASE Restart
  <2>1. diskData' = diskData /\ diskRoot' = diskRoot /\ g_root_directory' = Stamped(diskRoot)
    BY <1>5 DEF Restart, disk
  <2>2. \A i \in FileSlots : g_root_directory'[i] = diskRoot[i]
    BY <2>1, StampedFacts DEF Inv, TypeOK
  <2>3. QED
    BY <2>1, <2>2, FilledMoves
<1>6. ASSUME NEW n \in Names \cup {NoName}, Command(n) PROVE TextsFilled'
  <2>1. CASE NewfNoCluster(n) \/ NewfBegin(n)
    BY <1>2, <2>1
  <2>2. CASE \E t \in Texts : AppfBegin(n, t)
    BY <2>2, AppfBeginFilled
  <2>3. CASE ~(NewfNoCluster(n) \/ NewfBegin(n)) /\ ~(\E t \in Texts : AppfBegin(n, t))
    <3>1. UNCHANGED <<g_root_directory, diskRoot, diskData>>
      BY <1>6, <2>3 DEF Command, NewfExists, AppfNotFound, AppfTooBig, ReadNotFound, ReadShows,
         RunsAway, Delf, Answer
    <3>2. QED
      BY <1>3, <3>1
  <2>4. QED
    BY <2>1, <2>2, <2>3
<1>7. CASE List \/ NewfWriteFat \/ AppfDone \/ UNCHANGED vars
  <2>1. UNCHANGED <<g_root_directory, diskRoot, diskData>>
    BY <1>7 DEF List, Answer, NewfWriteFat, NewfSetFat, AppfDone, vars
  <2>2. QED
    BY <1>3, <2>1
<1>8. QED
  BY <1>4, <1>5, <1>6, <1>7 DEF Next

\* What is printed of a sector whose first bytes are not zero begins with them.
LEMMA UpToZeroFacts ==
    ASSUME NEW f \in Sector, NEW n \in 0 .. SectorSize, \A k \in 1 .. n : f[k] # 0
    PROVE  /\ n <= Len(UpToZero(f))
           /\ SubSeq(UpToZero(f), 1, n) = SubSeq(f, 1, n)
<1> DEFINE Ends(k) == k = SectorSize \/ f[k + 1] = 0
           len == CHOOSE k \in 0 .. SectorSize : Ends(k) /\ \A j \in 1 .. k : f[j] # 0
           T == {k \in 0 .. SectorSize : Ends(k)}
<1>1. SectorSize \in Nat
  BY FatFilesAssumption
<1>2. \E k \in 0 .. SectorSize : Ends(k) /\ \A j \in 1 .. k : f[j] # 0
  <2>1. T \in SUBSET Nat /\ SectorSize \in T
    BY <1>1
  <2>2. PICK k \in T : \A i \in T : k <= i
    <3> HIDE DEF T
    <3>1. QED
      BY <2>1, LeastElement
  <2>3. ASSUME NEW j \in 1 .. k PROVE f[j] # 0
    <3>1. j - 1 \in 0 .. SectorSize /\ ~(k <= j - 1) /\ j - 1 + 1 = j
      BY <1>1, <2>2
    <3>2. j - 1 \notin T
      BY <2>2, <3>1
    <3>3. QED
      BY <3>1, <3>2
  <2>4. QED
    BY <2>2, <2>3
<1>3. len \in 0 .. SectorSize /\ Ends(len) /\ \A j \in 1 .. len : f[j] # 0
  <2> HIDE DEF Ends
  <2>1. QED
    BY <1>2
<1>4. UpToZero(f) = SubSeq(f, 1, len)
  BY DEF UpToZero
<1> HIDE DEF len
<1>5. n <= len
  <2>1. SUFFICES ASSUME ~(n <= len) PROVE FALSE
    OBVIOUS
  <2>2. len + 1 \in 1 .. n /\ len # SectorSize
    BY <1>1, <1>3, <2>1
  <2>3. f[len + 1] = 0
    BY <1>3, <2>2
  <2>4. QED
    BY <2>2, <2>3
<1>6. QED
  <2> DEFINE shown == SubSeq(f, 1, len)
             s == SubSeq(f, 1, n)
             t == SubSeq(shown, 1, n)
  <2>1. shown \in Seq(Byte) /\ Len(shown) = len /\ \A k \in 1 .. len : shown[k] = f[k]
    BY <1>3, PrefixFacts
  <2>2. s \in Seq(Byte) /\ Len(s) = n /\ \A k \in 1 .. n : s[k] = f[k]
    BY PrefixFacts
  <2>3. n \in Nat /\ len \in Nat
    BY <1>1, <1>3
  <2> HIDE DEF shown, s
  <2>4. \A k \in 1 .. n : k \in 1 .. len /\ shown[k] = f[k] /\ shown[k] \in Byte
    BY <1>5, <2>1, <2>3, ElementOfSeq
  <2>5. t \in Seq(Byte) /\ Len(t) = n /\ \A k \in 1 .. n : t[k] = shown[k]
    <3>1. /\ t \in Seq(Byte)
          /\ Len(t) = IF 1 <= n THEN n - 1 + 1 ELSE 0
          /\ \A k \in 1 .. n - 1 + 1 : t[k] = shown[1 + k - 1]
      BY <2>3, <2>4, SubSeqProperties
    <3>2. n - 1 + 1 = n /\ \A k \in 1 .. n : 1 + k - 1 = k
      BY <2>3
    <3> HIDE DEF t
    <3>3. QED
      BY <2>3, <3>1, <3>2
  <2> HIDE DEF t
  <2>6. t = s
    BY <2>2, <2>4, <2>5, SeqEqual
  <2>7. QED
    BY <1>4, <1>5, <2>1, <2>6 DEF t, s, shown

\* read prints the whole file: what the disk holds of it is at the beginning of what
\* was printed, for a file that was just read from memory's copy of the directory.
LEMMA ReadShowsFile ==
    ASSUME Inv, TextsFilled, NEW n \in Names \cup {NoName}, ReadShows(n)
    PROVE  LET s == Stored(n) IN
           Len(s) <= Len(reply'.text) /\ SubSeq(reply'.text, 1, Len(s)) = s
<1> DEFINE j == Find(ReadName(n))
           e == g_root_directory[j]
           f == diskData[e.cluster]
<1>1. Found(ReadName(n)) /\ ChainEnds(e.cluster) /\ pc = "idle" /\ reply'.text = UpToZero(f)
  BY DEF ReadShows, Answer, Reply
<1>2. j \in FileSlots /\ ReadName(n) \in Names /\ e.cluster \in DataClusters
      /\ e.name = ReadName(n)
  BY <1>1, ChainEndsFacts, FindFacts DEF Inv
<1>3. f \in Sector /\ e \in Entries /\ diskRoot[j] \in Entries /\ DirSound(diskRoot)
      /\ diskRoot \in [Slots -> Entries]
  BY <1>2 DEF Inv, TypeOK, FileSlots
<1> HIDE DEF j
<1>4. CASE n \in Names
  <2>1. e.name = n
    BY <1>2, <1>4, FatFilesAssumption DEF ReadName
  <2>2. Stored(n) = SubSeq(f, 1, e.size) /\ e.size \in 0 .. SectorSize
    <3>1. e = diskRoot[j]
      <4>1. e.cluster # 0
        BY <1>2, Numbers
      <4>2. QED
        BY <1>1, <1>2, <4>1, AgreeWhenQuiet DEF Inv
    <3>2. StoredIn(diskRoot, diskData, diskRoot[j].name) = EntryBytes(diskRoot[j], diskData)
      BY <1>2, <1>3, <1>4, <2>1, <3>1, StoredOfEntry
    <3>3. QED
      BY <1>3, <2>1, <3>1, <3>2, StoredIsIn, EntryParts DEF EntryBytes
  <2>3. \A k \in 1 .. e.size : f[k] # 0
    BY <1>2 DEF TextsFilled, Filled
  <2> DEFINE s == SubSeq(f, 1, e.size)
  <2>4. Len(s) = e.size
    BY <1>3, <2>2, PrefixFacts
  <2>5. e.size <= Len(UpToZero(f)) /\ SubSeq(UpToZero(f), 1, e.size) = s
    BY <1>3, <2>2, <2>3, UpToZeroFacts
  <2>6. QED
    BY <1>1, <2>2, <2>4, <2>5
<1>5. CASE n = NoName
  <2>1. Stored(n) = <<>>
    <3>1. \A i \in FileSlots : diskRoot[i].name = n => ~(diskRoot[i].size > 0)
      BY <1>3, <1>5, UnusedParts DEF DirSound, EntriesSound
    <3>2. QED
      BY <3>1, StoredNothing, StoredIsIn
  <2>2. Len(UpToZero(f)) >= 0 /\ SubSeq(UpToZero(f), 1, 0) = <<>>
    <3>1. 0 \in 0 .. SectorSize /\ \A k \in 1 .. 0 : f[k] # 0
      BY FatFilesAssumption
    <3>2. 0 <= Len(UpToZero(f))
      BY <1>3, <3>1, UpToZeroFacts
    <3>3. QED
      BY <3>2, NoBytes
  <2>3. Len(<<>>) = 0
    BY EmptySeq
  <2>4. QED
    BY <1>1, <2>1, <2>2, <2>3
<1>6. QED
  BY <1>4, <1>5

\* read (shell.c 164-194) stops at the first zero byte of the sector: that is never
\* before the end of the file, whatever was appended and cut off before.
THEOREM ReadsShowWholeFiles == Spec => []ReadShowsAll
<1>1. Init => ReadShowsAll
  BY DEF Init, NoReply, Reply, ReadShowsAll
<1>2. ASSUME CleanStep, TextsFilled, ReadShowsAll PROVE ReadShowsAll'
  <2> USE DEF CleanStep
  <2>1. ASSUME NEW n \in Names \cup {NoName}, ReadShows(n) PROVE ReadShowsAll'
    <3>1. reply'.name = n /\ diskRoot' = diskRoot /\ diskData' = diskData
      BY <2>1 DEF ReadShows, Answer, Reply
    <3>2. Stored(reply.name)' = Stored(n)
      <4>1. Stored(reply.name)' = StoredIn(diskRoot', diskData', reply'.name)
        BY DEF Stored, Holding, StoredIn, HoldingIn, EntryBytes
      <4>2. QED
        BY <3>1, <4>1, StoredIsIn
    <3>3. QED
      BY <1>2, <2>1, <3>2, ReadShowsFile DEF ReadShowsAll
  <2>2. CASE NewfWriteFat \/ AppfDone
    <3>1. reply'.op # "read"
      BY <2>2 DEF NewfWriteFat, NewfSetFat, AppfDone, Finish, Reply
    <3>2. QED
      BY <3>1 DEF ReadShowsAll
  <2>3. CASE UNCHANGED vars
    BY <1>2, <2>3 DEF vars, ReadShowsAll, Stored, Holding
  <2>4. CASE Next /\ ~NewfWriteFat /\ ~AppfDone
                  /\ ~(\E n \in Names \cup {NoName} : ReadShows(n))
    <3>1. reply'.op \in {"none", "list"} \/ reply'.code # "none"
      BY <1>2, <2>4, OtherReplies
    <3>2. QED
      BY <3>1 DEF ReadShowsAll
  <2>5. QED
    BY <1>2, <2>1, <2>2, <2>3, <2>4
<1>3. SoundInv /\ SoundFilled /\ ReadShowsAll /\ [Next]_vars => ReadShowsAll'
  BY <1>2, StepIsClean DEF SoundFilled, CleanStep, ReadShowsAll
<1>4. Init => SoundFilled
  BY InitFilled DEF SoundFilled
<1>5. QED
  BY <1>1, <1>3, <1>4, FilledStep, InvariantHolds, PTL DEF Spec

-----------------------------------------------------------------------------
\* What the names hold does not change where the entries with data and their
\* bytes do not.
LEMMA StoredSame ==
    ASSUME NEW D, NEW E, NEW A, NEW B, NEW n,
           \A i \in FileSlots :
              (D[i].name = n /\ D[i].size > 0) <=> (E[i].name = n /\ E[i].size > 0),
           \A i \in FileSlots : D[i].name = n /\ D[i].size > 0 =>
              EntryBytes(D[i], A) = EntryBytes(E[i], B)
    PROVE  StoredIn(D, A, n) = StoredIn(E, B, n)
<1>1. HoldingIn(D, n) = HoldingIn(E, n)
  BY DEF HoldingIn, FileSlots
<1>2. CASE HoldingIn(D, n) = {}
  BY <1>1, <1>2 DEF StoredIn
<1>3. CASE HoldingIn(D, n) # {}
  <2> DEFINE i == CHOOSE k \in HoldingIn(D, n) : TRUE
  <2>1. i \in HoldingIn(D, n)
    BY <1>3
  <2>2. i \in FileSlots /\ D[i].name = n /\ D[i].size > 0
    BY <2>1 DEF HoldingIn, FileSlots
  <2>3. StoredIn(D, A, n) = EntryBytes(D[i], A) /\ StoredIn(E, B, n) = EntryBytes(E[i], B)
    BY <1>1, <1>3 DEF StoredIn
  <2> HIDE DEF i
  <2>4. QED
    BY <2>2, <2>3
<1>4. QED
  BY <1>2, <1>3

LEMMA ContentUnchanged ==
    ASSUME \A n \in Names : StoredIn(diskRoot', diskData', n) = StoredIn(diskRoot, diskData, n)
    PROVE  UNCHANGED [n \in Names |-> Stored(n)]
<1>1. \A n \in Names : Stored(n)' = Stored(n)
  BY StoredIsIn
<1>2. QED
  BY <1>1

\* The image's files hold their texts.
LEMMA InitImplements == Init => Store!Init
<1> SUFFICES ASSUME Init PROVE Store!Init
  OBVIOUS
<1> DEFINE Is(n, i) == ImageFiles[i].name = n
           first(n) == CHOOSE i \in 1 .. Len(ImageFiles) : Is(n, i)
<1>1. ASSUME NEW n \in Names, \E i \in 1 .. Len(ImageFiles) : Is(n, i)
      PROVE  Stored(n) = ImageFiles[first(n)].text
  <2>1. PICK i \in 1 .. Len(ImageFiles) : i = first(n) /\ Is(n, i)
    BY <1>1
  <2>2. i \in FileSlots /\ i <= Len(ImageFiles)
    BY <2>1, ImageAssumption, FatFilesAssumption, Numbers
  <2> DEFINE t == ImageFiles[i].text
             f == ImageData[i + 1]
             s == SubSeq(f, 1, Len(t))
  <2>3. /\ ImageRoot[i] = Entry(n, i + 1, Len(t))
        /\ t \in Seq(Byte \ {0}) /\ Len(t) \in 1 .. SectorSize /\ i + 1 \in DataClusters
        /\ \A k \in 1 .. Len(t) : f[k] = t[k]
    BY <2>1, <2>2, ImageEntry
  <2>4. StoredIn(ImageRoot, ImageData, n) = s
    <3>1. ImageRoot[i].name = n /\ ImageRoot[i].cluster = i + 1 /\ ImageRoot[i].size = Len(t)
      BY <2>3, EntryIs
    <3>2. StoredIn(ImageRoot, ImageData, ImageRoot[i].name) = EntryBytes(ImageRoot[i], ImageData)
      BY <2>2, <3>1, ImageRootFacts, StoredOfEntry
    <3>3. QED
      BY <3>1, <3>2 DEF EntryBytes
  <2>5. Len(t) \in 0 .. SectorSize /\ f \in Sector
    BY <2>3, ImageDataFacts, FatFilesAssumption
  <2>6. s \in Seq(Byte) /\ Len(s) = Len(t) /\ \A k \in 1 .. Len(t) : s[k] = f[k]
    BY <2>5, PrefixFacts
  <2>7. t \in Seq(Byte)
    BY <2>3, SeqMonotonic
  <2> HIDE DEF s, t, f
  <2>8. \A k \in 1 .. Len(s) : s[k] = t[k]
    BY <2>3, <2>6
  <2>9. s = t
    BY <2>6, <2>7, <2>8, SeqEqual
  <2>10. Stored(n) = s
    BY <2>4, StoredIsIn DEF Init
  <2>11. QED
    BY <2>1, <2>9, <2>10 DEF t
<1>2. ASSUME NEW n \in Names, ~(\E i \in 1 .. Len(ImageFiles) : Is(n, i))
      PROVE  Stored(n) = <<>>
  <2>1. ASSUME NEW i \in FileSlots, ImageRoot[i].name = n PROVE ~(ImageRoot[i].size > 0)
    <3>1. CASE i <= Len(ImageFiles)
      BY <1>2, <2>1, <3>1, ImageEntry, EntryIs
    <3>2. CASE ~(i <= Len(ImageFiles))
      BY <3>2, NoImageEntry, UnusedParts
    <3>3. QED
      BY <3>1, <3>2
  <2>2. QED
    BY <2>1, StoredNothing, StoredIsIn DEF Init
<1>3. QED
  <2>1. \A n \in Names : Stored(n) = IF \E i \in 1 .. Len(ImageFiles) : Is(n, i)
                                     THEN ImageFiles[first(n)].text ELSE <<>>
    BY <1>1, <1>2
  <2>2. QED
    BY <2>1 DEF Init, Sound, Store!Init

\* appf puts its text behind what the names hold, where nobody looks yet.
LEMMA AppfBeginHidden ==
    ASSUME Sound', Inv, NEW n \in Names \cup {NoName}, NEW t \in Texts, AppfBegin(n, t),
           NEW m \in Names
    PROVE  StoredIn(diskRoot', diskData', m) = StoredIn(diskRoot, diskData, m)
<1> DEFINE mem == g_root_directory
<1>1. PICK j \in FileSlots :
          /\ mem[j].cluster \in DataClusters /\ mem[j].size \in Nat
          /\ mem[j].size + Len(t) \in 0 .. SectorSize
          /\ \A i \in FileSlots : mem[i].cluster = mem[j].cluster => i = j
          /\ \A i \in FileSlots : diskRoot[i].size > 0 => diskRoot[i] = mem[i]
          /\ diskData' \in [DataClusters -> Sector]
          /\ \A c \in DataClusters : c # mem[j].cluster => diskData'[c] = diskData[c]
          /\ \A k \in 1 .. mem[j].size : diskData'[mem[j].cluster][k] = diskData[mem[j].cluster][k]
          /\ diskRoot' = diskRoot
  BY AppfBeginFacts
<1>2. Len(t) \in Nat /\ SectorSize \in Nat
  BY FatFilesAssumption
<1>3. ASSUME NEW i \in FileSlots, diskRoot[i].size > 0
      PROVE  EntryBytes(diskRoot[i], diskData) = EntryBytes(diskRoot[i], diskData')
  <2>1. diskRoot[i] = mem[i] /\ diskRoot[i].cluster \in DataClusters
    <3>1. diskRoot[i].size \in Nat
      BY EntryParts DEF FileSlots, Inv, TypeOK
    <3>2. 1 \in 1 .. diskRoot[i].size
      BY <1>3, <3>1
    <3>3. QED
      BY <1>1, <1>3, <3>2, EntryWithData DEF Inv, TypeOK
  <2>2. CASE i = j
    <3>1. diskData[mem[j].cluster] \in Sector /\ diskData'[mem[j].cluster] \in Sector
      BY <1>1 DEF Inv, TypeOK
    <3>2. mem[j].size \in 0 .. SectorSize
      BY <1>1, <1>2
    <3>3. SubSeq(diskData[mem[j].cluster], 1, mem[j].size)
             = SubSeq(diskData'[mem[j].cluster], 1, mem[j].size)
      BY <1>1, <3>1, <3>2, SamePrefix
    <3>4. QED
      BY <2>1, <2>2, <3>3 DEF EntryBytes
  <2>3. CASE i # j
    <3>1. diskRoot[i].cluster # mem[j].cluster
      BY <1>1, <2>1, <2>3
    <3>2. QED
      BY <1>1, <2>1, <3>1 DEF EntryBytes
  <2>4. QED
    BY <2>2, <2>3
<1>4. QED
  BY <1>1, <1>3, StoredSame

\* A sector of the directory: the files with data are as they were, but for the
\* file that is appended to, which may get its new size.
LEMMA SectorWritten ==
    ASSUME Inv, WriteRootSector, NEW i \in FileSlots
    PROVE  \/ diskRoot'[i] = diskRoot[i]
           \/ ~(diskRoot'[i].size > 0) /\ ~(diskRoot[i].size > 0)
           \/ /\ pc = "appf" /\ i = cmd.at
              /\ diskRoot'[i] = g_root_directory[i]
              /\ diskRoot[i] = Entry(cmd.name, g_root_directory[i].cluster,
                                     g_root_directory[i].size - Len(cmd.text))
<1>1. pc \in {"newf", "appf"} /\ diskRoot'[i] \in {diskRoot[i], g_root_directory[i]}
  BY DEF WriteRootSector, FileSlots
<1>2. CASE i = cmd.at
  <2>1. CASE pc = "newf"
    BY <1>1, <1>2, <2>1 DEF Inv, NewfInFlight
  <2>2. CASE pc = "appf"
    BY <1>1, <1>2, <2>2 DEF Inv, AppfInFlight
  <2>3. QED
    BY <1>1, <2>1, <2>2
<1>3. CASE i # cmd.at
  BY <1>1, <1>3 DEF Inv, Agree
<1>4. QED
  BY <1>2, <1>3

\* In the sector with the appended file's entry its text appears, whole.
LEMMA TextAppears ==
    ASSUME Inv, Inv', WriteRootSector, pc = "appf",
           diskRoot'[cmd.at] # diskRoot[cmd.at]
    PROVE  LET s == StoredIn(diskRoot, diskData, cmd.name)
           IN  /\ StoredIn(diskRoot', diskData', cmd.name) = s \o cmd.text
               /\ s \o cmd.text # s
               /\ Len(s) + Len(cmd.text) <= SectorSize
               /\ cmd.name \in Names /\ cmd.text \in Texts
<1> DEFINE at == cmd.at
           e == g_root_directory[at]
           t == cmd.text
           old == e.size - Len(t)
           f == diskData[e.cluster]
<1>1. at \in FileSlots /\ at \in Slots /\ cmd.name \in Names /\ e.name = cmd.name /\ e \in Entries
  BY DEF Inv, InFlight, TypeOK, FileSlots
<1>2. /\ old >= 0 /\ diskRoot[at] \in {e, Entry(cmd.name, e.cluster, old)}
      /\ \A k \in 1 .. Len(t) : f[old + k] = t[k]
  BY DEF Inv, AppfInFlight
<1>3. diskRoot'[at] = e /\ diskRoot[at] = Entry(cmd.name, e.cluster, old)
  <2>1. diskRoot'[at] \in {diskRoot[at], e}
    BY <1>1 DEF WriteRootSector
  <2>2. QED
    BY <1>2, <2>1
<1>4. diskData' = diskData
  BY DEF WriteRootSector
<1>5. t \in Seq(Byte) /\ Len(t) \in Nat /\ t \in Texts
  <2>1. t \in Texts \cup {<<>>}
    BY DEF Inv, TypeOK
  <2>2. CASE t = <<>>
    <3>1. Len(t) = 0
      BY <2>2, EmptySeq
    <3>2. old = e.size
      BY <1>1, <3>1, EntryParts
    <3>3. e = Entry(cmd.name, e.cluster, old)
      BY <1>1, <3>2, EntryParts
    <3>4. QED
      BY <1>3, <3>3
  <2>3. CASE t \in Texts
    BY <2>3, FatFilesAssumption, SeqMonotonic, LenProperties
  <2>4. QED
    BY <2>1, <2>2, <2>3
<1>6. e.size \in 0 .. SectorSize /\ e.size \in Nat /\ old \in Nat /\ old + Len(t) = e.size
  BY <1>1, <1>2, <1>5, EntryParts
<1>7. Len(t) # 0
  <2>1. SUFFICES ASSUME Len(t) = 0 PROVE FALSE
    OBVIOUS
  <2>2. old = e.size
    BY <1>6, <2>1
  <2>3. e = Entry(cmd.name, e.cluster, old)
    BY <1>1, <2>2, EntryParts
  <2>4. QED
    BY <1>3, <2>3
<1>8. f \in Sector
  <2>1. e.cluster \in DataClusters
    BY <1>1 DEF Inv, DirSound, EntriesSound, InFlight
  <2>2. QED
    BY <2>1 DEF Inv, TypeOK
<1>9. StoredIn(diskRoot, diskData, cmd.name) = SubSeq(f, 1, old)
  <2>1. /\ diskRoot[at].name = cmd.name /\ diskRoot[at].cluster = e.cluster
        /\ diskRoot[at].size = old
    BY <1>3, EntryIs
  <2>2. DirSound(diskRoot) /\ diskRoot \in [Slots -> Entries]
    BY DEF Inv, TypeOK
  <2>3. StoredIn(diskRoot, diskData, diskRoot[at].name) = EntryBytes(diskRoot[at], diskData)
    BY <1>1, <2>1, <2>2, StoredOfEntry
  <2>4. QED
    BY <2>1, <2>3 DEF EntryBytes
<1>10. StoredIn(diskRoot', diskData', cmd.name) = SubSeq(f, 1, old + Len(t))
  <2>1. DirSound(diskRoot)' /\ diskRoot' \in [Slots -> Entries]
    BY DEF Inv, TypeOK
  <2>2. DirSound(diskRoot')
    BY <2>1 DEF DirSound, LabelEntry, EntriesSound, EmptiesLast, NamesDiffer, ClustersDiffer
  <2> DEFINE dir == diskRoot'
  <2>3. dir \in [Slots -> Entries] /\ DirSound(dir) /\ dir[at].name \in Names
    BY <1>1, <1>3, <2>1, <2>2
  <2>4. dir[at] = e /\ diskData' = diskData
    BY <1>3, <1>4
  <2>5. StoredIn(diskRoot', diskData', cmd.name) = StoredIn(dir, diskData, dir[at].name)
    BY <1>1, <2>4
  <2> HIDE DEF dir
  <2>6. StoredIn(dir, diskData, dir[at].name) = EntryBytes(dir[at], diskData)
    BY <1>1, <2>3, StoredOfEntry
  <2>7. QED
    BY <1>6, <2>4, <2>5, <2>6 DEF EntryBytes
<1>11. QED
  <2> DEFINE s == SubSeq(f, 1, old)
  <2>1. old \in 0 .. SectorSize /\ old + Len(t) \in 0 .. SectorSize
    <3> HIDE DEF old
    <3>1. QED
      BY <1>5, <1>6, FatFilesAssumption
  <2>2. s \in Seq(Byte) /\ Len(s) = old
    BY <1>8, <2>1, PrefixFacts
  <2>3. SubSeq(f, 1, old + Len(t)) = s \o t
    BY <1>2, <1>5, <1>6, <1>8, <2>1, PrefixGrows
  <2> HIDE DEF s, old, f
  <2>4. Len(s \o t) = old + Len(t)
    BY <1>5, <2>2, ConcatProperties
  <2>5. s \o t # s
    BY <1>5, <1>6, <1>7, <2>2, <2>4
  <2>6. Len(s) + Len(t) <= SectorSize
    BY <2>1, <2>2, FatFilesAssumption
  <2>7. QED
    BY <1>1, <1>5, <1>9, <1>10, <2>3, <2>5, <2>6 DEF s

LEMMA WriteRootSectorImplements ==
    ASSUME Inv, Inv', Sound, Sound', WriteRootSector
    PROVE  [Store!Next]_<<[n \in Names |-> Stored(n)], ~Sound>>
<1> DEFINE at == cmd.at
<1>1. diskData' = diskData
  BY DEF WriteRootSector
<1>2. ASSUME NEW n \in Names, ~(pc = "appf" /\ n = cmd.name /\ diskRoot'[at] # diskRoot[at])
      PROVE  StoredIn(diskRoot', diskData', n) = StoredIn(diskRoot, diskData, n)
  <2>1. ASSUME NEW i \in FileSlots
        PROVE  /\ (diskRoot[i].name = n /\ diskRoot[i].size > 0)
                     <=> (diskRoot'[i].name = n /\ diskRoot'[i].size > 0)
               /\ diskRoot[i].name = n /\ diskRoot[i].size > 0 => diskRoot'[i] = diskRoot[i]
    <3>1. CASE diskRoot'[i] = diskRoot[i]
      BY <3>1
    <3>2. CASE ~(diskRoot'[i].size > 0) /\ ~(diskRoot[i].size > 0)
      BY <3>2
    <3>3. CASE /\ pc = "appf" /\ i = at /\ diskRoot'[i] # diskRoot[i]
               /\ diskRoot'[i] = g_root_directory[i]
               /\ diskRoot[i] = Entry(cmd.name, g_root_directory[i].cluster,
                                      g_root_directory[i].size - Len(cmd.text))
      <4>1. diskRoot[i].name = cmd.name
        BY <3>3, EntryIs
      <4>2. diskRoot'[i].name = cmd.name
        BY <3>3 DEF Inv, InFlight
      <4>3. n # cmd.name
        BY <1>2, <3>3
      <4>4. QED
        BY <4>1, <4>2, <4>3
    <3>4. QED
      BY <3>1, <3>2, <3>3, SectorWritten
  <2>2. QED
    BY <1>1, <2>1, StoredSame
<1>3. CASE ~(pc = "appf" /\ diskRoot'[at] # diskRoot[at])
  <2>1. UNCHANGED [n \in Names |-> Stored(n)]
    BY <1>2, <1>3, ContentUnchanged
  <2>2. QED
    BY <2>1 DEF Sound
<1>4. CASE pc = "appf" /\ diskRoot'[at] # diskRoot[at]
  <2>1. PICK m \in Names, t \in Texts :
           /\ m = cmd.name
           /\ LET s == StoredIn(diskRoot, diskData, m)
              IN  /\ StoredIn(diskRoot', diskData', m) = s \o t
                  /\ s \o t # s
                  /\ Len(s) + Len(t) <= SectorSize
    BY <1>4, TextAppears
  <2>2. /\ Stored(m)' = Stored(m) \o t /\ Stored(m) \o t # Stored(m)
        /\ Len(Stored(m)) + Len(t) <= SectorSize
    BY <2>1, StoredIsIn
  <2>3. \A n \in Names : n # m => Stored(n)' = Stored(n)
    BY <1>2, <2>1, StoredIsIn
  <2> DEFINE content == [n \in Names |-> Stored(n)]
  <2>4. content'[m] = content[m] \o t /\ content'[m] # content[m]
    BY <2>2
  <2>5. content' = [content EXCEPT ![m] = content[m] \o t]
    BY <2>2, <2>3
  <2>6. Len(content[m]) + Len(t) <= SectorSize
    BY <2>2
  <2>7. Store!AppendText(m, t)
    BY <2>5, <2>6 DEF Store!AppendText
  <2>8. Store!Grow
    BY <2>4, <2>7 DEF Store!Grow
  <2>9. QED
    BY <2>8 DEF Store!Next
<1>5. QED
  BY <1>3, <1>4

\* The directory on the disk is the store of append-only texts: every command, one
\* sector write at a time, and every reset leaves what the names hold alone or
\* appends one whole text (shell.c 226-349, fat_drive.c).
THEOREM StoreRefinement == Spec => ImplementsStore
<1> DEFINE content == [n \in Names |-> Stored(n)]
<1>1. ASSUME CleanStep, Inv' PROVE [Store!Next]_<<content, ~Sound>>
  <2> USE DEF CleanStep
  <2>1. CASE WriteRootSector
    BY <1>1, <2>1, WriteRootSectorImplements
  <2>2. ASSUME UNCHANGED content PROVE [Store!Next]_<<content, ~Sound>>
    BY <1>1, <2>2
  <2>3. CASE \E n \in Names \cup {NoName}, t \in Texts : AppfBegin(n, t)
    BY <1>1, <2>2, <2>3, AppfBeginHidden, ContentUnchanged
  <2>4. CASE UNCHANGED <<diskRoot, diskData>>
    BY <2>2, <2>4, ContentUnchanged
  <2>5. \/ WriteRootSector
        \/ \E n \in Names \cup {NoName}, t \in Texts : AppfBegin(n, t)
        \/ UNCHANGED <<diskRoot, diskData>>
    <3>1. ASSUME NEW n \in Names \cup {NoName}, Command(n), ~(\E t \in Texts : AppfBegin(n, t))
          PROVE  UNCHANGED <<diskRoot, diskData>>
      BY <1>1, <3>1 DEF Command, NewfExists, NewfNoCluster, NewfBegin, AppfNotFound, AppfTooBig,
         ReadNotFound, ReadShows, RunsAway, Delf, Answer
    <3>2. List \/ NewfWriteFat \/ AppfDone \/ Restart \/ UNCHANGED vars
             => UNCHANGED <<diskRoot, diskData>>
      BY DEF List, Answer, NewfWriteFat, NewfSetFat, AppfDone, Restart, disk, vars
    <3>3. QED
      BY <1>1, <3>1, <3>2 DEF Next
  <2>6. QED
    BY <2>1, <2>3, <2>4, <2>5
<1>2. SoundInv /\ SoundInv' /\ [Next]_vars => [Store!Next]_<<content, ~Sound>>
  <2>1. CASE Sound'
    BY <1>1, <2>1, StepIsClean DEF SoundInv
  <2>2. CASE ~Sound'
    BY <2>2 DEF Store!Next, Store!Spoilt
  <2>3. QED
    BY <2>1, <2>2
<1>3. Init => Store!Init
  BY InitImplements
<1>4. QED
  BY <1>2, <1>3, InvariantHolds, PTL DEF Spec, ImplementsStore, Store!Spec
=============================================================================
