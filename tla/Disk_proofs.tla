---------------------------- MODULE Disk_proofs ----------------------------
(***************************************************************************)
(* For every number of entries, every set of values and every table the    *)
(* disk can hold: the packed FAT of fat_drive.c is a table of independent  *)
(* 12-bit entries, and its two decoders agree.  After that, for every      *)
(* volume, what the readers of FatWalk follow in it: a read that succeeds  *)
(* has the file's sectors.  At last the driver below, for drives of any    *)
(* size, transfers of any length and any number of failures and resets: a  *)
(* sector is never torn, and a transfer that does not fail did what was    *)
(* asked.                                                                  *)
(***************************************************************************)
EXTENDS FatWalk, Ata, SequenceTheorems, TLAPS

\* Arithmetic of the offsets: an entry starts at its first byte and ends in the
\* next; the two entries of a pair share the byte in the middle.
LEMMA EvenOffset ==
    ASSUME NEW k \in Nat PROVE k % 2 = 0 => 2 * ((k * 3) \div 2) = 3 * k
BY SMT

LEMMA OddOffset ==
    ASSUME NEW k \in Nat PROVE k % 2 # 0 => 2 * ((k * 3) \div 2) = (3 * k) - 1
BY SMT

LEMMA OffsetBound ==
    ASSUME NEW n \in Nat, NEW k \in Nat, k < n
    PROVE  (k * 3) \div 2 \in Nat /\ ((k * 3) \div 2) + 1 <= (3 * n) \div 2
<1>1. (k * 3) \div 2 \in Nat BY SMT
<1>2. ((k * 3) \div 2) + 1 <= (3 * n) \div 2 BY SMT
<1>3. QED BY <1>1, <1>2

\* Arithmetic of the masks and shifts.
LEMMA Mod16 == ASSUME NEW v \in Nat PROVE v % 16 \in 0 .. 15
BY SMT

LEMMA Mod256 == ASSUME NEW v \in Nat PROVE v % 256 \in 0 .. 255
BY SMT

LEMMA Low12Bits == ASSUME NEW v \in Nat PROVE v % 4096 \in TwelveBits
BY SMT DEF TwelveBits

LEMMA Shift4 == ASSUME NEW v \in Nat PROVE v \div 16 \in Nat
BY SMT

LEMMA Shift8 == ASSUME NEW v \in Nat PROVE v \div 256 \in Nat
BY SMT

\* The bytes the setter stores (lines 62-63 and 66-67) are bytes again.
LEMMA EvenSecondByte ==
    ASSUME NEW old \in 0 .. 255, NEW v \in Nat PROVE EvenSecond(old, v) \in 0 .. 255
<1> DEFINE n == (v \div 256) % 16
<1>1. n \in 0 .. 15 BY Mod16, Shift8
<1> HIDE DEF n
<1>2. (old - (old % 16)) + n \in 0 .. 255 BY <1>1, SMT
<1>3. QED BY <1>2 DEF EvenSecond, n

LEMMA OddFirstByte ==
    ASSUME NEW old \in 0 .. 255, NEW v \in Nat PROVE OddFirst(old, v) \in 0 .. 255
BY SMT DEF OddFirst

LEMMA OddSecondByte ==
    ASSUME NEW v \in Nat PROVE OddSecond(v) \in 0 .. 255
BY Shift4, Mod256 DEF OddSecond

\* The shared byte: the nibble of the entry that is set is the one the value
\* gives it, the nibble of its neighbour is kept.
LEMMA EvenSecondNibbles ==
    ASSUME NEW old \in 0 .. 255, NEW v \in Nat
    PROVE  /\ EvenSecond(old, v) % 16 = (v \div 256) % 16
           /\ EvenSecond(old, v) \div 16 = old \div 16
<1> DEFINE n == (v \div 256) % 16
<1>1. n \in 0 .. 15 BY Mod16, Shift8
<1> HIDE DEF n
<1>2. ((old - (old % 16)) + n) % 16 = n BY <1>1, SMT
<1>3. ((old - (old % 16)) + n) \div 16 = old \div 16 BY <1>1, SMT
<1>4. QED BY <1>2, <1>3 DEF EvenSecond, n

LEMMA OddFirstNibbles ==
    ASSUME NEW old \in 0 .. 255, NEW v \in Nat
    PROVE  /\ OddFirst(old, v) % 16 = old % 16
           /\ OddFirst(old, v) \div 16 = v % 16
<1> DEFINE n == v % 16
<1> DEFINE m == old % 16
<1>1. n \in 0 .. 15 /\ m \in 0 .. 15 BY Mod16
<1> HIDE DEF n, m
<1>2. (m + (16 * n)) % 16 = m  BY <1>1, SMT
<1>3. (m + (16 * n)) \div 16 = n  BY <1>1, SMT
<1>4. QED BY <1>2, <1>3 DEF OddFirst, n, m

\* The two parts of an entry make up the low 12 bits of the value.
LEMMA EvenReadsBack ==
    ASSUME NEW v \in Nat
    PROVE  (v % 256) + (256 * ((v \div 256) % 16)) = v % 4096
BY SMT

LEMMA OddReadsBack ==
    ASSUME NEW v \in Nat
    PROVE  (v % 16) + (16 * ((v \div 16) % 256)) = v % 4096
BY SMT

\* The 16-bit load, masked or shifted, is the entry put together from its parts.
LEMMA LoadMasked ==
    ASSUME NEW a \in 0 .. 255, NEW b \in 0 .. 255
    PROVE  (a + (256 * b)) % 4096 = a + (256 * (b % 16))
BY SMT

LEMMA LoadShifted ==
    ASSUME NEW a \in 0 .. 255, NEW b \in 0 .. 255
    PROVE  (a + (256 * b)) \div 16 = (a \div 16) + (16 * b)
BY SMT

LEMMA EntryIs12Bits ==
    ASSUME NEW a \in 0 .. 255, NEW b \in 0 .. 255
    PROVE  /\ a + (256 * (b % 16)) \in TwelveBits
           /\ (a \div 16) + (16 * b) \in TwelveBits
<1>1. a + (256 * (b % 16)) \in TwelveBits BY SMT DEF TwelveBits
<1>2. (a \div 16) + (16 * b) \in TwelveBits BY SMT DEF TwelveBits
<1>3. QED BY <1>1, <1>2

-----------------------------------------------------------------------------
\* Where an entry's two bytes are.
LEMMA OffsetFacts ==
    ASSUME NEW k \in Entries
    PROVE  /\ k \in Nat
           /\ Offset(k) \in Nat
           /\ Offset(k) \in Offsets
           /\ Offset(k) + 1 \in Offsets
<1>1. NEntries \in Nat /\ k \in Nat /\ k < NEntries
  BY TableAssumption DEF Entries
<1> DEFINE o == (k * 3) \div 2
<1> DEFINE last == (3 * NEntries) \div 2
<1>2. o \in Nat /\ o + 1 <= last
  BY <1>1, OffsetBound
<1>3. last \in Int
  BY <1>1, SMT
<1> HIDE DEF o, last
<1>4. o \in 0 .. last /\ o + 1 \in 0 .. last
  BY <1>2, <1>3
<1>5. QED BY <1>1, <1>2, <1>4 DEF Offset, Offsets, o, last

\* Two entries share a byte only when they are the two halves of a pair.
LEMMA OffsetsApart ==
    ASSUME NEW j \in Entries, NEW k \in Entries, j # k
    PROVE  /\ Offset(j) # Offset(k)
           /\ Offset(j) + 1 = Offset(k) => j % 2 = 0 /\ k % 2 # 0
           /\ Offset(j) = Offset(k) + 1 => j % 2 # 0 /\ k % 2 = 0
<1> DEFINE a == Offset(j)
<1> DEFINE b == Offset(k)
<1>1. j \in Nat /\ k \in Nat /\ a \in Nat /\ b \in Nat
  BY OffsetFacts
<1>2. /\ j % 2 = 0 => 2 * a = 3 * j
      /\ k % 2 = 0 => 2 * b = 3 * k
      /\ j % 2 # 0 => 2 * a = (3 * j) - 1
      /\ k % 2 # 0 => 2 * b = (3 * k) - 1
  BY <1>1, EvenOffset, OddOffset DEF Offset
<1> HIDE DEF a, b
<1>3. CASE j % 2 = 0 /\ k % 2 = 0
  <2>1. 2 * a = 3 * j /\ 2 * b = 3 * k BY <1>2, <1>3
  <2>2. a # b /\ a + 1 # b /\ a # b + 1 BY <1>1, <2>1, SMT
  <2>3. QED BY <2>2 DEF a, b
<1>4. CASE j % 2 = 0 /\ k % 2 # 0
  <2>1. 2 * a = 3 * j /\ 2 * b = (3 * k) - 1 BY <1>2, <1>4
  <2>2. a # b /\ a # b + 1 BY <1>1, <2>1, SMT
  <2>3. QED BY <1>4, <2>2 DEF a, b
<1>5. CASE j % 2 # 0 /\ k % 2 = 0
  <2>1. 2 * a = (3 * j) - 1 /\ 2 * b = 3 * k BY <1>2, <1>5
  <2>2. a # b /\ a + 1 # b BY <1>1, <2>1, SMT
  <2>3. QED BY <1>5, <2>2 DEF a, b
<1>6. CASE j % 2 # 0 /\ k % 2 # 0
  <2>1. 2 * a = (3 * j) - 1 /\ 2 * b = (3 * k) - 1 BY <1>2, <1>6
  <2>2. a # b /\ a + 1 # b /\ a # b + 1 BY <1>1, <2>1, SMT
  <2>3. QED BY <2>2 DEF a, b
<1>7. QED BY <1>3, <1>4, <1>5, <1>6

\* Storing two elements of a function.
LEMMA TwoStores ==
    ASSUME NEW S, NEW T, NEW f \in [S -> T],
           NEW p \in S, NEW q \in S, p # q, NEW x \in T, NEW y \in T
    PROVE  LET g == [f EXCEPT ![p] = x, ![q] = y]
           IN  /\ g \in [S -> T]
               /\ g[p] = x /\ g[q] = y
               /\ \A r \in S \ {p, q} : g[r] = f[r]
OBVIOUS

\* A function that differs from another in one place.
LEMMA OneStore ==
    ASSUME NEW S, NEW f, NEW g, NEW p \in S, NEW x,
           f = [q \in S |-> f[q]], g = [q \in S |-> g[q]],
           g[p] = x, \A q \in S \ {p} : g[q] = f[q]
    PROVE  g = [f EXCEPT ![p] = x]
OBVIOUS

\* What fat_drive_set_fat_entry_value does to the byte array.
LEMMA SetEntryBytes ==
    ASSUME NEW fat \in [Offsets -> Byte], NEW k \in Entries, NEW v \in Nat
    PROVE  /\ SetEntry(fat, k, v) \in [Offsets -> Byte]
           /\ \A o \in Offsets \ {Offset(k), Offset(k) + 1} :
                 SetEntry(fat, k, v)[o] = fat[o]
           /\ k % 2 = 0 =>
                 /\ SetEntry(fat, k, v)[Offset(k)] = v % 256
                 /\ SetEntry(fat, k, v)[Offset(k) + 1] =
                       EvenSecond(fat[Offset(k) + 1], v)
           /\ k % 2 # 0 =>
                 /\ SetEntry(fat, k, v)[Offset(k)] = OddFirst(fat[Offset(k)], v)
                 /\ SetEntry(fat, k, v)[Offset(k) + 1] = OddSecond(v)
<1> DEFINE o == Offset(k)
<1> DEFINE p == Offset(k) + 1
<1>1. o \in Offsets /\ p \in Offsets
  BY OffsetFacts
<1>2. o # p
  BY OffsetFacts
<1>3. fat[o] \in 0 .. 255 /\ fat[p] \in 0 .. 255
  BY <1>1 DEF Byte
<1> HIDE DEF o, p
<1>5. /\ v % 256 \in Byte
      /\ EvenSecond(fat[p], v) \in Byte
      /\ OddFirst(fat[o], v) \in Byte
      /\ OddSecond(v) \in Byte
  <2>1. v % 256 \in 0 .. 255
    BY Mod256, Zenon
  <2>2. EvenSecond(fat[p], v) \in 0 .. 255
    BY <1>3, EvenSecondByte, Zenon
  <2>3. OddFirst(fat[o], v) \in 0 .. 255
    BY <1>3, OddFirstByte, Zenon
  <2>4. OddSecond(v) \in 0 .. 255
    BY OddSecondByte, Zenon
  <2>5. QED
    BY <2>1, <2>2, <2>3, <2>4, Zenon DEF Byte
<1>6. CASE k % 2 = 0
  <2> DEFINE g == [fat EXCEPT ![o] = v % 256, ![p] = EvenSecond(fat[p], v)]
  <2>1. SetEntry(fat, k, v) = g
    BY <1>1, <1>2, <1>6 DEF SetEntry, o, p
  <2>2. /\ g \in [Offsets -> Byte]
        /\ g[o] = v % 256 /\ g[p] = EvenSecond(fat[p], v)
        /\ \A r \in Offsets \ {o, p} : g[r] = fat[r]
    BY <1>1, <1>2, <1>5, TwoStores
  <2>3. QED BY <1>6, <2>1, <2>2 DEF o, p
<1>7. CASE k % 2 # 0
  <2> DEFINE g == [fat EXCEPT ![o] = OddFirst(fat[o], v), ![p] = OddSecond(v)]
  <2>1. SetEntry(fat, k, v) = g
    BY <1>1, <1>2, <1>7 DEF SetEntry, o, p
  <2>2. /\ g \in [Offsets -> Byte]
        /\ g[o] = OddFirst(fat[o], v) /\ g[p] = OddSecond(v)
        /\ \A r \in Offsets \ {o, p} : g[r] = fat[r]
    BY <1>1, <1>2, <1>5, TwoStores
  <2>3. QED BY <1>7, <2>1, <2>2 DEF o, p
<1>8. QED BY <1>6, <1>7

\* Every entry of a table of bytes is read from two bytes.
LEMMA EntryBytes ==
    ASSUME NEW fat \in [Offsets -> Byte], NEW k \in Entries
    PROVE  fat[Offset(k)] \in 0 .. 255 /\ fat[Offset(k) + 1] \in 0 .. 255
BY OffsetFacts DEF Byte

\* The entry that was set reads back as the low 12 bits of the value.
THEOREM GetAfterSet ==
    ASSUME NEW fat \in [Offsets -> Byte], NEW k \in Entries, NEW v \in Nat
    PROVE  GetEntry(SetEntry(fat, k, v), k) = v % 4096
<1> DEFINE new == SetEntry(fat, k, v)
<1>0. k % 2 = 0 =>
        /\ new[Offset(k)] = v % 256
        /\ new[Offset(k) + 1] = EvenSecond(fat[Offset(k) + 1], v)
  BY SetEntryBytes, ZenonT(60)
<1>1. fat[Offset(k)] \in 0 .. 255 /\ fat[Offset(k) + 1] \in 0 .. 255
  BY EntryBytes
<1>2. CASE k % 2 = 0
  <2>1. GetEntry(new, k) = new[Offset(k)] + (256 * (new[Offset(k) + 1] % 16))
    BY <1>2 DEF GetEntry
  <2>2. /\ new[Offset(k)] = v % 256
        /\ new[Offset(k) + 1] = EvenSecond(fat[Offset(k) + 1], v)
    BY <1>0, <1>2
  <2>3. EvenSecond(fat[Offset(k) + 1], v) % 16 = (v \div 256) % 16
    BY <1>1, EvenSecondNibbles, SMTT(30)
  <2>4. (v % 256) + (256 * ((v \div 256) % 16)) = v % 4096
    BY EvenReadsBack
  <2> HIDE DEF new
  <2>5. GetEntry(new, k) = (v % 256) + (256 * ((v \div 256) % 16))
    BY <2>1, <2>2, <2>3, Zenon
  <2>6. QED BY <2>4, <2>5 DEF new
<1>3. CASE k % 2 # 0
  <2>1. GetEntry(new, k) = (new[Offset(k)] \div 16) + (16 * new[Offset(k) + 1])
    BY <1>3 DEF GetEntry
  <2>2. /\ new[Offset(k)] = OddFirst(fat[Offset(k)], v)
        /\ new[Offset(k) + 1] = (v \div 16) % 256
    BY <1>3, SetEntryBytes DEF OddSecond
  <2>3. OddFirst(fat[Offset(k)], v) \div 16 = v % 16
    BY <1>1, OddFirstNibbles
  <2>4. (v % 16) + (16 * ((v \div 16) % 256)) = v % 4096
    BY OddReadsBack
  <2> HIDE DEF new
  <2>5. GetEntry(new, k) = v % 4096
    BY <2>1, <2>2, <2>3, <2>4
  <2>6. QED BY <2>5 DEF new
<1>4. QED BY <1>2, <1>3

\* Every other entry reads as before, also the one that shares a byte.
THEOREM OthersAfterSet ==
    ASSUME NEW fat \in [Offsets -> Byte], NEW k \in Entries, NEW v \in Nat,
           NEW j \in Entries, j # k
    PROVE  GetEntry(SetEntry(fat, k, v), j) = GetEntry(fat, j)
<1> DEFINE new == SetEntry(fat, k, v)
<1> DEFINE a == Offset(j)
<1> DEFINE b == Offset(k)
<1>1. /\ fat[b] \in 0 .. 255 /\ fat[b + 1] \in 0 .. 255
      /\ a \in Offsets /\ a + 1 \in Offsets /\ a \in Nat /\ b \in Nat
  BY EntryBytes, OffsetFacts
<1>2. /\ a # b
      /\ a + 1 = b => j % 2 = 0 /\ k % 2 # 0
      /\ a = b + 1 => j % 2 # 0 /\ k % 2 = 0
  BY OffsetsApart
<1>3. /\ \A o \in Offsets \ {b, b + 1} : new[o] = fat[o]
      /\ k % 2 = 0 => new[b + 1] = EvenSecond(fat[b + 1], v)
      /\ k % 2 # 0 => new[b] = OddFirst(fat[b], v)
  BY SetEntryBytes
<1> HIDE DEF new, a, b
<1>4. CASE a + 1 = b
  <2>1. new[a] = fat[a]
    BY <1>1, <1>3, <1>4
  <2>2. OddFirst(fat[b], v) % 16 = fat[b] % 16
    BY <1>1, OddFirstNibbles
  <2>3. new[a + 1] % 16 = fat[a + 1] % 16
    BY <1>2, <1>3, <1>4, <2>2
  <2>4. QED BY <1>2, <1>4, <2>1, <2>3 DEF GetEntry, a, new
<1>5. CASE a = b + 1
  <2>1. a + 1 # b /\ a + 1 # b + 1
    BY <1>1, <1>5
  <2>2. new[a + 1] = fat[a + 1]
    BY <1>1, <1>3, <2>1
  <2>3. EvenSecond(fat[b + 1], v) \div 16 = fat[b + 1] \div 16
    BY <1>1, EvenSecondNibbles
  <2>4. new[a] \div 16 = fat[a] \div 16
    BY <1>2, <1>3, <1>5, <2>3
  <2>5. QED BY <1>2, <1>5, <2>2, <2>4 DEF GetEntry, a, new
<1>6. CASE a + 1 # b /\ a # b + 1
  <2>1. a + 1 # b + 1
    BY <1>1, <1>2
  <2>2. new[a] = fat[a] /\ new[a + 1] = fat[a + 1]
    BY <1>1, <1>2, <1>3, <1>6, <2>1
  <2>3. QED BY <2>2 DEF GetEntry, a, new
<1>7. QED BY <1>4, <1>5, <1>6

\* The accessor's mask and shift and the chain walk's 16-bit load give the same
\* entry of any table of bytes; the entry fits 12 bits.
THEOREM DecodersAgreeAlways ==
    ASSUME NEW fat \in [Offsets -> Byte], NEW k \in Entries
    PROVE  ChainEntry(fat, k) = GetEntry(fat, k) /\ GetEntry(fat, k) \in TwelveBits
<1> DEFINE a == fat[Offset(k)]
<1> DEFINE b == fat[Offset(k) + 1]
<1>1. a \in 0 .. 255 /\ b \in 0 .. 255
  BY EntryBytes
<1>2. /\ GetEntry(fat, k) =
            IF k % 2 = 0 THEN a + (256 * (b % 16)) ELSE (a \div 16) + (16 * b)
      /\ ChainEntry(fat, k) =
            IF k % 2 = 0 THEN (a + (256 * b)) % 4096 ELSE (a + (256 * b)) \div 16
  BY DEF GetEntry, ChainEntry
<1> HIDE DEF a, b
<1>3. CASE k % 2 = 0
  <2>1. (a + (256 * b)) % 4096 = a + (256 * (b % 16))
    BY <1>1, LoadMasked
  <2>2. a + (256 * (b % 16)) \in TwelveBits
    BY <1>1, EntryIs12Bits, Zenon
  <2>3. GetEntry(fat, k) = a + (256 * (b % 16))
    BY <1>2, <1>3
  <2>4. ChainEntry(fat, k) = (a + (256 * b)) % 4096
    BY <1>2, <1>3
  <2>5. QED BY <2>1, <2>2, <2>3, <2>4
<1>4. CASE k % 2 # 0
  <2>1. (a + (256 * b)) \div 16 = (a \div 16) + (16 * b)
    BY <1>1, LoadShifted
  <2>2. (a \div 16) + (16 * b) \in TwelveBits
    BY <1>1, EntryIs12Bits, Zenon
  <2>3. GetEntry(fat, k) = (a \div 16) + (16 * b)
    BY <1>2, <1>4
  <2>4. ChainEntry(fat, k) = (a + (256 * b)) \div 16
    BY <1>2, <1>4
  <2>5. QED BY <2>1, <2>2, <2>3, <2>4
<1>5. QED BY <1>3, <1>4

-----------------------------------------------------------------------------
LEMMA SetKeepsType ==
    ASSUME TypeOK, NEW k \in Entries, NEW v \in Values, Set(k, v)
    PROVE  TypeOK'
BY SetEntryBytes, TableAssumption DEF TypeOK, Set

\* g_Fat stays an array of bytes.
THEOREM TypeCorrect == Spec => []TypeOK
<1>1. Init => TypeOK
  BY TableAssumption DEF Init, TypeOK
<1>2. TypeOK /\ [Next]_g_Fat => TypeOK'
  BY SetKeepsType DEF TypeOK, Next
<1>3. QED BY <1>1, <1>2, PTL DEF Spec

\* The two decoders agree in every state.
THEOREM DecodersCorrect == Spec => []DecodersAgree
<1>1. TypeOK => DecodersAgree
  BY DecodersAgreeAlways DEF TypeOK, DecodersAgree
<1>2. QED BY <1>1, TypeCorrect, PTL

\* One call of the setter is one update of the abstract table.
LEMMA SetIsTableSet ==
    ASSUME TypeOK, NEW k \in Entries, NEW v \in Nat, Set(k, v)
    PROVE  Table!Set(k, v % 4096)
<1> DEFINE table == [j \in Entries |-> GetEntry(g_Fat, j)]
<1> DEFINE after == [j \in Entries |-> GetEntry(g_Fat', j)]
<1>1. g_Fat' = SetEntry(g_Fat, k, v)
  BY DEF Set
<1>2. GetEntry(g_Fat', k) = v % 4096
  BY <1>1, GetAfterSet DEF TypeOK
<1>3. \A j \in Entries \ {k} : GetEntry(g_Fat', j) = GetEntry(g_Fat, j)
  BY <1>1, OthersAfterSet DEF TypeOK
<1>4. after = [table EXCEPT ![k] = v % 4096]
  <2>1. after[k] = v % 4096 /\ \A j \in Entries \ {k} : after[j] = table[j]
    BY <1>2, <1>3
  <2>2. table = [j \in Entries |-> table[j]] /\ after = [j \in Entries |-> after[j]]
    OBVIOUS
  <2> HIDE DEF table, after
  <2>3. QED BY <2>1, <2>2, OneStore
<1>5. QED BY <1>4 DEF Table!Set

\* An update of the abstract table with a 12-bit value is a step of FatTable.
LEMMA TableSetIsNext ==
    ASSUME NEW k \in Entries, NEW u \in TwelveBits, Table!Set(k, u)
    PROVE  Table!Next
<1> DEFINE table == [j \in Entries |-> GetEntry(g_Fat, j)]
<1> DEFINE after == [j \in Entries |-> GetEntry(g_Fat', j)]
<1>1. after = [table EXCEPT ![k] = u]
  BY DEF Table!Set
<1>2. after[k] = u
  BY <1>1
<1> HIDE DEF after
<1>3. after[k] \in TwelveBits /\ after = [table EXCEPT ![k] = after[k]]
  BY <1>1, <1>2
<1>4. QED BY <1>3, Zenon DEF Table!Next, Table!Set, after

\* Every step that calls the setter changes the entry asked for, and only it.
THEOREM SetCorrect == Spec => SetsTheEntryAsked
<1>1. TypeOK /\ [Next]_g_Fat =>
         [\A k \in Entries, v \in Values : Set(k, v) => Table!Set(k, v % 4096)]_g_Fat
  BY SetIsTableSet, TableAssumption
<1>2. QED BY <1>1, TypeCorrect, PTL DEF Spec, SetsTheEntryAsked

\* The packed table implements the table of independent entries.
THEOREM TableRefinement == Spec => ImplementsTable
<1>1. Init => Table!Init
  BY TableAssumption, DecodersAgreeAlways DEF Init, Table!Init
<1>2. TypeOK /\ [Next]_g_Fat =>
         [Table!Next]_[k \in Entries |-> GetEntry(g_Fat, k)]
  <2> SUFFICES ASSUME TypeOK, NEW k \in Entries, NEW v \in Values, Set(k, v)
               PROVE  Table!Next
    BY DEF Next
  <2>1. v \in Nat
    BY TableAssumption
  <2>2. Table!Set(k, v % 4096)
    BY <2>1, SetIsTableSet
  <2>3. v % 4096 \in TwelveBits
    BY <2>1, Low12Bits
  <2>4. QED BY <2>2, <2>3, TableSetIsNext
<1>3. QED BY <1>1, <1>2, TypeCorrect, PTL DEF Spec, ImplementsTable, Table!Spec

-----------------------------------------------------------------------------
\* fat_drive_read_header's stores, one by one.
LEMMA HeaderRead ==
    ASSUME NEW buf
    PROVE  LET g == ReadHeader(buf)
           IN  /\ g.BytesPerSector = buf[11] + (256 * buf[12])
               /\ g.SectorsPerCluster = buf[13]
               /\ g.ReservedSectors = buf[14] + (256 * buf[15])
               /\ g.FatCount = buf[16]
               /\ g.DirEntryCount = buf[17] + (256 * buf[18])
               /\ g.SectorsPerFat = buf[22] + (256 * buf[23])
BY DEF ReadHeader, HeaderFields, LittleEndian

\* Where a field begins in the packed struct.
Begins == <<0, 3, 11, 13, 14, 16, 17, 19, 21, 22>>

AreOffsets(f) == f = [i \in DOMAIN BootSectorLayout |->
                    IF i = 1 THEN 0 ELSE f[i - 1] + BootSectorLayout[i - 1][2]]

LEMMA BeginsIsOffset == \A f : AreOffsets(f) => f = Begins
<1> SUFFICES ASSUME NEW f, AreOffsets(f) PROVE f = Begins
  OBVIOUS
<1>1. DOMAIN BootSectorLayout = 1 .. 10
  BY DEF BootSectorLayout
<1>2. \A i \in 1 .. 10 : f[i] = IF i = 1 THEN 0 ELSE f[i - 1] + BootSectorLayout[i - 1][2]
  BY <1>1 DEF AreOffsets
<1>3. f[1] = 0
  BY <1>2
<1>4. f[2] = 3
  BY <1>2, <1>3 DEF BootSectorLayout
<1>5. f[3] = 11
  BY <1>2, <1>4 DEF BootSectorLayout
<1>6. f[4] = 13
  BY <1>2, <1>5 DEF BootSectorLayout
<1>7. f[5] = 14
  BY <1>2, <1>6 DEF BootSectorLayout
<1>8. f[6] = 16
  BY <1>2, <1>7 DEF BootSectorLayout
<1>9. f[7] = 17
  BY <1>2, <1>8 DEF BootSectorLayout
<1>10. f[8] = 19
  BY <1>2, <1>9 DEF BootSectorLayout
<1>11. f[9] = 21
  BY <1>2, <1>10 DEF BootSectorLayout
<1>12. f[10] = 22
  BY <1>2, <1>11 DEF BootSectorLayout
<1>13. f = [i \in 1 .. 10 |-> f[i]]
  BY <1>1 DEF AreOffsets
<1>14. Begins = [i \in 1 .. 10 |-> Begins[i]]
  BY DEF Begins
<1>15. \A i \in 1 .. 10 : f[i] = Begins[i]
  BY <1>3, <1>4, <1>5, <1>6, <1>7, <1>8, <1>9, <1>10, <1>11, <1>12 DEF Begins
<1>16. QED
  BY <1>13, <1>14, <1>15

LEMMA BeginsOffsets == AreOffsets(Begins)
<1>1. DOMAIN BootSectorLayout = 1 .. 10
  BY DEF BootSectorLayout
<1>2. Begins = [i \in 1 .. 10 |-> Begins[i]]
  BY DEF Begins
<1>3. \A i \in 1 .. 10 : Begins[i] = IF i = 1 THEN 0 ELSE Begins[i - 1] + BootSectorLayout[i - 1][2]
  BY DEF Begins, BootSectorLayout
<1>4. QED
  BY <1>1, <1>2, <1>3 DEF AreOffsets

PlaceOf(f) == CHOOSE i \in DOMAIN BootSectorLayout : BootSectorLayout[i][1] = f

LEMMA Places ==
    /\ PlaceOf("BytesPerSector") = 3 /\ PlaceOf("SectorsPerCluster") = 4
    /\ PlaceOf("ReservedSectors") = 5 /\ PlaceOf("FatCount") = 6
    /\ PlaceOf("DirEntryCount") = 7 /\ PlaceOf("TotalSectors") = 8
    /\ PlaceOf("SectorsPerFat") = 10
<1>1. DOMAIN BootSectorLayout = 1 .. 10
  BY DEF BootSectorLayout
<1>2. \A i \in 1 .. 10 :
        /\ BootSectorLayout[i][1] = "BytesPerSector" <=> i = 3
        /\ BootSectorLayout[i][1] = "SectorsPerCluster" <=> i = 4
        /\ BootSectorLayout[i][1] = "ReservedSectors" <=> i = 5
        /\ BootSectorLayout[i][1] = "FatCount" <=> i = 6
        /\ BootSectorLayout[i][1] = "DirEntryCount" <=> i = 7
        /\ BootSectorLayout[i][1] = "TotalSectors" <=> i = 8
        /\ BootSectorLayout[i][1] = "SectorsPerFat" <=> i = 10
  BY DEF BootSectorLayout
<1>3. QED
  BY <1>1, <1>2 DEF PlaceOf

\* The packed struct puts each field where the kernel reads it.
LEMMA SameHeader == ASSUME NEW buf PROVE readBootSector(buf) = ReadHeader(buf)
<1> DEFINE offset == CHOOSE f : f = [i \in DOMAIN BootSectorLayout |->
                    IF i = 1 THEN 0 ELSE f[i - 1] + BootSectorLayout[i - 1][2]]
<1>1. offset = Begins
  BY BeginsOffsets, BeginsIsOffset DEF AreOffsets
<1>2. readBootSector(buf) =
        [f \in DOMAIN HeaderFields |->
            LittleEndian(buf, offset[PlaceOf(f)], BootSectorLayout[PlaceOf(f)][2])]
  BY DEF readBootSector, PlaceOf
<1>3. \A f \in DOMAIN HeaderFields :
        /\ offset[PlaceOf(f)] = HeaderFields[f][1]
        /\ BootSectorLayout[PlaceOf(f)][2] = HeaderFields[f][2]
  <2> HIDE DEF offset
  <2>1. QED
    BY <1>1, Places DEF HeaderFields, BootSectorLayout, Begins
<1> HIDE DEF offset
<1>4. QED
  BY <1>2, <1>3 DEF ReadHeader

LEMMA RoundedUp ==
    ASSUME NEW s \in Nat, NEW b \in Nat \ {0}, NEW d \in Int, d * b \in s .. s + b - 1
    PROVE  (s \div b) + (IF s % b > 0 THEN 1 ELSE 0) = d
<1> DEFINE q == s \div b
           r == s % b
<1>1. q \in Nat /\ r \in 0 .. b - 1 /\ s = (b * q) + r
  OBVIOUS
<1> HIDE DEF q, r
<1>2. ASSUME d <= q - 1 PROVE FALSE
  <2>1. d * b <= (q - 1) * b
    BY <1>1, <1>2
  <2>2. QED
    BY <1>1, <2>1
<1>3. ASSUME d >= q + 2 PROVE FALSE
  <2>1. d * b >= (q + 2) * b
    BY <1>1, <1>3
  <2>2. QED
    BY <1>1, <2>1
<1>4. d \in q .. q + 1
  BY <1>1, <1>2, <1>3
<1>5. CASE d = q
  <2>1. r = 0
    BY <1>1, <1>5
  <2>2. QED
    BY <1>1, <1>5, <2>1 DEF q, r
<1>6. CASE d = q + 1
  <2>1. d * b = (b * q) + b
    BY <1>1, <1>6
  <2>2. r > 0
    BY <1>1, <2>1
  <2>3. QED
    BY <1>1, <1>6, <2>2 DEF q, r
<1>7. QED
  BY <1>4, <1>5, <1>6

LEMMA Geometry ==
    ASSUME NEW v \in Volumes
    PROVE  /\ v.dataStart \in Nat /\ v.sectorsPerCluster \in Nat \ {0}
           /\ v.total = v.dataStart + ((NEntries - 2) * v.sectorsPerCluster)
           /\ RootEnd(ReadHeader(v.boot)) = v.dataStart
           /\ ReadHeader(v.boot).SectorsPerCluster = v.sectorsPerCluster
<1> DEFINE field(o) == v.boot[o] + (256 * v.boot[o + 1])
           root == field(14) + (field(22) * v.boot[16])
           g == ReadHeader(v.boot)
<1>1. /\ v.boot \in [0 .. 61 -> Byte] /\ field(11) # 0
      /\ v.dataStart \in Nat
      /\ (v.dataStart - root) * field(11) \in 32 * field(17) .. (32 * field(17)) + field(11) - 1
      /\ v.sectorsPerCluster = v.boot[13] /\ v.sectorsPerCluster # 0
      /\ v.total = v.dataStart + ((NEntries - 2) * v.sectorsPerCluster)
  BY WalkAssumption DEF Formatted
<1>2. /\ g.BytesPerSector = field(11) /\ g.SectorsPerCluster = v.boot[13]
      /\ g.ReservedSectors = field(14) /\ g.FatCount = v.boot[16]
      /\ g.DirEntryCount = field(17) /\ g.SectorsPerFat = field(22)
  BY HeaderRead
<1>3. \A o \in 0 .. 60 : v.boot[o] \in Nat /\ field(o) \in Nat
  <2> DEFINE b == v.boot
  <2>1. \A o \in 0 .. 61 : b[o] \in Nat
    <3>1. b \in [0 .. 61 -> 0 .. 255]
      BY <1>1 DEF Byte
    <3> HIDE DEF b
    <3>2. \A o \in 0 .. 61 : b[o] \in 0 .. 255
      BY <3>1
    <3>3. TAKE o \in 0 .. 61
    <3>4. b[o] \in 0 .. 255
      BY <3>2
    <3>5. QED
      BY <3>4
  <2> HIDE DEF b
  <2>2. \A o \in 0 .. 60 : b[o] \in Nat /\ b[o] + (256 * b[o + 1]) \in Nat
    BY <2>1
  <2>3. QED
    BY <2>2 DEF b
<1>4. /\ field(11) \in Nat /\ field(14) \in Nat /\ field(17) \in Nat /\ field(22) \in Nat
      /\ v.boot[13] \in Nat /\ v.boot[16] \in Nat
  BY <1>3
<1>5. root \in Nat
  <2> HIDE DEF field
  <2>1. QED BY <1>4
<1>6. RootStart(g) = root
  BY <1>2 DEF RootStart
<1>7. RootSectors(g) = v.dataStart - root
  <2>1. RootSectors(g) = ((32 * field(17)) \div field(11))
                          + (IF (32 * field(17)) % field(11) > 0 THEN 1 ELSE 0)
    BY <1>2 DEF RootSectors
  <2> HIDE DEF root, field
  <2>2. /\ 32 * field(17) \in Nat /\ field(11) \in Nat \ {0} /\ v.dataStart - root \in Int
    BY <1>1, <1>4, <1>5
  <2>3. QED
    BY <1>1, <2>1, <2>2, RoundedUp
<1>8. RootEnd(g) = v.dataStart
  BY <1>1, <1>5, <1>6, <1>7 DEF RootEnd
<1>9. QED
  BY <1>1, <1>2, <1>4, <1>8

\* What the readers compute: the sectors of a cluster where the volume has them.
LEMMA Lbas ==
    ASSUME volume \in Volumes, NEW c \in Int
    PROVE  LET n == volume.sectorsPerCluster
           IN  /\ g_BootSector.SectorsPerCluster = n /\ g_boot_sector.SectorsPerCluster = n
               /\ ToolLba(c) = volume.dataStart + ((c - 2) * n)
               /\ n = 1 => KernelLba(c) = volume.dataStart + (c - 2)
               /\ c \in Entries => ToolLba(c) + n <= volume.total
               /\ c \in Nat \ Entries => ToolLba(c) >= volume.total
<1> DEFINE n == volume.sectorsPerCluster
           d == volume.dataStart
<1>1. /\ d \in Nat /\ n \in Nat \ {0}
      /\ volume.total = d + ((NEntries - 2) * n)
      /\ g_BootSector = g_boot_sector
      /\ RootEnd(g_boot_sector) = d /\ g_boot_sector.SectorsPerCluster = n
  BY Geometry, SameHeader DEF g_boot_sector, g_BootSector
<1>2. ToolLba(c) = d + ((c - 2) * n) /\ KernelLba(c) = (d + (c - 2)) * n
  BY <1>1 DEF ToolLba, KernelLba
<1>3. NEntries \in Nat \ {0}
  BY TableAssumption
<1> HIDE DEF n, d
<1>4. ASSUME c \in Entries PROVE ToolLba(c) + n <= volume.total
  <2>1. c <= NEntries - 1
    BY <1>3, <1>4 DEF Entries
  <2>2. (c - 1) * n <= (NEntries - 2) * n
    BY <1>1, <1>3, <2>1
  <2>3. ((c - 2) * n) + n = (c - 1) * n
    BY <1>1
  <2>4. QED
    BY <1>1, <1>2, <1>3, <2>2, <2>3
<1>5. ASSUME c \in Nat \ Entries PROVE ToolLba(c) >= volume.total
  <2>1. c >= NEntries
    BY <1>3, <1>5 DEF Entries
  <2>2. (c - 2) * n >= (NEntries - 2) * n
    BY <1>1, <1>3, <2>1
  <2>3. QED
    BY <1>1, <1>2, <1>3, <2>2
<1>6. n = 1 => KernelLba(c) = d + (c - 2)
  BY <1>1, <1>2
<1>7. QED
  BY <1>1, <1>2, <1>4, <1>5, <1>6 DEF n, d

-----------------------------------------------------------------------------
\* A read whose outcome the property is about.
Asked == reader = "kernel" => volume.sectorsPerCluster = 1

\* The clusters read so far are linked, each to the next, and their sectors lie where the
\* volume has them and on the image.
ReadSoFar ==
    /\ walked \in Seq(Entries) /\ sectors \in Seq(Int)
    /\ \A i \in 1 .. Len(walked) - 1 : LinkedTo(i) = walked[i + 1]
    /\ SectorsOfTheClusters
    /\ \A i \in DOMAIN sectors : sectors[i] < length

WalkInv ==
    /\ TypeOK
    /\ volume \in Volumes /\ length \in volume.lengths
    /\ at \in {"idle", "boot", "fat", "root", "find"} => walked = <<>> /\ sectors = <<>>
    /\ at = "walk" =>
         /\ reader \in {"tool", "kernel"} /\ (reader = "kernel" => length = volume.total)
         /\ cluster \in Nat
         /\ Asked => ReadSoFar /\ (walked # <<>> => LinkedTo(Len(walked)) = cluster)
    /\ at = "done" /\ exit = 0 /\ Asked =>
         ReadSoFar /\ walked # <<>> /\ LinkedTo(Len(walked)) >= 4088

LEMMA WalkInitInv == WalkInit => WalkInv
BY TableAssumption DEF WalkInit, WalkInv, Init, TypeOK

LEMMA NothingRead ==
    ASSUME volume \in Volumes, walked = <<>>, sectors = <<>>
    PROVE  ReadSoFar
<1>1. volume.sectorsPerCluster \in Nat
  BY Geometry
<1>2. Len(walked) = 0 /\ Len(sectors) = 0 /\ DOMAIN sectors = {}
  OBVIOUS
<1>3. walked \in Seq(Entries) /\ sectors \in Seq(Int)
  OBVIOUS
<1>4. QED
  BY <1>1, <1>2, <1>3 DEF ReadSoFar, SectorsOfTheClusters

LEMMA OneMoreTimes == ASSUME NEW m \in Nat, NEW n \in Nat PROVE (m + 1) * n = (m * n) + n
OBVIOUS

LEMMA WithinProduct ==
    ASSUME NEW m \in Nat, NEW n \in Nat, NEW i \in 1 .. m, NEW j \in 1 .. n
    PROVE  ((i - 1) * n) + j \in 1 .. m * n
<1>1. (i - 1) * n \in Nat /\ m * n \in Nat /\ ((i - 1) * n) + n = i * n
  OBVIOUS
<1>2. i * n <= m * n
  <2>1. m * n = (i * n) + ((m - i) * n) /\ (m - i) * n \in Nat
    OBVIOUS
  <2>2. QED
    BY <2>1
<1>3. QED
  BY <1>1, <1>2

\* One more cluster and its sectors.
LEMMA OneMore ==
    ASSUME volume \in Volumes, ReadSoFar, cluster \in Entries,
           walked # <<>> => LinkedTo(Len(walked)) = cluster,
           NEW lba, NEW n,
           n = volume.sectorsPerCluster, lba = volume.dataStart + ((cluster - 2) * n),
           lba + n <= length, length \in Int,
           UNCHANGED <<g_Fat, volume, length>>,
           walked' = Append(walked, cluster), sectors' = sectors \o SectorsAt(lba, n)
    PROVE  /\ ReadSoFar' /\ walked' # <<>>
           /\ LinkedTo(Len(walked))' = GetEntry(g_Fat, cluster)
<1> DEFINE m == Len(walked)
           S == SectorsAt(lba, n)
           d == volume.dataStart
<1>1. n \in Nat \ {0} /\ d \in Nat
  BY Geometry
<1>2. cluster \in Nat /\ lba \in Int
  BY <1>1, TableAssumption DEF Entries
<1>3. /\ walked \in Seq(Entries) /\ m \in Nat
      /\ sectors \in Seq(Int) /\ Len(sectors) = m * n
  BY DEF ReadSoFar, SectorsOfTheClusters
<1>4. /\ S \in Seq(Int) /\ Len(S) = n
      /\ \A j \in 1 .. n : S[j] = lba + (j - 1) /\ S[j] < length
  <2>1. S = [j \in 1 .. n |-> lba + j - 1]
    BY DEF SectorsAt
  <2> HIDE DEF S
  <2>2. S \in Seq(Int) /\ Len(S) = n
    <3>1. \A j \in 1 .. n : lba + j - 1 \in Int
      BY <1>1, <1>2
    <3>2. S \in [1 .. n -> Int]
      BY <2>1, <3>1
    <3>3. n \in Nat
      BY <1>1
    <3>4. S \in Seq(Int)
      BY <3>2, <3>3, IsASeq, SMTT(30)
    <3>5. DOMAIN S = 1 .. n
      BY <2>1, Zenon
    <3>6. QED
      BY <3>3, <3>4, <3>5
  <2>3. \A j \in 1 .. n : S[j] = lba + (j - 1) /\ S[j] < length
    BY <1>1, <1>2, <2>1
  <2>4. QED
    BY <2>2, <2>3
<1>5. /\ walked' \in Seq(Entries) /\ Len(walked') = m + 1 /\ walked' # <<>>
      /\ \A i \in 1 .. m : walked'[i] = walked[i]
      /\ walked'[m + 1] = cluster
  <2>1. walked \in Seq(Entries)
    BY <1>3, Zenon
  <2>2. /\ Append(walked, cluster) \in Seq(Entries) /\ Append(walked, cluster) # <<>>
        /\ Len(Append(walked, cluster)) = Len(walked) + 1
        /\ \A i \in 1 .. Len(walked) : Append(walked, cluster)[i] = walked[i]
        /\ Append(walked, cluster)[Len(walked) + 1] = cluster
    BY <2>1, AppendProperties, SMTT(30)
  <2>3. QED
    BY <2>2, Zenon
<1> HIDE DEF S
<1>6. /\ sectors' \in Seq(Int) /\ Len(sectors') = (m * n) + n
      /\ \A k \in 1 .. m * n : sectors'[k] = sectors[k]
      /\ \A j \in 1 .. n : sectors'[(m * n) + j] = S[j]
  <2> DEFINE mn == m * n
  <2>1. mn \in Nat /\ Len(sectors) = mn
    BY <1>1, <1>3
  <2>2. sectors' = sectors \o S
    BY DEF S
  <2>3. /\ sectors' \in Seq(Int) /\ Len(sectors') = mn + n
        /\ \A i \in 1 .. mn + n :
              sectors'[i] = IF i <= mn THEN sectors[i] ELSE S[i - mn]
    <3> HIDE DEF mn
    <3>1. sectors \in Seq(Int) /\ S \in Seq(Int) /\ Len(S) = n
      BY <1>3, <1>4
    <3>2. /\ sectors \o S \in Seq(Int) /\ Len(sectors \o S) = Len(sectors) + Len(S)
          /\ \A i \in 1 .. Len(sectors) + Len(S) :
               (sectors \o S)[i] = IF i <= Len(sectors) THEN sectors[i] ELSE S[i - Len(sectors)]
      BY <3>1, ConcatProperties
    <3>3. QED
      BY <2>1, <2>2, <3>1, <3>2
  <2> HIDE DEF mn
  <2>4. \A k \in 1 .. mn : sectors'[k] = sectors[k]
    BY <1>1, <2>1, <2>3
  <2>5. ASSUME NEW j \in 1 .. n PROVE sectors'[mn + j] = S[j]
    <3>1. mn + j \in 1 .. mn + n /\ ~(mn + j <= mn) /\ (mn + j) - mn = j
      BY <1>1, <2>1
    <3>2. QED
      BY <2>3, <3>1
  <2>6. QED
    BY <2>3, <2>4, <2>5 DEF mn
<1>7. m \in Nat /\ n \in Nat
  BY <1>1, <1>3
<1> HIDE DEF m
<1>8. \A i \in 1 .. Len(walked') - 1 : LinkedTo(i)' = walked'[i + 1]
  <2>1. ASSUME NEW i \in 1 .. m PROVE GetEntry(g_Fat, walked[i]) = walked'[i + 1]
    <3>1. CASE i < m
      <4>1. i \in 1 .. m - 1 /\ i + 1 \in 1 .. m
        BY <1>3, <3>1
      <4>2. QED
        BY <1>5, <4>1 DEF ReadSoFar, LinkedTo, m
    <3>2. CASE i = m
      <4>1. walked # <<>>
        BY <1>3, <3>2 DEF m
      <4>2. QED
        BY <1>5, <3>2, <4>1 DEF LinkedTo, m
    <3>3. i < m \/ i = m
      BY <1>7
    <3>4. QED
      BY <3>1, <3>2, <3>3
  <2>2. Len(walked') - 1 = m
    BY <1>3, <1>5
  <2>3. QED
    BY <1>5, <2>1, <2>2 DEF LinkedTo
<1>9. SectorsOfTheClusters'
  <2>1. Len(sectors') = Len(walked') * n
    <3>1. (m + 1) * n = (m * n) + n
      BY <1>7, OneMoreTimes
    <3>2. QED
      BY <1>5, <1>6, <3>1
  <2>2. ASSUME NEW i \in 1 .. m + 1, NEW j \in 1 .. n
        PROVE  sectors'[((i - 1) * n) + j] = d + ((walked'[i] - 2) * n) + (j - 1)
    <3>0. i \in 1 .. m + 1 /\ i \in Nat
      BY <1>7
    <3>1. CASE i <= m
      <4>1. sectors[((i - 1) * n) + j] = d + ((walked[i] - 2) * n) + (j - 1)
        <5>1. i \in 1 .. Len(walked)
          BY <1>7, <3>0, <3>1 DEF m
        <5>2. QED
          BY <5>1, Zenon DEF ReadSoFar, SectorsOfTheClusters
      <4>2. ((i - 1) * n) + j \in 1 .. m * n
        <5>1. i \in 1 .. m
          BY <1>7, <3>1
        <5>2. QED
          BY <1>7, <5>1, WithinProduct
      <4>3. QED
        <5>1. i \in 1 .. m
          BY <1>3, <3>1
        <5>2. walked'[i] = walked[i]
          BY <1>5, <5>1
        <5>3. sectors'[((i - 1) * n) + j] = sectors[((i - 1) * n) + j]
          BY <1>6, <4>2
        <5>4. QED
          BY <4>1, <5>2, <5>3
    <3>2. CASE i = m + 1
      <4>1. (i - 1) * n = m * n
        BY <1>3, <3>2
      <4>2. sectors'[((i - 1) * n) + j] = lba + (j - 1)
        BY <1>4, <1>6, <4>1
      <4>3. QED
        BY <1>5, <3>2, <4>2
    <3>3. i <= m \/ i = m + 1
      BY <1>7
    <3>4. QED
      BY <3>1, <3>2, <3>3
  <2>3. volume'.sectorsPerCluster = n /\ volume'.dataStart = d
    OBVIOUS
  <2> HIDE DEF d
  <2>4. 1 .. Len(walked') = 1 .. m + 1
    BY <1>5
  <2>5. Len(sectors') = Len(walked') * volume'.sectorsPerCluster
    BY <2>1, <2>3
  <2>6. ASSUME NEW i \in 1 .. Len(walked'), NEW j \in 1 .. volume'.sectorsPerCluster
        PROVE  sectors'[((i - 1) * volume'.sectorsPerCluster) + j] =
                 volume'.dataStart + ((walked'[i] - 2) * volume'.sectorsPerCluster) + (j - 1)
    <3>1. i \in 1 .. m + 1 /\ j \in 1 .. n
      BY <2>3, <2>4, Zenon
    <3>2. sectors'[((i - 1) * n) + j] = d + ((walked'[i] - 2) * n) + (j - 1)
      BY <2>2, <3>1, Zenon
    <3>3. QED
      BY <2>3, <3>2, Zenon
  <2>7. QED
    BY <2>5, <2>6, Zenon DEF SectorsOfTheClusters
<1>10. \A k \in DOMAIN sectors' : sectors'[k] < length'
  <2> DEFINE mn == m * n
  <2>1. mn \in Nat
    BY <1>1, <1>3
  <2>2. DOMAIN sectors' = 1 .. mn + n /\ DOMAIN sectors = 1 .. mn
    BY <1>3, <1>6
  <2>3. /\ \A k \in 1 .. mn : sectors'[k] = sectors[k] /\ sectors[k] < length
        /\ \A j \in 1 .. n : sectors'[mn + j] < length
    BY <1>4, <1>6, <2>2 DEF ReadSoFar
  <2> HIDE DEF mn
  <2>4. ASSUME NEW k \in 1 .. mn + n PROVE sectors'[k] < length
    <3>1. CASE k <= mn
      <4>1. k \in 1 .. mn
        BY <1>1, <2>1, <3>1
      <4>2. QED
        BY <2>3, <4>1
    <3>2. CASE k > mn
      <4>1. k - mn \in 1 .. n /\ mn + (k - mn) = k
        BY <1>1, <2>1, <3>2
      <4>2. QED
        BY <2>3, <4>1
    <3>3. k <= mn \/ k > mn
      BY <1>7, <2>1
    <3>4. QED
      BY <3>1, <3>2, <3>3
  <2>5. QED
    BY <2>2, <2>4
<1>11. QED
  BY <1>5, <1>6, <1>8, <1>9, <1>10 DEF ReadSoFar, LinkedTo

\* The readers take the entry of a cluster with fat_drive_read_file's decoder; the
\* property is stated with the accessor's.
LEMMA NextCluster ==
    ASSUME TypeOK, cluster \in Entries
    PROVE  /\ ChainEntry(g_Fat, cluster) = GetEntry(g_Fat, cluster)
           /\ ChainEntry(g_Fat, cluster) \in Nat
<1>1. g_Fat \in [Offsets -> Byte]
  BY DEF TypeOK
<1>2. ChainEntry(g_Fat, cluster) = GetEntry(g_Fat, cluster) /\ GetEntry(g_Fat, cluster) \in TwelveBits
  BY <1>1, DecodersAgreeAlways, Zenon
<1>3. \A x \in TwelveBits : x \in Nat
  BY DEF TwelveBits
<1>4. QED
  BY <1>2, <1>3, Zenon

LEMMA TurnStep ==
    ASSUME WalkInv, NEW lba, NEW ok, ok \in BOOLEAN,
           at = "walk",
           Turn(lba, volume.sectorsPerCluster, ok),
           ok => cluster \in Entries,
           ok /\ Asked => /\ lba = volume.dataStart + ((cluster - 2) * volume.sectorsPerCluster)
                          /\ lba + volume.sectorsPerCluster <= length
    PROVE  WalkInv'
<1> DEFINE n == volume.sectorsPerCluster
<1>1. /\ UNCHANGED <<g_Fat, volume, length, reader>>
      /\ walked' = Append(walked, cluster)
      /\ sectors' = sectors \o SectorsAt(lba, n)
  BY DEF Turn, Return
<1>2. /\ TypeOK' /\ volume' \in Volumes /\ length' \in volume'.lengths
      /\ Asked' <=> Asked
  BY <1>1 DEF WalkInv, TypeOK, Asked
<1>3. length \in Int
  BY WalkAssumption DEF WalkInv
<1>4. CASE ~ok
  <2>1. at' = "done" /\ exit' = -5
    BY <1>4 DEF Turn, Return
  <2>2. QED
    BY <1>2, <2>1 DEF WalkInv
<1>5. ASSUME ok, Asked
      PROVE  ReadSoFar' /\ walked' # <<>> /\ LinkedTo(Len(walked))' = ChainEntry(g_Fat, cluster)
  <2>1. /\ volume \in Volumes /\ ReadSoFar /\ cluster \in Entries
        /\ walked # <<>> => LinkedTo(Len(walked)) = cluster
        /\ lba = volume.dataStart + ((cluster - 2) * n)
        /\ lba + n <= length
    BY <1>5 DEF WalkInv
  <2> HIDE DEF n
  <2>2. n = volume.sectorsPerCluster
    BY DEF n
  <2>3. ChainEntry(g_Fat, cluster) = GetEntry(g_Fat, cluster)
    BY <2>1, NextCluster DEF WalkInv
  <2>4. QED
    BY <1>1, <1>3, <2>1, <2>2, <2>3, OneMore
<1>6. CASE ok /\ ChainEntry(g_Fat, cluster) >= 4088
  <2>1. at' = "done" /\ exit' = 0
    BY <1>6, NextCluster DEF Turn, Return, WalkInv
  <2>2. QED
    BY <1>2, <1>5, <1>6, <2>1 DEF WalkInv
<1>7. CASE ok /\ ChainEntry(g_Fat, cluster) < 4088
  <2>1. at' = at /\ cluster' = ChainEntry(g_Fat, cluster) /\ cluster' \in Nat
    BY <1>7, NextCluster DEF Turn, Return, WalkInv
  <2>2. reader' \in {"tool", "kernel"} /\ (reader' = "kernel" => length' = volume'.total)
    BY <1>1 DEF WalkInv
  <2>3. Asked' => ReadSoFar' /\ LinkedTo(Len(walked))' = cluster'
    BY <1>2, <1>5, <1>7, <2>1
  <2>4. QED
    BY <1>2, <2>1, <2>2, <2>3 DEF WalkInv
<1>8. CASE ok /\ ~(ChainEntry(g_Fat, cluster) >= 4088) /\ ~(ChainEntry(g_Fat, cluster) < 4088)
  BY <1>8, NextCluster DEF WalkInv
<1>9. QED
  BY <1>4, <1>6, <1>7, <1>8

LEMMA ToolTurnStep == ASSUME WalkInv, ToolTurn PROVE WalkInv'
<1> DEFINE n == volume.sectorsPerCluster
           lba == ToolLba(cluster)
           ok == Reads(lba, n)
<1>1. at = "walk" /\ reader = "tool" /\ volume \in Volumes /\ cluster \in Nat
  BY DEF ToolTurn, Turn, WalkInv
<1>2. /\ g_BootSector.SectorsPerCluster = n
      /\ lba = volume.dataStart + ((cluster - 2) * n)
      /\ cluster \in Nat \ Entries => lba >= volume.total
  BY <1>1, Lbas
<1>3. length \in Nat /\ length <= volume.total /\ volume.total \in Int
  <2>1. volume.total \in Int
    BY <1>1, Geometry, TableAssumption
  <2>2. QED
    BY <1>1, <2>1, WalkAssumption DEF WalkInv
<1>4. n \in Nat \ {0} /\ volume.dataStart \in Nat
  BY <1>1, Geometry
<1>5. lba \in Int
  <2>1. (cluster - 2) * n \in Int
    BY <1>1, <1>4
  <2>2. QED
    BY <1>2, <1>4, <2>1
<1>6. ok <=> lba + n <= length
  BY DEF Reads
<1>7. ok => cluster \in Entries
  <2> HIDE DEF n, lba
  <2>1. QED
    BY <1>1, <1>2, <1>3, <1>4, <1>5, <1>6
<1>8. Turn(lba, n, ok)
  BY <1>2 DEF ToolTurn
<1>9. ok \in BOOLEAN
  BY DEF Reads
<1> HIDE DEF lba, ok
<1>10. QED
  BY <1>1, <1>2, <1>6, <1>7, <1>8, <1>9, TurnStep

LEMMA KernelTurnStep == ASSUME WalkInv, KernelTurn PROVE WalkInv'
<1> DEFINE n == volume.sectorsPerCluster
           lba == KernelLba(cluster)
<1>1. /\ at = "walk" /\ reader = "kernel" /\ volume \in Volumes /\ cluster \in Nat
      /\ length = volume.total
  BY DEF KernelTurn, Turn, WalkInv
<1>2. cluster \in Entries
  BY <1>1 DEF KernelTurn, Turn, Endless
<1>3. /\ g_boot_sector.SectorsPerCluster = n
      /\ ToolLba(cluster) = volume.dataStart + ((cluster - 2) * n)
      /\ n = 1 => lba = volume.dataStart + (cluster - 2)
      /\ ToolLba(cluster) + n <= volume.total
  BY <1>1, <1>2, Lbas
<1>4. Asked => n = 1
  BY <1>1 DEF Asked
<1>5. Asked => lba = volume.dataStart + ((cluster - 2) * n) /\ lba + n <= length
  <2>1. ASSUME n = 1 PROVE (cluster - 2) * n = cluster - 2
    BY <1>1, <2>1
  <2>2. QED
    BY <1>1, <1>3, <1>4, <2>1
<1>6. Turn(lba, n, TRUE)
  BY <1>3 DEF KernelTurn
<1> HIDE DEF lba
<1>7. QED
  BY <1>1, <1>2, <1>5, <1>6, TurnStep

\* No name is read: the readers' other steps, and a set while no read runs.
LEMMA QuietWalkStep ==
    ASSUME WalkInv,
           \/ SetEntryIdle
           \/ ToolOpens \/ ToolReadsBootSector \/ ToolReadsFat \/ ToolReadsRoot
           \/ \E m \in DOMAIN Directory \cup OtherNames : ToolFinds(m) \/ KernelBegins(m)
           \/ RunsOn \/ NextReader
           \/ UNCHANGED walkVars
    PROVE  WalkInv'
<1>1. CASE SetEntryIdle
  <2>1. PICK k \in Entries, w \in Values : Set(k, w)
    BY <1>1 DEF SetEntryIdle, Next
  <2>2. at = "idle" /\ UNCHANGED <<volume, length, walk>>
    BY <1>1 DEF SetEntryIdle
  <2>3. TypeOK'
    BY <2>1, SetKeepsType DEF WalkInv
  <2>4. QED
    BY <2>2, <2>3 DEF WalkInv, walk
<1>2. CASE ToolOpens
  BY <1>2 DEF ToolOpens, Go, WalkInv, TypeOK
<1>3. CASE ToolReadsBootSector
  BY <1>3 DEF ToolReadsBootSector, Go, Return, WalkInv, TypeOK
<1>4. CASE ToolReadsFat
  BY <1>4 DEF ToolReadsFat, Go, Return, WalkInv, TypeOK
<1>5. CASE ToolReadsRoot
  BY <1>5 DEF ToolReadsRoot, Go, Return, WalkInv, TypeOK
<1>6. ASSUME NEW m, ToolFinds(m) PROVE WalkInv'
  <2>1. CASE m \in DOMAIN Directory /\ Go("tool", "walk", Directory[m])
    <3>1. /\ at = "find" /\ reader' = "tool" /\ at' = "walk" /\ cluster' = Directory[m]
          /\ UNCHANGED <<g_Fat, volume, length, walked, sectors, exit>>
      BY <1>6, <2>1 DEF ToolFinds, Go
    <3>2. cluster' \in Nat
      BY <2>1, <3>1, WalkAssumption, TableAssumption DEF Entries
    <3>3. walked' = <<>> /\ sectors' = <<>> /\ volume' \in Volumes
      BY <3>1 DEF WalkInv
    <3>4. ReadSoFar'
      BY <3>1, <3>3, NothingRead DEF ReadSoFar, SectorsOfTheClusters, LinkedTo, WalkInv
    <3>5. QED
      BY <3>1, <3>2, <3>3, <3>4 DEF WalkInv, TypeOK
  <2>2. CASE m \notin DOMAIN Directory
    BY <1>6, <2>2 DEF ToolFinds, Return, WalkInv, TypeOK
  <2>3. QED
    BY <1>6, <2>1, <2>2 DEF ToolFinds
<1>7. ASSUME NEW m, KernelBegins(m) PROVE WalkInv'
  <2>1. /\ at = "idle" /\ reader' = "kernel" /\ at' = "walk" /\ cluster' = Directory[m]
        /\ UNCHANGED <<g_Fat, volume, length, walked, sectors, exit>>
        /\ length = volume.total /\ m \in DOMAIN Directory
    BY <1>7 DEF KernelBegins, Go
  <2>2. cluster' \in Nat
    BY <2>1, WalkAssumption, TableAssumption DEF Entries
  <2>3. walked' = <<>> /\ sectors' = <<>> /\ volume' \in Volumes
    BY <2>1 DEF WalkInv
  <2>4. ReadSoFar'
    BY <2>1, <2>3, NothingRead DEF ReadSoFar, SectorsOfTheClusters, LinkedTo, WalkInv
  <2>5. QED
    BY <2>1, <2>2, <2>3, <2>4 DEF WalkInv, TypeOK
<1>8. CASE RunsOn
  BY <1>8 DEF RunsOn, Go, WalkInv, TypeOK
<1>9. CASE NextReader
  BY <1>9 DEF NextReader, WalkInv, TypeOK
<1>10. CASE UNCHANGED walkVars
  <2>1. UNCHANGED <<g_Fat, volume, length, reader, at, cluster, walked, sectors, exit>>
    BY <1>10 DEF walkVars, walk
  <2>2. TypeOK' /\ (Asked' <=> Asked)
    BY <2>1 DEF WalkInv, TypeOK, Asked
  <2>3. (ReadSoFar' <=> ReadSoFar) /\ LinkedTo(Len(walked))' = LinkedTo(Len(walked))
    BY <2>1, Zenon DEF ReadSoFar, SectorsOfTheClusters, LinkedTo
  <2>4. QED
    BY <2>1, <2>2, <2>3 DEF WalkInv
<1>11. QED
  BY <1>1, <1>2, <1>3, <1>4, <1>5, <1>6, <1>7, <1>8, <1>9, <1>10

LEMMA WalkStep == ASSUME WalkInv, [WalkNext]_walkVars PROVE WalkInv'
BY QuietWalkStep, ToolTurnStep, KernelTurnStep DEF WalkNext

LEMMA WalkInvReads == WalkInv => ReadsTheFile
<1>1. SUFFICES ASSUME WalkInv, at = "done", exit = 0, Asked
               PROVE  /\ \A i \in 1 .. Len(walked) - 1 : LinkedTo(i) = walked[i + 1]
                      /\ LinkedTo(Len(walked)) >= 4088
                      /\ SectorsOfTheClusters
                      /\ \A i \in DOMAIN sectors : sectors[i] < length
  BY DEF ReadsTheFile, Asked
<1>2. QED
  BY <1>1 DEF WalkInv, ReadSoFar

\* A read that succeeds, by the kernel with clusters of one sector or by the host tool,
\* from an image cut short anywhere, has read the linked clusters up to the one marked as
\* the end, and each one's sectors: for every volume mkfs.fat makes, every table and every
\* sequence of sets between the reads (fat_drive.c 141-252, tools/fat/fat.c 79-157).
THEOREM ReadsAreRight == WalkSpec => []ReadsTheFile
<1> QED
  BY WalkInitInv, WalkStep, WalkInvReads, PTL DEF WalkSpec

\* The readers leave the table alone: between the sets it is the table of independent
\* entries (fat_drive.c 56-72).
THEOREM WalkRefinement == WalkSpec => ImplementsTable
<1>1. WalkInit => Init
  BY DEF WalkInit
<1>2. [WalkNext]_walkVars => [Next]_g_Fat
  BY DEF WalkNext, SetEntryIdle, ToolOpens, ToolReadsBootSector, ToolReadsFat, ToolReadsRoot,
         ToolFinds, KernelBegins, ToolTurn, KernelTurn, Turn, RunsOn, NextReader, Go, Return,
         walkVars
<1>3. WalkSpec => Spec
  BY <1>1, <1>2, PTL DEF WalkSpec, Spec
<1>4. QED
  BY <1>3, TableRefinement

-----------------------------------------------------------------------------
\* The driver.  Its invariant relates the driver's word, counted over the whole
\* buffer, to the drive's sector and to the words the drive has got of it.
Pairs == Nat \X Nat
SectorNumbers == 0 .. Sectors - 1

Typed ==
    /\ pc \in {"idle", "select", "command", "transfer"} /\ kind \in Kinds
    /\ count \in 0 .. Sectors /\ word \in Nat /\ sector \in Nat /\ transfers \in Nat
    /\ phase \in {"idle", "busy", "data", "failed", "reset"} /\ failed \in BOOLEAN
    /\ gate \in Seq(Pairs) /\ Len(gate) <= Words
    /\ buffer \in Seq(Pairs \cup {Garbage})
    /\ disk \in [SectorNumbers -> Seq(Pairs)]

\* what the driver's place says of the drive
Phases ==
    /\ transfers > 0 => count >= 1
    /\ pc # "idle" => transfers > 0
    /\ pc = "select" => /\ phase \in {"reset", "idle"} /\ sector = 0 /\ gate = <<>>
                        /\ ~failed
    /\ pc \in {"select", "command"} => word = 0
    /\ pc # "select" => phase # "reset"
    /\ phase \in {"busy", "data"} => sector < count
    /\ phase = "data" => Len(gate) < Words
    /\ phase = "failed" => failed
    /\ pc = "idle" /\ ~failed => word = count * Words

\* the words the drive has got, and the sectors it has stored, are those of the buffer
Writing ==
    kind = "write" =>
        /\ word = sector * Words + Len(gate)
        /\ \A k \in 1 .. Len(gate) : gate[k] = Word(transfers, sector * Words + k - 1)
        /\ \A s \in SectorNumbers : s < sector => disk[s] = SectorOf(transfers, s)
        /\ pc # "select" /\ phase = "idle" => sector = count

\* until the first sector is read the drive keeps up with the driver
Reading ==
    kind = "read" =>
        /\ Len(buffer) = word
        /\ ~failed /\ transfers > 0 =>
              /\ word < Words => /\ sector = 0 /\ Len(gate) = word
                                 /\ pc = "command" => phase \in {"busy", "data"}
                                 /\ pc = "transfer" => phase = "data"
              /\ \A k \in 1 .. Words : k <= word => buffer[k] = disk[0][k]

AtaInv == Typed /\ Phases /\ Writing /\ Reading /\ SectorsWhole

-----------------------------------------------------------------------------
LEMMA Products ==
    /\ \A n \in Nat : n * Words \in Nat /\ (n + 1) * Words = n * Words + Words
    /\ \A m, n \in Nat : m < n => m * Words + Words <= n * Words
<1>1. Words \in Nat /\ Words >= 1
  BY AtaAssumption
<1>2. ASSUME NEW n \in Nat PROVE n * Words \in Nat /\ (n + 1) * Words = n * Words + Words
  BY <1>1
<1>3. ASSUME NEW m \in Nat, NEW n \in Nat, m < n PROVE m * Words + Words <= n * Words
  <2>1. PICK d \in Nat : n = m + 1 + d
    <3>1. n - m - 1 \in Nat /\ n = m + 1 + (n - m - 1)
      BY <1>3
    <3> QED
      BY <3>1
  <2>2. n * Words = (m * Words + Words) + d * Words
    BY <1>1, <2>1
  <2> QED
    BY <1>1, <1>2, <2>1, <2>2
<1> QED
  BY <1>2, <1>3

LEMMA SectorsOfBuffers ==
    \A v, s \in Nat : /\ SectorOf(v, s) \in Seq(Pairs) /\ Len(SectorOf(v, s)) = Words
                      /\ SectorOf(v, s)[1][1] = v
                      /\ \A k \in 1 .. Words : SectorOf(v, s)[k] \in Pairs
<1> SUFFICES ASSUME NEW v \in Nat, NEW s \in Nat
             PROVE  /\ SectorOf(v, s) \in Seq(Pairs) /\ Len(SectorOf(v, s)) = Words
                    /\ SectorOf(v, s)[1][1] = v
                    /\ \A k \in 1 .. Words : SectorOf(v, s)[k] \in Pairs
  OBVIOUS
<1> DEFINE base == s * Words
           words == [k \in 1 .. Words |-> <<v, base + k - 1>>]
<1>1. Words \in Nat /\ Words >= 1 /\ base \in Nat
  BY AtaAssumption, Products
<1>2. SectorOf(v, s) = words
  BY DEF SectorOf, Word
<1> HIDE DEF base
<1>3. \A k \in 1 .. Words : words[k] = <<v, base + k - 1>> /\ words[k] \in Pairs
  BY <1>1 DEF Pairs
<1>4. words[1] = <<v, base + 1 - 1>>
  BY <1>1, <1>3
<1>5. words \in [1 .. Words -> Pairs]
  BY <1>3
<1> HIDE DEF words
<1>6. words \in Seq(Pairs) /\ Len(words) = Words
  BY <1>1, <1>5
<1>7. words[1][1] = v
  BY <1>4
<1> QED
  BY <1>2, <1>3, <1>6, <1>7

LEMMA Empty ==
    <<>> \in Seq(Pairs) /\ <<>> \in Seq(Pairs \cup {Garbage}) /\ Len(<<>>) = 0
<1>1. \A S : <<>> \in Seq(S) /\ Len(<<>>) = 0
  OBVIOUS
<1> QED
  BY ONLY <1>1

\* the steps that leave the disk and the number of the write alone, or count on
LEMMA WholeStays ==
    ASSUME SectorsWhole, transfers \in Nat, disk' = disk,
           transfers' = transfers \/ transfers' = transfers + 1
    PROVE  SectorsWhole'
<1>1. \A s \in SectorNumbers : \E v \in 0 .. transfers' : disk[s] = SectorOf(v, s)
  BY DEF SectorsWhole, SectorNumbers
<1> QED
  BY <1>1 DEF SectorsWhole, SectorNumbers, SectorOf, Word

LEMMA AtaInitInv == AtaInit => AtaInv
<1> SUFFICES ASSUME AtaInit PROVE AtaInv
  OBVIOUS
<1>1. Sectors \in Nat \ {0} /\ Words \in Nat \ {0} /\ SectorNumbers \subseteq Nat
  BY AtaAssumption DEF SectorNumbers
<1>2. disk = [s \in SectorNumbers |-> SectorOf(0, s)]
  BY DEF AtaInit, SectorNumbers
<1>3. Typed
  <2>1. disk \in [SectorNumbers -> Seq(Pairs)]
    BY <1>1, <1>2, SectorsOfBuffers
  <2>2. /\ gate \in Seq(Pairs) /\ Len(gate) <= Words
        /\ buffer \in Seq(Pairs \cup {Garbage})
    BY <1>1, Empty DEF AtaInit
  <2>3. /\ pc \in {"idle", "select", "command", "transfer"} /\ kind \in Kinds
        /\ count \in 0 .. Sectors /\ word \in Nat /\ sector \in Nat /\ transfers \in Nat
        /\ phase \in {"idle", "busy", "data", "failed", "reset"} /\ failed \in BOOLEAN
    BY <1>1 DEF AtaInit, Kinds
  <2> QED
    BY <2>1, <2>2, <2>3 DEF Typed
<1>4. Phases
  BY <1>1 DEF AtaInit, Phases
<1>5. Writing /\ Reading
  BY DEF AtaInit, Writing, Reading
<1>6. SectorsWhole
  <2>1. \A s \in SectorNumbers : disk[s] = SectorOf(0, s) /\ disk[s][1][1] = 0
    BY <1>1, <1>2, SectorsOfBuffers
  <2>2. 0 \in 0 .. transfers
    BY DEF AtaInit
  <2> QED
    BY <2>1, <2>2 DEF SectorsWhole, SectorNumbers
<1> QED
  BY <1>3, <1>4, <1>5, <1>6 DEF AtaInv

LEMMA StartInvariant ==
    ASSUME AtaInv, NEW k \in Kinds, NEW n \in 1 .. Sectors, Start(k, n)
    PROVE  AtaInv'
<1>1. /\ kind' = k /\ count' = n /\ word' = 0 /\ buffer' = <<>> /\ pc' = "select"
      /\ phase' = "reset" /\ gate' = <<>> /\ sector' = 0
      /\ transfers' = transfers + 1 /\ failed' = FALSE /\ disk' = disk
  BY DEF Start
<1>2. Typed /\ SectorsWhole /\ Sectors \in Nat /\ Words \in Nat /\ Words >= 1
  BY AtaAssumption DEF AtaInv
<1>3. Typed'
  <2>1. gate' \in Seq(Pairs) /\ Len(gate') <= Words /\ buffer' \in Seq(Pairs \cup {Garbage})
    BY <1>1, <1>2, Empty
  <2>2. /\ pc' \in {"idle", "select", "command", "transfer"} /\ kind' \in Kinds
        /\ count' \in 0 .. Sectors /\ word' \in Nat /\ sector' \in Nat /\ transfers' \in Nat
        /\ phase' \in {"idle", "busy", "data", "failed", "reset"} /\ failed' \in BOOLEAN
    <3>1. count' \in 0 .. Sectors
      BY ONLY <1>1, <1>2, n \in 1 .. Sectors
    <3>2. transfers \in Nat /\ transfers' \in Nat
      BY <1>1, <1>2 DEF Typed
    <3>3. kind' \in Kinds
      BY <1>1
    <3> QED
      BY ONLY <1>1, <3>1, <3>2, <3>3
  <2>3. disk' \in [SectorNumbers -> Seq(Pairs)]
    BY <1>1, <1>2 DEF Typed
  <2> QED
    BY <2>1, <2>2, <2>3 DEF Typed, SectorNumbers
<1>4. Phases'
  BY <1>1, <1>2 DEF Phases, Typed
<1>5. Writing'
  BY <1>1, <1>2 DEF Writing, SectorNumbers
<1>6. Reading'
  BY <1>1, <1>2 DEF Reading
<1> QED
  BY <1>1, <1>2, <1>3, <1>4, <1>5, <1>6, WholeStays DEF AtaInv, Typed

LEMMA CommandInvariant ==
    ASSUME AtaInv, Command
    PROVE  AtaInv'
<1>1. /\ pc = "select" /\ phase' = "busy" /\ pc' = "command"
      /\ UNCHANGED <<kind, count, word, buffer, sector, gate, disk, transfers, failed>>
  BY DEF Command
<1>2. Typed /\ Phases /\ Writing /\ Reading /\ SectorsWhole
  BY DEF AtaInv
<1>3. Typed'
  BY <1>1, <1>2 DEF Typed
<1>4. Phases'
  BY <1>1, <1>2 DEF Phases, Typed
<1>5. Writing'
  BY <1>1, <1>2 DEF Writing, SectorOf, Word, SectorNumbers
<1>6. Reading'
  BY <1>1, <1>2 DEF Reading, Phases
<1> QED
  BY <1>1, <1>2, <1>3, <1>4, <1>5, <1>6, WholeStays DEF AtaInv, Typed

LEMMA WaitReadyInvariant ==
    ASSUME AtaInv, WaitReady
    PROVE  AtaInv'
<1>1. /\ pc = "command" /\ phase \notin {"busy", "reset"} /\ pc' = "transfer"
      /\ UNCHANGED <<kind, count, word, buffer, phase, sector, gate, disk, transfers, failed>>
  BY DEF WaitReady, Ready, drive
<1>2. Typed /\ Phases /\ Writing /\ Reading /\ SectorsWhole
  BY DEF AtaInv
<1>3. Typed'
  BY <1>1, <1>2 DEF Typed
<1>4. Phases'
  BY <1>1, <1>2 DEF Phases, Typed
<1>5. Writing'
  BY <1>1, <1>2 DEF Writing, SectorOf, Word, SectorNumbers
<1>6. Reading'
  BY <1>1, <1>2 DEF Reading, Phases
<1> QED
  BY <1>1, <1>2, <1>3, <1>4, <1>5, <1>6, WholeStays DEF AtaInv, Typed

LEMMA WriteFailsInvariant ==
    ASSUME AtaInv, WriteFails
    PROVE  AtaInv'
<1>1. /\ pc = "transfer" /\ kind = "write" /\ phase = "failed" /\ pc' = "idle"
      /\ UNCHANGED <<kind, count, word, buffer, phase, sector, gate, disk, transfers, failed>>
  BY DEF WriteFails, ErrorSeen, drive
<1>2. Typed /\ Phases /\ Writing /\ Reading /\ SectorsWhole
  BY DEF AtaInv
<1>3. Typed'
  BY <1>1, <1>2 DEF Typed
<1>4. Phases'
  BY <1>1, <1>2 DEF Phases, Typed
<1>5. Writing'
  BY <1>1, <1>2 DEF Writing, SectorOf, Word, SectorNumbers
<1>6. Reading'
  BY <1>1, <1>2 DEF Reading
<1> QED
  BY <1>1, <1>2, <1>3, <1>4, <1>5, <1>6, WholeStays DEF AtaInv, Typed

LEMMA WriteWordInvariant ==
    ASSUME AtaInv, WriteWord
    PROVE  AtaInv'
<1>1. /\ pc = "transfer" /\ kind = "write" /\ phase = "data"
      /\ word' = word + 1 /\ pc' = IF word + 1 = count * Words THEN "idle" ELSE "transfer"
      /\ gate' = Append(gate, Word(transfers, word))
      /\ phase' = IF Len(gate') = Words THEN "busy" ELSE phase
      /\ UNCHANGED <<kind, count, buffer, sector, disk, transfers, failed>>
  BY DEF WriteWord, DataRequested, NextWord, LastWord
<1>2. /\ Typed /\ Phases /\ Writing /\ Reading /\ SectorsWhole
      /\ Words \in Nat /\ sector * Words \in Nat
  BY AtaAssumption, Products DEF AtaInv, Typed
<1>3. /\ word = sector * Words + Len(gate) /\ Len(gate) < Words /\ sector < count
      /\ Len(gate) \in Nat
  BY <1>1, <1>2 DEF Writing, Phases, Typed
<1>4. Word(transfers, word) \in Pairs
  BY <1>2 DEF Word, Pairs, Typed
<1>5. gate' \in Seq(Pairs) /\ Len(gate') = Len(gate) + 1
  BY <1>1, <1>2, <1>4 DEF Typed
<1>6. Typed'
  BY <1>1, <1>2, <1>3, <1>5 DEF Typed
<1>7. Phases'
  BY <1>1, <1>2, <1>3, <1>5 DEF Phases, Typed
<1>8. Writing'
  <2>1. ASSUME NEW k \in 1 .. Len(gate')
        PROVE  gate'[k] = Word(transfers, sector * Words + k - 1)
    <3>1. CASE k \in 1 .. Len(gate)
      <4>1. gate'[k] = gate[k]
        BY <1>1, <1>2, <1>4, <3>1 DEF Typed
      <4> QED
        BY <1>1, <1>2, <3>1, <4>1 DEF Writing
    <3>2. CASE k = Len(gate) + 1
      <4>1. gate'[k] = Word(transfers, word)
        BY <1>1, <1>2, <1>4, <3>2 DEF Typed
      <4>2. word = sector * Words + k - 1
        BY <1>2, <1>3, <3>2
      <4> QED
        BY <4>1, <4>2
    <3> QED
      BY <1>3, <1>5, <3>1, <3>2
  <2>2. word' = sector * Words + Len(gate')
    BY <1>1, <1>2, <1>3, <1>5
  <2>3. \A s \in SectorNumbers : s < sector => disk[s] = SectorOf(transfers, s)
    BY <1>1, <1>2 DEF Writing
  <2>4. phase' # "idle"
    BY <1>1
  <2> QED
    BY <1>1, <2>1, <2>2, <2>3, <2>4 DEF Writing, SectorOf, Word, SectorNumbers
<1>9. Reading'
  BY <1>1 DEF Reading
<1> QED
  BY <1>1, <1>2, <1>6, <1>7, <1>8, <1>9, WholeStays DEF AtaInv, Typed

\* The words of a sector, up to the last, while the drive keeps up.
LEMMA ReadWordInvariant ==
    ASSUME AtaInv, ReadWord
    PROVE  AtaInv'
<1> DEFINE given == disk[sector][Len(gate) + 1]
           got == IF phase = "data" THEN given ELSE Garbage
<1>1. /\ pc = "transfer" /\ kind = "read"
      /\ word' = word + 1 /\ pc' = IF word + 1 = count * Words THEN "idle" ELSE "transfer"
      /\ buffer' = Append(buffer, got)
      /\ UNCHANGED <<kind, count, sector, disk, transfers, failed>>
  BY DEF ReadWord, NextWord, LastWord
<1>2. phase = "data" => /\ gate' = Append(gate, given)
                        /\ phase' = IF Len(gate') < Words THEN "data"
                                    ELSE IF sector + 1 < count THEN "busy" ELSE "idle"
  BY DEF ReadWord
<1>3. phase # "data" => gate' = gate /\ phase' = phase
  BY DEF ReadWord
<1>4. /\ Typed /\ Phases /\ Writing /\ Reading /\ SectorsWhole
      /\ Words \in Nat /\ Words >= 1 /\ Sectors \in Nat
  BY AtaAssumption DEF AtaInv
<1>5. phase = "data" => /\ given \in Pairs /\ sector \in SectorNumbers
                        /\ Len(gate) + 1 \in 1 .. Words
  <2>1. phase = "data" => sector \in SectorNumbers /\ Len(gate) + 1 \in 1 .. Words
    BY <1>4 DEF Phases, Typed, SectorNumbers
  <2>2. ASSUME phase = "data" PROVE given \in Pairs
    <3>1. PICK v \in 0 .. transfers : disk[sector] = SectorOf(v, sector)
      BY <1>4, <2>1, <2>2 DEF SectorsWhole, SectorNumbers
    <3>2. v \in Nat /\ sector \in Nat
      BY <1>4 DEF Typed
    <3> QED
      BY <2>1, <2>2, <3>1, <3>2, SectorsOfBuffers
  <2> QED
    BY <2>1, <2>2
<1>6. got \in Pairs \cup {Garbage}
  BY <1>5
<1> HIDE DEF got
<1>7. /\ buffer' \in Seq(Pairs \cup {Garbage}) /\ Len(buffer') = Len(buffer) + 1
      /\ \A k \in 1 .. Len(buffer) : buffer'[k] = buffer[k]
      /\ buffer'[Len(buffer) + 1] = got
  BY <1>1, <1>4, <1>6 DEF Typed
<1> HIDE DEF given
<1>8. ASSUME phase = "data" PROVE gate' \in Seq(Pairs) /\ Len(gate') = Len(gate) + 1
  <2>1. gate \in Seq(Pairs) /\ given \in Pairs /\ gate' = Append(gate, given)
    BY <1>2, <1>4, <1>5, <1>8 DEF Typed
  <2> QED
    BY ONLY <2>1
<1>9. Typed'
  <2>1. gate' \in Seq(Pairs) /\ Len(gate') <= Words
    BY <1>3, <1>4, <1>5, <1>8 DEF Typed
  <2>2. phase' \in {"idle", "busy", "data", "failed", "reset"}
    BY <1>2, <1>3, <1>4 DEF Typed
  <2> QED
    BY <1>1, <1>4, <1>7, <2>1, <2>2 DEF Typed
<1>10. Phases'
  <2>1. phase' # "reset" /\ (phase' = "failed" => failed)
    BY <1>1, <1>2, <1>3, <1>4 DEF Phases, Typed
  <2>2. /\ phase' \in {"busy", "data"} => sector < count
        /\ phase' = "data" => Len(gate') < Words
    BY <1>2, <1>3, <1>4 DEF Phases, Typed
  <2> QED
    BY <1>1, <1>4, <2>1, <2>2 DEF Phases, Typed
<1>11. Writing'
  BY <1>1 DEF Writing
<1>12. Reading'
  <2>1. Len(buffer') = word' /\ Len(buffer) = word
    BY <1>1, <1>4, <1>7 DEF Reading
  <2>2. ASSUME ~failed, transfers > 0, word + 1 < Words
        PROVE  sector = 0 /\ Len(gate') = word + 1 /\ phase' = "data"
    <3>1. sector = 0 /\ Len(gate) = word /\ phase = "data"
      BY <1>1, <1>4, <2>2 DEF Reading, Typed
    <3> QED
      BY <1>2, <1>8, <2>2, <3>1
  <2>3. ASSUME ~failed, transfers > 0, NEW k \in 1 .. Words, k <= word + 1
        PROVE  buffer'[k] = disk[0][k]
    <3>1. CASE k <= word
      <4>1. buffer'[k] = buffer[k]
        BY <1>4, <1>7, <2>1, <3>1 DEF Typed
      <4> QED
        BY <1>1, <1>4, <2>3, <3>1, <4>1 DEF Reading
    <3>2. CASE k = word + 1
      <4>1. sector = 0 /\ Len(gate) = word /\ phase = "data"
        BY <1>1, <1>4, <2>3, <3>2 DEF Reading, Typed
      <4>2. got = disk[0][k]
        BY <3>2, <4>1 DEF got, given
      <4> QED
        BY <1>7, <2>1, <3>2, <4>2
    <3> QED
      BY <1>4, <2>3, <3>1, <3>2 DEF Typed
  <2> QED
    BY <1>1, <2>1, <2>2, <2>3 DEF Reading
<1> QED
  BY <1>1, <1>4, <1>9, <1>10, <1>11, <1>12, WholeStays DEF AtaInv, Typed

-----------------------------------------------------------------------------
\* The drive's steps.
LEMMA ResetDoneInvariant ==
    ASSUME AtaInv, ResetDone
    PROVE  AtaInv'
<1>1. /\ phase = "reset" /\ phase' = "idle"
      /\ UNCHANGED <<pc, kind, count, word, buffer, sector, gate, disk, transfers, failed>>
  BY DEF ResetDone, driver
<1>2. Typed /\ Phases /\ Writing /\ Reading /\ SectorsWhole
  BY DEF AtaInv
<1>3. pc = "select"
  BY <1>1, <1>2 DEF Phases
<1>4. Typed'
  BY <1>1, <1>2 DEF Typed
<1>5. Phases'
  BY <1>1, <1>2 DEF Phases, Typed
<1>6. Writing'
  BY <1>1, <1>2, <1>3 DEF Writing, SectorOf, Word, SectorNumbers
<1>7. Reading'
  BY <1>1, <1>2, <1>3 DEF Reading
<1> QED
  BY <1>1, <1>2, <1>4, <1>5, <1>6, <1>7, WholeStays DEF AtaInv, Typed

LEMMA OfferInvariant ==
    ASSUME AtaInv, Offer
    PROVE  AtaInv'
<1>1. /\ phase = "busy" /\ gate = <<>> /\ phase' = "data"
      /\ UNCHANGED <<pc, kind, count, word, buffer, sector, gate, disk, transfers, failed>>
  BY DEF Offer, driver
<1>2. Typed /\ Phases /\ Writing /\ Reading /\ SectorsWhole /\ Words \in Nat /\ Words >= 1
  BY AtaAssumption DEF AtaInv
<1>3. Typed'
  BY <1>1, <1>2 DEF Typed
<1>4. Phases'
  BY <1>1, <1>2 DEF Phases, Typed
<1>5. Writing'
  BY <1>1, <1>2 DEF Writing, SectorOf, Word, SectorNumbers
<1>6. Reading'
  BY <1>1, <1>2 DEF Reading
<1> QED
  BY <1>1, <1>2, <1>3, <1>4, <1>5, <1>6, WholeStays DEF AtaInv, Typed

LEMMA FailInvariant ==
    ASSUME AtaInv, Fail
    PROVE  AtaInv'
<1>1. /\ phase = "busy" /\ phase' = "failed" /\ failed' = TRUE
      /\ UNCHANGED <<pc, kind, count, word, buffer, sector, gate, disk, transfers>>
  BY DEF Fail, driver
<1>2. Typed /\ Phases /\ Writing /\ Reading /\ SectorsWhole
  BY DEF AtaInv
<1>3. Typed'
  BY <1>1, <1>2 DEF Typed
<1>4. Phases'
  BY <1>1, <1>2 DEF Phases, Typed
<1>5. Writing'
  BY <1>1, <1>2 DEF Writing, SectorOf, Word, SectorNumbers
<1>6. Reading'
  BY <1>1, <1>2 DEF Reading
<1> QED
  BY <1>1, <1>2, <1>3, <1>4, <1>5, <1>6, WholeStays DEF AtaInv, Typed

\* The gate holds the sector's part of the buffer, and every sector behind it is older.
LEMMA StoredWhole ==
    ASSUME AtaInv, Advance, kind = "write"
    PROVE  /\ sector \in SectorNumbers
           /\ disk' = [disk EXCEPT ![sector] = SectorOf(transfers, sector)]
           /\ SectorsWhole'
<1>1. Typed /\ Phases /\ Writing /\ SectorsWhole /\ Sectors \in Nat /\ Words \in Nat
  BY AtaAssumption DEF AtaInv
<1>2. /\ phase = "busy" /\ Len(gate) = Words /\ transfers' = transfers
      /\ disk' = [disk EXCEPT ![sector] = gate]
  BY DEF Advance
<1>3. sector \in SectorNumbers /\ transfers \in Nat /\ sector \in Nat
  BY <1>1, <1>2 DEF Typed, Phases, SectorNumbers
<1>4. gate = SectorOf(transfers, sector)
  <2>1. gate \in [1 .. Words -> Pairs]
    BY <1>1, <1>2 DEF Typed
  <2>2. \A k \in 1 .. Words : gate[k] = Word(transfers, sector * Words + k - 1)
    BY <1>1, <1>2 DEF Writing
  <2>3. gate = [k \in 1 .. Words |-> Word(transfers, sector * Words + k - 1)]
    BY ONLY <2>1, <2>2
  <2> QED
    BY <2>3 DEF SectorOf
<1>5. disk' = [disk EXCEPT ![sector] = SectorOf(transfers, sector)]
  BY <1>2, <1>4
<1>6. /\ disk \in [SectorNumbers -> Seq(Pairs)]
      /\ disk'[sector] = SectorOf(transfers, sector)
      /\ \A s \in SectorNumbers \ {sector} : disk'[s] = disk[s]
  BY <1>1, <1>3, <1>5 DEF Typed
<1>7. \A s \in SectorNumbers : \E v \in 0 .. transfers : disk'[s] = SectorOf(v, s)
  <2>1. transfers \in 0 .. transfers
    BY <1>3
  <2>2. \A s \in SectorNumbers : \E v \in 0 .. transfers : disk[s] = SectorOf(v, s)
    BY <1>1 DEF SectorsWhole, SectorNumbers
  <2> QED
    BY <1>6, <2>1, <2>2
<1> DEFINE age(s) == disk[s][1][1]
           aged(s) == disk'[s][1][1]
<1>8. \A s \in SectorNumbers : age(s) \in 0 .. transfers
  <2> SUFFICES ASSUME NEW s \in SectorNumbers PROVE age(s) \in 0 .. transfers
    OBVIOUS
  <2>1. PICK v \in 0 .. transfers : disk[s] = SectorOf(v, s)
    BY <1>1 DEF SectorsWhole, SectorNumbers
  <2>2. v \in Nat /\ s \in Nat
    BY <1>1, <1>3 DEF SectorNumbers
  <2> QED
    BY <2>1, <2>2, SectorsOfBuffers
<1>9. /\ aged(sector) = transfers
      /\ \A s \in SectorNumbers : s < sector => age(s) = transfers
      /\ \A s \in SectorNumbers \ {sector} : aged(s) = age(s)
  <2>1. aged(sector) = transfers
    BY <1>3, <1>6, SectorsOfBuffers
  <2>2. ASSUME NEW s \in SectorNumbers, s < sector PROVE age(s) = transfers
    <3>1. disk[s] = SectorOf(transfers, s) /\ s \in Nat
      BY <1>1, <2>2 DEF Writing, SectorNumbers
    <3> QED
      BY <1>3, <3>1, SectorsOfBuffers
  <2> QED
    BY <1>6, <2>1, <2>2
<1>10. \A r, s \in SectorNumbers : r < s => age(r) >= age(s)
  BY <1>1 DEF SectorsWhole, SectorNumbers
<1>11. \A r, s \in SectorNumbers : r < s => aged(r) >= aged(s)
  <2> HIDE DEF age, aged
  <2> SUFFICES ASSUME NEW r \in SectorNumbers, NEW s \in SectorNumbers, r < s
               PROVE  aged(r) >= aged(s)
    OBVIOUS
  <2>1. CASE s = sector
    BY <1>3, <1>9, <2>1 DEF SectorNumbers
  <2>2. CASE r = sector
    BY <1>3, <1>8, <1>9, <2>2 DEF SectorNumbers
  <2>3. CASE r # sector /\ s # sector
    BY <1>9, <1>10, <2>3
  <2> QED
    BY <2>1, <2>2, <2>3
<1> QED
  BY <1>2, <1>3, <1>5, <1>7, <1>11 DEF SectorsWhole, SectorNumbers, SectorOf, Word

LEMMA AdvanceInvariant ==
    ASSUME AtaInv, Advance
    PROVE  AtaInv'
<1>1. /\ phase = "busy" /\ Len(gate) = Words /\ gate' = <<>> /\ sector' = sector + 1
      /\ phase' = IF sector + 1 = count THEN "idle" ELSE "busy"
      /\ UNCHANGED <<pc, kind, count, word, buffer, transfers, failed>>
      /\ kind # "write" => disk' = disk
  BY DEF Advance, driver
<1>2. /\ Typed /\ Phases /\ Writing /\ Reading /\ SectorsWhole
      /\ Words \in Nat /\ Words >= 1
  BY AtaAssumption DEF AtaInv
<1>3. sector \in Nat /\ count \in Nat /\ sector < count /\ word \in Nat /\ transfers \in Nat
  BY <1>1, <1>2, AtaAssumption DEF Typed, Phases
<1>4. Typed'
  <2>1. gate' \in Seq(Pairs) /\ Len(gate') <= Words
    BY <1>1, <1>2, Empty
  <2>2. disk' \in [SectorNumbers -> Seq(Pairs)]
    <3>1. CASE kind = "write"
      <4>1. /\ disk' = [disk EXCEPT ![sector] = SectorOf(transfers, sector)]
            /\ SectorOf(transfers, sector) \in Seq(Pairs)
        BY <1>3, <3>1, StoredWhole, SectorsOfBuffers
      <4> QED
        BY <1>2, <4>1 DEF Typed
    <3>2. CASE kind # "write"
      BY <1>1, <1>2, <3>2 DEF Typed
    <3> QED
      BY <3>1, <3>2
  <2>3. sector' \in Nat /\ phase' \in {"idle", "busy", "data", "failed", "reset"}
    BY <1>1, <1>3
  <2> QED
    BY <1>1, <1>2, <2>1, <2>2, <2>3 DEF Typed, SectorNumbers
<1>5. Phases'
  BY <1>1, <1>2, <1>3 DEF Phases
<1>6. Writing'
  <2> SUFFICES ASSUME kind = "write" PROVE Writing'
    BY <1>1 DEF Writing
  <2>1. word' = sector' * Words + Len(gate')
    <3>1. word = sector * Words + Words
      BY <1>1, <1>2 DEF Writing
    <3>2. sector' * Words = sector * Words + Words
      BY <1>1, <1>3, Products
    <3>3. sector * Words \in Nat /\ Len(gate') = 0
      BY <1>1, <1>3, Products, Empty
    <3> QED
      BY <1>1, <1>2, <3>1, <3>2, <3>3
  <2>2. Len(gate') = 0
    BY <1>1, Empty
  <2>3. ASSUME NEW s \in SectorNumbers, s < sector + 1
        PROVE  disk'[s] = SectorOf(transfers, s)
    <3>1. disk' = [disk EXCEPT ![sector] = SectorOf(transfers, sector)]
      BY StoredWhole
    <3>2. CASE s = sector
      BY <1>2, <3>1, <3>2, <2>3 DEF Typed
    <3>3. CASE s < sector
      <4>1. disk[s] = SectorOf(transfers, s) /\ s # sector
        BY <1>2, <1>3, <2>3, <3>3 DEF Writing, SectorNumbers
      <4> QED
        BY <1>2, <2>3, <3>1, <4>1 DEF Typed
    <3> QED
      BY <1>3, <2>3, <3>2, <3>3, AtaAssumption DEF SectorNumbers
  <2>4. phase' = "idle" => sector' = count'
    BY <1>1
  <2> QED
    BY <1>1, <2>1, <2>2, <2>3, <2>4 DEF Writing, SectorOf, Word, SectorNumbers
<1>7. Reading'
  <2> SUFFICES ASSUME kind = "read" PROVE Reading'
    BY <1>1 DEF Reading
  <2>1. disk' = disk /\ Len(buffer') = word'
    BY <1>1, <1>2 DEF Reading, Kinds
  \* while the first sector is read the gate is not full
  <2>2. ~(~failed /\ transfers > 0 /\ word < Words)
    BY <1>1, <1>2, <1>3 DEF Reading
  <2> QED
    BY <1>1, <1>2, <2>1, <2>2 DEF Reading
<1>8. SectorsWhole'
  BY <1>1, <1>2, <1>3, StoredWhole, WholeStays
<1> QED
  BY <1>4, <1>5, <1>6, <1>7, <1>8 DEF AtaInv

LEMMA AtaStepInv == AtaInv /\ [AtaNext]_vars => AtaInv'
<1> SUFFICES ASSUME AtaInv, [AtaNext]_vars PROVE AtaInv'
  OBVIOUS
<1>1. ASSUME NEW k \in Kinds, NEW n \in 1 .. Sectors, Start(k, n) PROVE AtaInv'
  BY <1>1, StartInvariant
<1>2. ASSUME Command \/ WaitReady \/ WriteWord \/ WriteFails \/ ReadWord PROVE AtaInv'
  BY <1>2, CommandInvariant, WaitReadyInvariant, WriteWordInvariant, WriteFailsInvariant,
     ReadWordInvariant
<1>3. ASSUME Drive PROVE AtaInv'
  BY <1>3, ResetDoneInvariant, OfferInvariant, AdvanceInvariant, FailInvariant DEF Drive
<1>4. CASE UNCHANGED vars
  BY <1>4 DEF vars, driver, drive, AtaInv, Typed, Phases, Writing, Reading, SectorsWhole,
              SectorOf, Word, SectorNumbers
<1> QED
  BY <1>1, <1>2, <1>3, <1>4 DEF AtaNext, Driver

LEMMA AtaInvHolds == AtaSpec => []AtaInv
BY AtaInitInv, AtaStepInv, PTL DEF AtaSpec

\* Whatever fails, and whichever transfer the next one's reset cuts off: no sector is
\* torn, and none is newer than one before it (ata.c 65-90).
THEOREM SectorsAreWhole == AtaSpec => []SectorsWhole
<1>1. AtaInv => SectorsWhole
  BY DEF AtaInv
<1> QED
  BY <1>1, AtaInvHolds, PTL

\* A transfer that does not fail wrote every sector it was given by the time the drive
\* is at rest, and read the first one as it is on the disk (ata.c 19-90).
THEOREM TransfersAreDone == AtaSpec => []TransferDone
<1>1. ASSUME AtaInv PROVE TransferDone
  <2>1. Typed /\ Phases /\ Writing /\ Reading /\ Words \in Nat /\ Words >= 1 /\ Sectors \in Nat
    BY <1>1, AtaAssumption DEF AtaInv
  <2>2. ASSUME Returned("write"), phase # "busy", NEW s \in 0 .. count - 1
        PROVE  disk[s] = SectorOf(transfers, s)
    <3>1. pc = "idle" /\ kind = "write" /\ ~failed /\ word = count * Words
      BY <2>1, <2>2 DEF Returned, Phases
    <3>2. phase \in {"idle", "data"}
      BY <2>1, <2>2, <3>1 DEF Phases, Typed
    <3>3. phase # "data"
      <4> SUFFICES ASSUME phase = "data" PROVE FALSE
        OBVIOUS
      <4>1. /\ sector \in Nat /\ count \in Nat /\ sector < count
            /\ Len(gate) \in Nat /\ Len(gate) < Words
            /\ word = sector * Words + Len(gate)
        BY <2>1, <3>1 DEF Phases, Typed, Writing
      <4>2. /\ sector * Words \in Nat /\ count * Words \in Nat
            /\ sector * Words + Words <= count * Words
        BY <4>1, Products
      <4> QED
        BY <2>1, <3>1, <4>1, <4>2
    <3>4. sector = count /\ s \in SectorNumbers /\ s < sector
      BY <2>1, <3>1, <3>2, <3>3 DEF Writing, Typed, SectorNumbers
    <3> QED
      BY <2>1, <3>1, <3>4 DEF Writing
  <2>3. ASSUME Returned("read")
        PROVE  Words <= Len(buffer) /\ SubSeq(buffer, 1, Words) = disk[0]
    <3>1. /\ kind = "read" /\ ~failed /\ transfers > 0 /\ word = count * Words
          /\ count \in Nat /\ count >= 1
      BY <2>1, <2>3 DEF Returned, Phases, Typed
    <3>2. word >= Words
      <4>1. 0 < count /\ 0 * Words + Words <= count * Words
        BY <3>1, Products
      <4>2. 0 * Words = 0 /\ count * Words \in Nat
        BY <2>1, <3>1, Products
      <4> QED
        BY <2>1, <3>1, <4>1, <4>2
    <3>3. /\ buffer \in Seq(Pairs \cup {Garbage}) /\ Len(buffer) >= Words
          /\ \A k \in 1 .. Words : buffer[k] = disk[0][k]
      BY <2>1, <3>1, <3>2 DEF Reading, Typed
    <3>4. disk[0] \in Seq(Pairs) /\ Len(disk[0]) = Words
      <4>1. PICK v \in 0 .. transfers : disk[0] = SectorOf(v, 0)
        BY <1>1, AtaAssumption DEF AtaInv, SectorsWhole
      <4>2. v \in Nat
        BY <2>1 DEF Typed
      <4> QED
        BY <4>1, <4>2, SectorsOfBuffers
    <3>5. /\ Len(SubSeq(buffer, 1, Words)) = Words
          /\ SubSeq(buffer, 1, Words) \in Seq(Pairs \cup {Garbage})
          /\ \A k \in 1 .. Words : SubSeq(buffer, 1, Words)[k] = buffer[k]
      BY <2>1, <3>3
    <3>6. SubSeq(buffer, 1, Words) = [k \in 1 .. Words |-> disk[0][k]]
      BY <2>1, <3>3, <3>5
    <3>7. disk[0] = [k \in 1 .. Words |-> disk[0][k]]
      BY <2>1, <3>4
    <3>8. Words <= Len(buffer)
      BY <2>1, <3>3
    <3> QED
      BY <3>6, <3>7, <3>8
  <2> QED
    BY <2>2, <2>3 DEF TransferDone
<1>2. AtaInv => TransferDone
  BY <1>1
<1> QED
  BY <1>2, AtaInvHolds, PTL
=============================================================================
