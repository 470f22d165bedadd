----------------------------- MODULE Fat12Table -----------------------------
(***************************************************************************)
(* The in-memory FAT of fat_drive.c, byte by byte: two 12-bit entries      *)
(* share three bytes of g_Fat, an entry is changed by rewriting two bytes  *)
(* and keeping the half that belongs to its neighbour, and the driver has  *)
(* two decoders (the accessor of the shell's cluster scan and the one      *)
(* inlined in fat_drive_read_file's chain walk).                           *)
(***************************************************************************)
EXTENDS Integers

CONSTANTS NEntries,     \* the entries the kernel addresses
          Values,       \* the uint16_t values handed to the setter
          InitialFats   \* the tables ata_read can bring in

Entries == 0 .. NEntries - 1
Byte == 0 .. 255
TwelveBits == 0 .. 4095
Offsets == 0 .. (3 * NEntries) \div 2    \* the byte after the last entry is read too

ASSUME TableAssumption ==
    /\ NEntries \in Nat \ {0}
    /\ Values \subseteq Nat    \* the setter keeps the low 12 bits, however wide
    /\ InitialFats \subseteq [Offsets -> Byte]

VARIABLE g_Fat

-----------------------------------------------------------------------------
Offset(k) == (k * 3) \div 2

\* fat_drive_get_curr_fat_entry_value
GetEntry(fat, k) ==
    IF k % 2 = 0
    THEN fat[Offset(k)] + (256 * (fat[Offset(k) + 1] % 16))
    ELSE (fat[Offset(k)] \div 16) + (16 * fat[Offset(k) + 1])

\* the decoder inlined in fat_drive_read_file: a little-endian 16-bit load,
\* then a mask or a shift
ChainEntry(fat, k) ==
    LET word == fat[Offset(k)] + (256 * fat[Offset(k) + 1])
    IN  IF k % 2 = 0 THEN word % 4096 ELSE word \div 16

\* The bytes fat_drive_set_fat_entry_value stores, from the byte that was there
\* and the value: an entry that starts a pair keeps the high nibble of its
\* second byte, one that ends a pair keeps the low nibble of its first.
EvenSecondOverwrites(old, v) == (v \div 256) % 16
EvenSecond(old, v) == (old - (old % 16)) + ((v \div 256) % 16)
OddFirst(old, v) == (old % 16) + (16 * (v % 16))
OddSecond(v) == (v \div 16) % 256

SetEntry(fat, k, v) ==
    IF k % 2 = 0
    THEN [fat EXCEPT ![Offset(k)] = v % 256, ![Offset(k) + 1] = EvenSecond(@, v)]
    ELSE [fat EXCEPT ![Offset(k)] = OddFirst(@, v), ![Offset(k) + 1] = OddSecond(v)]

Init == g_Fat \in InitialFats

Set(k, v) == g_Fat' = SetEntry(g_Fat, k, v)

Next == \E k \in Entries, v \in Values : Set(k, v)

Spec == Init /\ [][Next]_g_Fat

-----------------------------------------------------------------------------
\* g_Fat is an array of bytes: no store in the setter leaves a value that an
\* uint8_t could not hold.
TypeOK == g_Fat \in [Offsets -> Byte]

\* The two decoders of fat_drive.c (lines 44-54 and 244-248) read the same
\* value for every cluster, whatever the neighbours hold, so the scan that
\* allocates a cluster and the walk that follows it never disagree.
DecodersAgree == \A k \in Entries : ChainEntry(g_Fat, k) = GetEntry(g_Fat, k)

Table == INSTANCE FatTable WITH
            Entries <- Entries, EntryValues <- TwelveBits,
            table <- [k \in Entries |-> GetEntry(g_Fat, k)]

\* Setting entry k (lines 56-72) makes that entry the low 12 bits of the value
\* and leaves every other entry as it was.
SetsTheEntryAsked ==
    [][\A k \in Entries, v \in Values : Set(k, v) => Table!Set(k, v % 4096)]_g_Fat

\* So the packed bytes behave as the table of independent entries that the rest
\* of the kernel takes the FAT to be.
ImplementsTable == Table!Spec
=============================================================================
