------------------------------- MODULE FatWalk -------------------------------
(***************************************************************************)
(* Reading a file of several clusters: fat_drive_read_header and           *)
(* fat_drive_read_file of the kernel, and the host tool tools/fat/fat.c,   *)
(* which reads the same image and may find it cut short.  Both parse the   *)
(* boot sector, compute where the data area starts, and follow the chain   *)
(* in the packed table of Fat12Table (the copy on the image is the one in  *)
(* memory, see FatFiles).                                                  *)
(***************************************************************************)
EXTENDS Fat12Table, SequencesExt

CONSTANTS
    Volumes,      \* the volumes mkfs.fat makes: the first bytes, where the data area is,
                  \* its size, and the lengths an image file of it may have
    Directory,    \* first cluster of each name in the root directory
    OtherNames    \* names that are not there

\* What mkfs.fat promises: the first bytes describe the volume.  Its data follow the
\* reserved sectors, the FATs and the sectors that the root directory's 32-byte entries
\* need, and are the clusters from 2 on.
Formatted(v) ==
    LET word(o) == v.boot[o] + (256 * v.boot[o + 1])
        root == word(14) + (word(22) * v.boot[16])
        size == (v.dataStart - root) * word(11)
    IN  /\ v.boot \in [0 .. 61 -> Byte] /\ word(11) # 0
        /\ v.dataStart \in Nat /\ size \in 32 * word(17) .. (32 * word(17)) + word(11) - 1
        /\ v.sectorsPerCluster = v.boot[13] /\ v.sectorsPerCluster # 0
        /\ v.total = v.dataStart + ((NEntries - 2) * v.sectorsPerCluster)

\* Clusters 0 and 1 are taken to be on the disk too, so that no lba wraps.
ASSUME WalkAssumption ==
    /\ \A v \in Volumes :
          /\ Formatted(v) /\ v.lengths \subseteq 0 .. v.total
          /\ 2 * v.sectorsPerCluster <= v.dataStart
    /\ \A n \in DOMAIN Directory : Directory[n] \in Entries

VARIABLES
    volume,       \* the volume in use
    length,       \* sectors that the image file really has
    reader,       \* "none", "kernel" or "tool"
    at,           \* where the reader is
    cluster,      \* current_cluster
    walked,       \* the clusters read so far
    sectors,      \* the sectors read so far, in order
    exit          \* what the reader returned

walk == <<reader, at, cluster, walked, sectors, exit>>
walkVars == <<g_Fat, volume, length, walk>>

-----------------------------------------------------------------------------
LittleEndian(buf, first, n) ==
    IF n = 1 THEN buf[first] ELSE buf[first] + (256 * buf[first + 1])

\* fat_drive_read_header: offset and bytes of each field
HeaderFields ==
    [BytesPerSector |-> <<11, 2>>, SectorsPerCluster |-> <<13, 1>>,
     ReservedSectors |-> <<14, 2>>, FatCount |-> <<16, 1>>, DirEntryCount |-> <<17, 2>>,
     TotalSectors |-> <<19, 2>>, SectorsPerFat |-> <<22, 2>>]
ReadHeader(buf) ==
    [f \in DOMAIN HeaderFields |-> LittleEndian(buf, HeaderFields[f][1], HeaderFields[f][2])]

\* the tool reads the same bytes into a packed struct
BootSectorLayout ==
    << <<"BootJumpInstruction", 3>>, <<"OemIdentifier", 8>>, <<"BytesPerSector", 2>>,
       <<"SectorsPerCluster", 1>>, <<"ReservedSectors", 2>>, <<"FatCount", 1>>,
       <<"DirEntryCount", 2>>, <<"TotalSectors", 2>>, <<"MediaDescriptorType", 1>>,
       <<"SectorsPerFat", 2>> >>
readBootSector(buf) ==
    LET place(f) == CHOOSE i \in DOMAIN BootSectorLayout : BootSectorLayout[i][1] = f
        offset[i \in DOMAIN BootSectorLayout] ==
            IF i = 1 THEN 0 ELSE offset[i - 1] + BootSectorLayout[i - 1][2]
    IN  [f \in DOMAIN HeaderFields |->
            LittleEndian(buf, offset[place(f)], BootSectorLayout[place(f)][2])]

\* fat_drive_read_root_dir and the tool's readRootDirectory
RootStart(g) == g.ReservedSectors + (g.SectorsPerFat * g.FatCount)
RootSectors(g) ==
    LET size == 32 * g.DirEntryCount
    IN  (size \div g.BytesPerSector) + (IF size % g.BytesPerSector > 0 THEN 1 ELSE 0)
RootEnd(g) == RootStart(g) + RootSectors(g)

g_boot_sector == ReadHeader(volume.boot)
g_BootSector == readBootSector(volume.boot)

\* The kernel multiplies the sum, the tool the cluster only: the same sector as
\* long as a cluster is one sector.
KernelLba(c) == (RootEnd(g_boot_sector) + (c - 2)) * g_boot_sector.SectorsPerCluster
ToolLbaMultipliesAll(c) == (RootEnd(g_BootSector) + (c - 2)) * g_BootSector.SectorsPerCluster
ToolLba(c) == RootEnd(g_BootSector) + ((c - 2) * g_BootSector.SectorsPerCluster)

SectorsAt(lba, n) == [i \in 1 .. n |-> lba + i - 1]

\* readSectors: fread returns less than asked for past the end of the image
Reads(lba, n) == lba + n <= length

-----------------------------------------------------------------------------
WalkInit ==
    /\ Init
    /\ volume \in Volumes
    /\ length \in volume.lengths
    /\ reader = "none" /\ at = "idle" /\ cluster = 0
    /\ walked = <<>> /\ sectors = <<>> /\ exit = 0

\* newf links a cluster, or mcopy puts a file of several clusters there.
SetEntryIdle ==
    /\ at = "idle"
    /\ Next
    /\ UNCHANGED <<volume, length, walk>>

Go(who, where, c) ==
    /\ reader' = who /\ at' = where /\ cluster' = c
    /\ UNCHANGED <<g_Fat, volume, length, walked, sectors, exit>>

Return(code) ==
    /\ at' = "done" /\ exit' = code
    /\ UNCHANGED <<g_Fat, volume, length, reader, cluster>>

\* main: each step of the tool with the code it exits with when it fails
ToolOpens == at = "idle" /\ Go("tool", "boot", 0)

ToolReadsBootSector ==
    /\ at = "boot"
    /\ \/ Reads(0, 1) /\ Go("tool", "fat", 0)
       \/ ~Reads(0, 1) /\ Return(-2) /\ UNCHANGED <<walked, sectors>>

ToolReadsFat ==
    /\ at = "fat"
    /\ LET g == g_BootSector
           ok == Reads(g.ReservedSectors, g.SectorsPerFat)
       IN  \/ ok /\ Go("tool", "root", 0)
           \/ ~ok /\ Return(-3) /\ UNCHANGED <<walked, sectors>>

ToolReadsRoot ==
    /\ at = "root"
    /\ LET ok == Reads(RootStart(g_BootSector), RootSectors(g_BootSector))
       IN  \/ ok /\ Go("tool", "find", 0)
           \/ ~ok /\ Return(-4) /\ UNCHANGED <<walked, sectors>>

ToolFinds(n) ==
    /\ at = "find"
    /\ \/ n \in DOMAIN Directory /\ Go("tool", "walk", Directory[n])
       \/ n \notin DOMAIN Directory /\ Return(-5) /\ UNCHANGED <<walked, sectors>>

\* A chain that comes back to a cluster, or, in the kernel, one that leaves the
\* volume: the walk stores sector after sector and does not end.
Endless ==
    /\ at = "walk"
    /\ \/ cluster \in ToSet(walked)
       \/ reader = "kernel" /\ cluster \notin Entries

\* one turn of the loop of fat_drive_read_file and of the tool's readFile
Turn(lba, n, ok) ==
    /\ at = "walk" /\ ~Endless
    /\ walked' = Append(walked, cluster)
    /\ sectors' = sectors \o SectorsAt(lba, n)
    /\ \/ ~ok /\ Return(-5)
       \/ /\ ok /\ ChainEntry(g_Fat, cluster) >= 4088
          /\ Return(0)
       \/ /\ ok /\ ChainEntry(g_Fat, cluster) < 4088
          /\ cluster' = ChainEntry(g_Fat, cluster)
          /\ UNCHANGED <<g_Fat, volume, length, reader, at, exit>>

ToolTurn ==
    /\ reader = "tool"
    /\ LET lba == ToolLba(cluster)
           n == g_BootSector.SectorsPerCluster
       IN  Turn(lba, n, Reads(lba, n))

\* read or appf found the entry; the machine has the whole disk, and the driver's
\* reads report no errors
KernelBegins(n) ==
    /\ at = "idle" /\ length = volume.total
    /\ n \in DOMAIN Directory
    /\ Go("kernel", "walk", Directory[n])
KernelTurn ==
    /\ reader = "kernel"
    /\ Turn(KernelLba(cluster), g_boot_sector.SectorsPerCluster, TRUE)

RunsOn == Endless /\ Go(reader, "lost", cluster)

NextReader ==
    /\ at = "done"
    /\ reader' = "none" /\ at' = "idle" /\ cluster' = 0
    /\ walked' = <<>> /\ sectors' = <<>> /\ exit' = 0
    /\ UNCHANGED <<g_Fat, volume, length>>

WalkNext ==
    \/ SetEntryIdle
    \/ ToolOpens \/ ToolReadsBootSector \/ ToolReadsFat \/ ToolReadsRoot
    \/ \E n \in DOMAIN Directory \cup OtherNames : ToolFinds(n) \/ KernelBegins(n)
    \/ ToolTurn \/ KernelTurn
    \/ RunsOn
    \/ NextReader

WalkSpec == WalkInit /\ [][WalkNext]_walkVars

-----------------------------------------------------------------------------
\* A read that succeeds (fat_drive.c 234-252, tools/fat/fat.c 138-157) has read the
\* clusters that the table links, the last one marked as the end, and of each
\* the sectors where the volume has it, all of them on the image.  Of the kernel this
\* is asked for clusters of one sector, which the image has.
LinkedTo(i) == GetEntry(g_Fat, walked[i])
SectorsOfTheClusters ==
    LET n == volume.sectorsPerCluster
    IN  /\ Len(sectors) = Len(walked) * n
        /\ \A i \in 1 .. Len(walked), j \in 1 .. n :
              sectors[((i - 1) * n) + j] = volume.dataStart + ((walked[i] - 2) * n) + (j - 1)
ReadsTheFile ==
    (at = "done" /\ exit = 0
        /\ (reader = "kernel" => volume.sectorsPerCluster = 1)) =>
      /\ \A i \in 1 .. Len(walked) - 1 : LinkedTo(i) = walked[i + 1]
      /\ LinkedTo(Len(walked)) >= 4088
      /\ SectorsOfTheClusters
      /\ \A i \in DOMAIN sectors : sectors[i] < length
=============================================================================
