------------------------------ MODULE FatFiles ------------------------------
(***************************************************************************)
(* The file commands of the shell (shell.c) on the FAT12 driver            *)
(* (fat_drive.c): the root directory and the FAT are kept in memory, every *)
(* command changes them there and then writes them to the disk sector by   *)
(* sector, and the machine may be reset between any two sector writes.     *)
(* The drive may refuse a sector: ata_write then returns in the middle of  *)
(* its buffer, tells nobody, and the command goes on to its answer.        *)
(*                                                                         *)
(* A file name is its 11-byte 8.3 form.  A FAT entry is its 12-bit value   *)
(* (Fat12Table shows that the packed bytes behave so).  A file has one     *)
(* cluster of one sector, as on the image the build makes.                 *)
(***************************************************************************)
EXTENDS Integers, Sequences

CONSTANTS
    Names,              \* 8.3 names that a command line can name
    Label,              \* the volume label mkfs.fat writes in entry 0
    StampedLabel,       \* the same with its first byte overwritten
    NoName,             \* eleven zero bytes: the name of an unused entry
    Blank,              \* eleven spaces
    ByteSum,            \* the sum of the bytes of a name
    DirEntryCount,      \* entries of the root directory (224)
    EntriesPerSector,   \* directory entries in a sector (16)
    ScanLimit,          \* FAT entries that newf's scan looks at (10)
    SectorSize,         \* bytes in a sector (512)
    MaxResults,         \* lines a command can print (string_results[10])
    MediaEntry,         \* FAT[0], which holds the media descriptor (0xff0)
    Texts,              \* texts that appf is given
    ImageFiles          \* the files mcopy puts on the image: [name, text], in order

Slots == 0 .. DirEntryCount - 1
Clusters == 0 .. ScanLimit - 1
DataClusters == 2 .. ScanLimit - 1
Byte == 0 .. 255
FatValue == 0 .. 4095
EndOfChain == 4088      \* 0xff8
Sector == [1 .. SectorSize -> Byte]

ASSUME FatFilesAssumption ==
    /\ DirEntryCount \in Nat /\ EntriesPerSector \in Nat \ {0}
    /\ ScanLimit \in Nat /\ SectorSize \in Nat /\ MaxResults \in Nat
    /\ 2 <= ScanLimit /\ ScanLimit < DirEntryCount /\ ScanLimit <= MaxResults + 1
    /\ NoName \notin Names \cup {Label, StampedLabel, Blank}
    /\ MediaEntry \in FatValue \ {0} /\ MediaEntry < EndOfChain
    /\ Texts \subseteq Seq(Byte \ {0})
    /\ ByteSum \in [Names \cup {StampedLabel} -> Nat]

\* The image: its files have distinct names, text, and one of the clusters
\* that newf's scan covers.
ASSUME ImageAssumption ==
    /\ ImageFiles \in Seq([name : Names \ {StampedLabel}, text : Seq(Byte \ {0})])
    /\ Len(ImageFiles) <= ScanLimit - 2
    /\ \A i \in 1 .. Len(ImageFiles) : Len(ImageFiles[i].text) \in 1 .. SectorSize
    /\ \A i, j \in 1 .. Len(ImageFiles) :
          ImageFiles[i].name = ImageFiles[j].name => i = j

VARIABLES
    diskRoot, diskFat, diskData,    \* root directory, first FAT and data area of the disk
    g_root_directory, g_Fat,        \* the driver's copies
    pc,                             \* where the command is
    cmd,                            \* the command: file, text, directory slot
    written,                        \* directory entries handed to the drive so far
    reply,                          \* what the last command answered
    mishap                          \* history: what went wrong so far, see below

disk == <<diskRoot, diskFat, diskData>>
vars == <<diskRoot, diskFat, diskData, g_root_directory, g_Fat, pc, cmd, written, reply, mishap>>

-----------------------------------------------------------------------------
Entry(n, c, s) == [name |-> n, cluster |-> c, size |-> s]
Unused == Entry(NoName, 0, 0)

Entries == [name : Names \cup {NoName, Label, StampedLabel},
            cluster : Clusters, size : 0 .. SectorSize]

NoCmd == [name |-> NoName, text |-> <<>>, at |-> 0]

Reply(o, n, e, t, l) == [op |-> o, name |-> n, code |-> e, text |-> t, listed |-> l]
NoReply == Reply("none", NoName, "none", <<>>, {})

\* fat_drive_read_root_dir: the directory as it is on the disk, but for the
\* first byte of entry 0, which becomes an 'S' (line 201)
Stamped(dir) == [dir EXCEPT ![0].name = StampedLabel]

-----------------------------------------------------------------------------
\* The disk as mkfs.fat and mcopy leave it.
Pad(t) == [k \in 1 .. SectorSize |-> IF k <= Len(t) THEN t[k] ELSE 0]

ImageRoot ==
    [i \in Slots |->
        IF i = 0 THEN Entry(Label, 0, 0)
        ELSE IF i <= Len(ImageFiles)
             THEN Entry(ImageFiles[i].name, i + 1, Len(ImageFiles[i].text))
             ELSE Unused]

ImageFat ==
    [c \in Clusters |->
        IF c = 0 THEN MediaEntry ELSE IF c <= Len(ImageFiles) + 1 THEN 4095 ELSE 0]

ImageData ==
    [c \in DataClusters |->
        Pad(IF c <= Len(ImageFiles) + 1 THEN ImageFiles[c - 1].text ELSE <<>>)]

Init ==
    /\ diskRoot = ImageRoot
    /\ diskFat = ImageFat
    /\ diskData = ImageData
    /\ g_root_directory = Stamped(ImageRoot)
    /\ g_Fat = ImageFat
    /\ pc = "idle"
    /\ cmd = NoCmd
    /\ written = 0
    /\ reply = NoReply
    /\ mishap = "none"

-----------------------------------------------------------------------------
\* fat_drive_find_file: memcmp over all entries, entry 0 included
Found(n) == \E i \in Slots : g_root_directory[i].name = n

Find(n) == CHOOSE i \in Slots :
              /\ g_root_directory[i].name = n
              /\ \A j \in Slots : g_root_directory[j].name = n => i <= j

\* newf's "first empty entry": the first one, after entry 0, with no data; past
\* the end of the directory if there is none
EmptySlot == CHOOSE i \in 1 .. DirEntryCount :
                /\ i \in Slots => g_root_directory[i].size = 0
                /\ \A j \in 1 .. i - 1 : g_root_directory[j].size # 0

FreeClustersMarkReused == {c \in Clusters : g_Fat[c] \in {0, EndOfChain}}
FreeClusters == {c \in Clusters : g_Fat[c] = 0}
FirstFree == CHOOSE c \in FreeClusters : \A d \in FreeClusters : c <= d

\* fat_drive_read_file stops after the one sector of cluster c.  When the entry
\* is free instead, the walk goes on at cluster 0, from there to the media
\* descriptor that FAT[0] holds and past the end of the table: it never ends.
ChainEnds(c) == g_Fat[c] >= EndOfChain

\* strncmp(a, b, 11) == 0 (string.c): equal sums over the shorter string
SameSum(a, b) == a = NoName \/ b = NoName \/ ByteSum[a] = ByteSum[b]

\* appf's search for the entry whose size it sets
SizeSlot(n) == CHOOSE i \in Slots :
                  /\ SameSum(g_root_directory[i].name, n)
                  /\ \A j \in Slots : SameSum(g_root_directory[j].name, n) => i <= j

\* the text put after the first "at" bytes of the sector, the rest kept
OverlayOneLate(buf, at, t) ==
    [k \in 1 .. SectorSize |->
        IF k \in at + 2 .. at + 1 + Len(t) THEN t[k - at - 1] ELSE buf[k]]
OverlayFromStart(buf, at, t) ==
    [k \in 1 .. SectorSize |-> IF k \in 1 .. Len(t) THEN t[k] ELSE buf[k]]
Overlay(buf, at, t) ==
    [k \in 1 .. SectorSize |-> IF k \in at + 1 .. at + Len(t) THEN t[k - at] ELSE buf[k]]

Fits(f, t) == f.size + Len(t) <= SectorSize

\* all sectors of the root directory have been written
DirectoryOnDiskAfterOne == written > 0
DirectoryOnDisk == written >= DirEntryCount

\* the first FAT is written out of g_Fat
WriteFatForgotten == UNCHANGED diskFat
WriteFat == diskFat' = g_Fat'

\* Two things spoil the files, and neither is noticed: the drive reports an error
\* and drops the rest of a write, or appf sets the size of another file, whose name
\* has the same sum of bytes.  The graver one that has happened is remembered.
Mishap(m) == mishap' = IF mishap = "drive_error" \/ m = "none" THEN mishap ELSE m

\* A command that only answers.
Answer(r) ==
    /\ reply' = r
    /\ UNCHANGED <<diskRoot, diskFat, diskData, g_Fat, pc, cmd, written, mishap>>

Start(command, n, t, slot) ==
    /\ pc' = command
    /\ cmd' = [name |-> n, text |-> t, at |-> slot]
    /\ written' = 0
    /\ reply' = NoReply

Finish(r) ==
    /\ pc' = "idle"
    /\ cmd' = NoCmd
    /\ written' = 0
    /\ reply' = r

-----------------------------------------------------------------------------
\* newf <filename>
NewfExists(n) ==
    /\ pc = "idle"
    /\ Found(n)
    /\ Answer(Reply("newf", n, "file_already_exists", <<>>, {}))
    /\ UNCHANGED g_root_directory

\* The entry is in place before the scan for a cluster fails, and stays.
NewfNoCluster(n) ==
    /\ pc = "idle"
    /\ ~Found(n) /\ EmptySlot \in Slots
    /\ FreeClusters = {}
    /\ g_root_directory' = [g_root_directory EXCEPT ![EmptySlot] = Entry(n, 0, 0)]
    /\ Answer(Reply("newf", n, "no_available_cluster", <<>>, {}))

NewfBegin(n) ==
    /\ pc = "idle"
    /\ ~Found(n) /\ EmptySlot \in Slots
    /\ FreeClusters # {}
    /\ g_root_directory' = [g_root_directory EXCEPT ![EmptySlot] = Entry(n, FirstFree, 0)]
    /\ Start("newf", n, <<>>, EmptySlot)
    /\ UNCHANGED <<diskRoot, diskFat, diskData, g_Fat, mishap>>

\* One sector of the root directory reaches the disk (fat_drive_write_root_dir
\* and the write at the end of appf).
WriteRootSector ==
    /\ pc \in {"newf", "appf"}
    /\ ~DirectoryOnDisk
    /\ diskRoot' = [i \in Slots |->
                       IF written <= i /\ i < written + EntriesPerSector
                       THEN g_root_directory[i] ELSE diskRoot[i]]
    /\ written' = written + EntriesPerSector
    /\ UNCHANGED <<diskFat, diskData, g_root_directory, g_Fat, pc, cmd, reply, mishap>>

\* The drive refuses a sector of it: the rest of the directory is not written.
RootSectorFails ==
    /\ pc \in {"newf", "appf"}
    /\ ~DirectoryOnDisk
    /\ written' = DirEntryCount
    /\ Mishap("drive_error")
    /\ UNCHANGED <<disk, g_root_directory, g_Fat, pc, cmd, reply>>

\* The entry of the new file's cluster is set in memory, and the first FAT is to be
\* written; then the command answers.
NewfSetFat ==
    /\ pc = "newf"
    /\ DirectoryOnDisk
    /\ g_Fat' = [g_Fat EXCEPT ![g_root_directory[cmd.at].cluster] = EndOfChain]
    /\ Finish(Reply("newf", cmd.name, "none", <<>>, {}))
    /\ UNCHANGED <<diskRoot, diskData, g_root_directory>>

\* The entries of the scan all lie in the first sector of the FAT.
NewfWriteFat == NewfSetFat /\ WriteFat /\ UNCHANGED mishap
NewfFatFails == NewfSetFat /\ UNCHANGED diskFat /\ Mishap("drive_error")

-----------------------------------------------------------------------------
\* appf <filename> <quoted>
AppfNotFound(n) ==
    /\ pc = "idle"
    /\ ~Found(n)
    /\ Answer(Reply("appf", n, "file_not_found", <<>>, {}))
    /\ UNCHANGED g_root_directory

AppfTooBig(n, t) ==
    /\ pc = "idle"
    /\ Found(n)
    /\ LET f == g_root_directory[Find(n)]
       IN  ChainEnds(f.cluster) /\ ~Fits(f, t)
    /\ Answer(Reply("appf", n, "file_too_big", <<>>, {}))
    /\ UNCHANGED g_root_directory

\* The file's sector is read and written back with the text after the old size;
\* then the size is set in memory.
AppfSetSize(n, t) ==
    /\ pc = "idle"
    /\ Found(n)
    /\ LET f == g_root_directory[Find(n)]
       IN  /\ ChainEnds(f.cluster) /\ Fits(f, t)
           /\ g_root_directory' =
                [g_root_directory EXCEPT ![SizeSlot(n)].size = f.size + Len(t)]
    /\ Start("appf", n, t, SizeSlot(n))
    /\ UNCHANGED <<diskRoot, diskFat, g_Fat>>

AppfBegin(n, t) ==
    /\ AppfSetSize(n, t)
    /\ LET f == g_root_directory[Find(n)]
       IN  diskData' = [diskData EXCEPT ![f.cluster] = Overlay(@, f.size, t)]
    /\ Mishap(IF SizeSlot(n) = Find(n) THEN "none" ELSE "equal_sums")

AppfDataFails(n, t) ==
    /\ AppfSetSize(n, t)
    /\ UNCHANGED diskData
    /\ Mishap("drive_error")

AppfDone ==
    /\ pc = "appf"
    /\ DirectoryOnDisk
    /\ Finish(Reply("appf", cmd.name, "none", cmd.text, {}))
    /\ UNCHANGED <<diskRoot, diskFat, diskData, g_root_directory, g_Fat, mishap>>

-----------------------------------------------------------------------------
\* read <filename>; the name buffer starts as spaces here, as zeros in the others
ReadName(n) == IF n = NoName THEN Blank ELSE n

\* what is printed of the sector: it ends at the first zero byte, not at Size
UpToZero(sector) ==
    LET len == CHOOSE k \in 0 .. SectorSize :
                  /\ k = SectorSize \/ sector[k + 1] = 0
                  /\ \A j \in 1 .. k : sector[j] # 0
    IN  SubSeq(sector, 1, len)

ReadNotFound(n) ==
    /\ pc = "idle"
    /\ ~Found(ReadName(n))
    /\ Answer(Reply("read", n, "file_not_found", <<>>, {}))
    /\ UNCHANGED g_root_directory

ReadShows(n) ==
    /\ pc = "idle"
    /\ Found(ReadName(n))
    /\ LET f == g_root_directory[Find(ReadName(n))]
       IN  /\ ChainEnds(f.cluster)
           /\ Answer(Reply("read", n, "none", UpToZero(diskData[f.cluster]), {}))
    /\ UNCHANGED g_root_directory

\* read and appf of a file whose chain does not end: the walk stores one sector
\* after the other over memory and never returns.  newf with no empty entry left
\* stores the new entry behind the directory.
RunsAway(n) ==
    /\ pc = "idle"
    /\ IF Found(n) THEN ~ChainEnds(g_root_directory[Find(n)].cluster)
                   ELSE EmptySlot \notin Slots
    /\ pc' = "lost"
    /\ cmd' = [name |-> n, text |-> <<>>, at |-> 0]
    /\ reply' = NoReply
    /\ UNCHANGED <<diskRoot, diskFat, diskData, g_root_directory, g_Fat, written, mishap>>

\* list: the entries after entry 0, up to the first unused one
ListEndNoBreak == DirEntryCount
ListEndAtTheNext ==
    CHOOSE i \in 1 .. DirEntryCount :
        /\ i + 1 \in Slots => g_root_directory[i + 1].name = NoName
        /\ \A j \in 1 .. i - 1 : g_root_directory[j + 1].name # NoName
ListEnd == CHOOSE i \in 1 .. DirEntryCount :
              /\ i \in Slots => g_root_directory[i].name = NoName
              /\ \A j \in 1 .. i - 1 : g_root_directory[j].name # NoName

List ==
    /\ pc = "idle"
    /\ Answer(Reply("list", NoName, "none", <<>>,
                    {g_root_directory[i].name : i \in 1 .. ListEnd - 1}))
    /\ UNCHANGED g_root_directory

\* delf <filename> is not implemented
Delf(n) ==
    /\ pc = "idle"
    /\ Answer(Reply("delf", n, "unimplemented", <<>>, {}))
    /\ UNCHANGED g_root_directory

\* The reboot command, the reset button or a power cut, at any point; then
\* fat_drive_read and fat_drive_read_root_dir bring the disk back in.
Restart ==
    /\ g_root_directory' = Stamped(diskRoot)
    /\ g_Fat' = diskFat
    /\ Finish(NoReply)
    /\ UNCHANGED <<disk, mishap>>

-----------------------------------------------------------------------------
\* A name without a dot leaves the name buffer of newf and appf all zeros.
Command(n) ==
    \/ NewfExists(n) \/ NewfNoCluster(n) \/ NewfBegin(n)
    \/ AppfNotFound(n)
    \/ \E t \in Texts : AppfTooBig(n, t) \/ AppfBegin(n, t) \/ AppfDataFails(n, t)
    \/ ReadNotFound(n) \/ ReadShows(n)
    \/ RunsAway(n)
    \/ Delf(n)

Next ==
    \/ \E n \in Names \cup {NoName} : Command(n)
    \/ List
    \/ WriteRootSector \/ RootSectorFails
    \/ NewfWriteFat \/ NewfFatFails
    \/ AppfDone
    \/ Restart

Spec == Init /\ [][Next]_vars

-----------------------------------------------------------------------------
\* The directory and the table have the shape of their C types, a command in
\* flight names a file and a slot.
TypeOK ==
    /\ diskRoot \in [Slots -> Entries] /\ g_root_directory \in [Slots -> Entries]
    /\ diskFat \in [Clusters -> FatValue] /\ g_Fat \in [Clusters -> FatValue]
    /\ diskData \in [DataClusters -> Sector]
    /\ pc \in {"idle", "newf", "appf", "lost"}
    /\ cmd \in [name : Names \cup {NoName}, text : Texts \cup {<<>>}, at : Slots]
    /\ written \in Nat
    /\ mishap \in {"none", "drive_error", "equal_sums"}

\* Nothing has gone wrong so far.  What follows is promised until then.
Sound == mishap = "none"

\* What the names on the disk hold: the bytes that a reader of the FAT file
\* system finds after a reset.
Holding(n) == {i \in Slots : i # 0 /\ diskRoot[i].name = n /\ diskRoot[i].size > 0}

Stored(n) ==
    IF Holding(n) = {} THEN <<>>
    ELSE LET e == diskRoot[CHOOSE i \in Holding(n) : TRUE]
         IN  SubSeq(diskData[e.cluster], 1, e.size)

\* No two files share a cluster, in memory or on the disk: an append to one never
\* shows up in another.  newf takes the cluster from the memory copy of the FAT
\* (shell.c 255-263) and marks it only after the directory was written.
Disjoint(dir) ==
    \A i, j \in Slots :
        i # j /\ dir[i].cluster # 0 /\ dir[j].cluster # 0 =>
            dir[i].cluster # dir[j].cluster /\ dir[i].name # dir[j].name
NoSharedClusters == Sound => Disjoint(g_root_directory) /\ Disjoint(diskRoot)

\* A file with data can always be read again, whatever was cut off when: its
\* cluster ends a chain in the FAT on the disk.
DataIsReachable ==
    Sound => \A i \in Slots :
        /\ g_root_directory[i].size > 0 => diskFat[g_root_directory[i].cluster] >= EndOfChain
        /\ diskRoot[i].size > 0 => diskFat[diskRoot[i].cluster] >= EndOfChain

\* newf's search always ends inside the directory, and there always is an unused
\* entry for list to stop at; list never stores past string_results[10]
\* (shell.c 205), however many files were created, overwritten and refused.
DirectoryFits ==
    Sound =>
    /\ EmptySlot \in Slots
    /\ ListEnd \in Slots
    /\ ListEnd - 1 <= MaxResults

\* list shows every file that holds something ("lists all the files on the fat
\* drive"): no such file lies behind the unused entry where the loop stops.
ListShowsFiles ==
    Sound /\ reply.op = "list" =>
        \A i \in Slots : g_root_directory[i].size > 0 =>
            g_root_directory[i].name \in reply.listed

\* An answer is not given before what it says is on the disk: after "Wrote the
\* file" the file of that name ends with the text, after "Created file" a file
\* of that name exists and appf will find its cluster.
AnswersAreDurable ==
    Sound =>
    /\ reply.op = "appf" /\ reply.code = "none" =>
          LET s == Stored(reply.name)
          IN  /\ Len(reply.text) <= Len(s)
              /\ SubSeq(s, Len(s) - Len(reply.text) + 1, Len(s)) = reply.text
    /\ reply.op = "newf" /\ reply.code = "none" =>
          \E i \in Slots : /\ diskRoot[i].name = reply.name
                           /\ diskFat[diskRoot[i].cluster] >= EndOfChain

\* read prints at least what the file holds, from its start.
ReadShowsAll ==
    Sound /\ reply.op = "read" /\ reply.code = "none" =>
        LET s == Stored(reply.name)
        IN  Len(s) <= Len(reply.text) /\ SubSeq(reply.text, 1, Len(s)) = s

\* The files on the disk are append-only logs, through every command and every
\* reset: an append is there as a whole or not at all, until the first mishap.
Store == INSTANCE FileStore WITH
            MaxSize <- SectorSize,
            InitialContent <-
                [n \in Names |->
                    IF \E i \in 1 .. Len(ImageFiles) : ImageFiles[i].name = n
                    THEN ImageFiles[CHOOSE i \in 1 .. Len(ImageFiles) :
                                        ImageFiles[i].name = n].text
                    ELSE <<>>],
            content <- [n \in Names |-> Stored(n)],
            broken <- ~Sound

ImplementsStore == Store!Spec

-----------------------------------------------------------------------------
\* What the code does not keep: fat_drive_read_file returns and says whether the read was
\* successful (fat_drive.h:139).  It does not return for a file that newf refused for want
\* of a cluster (shell.c:264): the entry stays, with cluster 0.
RefusedFilesOpen ==
    Sound /\ pc = "lost" /\ cmd.name \in Names /\ Found(cmd.name) =>
        g_root_directory[Find(cmd.name)].cluster # 0
=============================================================================
