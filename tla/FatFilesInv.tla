---------------------------- MODULE FatFilesInv ----------------------------
(***************************************************************************)
(* Why the files of FatFiles are safe: the inductive invariant behind its  *)
(* safety properties.                                                      *)
(***************************************************************************)
EXTENDS FatFiles

FileSlots == Slots \ {0}

\* A root directory, in memory or on the disk: the label, then the files with
\* data, then at most one empty file, then unused entries; no two files have a
\* name or a cluster in common.
LabelEntry(dir) ==
    dir[0].name \in {Label, StampedLabel} /\ dir[0].cluster = 0 /\ dir[0].size = 0

EntriesSound(dir) ==
    \A i \in FileSlots :
        /\ dir[i].name \in Names \cup {NoName}
        /\ dir[i].name # StampedLabel
        /\ dir[i].cluster \in DataClusters \cup {0}
        /\ dir[i].size > 0 => dir[i].cluster # 0
        /\ dir[i].name = NoName => dir[i] = Unused

EmptiesLast(dir) ==
    \A i, j \in FileSlots : i < j /\ dir[i].size = 0 => dir[j] = Unused

NamesDiffer(dir) ==
    \A i, j \in FileSlots :
        i # j /\ dir[i].name # NoName => dir[i].name # dir[j].name

ClustersDiffer(dir) ==
    \A i, j \in FileSlots :
        i # j /\ dir[i].cluster # 0 => dir[i].cluster # dir[j].cluster

DirSound(dir) ==
    /\ LabelEntry(dir)
    /\ EntriesSound(dir)
    /\ EmptiesLast(dir)
    /\ NamesDiffer(dir)
    /\ ClustersDiffer(dir)

\* The two copies of the FAT are the same between commands and during them; an
\* entry of a data cluster is free or ends a chain.
FatSound ==
    /\ diskFat = g_Fat
    /\ g_Fat[0] = MediaEntry
    /\ g_Fat[1] # 0
    /\ \A c \in Clusters \ {0} : g_Fat[c] = 0 \/ g_Fat[c] >= EndOfChain

\* Data lies in clusters that are in use.
DataAllocated(dir) ==
    \A i \in FileSlots : dir[i].size > 0 => g_Fat[dir[i].cluster] >= EndOfChain

\* Memory and disk differ in the label, in an empty entry that a refused newf
\* left behind, and in the entry the command in flight is about.
Agree ==
    \A i \in FileSlots :
        \/ g_root_directory[i] = diskRoot[i]
        \/ /\ g_root_directory[i].size = 0 /\ g_root_directory[i].cluster = 0
           /\ diskRoot[i].size = 0
        \/ pc \in {"newf", "appf"} /\ i = cmd.at

InFlight ==
    pc \in {"newf", "appf"} =>
        /\ cmd.at \in FileSlots
        /\ cmd.name \in Names
        /\ g_root_directory[cmd.at].name = cmd.name
        /\ g_root_directory[cmd.at].cluster # 0
        /\ reply = NoReply
        /\ \A i \in Slots : i < written => diskRoot[i] = g_root_directory[i]

NewfInFlight ==
    pc = "newf" =>
        /\ g_root_directory[cmd.at].size = 0
        /\ diskRoot[cmd.at].size = 0
        /\ g_Fat[g_root_directory[cmd.at].cluster] = 0

AppfInFlight ==
    pc = "appf" =>
        LET e == g_root_directory[cmd.at]
            old == e.size - Len(cmd.text)
        IN  /\ g_Fat[e.cluster] >= EndOfChain
            /\ old >= 0
            /\ diskRoot[cmd.at] \in {e, Entry(cmd.name, e.cluster, old)}
            /\ \A k \in 1 .. Len(cmd.text) : diskData[e.cluster][old + k] = cmd.text[k]
            /\ old = 0 => \A j \in FileSlots : j > cmd.at => g_root_directory[j] = Unused

Inv ==
    /\ TypeOK
    /\ DirSound(g_root_directory)
    /\ g_root_directory[0].name = StampedLabel
    /\ DirSound(diskRoot)
    /\ FatSound
    /\ DataAllocated(g_root_directory)
    /\ DataAllocated(diskRoot)
    /\ Agree
    /\ InFlight
    /\ NewfInFlight
    /\ AppfInFlight

\* As long as nothing went wrong.
SoundInv == Sound => Inv

\* Names that appf's search by sums tells apart.
DistinctSums ==
    \A m, n \in Names \cup {StampedLabel} : ByteSum[m] = ByteSum[n] => m = n
=============================================================================
