----------------------------- MODULE MCFatWalk -----------------------------
\* Three data clusters; tables as mkfs.fat and mcopy leave them: no file, a file
\* of two clusters out of order, and one whose bytes are all in use.  Volumes
\* with clusters of one and of two sectors, cut short in each of their parts.
EXTENDS FatWalk

MCNEntries == 5
MCValues == {0, 4088, 3, 61740}      \* 0, 0xff8, 3, 0xF12C
MCInitialFats ==
    { [o \in Offsets |-> CASE o = 0 -> 240 [] o \in {1, 2} -> 255 [] OTHER -> 0],
      [o \in Offsets |-> CASE o = 0 -> 240 [] o \in {1, 2} -> 255
                           [] o = 3 -> 4 [] o = 4 -> 240 [] o = 5 -> 255
                           [] o = 6 -> 3 [] OTHER -> 0],
      [o \in Offsets |-> (37 * o + 165) % 256] }

\* 512 bytes per sector, one reserved sector, two FATs of one sector, 16 entries
MCBoot(spc, total) ==
    [o \in 0 .. 61 |->
        CASE o = 12 -> 2 [] o = 13 -> spc [] o = 14 -> 1 [] o = 16 -> 2 [] o = 17 -> 16
          [] o = 19 -> total [] o = 21 -> 240 [] o = 22 -> 1 [] OTHER -> 0]
MCVolumes ==
    { [boot |-> MCBoot(spc, 4 + 3 * spc), dataStart |-> 4, sectorsPerCluster |-> spc,
       total |-> 4 + 3 * spc, lengths |-> {0, 1, 3, 3 + 3 * spc, 4 + 3 * spc}] : spc \in {1, 2} }
MCDirectory == [readme |-> 2, empty |-> 4]
MCOtherNames == {"absent"}
=============================================================================
