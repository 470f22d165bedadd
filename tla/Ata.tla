-------------------------------- MODULE Ata --------------------------------
(***************************************************************************)
(* ata_read and ata_write: a transfer of sectors, word by word, by polling *)
(* the drive's status; the drive works at its own pace, may fail, and      *)
(* stores a sector only after it got all its words.  A transfer starts at  *)
(* sector 0.  The reset that starts each transfer ends what the drive was  *)
(* doing.                                                                  *)
(***************************************************************************)
EXTENDS Integers, Sequences, SequencesExt

CONSTANTS
    Sectors,      \* of the largest transfer
    Words,        \* in a sector (256)
    Garbage,      \* what the data port gives when the drive offers nothing
    MaxTransfers  \* bound

ASSUME AtaAssumption ==
    /\ Sectors \in Nat \ {0} /\ Words \in Nat \ {0} /\ MaxTransfers \in Nat

Kinds == {"read", "write"}
\* the i-th word of the buffer of write number v; those of number 0 were there before
Word(v, i) == <<v, i>>
SectorOf(v, s) == [k \in 1 .. Words |-> Word(v, s * Words + k - 1)]

VARIABLES
    pc,          \* the driver: "idle", or where in ata_read or ata_write it is
    kind, count, \* the transfer: its direction, its sectors
    word,        \* i, the next word
    buffer,      \* what was read
    phase,       \* the drive: "idle", "busy" (BSY), "data" (DRQ), "failed" (ERR), "reset"
    sector,      \* the sector it is at
    gate,        \* the words of it that it has got, or given
    disk,
    transfers,   \* history: transfers so far; the number of the current one
    failed       \* history: the drive failed in it

driver == <<pc, kind, count, word, buffer>>
drive == <<phase, sector, gate, disk>>
vars == <<driver, drive, transfers, failed>>

AtaInit ==
    /\ pc = "idle" /\ kind = "read" /\ count = 0 /\ word = 0 /\ buffer = <<>>
    /\ phase = "idle" /\ sector = 0 /\ gate = <<>>
    /\ disk = [s \in 0 .. Sectors - 1 |-> SectorOf(0, s)]
    /\ transfers = 0 /\ failed = FALSE

-----------------------------------------------------------------------------
\* ata_soft_reset, without its wait
Start(k, n) ==
    /\ pc = "idle" /\ transfers < MaxTransfers
    /\ kind' = k /\ count' = n /\ word' = 0 /\ buffer' = <<>>
    /\ pc' = "select"
    /\ phase' = "reset" /\ gate' = <<>> /\ sector' = 0
    /\ transfers' = transfers + 1 /\ failed' = FALSE
    /\ UNCHANGED disk

\* ata_wait_ready
Ready == phase \notin {"busy", "reset"}

Command ==
    /\ pc = "select" /\ Ready
    /\ phase' = "busy"
    /\ pc' = "command"
    /\ UNCHANGED <<kind, count, word, buffer, sector, gate, disk, transfers, failed>>

WaitReady ==
    /\ pc = "command" /\ Ready
    /\ pc' = "transfer"
    /\ UNCHANGED <<kind, count, word, buffer, drive, transfers, failed>>

LastWordEarly == word + 2 >= count * Words
LastWord == word + 1 = count * Words

NextWord ==
    /\ word' = word + 1
    /\ pc' = IF LastWord THEN "idle" ELSE "transfer"

DataAssumed == TRUE
DataRequested == phase = "data"

\* The drive takes the word if it wants one.
WriteWord ==
    /\ pc = "transfer" /\ kind = "write" /\ DataRequested
    /\ NextWord
    /\ gate' = IF phase = "data" THEN Append(gate, Word(transfers, word)) ELSE gate
    /\ phase' = IF Len(gate') = Words THEN "busy" ELSE phase
    /\ UNCHANGED <<kind, count, buffer, sector, disk, transfers, failed>>

ErrorIgnored == FALSE
ErrorSeen == phase = "failed"

WriteFails ==
    /\ pc = "transfer" /\ kind = "write" /\ ~DataRequested /\ ErrorSeen
    /\ pc' = "idle"
    /\ UNCHANGED <<kind, count, word, buffer, drive, transfers, failed>>

\* the status is not looked at again after the first word
ReadWord ==
    /\ pc = "transfer" /\ kind = "read"
    /\ NextWord
    /\ IF phase = "data"
       THEN /\ buffer' = Append(buffer, disk[sector][Len(gate) + 1])
            /\ gate' = Append(gate, disk[sector][Len(gate) + 1])
            /\ phase' = IF Len(gate') < Words THEN "data"
                        ELSE IF sector + 1 < count THEN "busy" ELSE "idle"
       ELSE buffer' = Append(buffer, Garbage) /\ UNCHANGED <<gate, phase>>
    /\ UNCHANGED <<kind, count, sector, disk, transfers, failed>>

Driver ==
    \/ \E k \in Kinds, n \in 1 .. Sectors : Start(k, n)
    \/ Command \/ WaitReady \/ WriteWord \/ WriteFails \/ ReadWord

-----------------------------------------------------------------------------
\* The drive.
ResetDone ==
    /\ phase = "reset"
    /\ phase' = "idle"
    /\ UNCHANGED <<driver, sector, gate, disk, transfers, failed>>

Offer ==
    /\ phase = "busy" /\ gate = <<>>
    /\ phase' = "data"
    /\ UNCHANGED <<driver, sector, gate, disk, transfers, failed>>

\* the sector is done: stored, if it was written
Advance ==
    /\ phase = "busy" /\ Len(gate) = Words
    /\ disk' = IF kind = "write" THEN [disk EXCEPT ![sector] = gate] ELSE disk
    /\ gate' = <<>>
    /\ sector' = sector + 1
    /\ phase' = IF sector + 1 = count THEN "idle" ELSE "busy"
    /\ UNCHANGED <<driver, transfers, failed>>

Fail ==
    /\ phase = "busy"
    /\ phase' = "failed" /\ failed' = TRUE
    /\ UNCHANGED <<driver, sector, gate, disk, transfers>>

Drive == ResetDone \/ Offer \/ Advance \/ Fail

AtaNext == Driver \/ Drive

Begun == Command \/ WaitReady \/ WriteWord \/ WriteFails \/ ReadWord

\* The driver polls on, and the drive does not stay busy for ever.
AtaSpec == AtaInit /\ [][AtaNext]_vars /\ WF_vars(Begun) /\ WF_vars(Drive)

-----------------------------------------------------------------------------
\* Whatever fails or is cut off by the next transfer: a sector holds the words of
\* its own part of one buffer, and no sector is newer than one before it.
SectorsWhole ==
    /\ \A s \in 0 .. Sectors - 1 : \E v \in 0 .. transfers : disk[s] = SectorOf(v, s)
    /\ \A r, s \in 0 .. Sectors - 1 : r < s => disk[r][1][1] >= disk[s][1][1]

Returned(k) == pc = "idle" /\ transfers > 0 /\ kind = k /\ ~failed

\* What ata_write was given (ata.c 65-90) is on the disk once the drive has come to
\* rest, and the first sector of an ata_read (ata.c 19-55) is as it is on the disk.
TransferDone ==
    /\ Returned("write") /\ phase # "busy" =>
          \A s \in 0 .. count - 1 : disk[s] = SectorOf(transfers, s)
    /\ Returned("read") => Words <= Len(buffer) /\ SubSeq(buffer, 1, Words) = disk[0]

\* A transfer comes to its end, also when the drive fails.
TransfersEnd == pc # "idle" ~> pc = "idle"
=============================================================================
