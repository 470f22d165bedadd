------------------------------ MODULE FatTable ------------------------------
(***************************************************************************)
(* What a file allocation table promises to the rest of the kernel: one    *)
(* independent 12-bit value per cluster.  Fat12Table implements it in      *)
(* packed bytes; FatFiles uses it.                                         *)
(***************************************************************************)
CONSTANTS Entries,      \* the clusters that have an entry
          EntryValues   \* the values an entry can hold

VARIABLE table

Init == table \in [Entries -> EntryValues]

Set(k, v) == table' = [table EXCEPT ![k] = v]

\* Some entry is set: its new value is the one witness there can be.
Next == \E k \in Entries : table'[k] \in EntryValues /\ Set(k, table'[k])

Spec == Init /\ [][Next]_table
=============================================================================
