----------------------------- MODULE FileStore -----------------------------
(***************************************************************************)
(* What the shell's files promise to the user who only looks at text: a    *)
(* file is a log that starts with what the disk image holds and grows by   *)
(* whole appended texts, in the order they were given, for ever.  A file   *)
(* that does not exist and one that is still empty hold the same: nothing. *)
(***************************************************************************)
EXTENDS Naturals, Sequences

CONSTANTS Names,            \* the file names
          Texts,            \* the texts a user can append
          MaxSize,          \* what fits in a file
          InitialContent    \* what the image holds, by name

VARIABLES content,          \* what each file holds
          broken            \* the promise is off: the store was spoilt

Init == content = InitialContent /\ broken = FALSE

AppendText(n, t) ==
    /\ Len(content[n]) + Len(t) <= MaxSize
    /\ content' = [content EXCEPT ![n] = @ \o t]

\* Some file grows, as long as the store is not spoilt; a spoilt one holds anything.
Grow ==
    /\ ~broken /\ ~broken'
    /\ \E n \in Names : content'[n] # content[n] /\ \E t \in Texts : AppendText(n, t)
Spoilt == broken'

Next == Grow \/ Spoilt

Spec == Init /\ [][Next]_<<content, broken>>
=============================================================================
