----------------------------- MODULE MCFatFiles -----------------------------
\* Three names beside the label, a directory of three sectors, three data
\* clusters of which the image uses one: newf can run out of clusters, fill the
\* slot of an empty file, and be cut off between any two sectors.  Two names
\* have the same sum of bytes, as ab.txt and ba.txt do.
EXTENDS FatFilesInv

CONSTANTS a, b, c

MCNames == {a, b, c}
MCByteSum == [n \in {a, b, c, StampedLabel} |->
                 CASE n = a -> 1 [] n = b -> 2 [] n = c -> 1 [] OTHER -> 3]
MCTexts == {<<1>>, <<2, 1>>}
MCImageFiles == <<[name |-> a, text |-> <<1>>]>>

\* Bound: after a mishap the command goes on to its answer or its reset, no further.
ToTheAnswer == Sound \/ pc # "idle"
=============================================================================
