--------------------------- MODULE MCCommandLine ---------------------------
EXTENDS CommandLine

MCCode == [ch \in {"a", "b", "c", " ", "q"} |->
              CASE ch = "a" -> 2 [] ch = "b" -> 3 [] ch = "c" -> 4 [] ch = " " -> 1 [] ch = "q" -> 1]

\* two commands of one length whose bytes have different sums
MCCommands == {<<"a", "b">>, <<"b", "b">>}

Plain == [text : UNION {[1 .. n -> {"a", "b", "c"}] : n \in 1 .. 2}, quoted : {FALSE}]
Quoted == [text : UNION {[1 .. n -> {"a", " "}] : n \in 0 .. 2}, quoted : {TRUE}]
MCWordLists == UNION {[1 .. n -> Plain \cup Quoted] : n \in 1 .. 2}

\* every line of up to four characters, also those that are not words, and
\* longer lines of words
MCLines == UNION {[1 .. n -> {"a", "b", " ", "q"}] : n \in 0 .. 4}
           \cup {l \in {Written(ws) : ws \in MCWordLists} : Len(l) <= 6}
=============================================================================
