---------------------------- MODULE CommandLine ----------------------------
(***************************************************************************)
(* tokenize_args cuts shell_buffer into arguments in place, one turn of    *)
(* its loop a step, and shell_process picks the command by the first one.  *)
(* What earlier, longer lines left behind the terminating zero stays in    *)
(* the buffer, cut up as they left it.                                     *)
(***************************************************************************)
EXTENDS Integers, Sequences, SequencesExt

CONSTANTS
    Letters,      \* printable characters other than blank and quote
    Blank, Quote, Nul,
    Code,         \* the bytes of the characters
    Commands,     \* the words that shell_process knows ("read", "list", ...)
    BufferSize,   \* bytes of shell_buffer (1024)
    MaxArgs,      \* entries of args (30)
    Lines,        \* the lines that are typed
    WordLists,    \* what a line can mean: sequences of words, quoted or not
    MaxLines      \* bound: how many of them

Chars == Letters \cup {Blank, Quote}
Cells == 0 .. BufferSize - 1

ASSUME CommandLineAssumption ==
    /\ BufferSize \in Nat \ {0} /\ MaxArgs \in Nat \ {0} /\ MaxLines \in Nat
    /\ Code \in [Chars -> Nat]
    /\ \A c \in Commands : c \in Seq(Letters) /\ c # <<>>
    /\ \A ws \in WordLists :
           /\ ws \in Seq([text : Seq(Letters \cup {Blank}), quoted : BOOLEAN]) /\ ws # <<>>
           /\ \A k \in DOMAIN ws : ws[k].quoted \/ ws[k].text \in Seq(Letters)
    /\ Nul \notin Chars /\ Blank # Quote /\ {Blank, Quote} \cap Letters = {}
    \* two bytes short of the buffer's end
    /\ \A l \in Lines : l \in Seq(Chars) /\ Len(l) <= BufferSize - 2

VARIABLES
    shell_buffer,
    str, start,   \* tokenize_args' pointers, as indices of shell_buffer
    args,         \* the arguments stored, as indices; only the first arg_counter count
    pc,
    line,         \* history: the line as it was typed
    count         \* lines so far

vars == <<shell_buffer, str, start, args, pc, line, count>>

Init ==
    /\ shell_buffer = [k \in Cells |-> Nul]
    /\ str = 0 /\ start = 0 /\ args = <<>>
    /\ pc = "type" /\ line = <<>> /\ count = 0

\* The listener's stores since the last reset, and the return key.
Type(l) ==
    /\ pc = "type" /\ count < MaxLines
    /\ count' = count + 1 /\ line' = l
    /\ shell_buffer' = [k \in Cells |-> CASE k < Len(l) -> l[k + 1]
                                          [] k = Len(l) -> Nul
                                          [] OTHER -> shell_buffer[k]]
    /\ str' = 0 /\ start' = 0 /\ args' = <<>>
    /\ pc' = "scan"

-----------------------------------------------------------------------------
\* while (*str != 0 && *str != '"') str++, from cell k
StopsAt(stops, k) == CHOOSE c \in k .. BufferSize :
                        /\ c = BufferSize \/ shell_buffer[c] \in stops
                        /\ \A d \in k .. c - 1 : shell_buffer[d] \notin stops

CloseAtQuote == {Quote}
CloseAt == {Nul, Quote}

\* what a string that starts in cell k holds, for strlen, strcmp and the commands
CString(k) == [c \in 1 .. StopsAt({Nul}, k) - k |-> shell_buffer[k + c - 1]]

ScanChar ==
    /\ pc = "scan"
    /\ shell_buffer[str] \in Letters
    /\ str' = str + 1
    /\ UNCHANGED <<shell_buffer, start, args, pc, line, count>>

AtBlank == str
AfterBlank == str + 1

ScanBlank ==
    /\ pc = "scan"
    /\ shell_buffer[str] = Blank
    /\ Len(args) < MaxArgs
    /\ shell_buffer' = [shell_buffer EXCEPT ![str] = Nul]
    /\ args' = Append(args, start)
    /\ start' = AfterBlank /\ str' = str + 1
    /\ UNCHANGED <<pc, line, count>>

\* The pointer stored here is not counted: the next one stored replaces it.
ScanQuote ==
    /\ pc = "scan"
    /\ shell_buffer[str] = Quote
    /\ Len(args) < MaxArgs
    /\ start' = str + 1
    /\ LET close == StopsAt(CloseAt, str + 1)
       IN  /\ shell_buffer' = [k \in Cells |-> IF k = close THEN Nul ELSE shell_buffer[k]]
           /\ str' = close + 1
    /\ UNCHANGED <<args, pc, line, count>>

ScanEnd ==
    /\ pc = "scan"
    /\ shell_buffer[str] = Nul
    /\ Len(args) < MaxArgs
    /\ args' = Append(args, start)
    /\ pc' = "dispatch"
    /\ UNCHANGED <<shell_buffer, str, start, line, count>>

\* args[30] is arg_counter itself: the next store goes anywhere.
ScanPastArgs ==
    /\ pc = "scan"
    /\ shell_buffer[str] \in {Blank, Quote, Nul}
    /\ Len(args) = MaxArgs
    /\ pc' = "lost"
    /\ UNCHANGED <<shell_buffer, str, start, args, line, count>>

-----------------------------------------------------------------------------
Sum(s) == FoldSeq(LAMBDA ch, n : Code[ch] + n, 0, s)

\* strcmp(s, t) == 0
EqualLengths(s, t) == Len(s) = Len(t)
Equal(s, t) == Len(s) = Len(t) /\ Sum(s) = Sum(t)

\* the command that shell_process runs; <<>> for ERROR_INVALID_CMD and an empty line
Chosen == LET fits == {c \in Commands : Equal(CString(args[1]), c)}
          IN  IF fits = {} THEN <<>> ELSE CHOOSE c \in fits : TRUE

Dispatch ==
    /\ pc = "dispatch"
    /\ pc' = "type"
    /\ UNCHANGED <<shell_buffer, str, start, args, line, count>>

Next ==
    \/ \E l \in Lines : Type(l)
    \/ ScanChar \/ ScanBlank \/ ScanQuote \/ ScanEnd \/ ScanPastArgs
    \/ Dispatch

Spec == Init /\ [][Next]_vars

-----------------------------------------------------------------------------
\* The pointers stay in the buffer, whatever is typed on top of whatever was
\* typed before, and no more arguments than fit are counted.
TypeOK ==
    /\ shell_buffer \in [Cells -> Chars \cup {Nul}]
    /\ str \in Cells /\ start \in Cells
    /\ args \in Seq(Cells) /\ Len(args) <= MaxArgs
    /\ pc \in {"type", "scan", "dispatch", "lost"}
    /\ line \in Lines \cup {<<>>}

\* How words are written: apart by one blank, the quoted ones in quotes.
Spelled(w) == IF w.quoted THEN <<Quote>> \o w.text \o <<Quote>> ELSE w.text
Written(ws) == FlattenSeq([k \in DOMAIN ws |->
                   IF k = 1 THEN Spelled(ws[k]) ELSE <<Blank>> \o Spelled(ws[k])])

\* A line of words becomes those words, quotes removed and blanks inside quotes
\* kept, whatever older lines left in the buffer (Usage.md:27-32).
WordsAreArgs ==
    pc = "dispatch" => \A ws \in WordLists : Written(ws) = line =>
        /\ Len(args) = Len(ws)
        /\ \A k \in 1 .. Len(ws) : CString(args[k]) = ws[k].text

\* Whoever types a command gets that command (shell.c 152-158).
CommandRuns ==
    pc = "dispatch" => \A ws \in WordLists :
        Written(ws) = line /\ ws[1].text \in Commands => Chosen = ws[1].text
=============================================================================
