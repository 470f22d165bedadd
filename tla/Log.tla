--------------------------------- MODULE Log ---------------------------------
(***************************************************************************)
(* The log on the serial port (log.c, serial.c).  A call formats its text  *)
(* into a static buffer of log.c, formats the line with it into the static *)
(* buffer of serial_printf, and sends that up to its zero, character by    *)
(* character.  Interrupt handlers log too (the mouse handler, the Tab key, *)
(* a full shell buffer), through the same buffers, between any two         *)
(* characters of the kernel's own call and between any two digits of a     *)
(* number that it formats; a handler is not interrupted.  No store looks   *)
(* at the end of its buffer: the phase "lost" is what comes after one that *)
(* went past it.                                                           *)
(***************************************************************************)
EXTENDS Printf

CONSTANTS
    Calls,          \* the kernel's calls: [kind, cat, text], text as of IsCall
    HandlerCalls,   \* [cat, text] of the calls in interrupt handlers
    FormatCases,    \* texts for k_sprintf, by the type of their arguments
    Alphabet,       \* the characters of texts
    LogSize,        \* characters in the buffers of log_info and log_line (1000)
    GroupSize,      \* in log_buf (500)
    SerialSize,     \* in serial_printf's buffer (1000)
    TextSize,       \* a longer text, or a frame that has no place for one, is long
    LineLimit,      \* log_line starts a new line from this length on (50)
    MaxCalls, MaxInterrupts, MaxGroups    \* bounds of the model

ASSUME LogAssumption ==
    /\ LogSize \in Nat /\ GroupSize \in Nat /\ SerialSize \in Nat \ {0} /\ LineLimit \in Nat
    /\ TextSize \in Nat /\ TextSize < LogSize /\ TextSize < GroupSize
    /\ MaxCalls \in Nat /\ MaxInterrupts \in Nat /\ MaxGroups \in Nat
    /\ "NUL" \notin Alphabet
    /\ \A c \in Calls \cup HandlerCalls :
          /\ c.cat \in Seq(Alphabet) /\ IsCall(c.text, Alphabet)
          /\ Formatted(c.text) \in Seq(Alphabet \cup {"NUL"})
          /\ LeftBehind(c.text) \in Seq(Alphabet \cup {"NUL"})
    /\ \A c \in Calls : c.kind \in {"info", "group_begin", "group_end", "line_begin", "line_end", "line"}
    /\ \A k \in DOMAIN FormatCases : \A t \in FormatCases[k] : IsCall(t, Alphabet)

VARIABLES
    group_level, line_length,
    call,           \* the call in progress
    phase,          \* "idle", "sprintf", "text", "head", "copy", "tail", "send", "lost"
    lines,          \* what is still to be printed of it: [head, copies, tail]
    text,           \* what its format and arguments give, and handlers make of it
    from,           \* place in the source of the current loop
    to,             \* place in serial_printf's buffer
    logBuf,         \* log_info's and log_line's buf; log_buf
    serialBuf,      \* serial_printf's buf
    wire,           \* what the port sent since the call began
    calls, interrupts,
    disturbed,      \* (history) an interrupt came into this call
    long            \* (history) this call is long, or the one of such an interrupt

counters == <<calls, interrupts, disturbed, long>>
logVars == <<group_level, line_length, call, phase, lines, text, from, to, logBuf, serialBuf,
             wire, calls, interrupts, disturbed, long>>

Kinds == {"info", "group_begin", "group_end", "line_begin", "line_end", "line"}
\* log_info has a buffer of its own, so has log_line; the others share log_buf
BufferOf(kind) == CASE kind \in {"info", "line"} -> kind [] OTHER -> "group"
Places(b) == 1 .. (IF b = "group" THEN GroupSize ELSE LogSize)
SerialPlaces == 1 .. SerialSize

NoCall == [kind |-> "none", cat |-> <<>>, text |-> <<>>]
Zeros(places) == [k \in places |-> "NUL"]

LogInit ==
    /\ group_level = 0 /\ line_length = 0
    /\ call = NoCall /\ phase = "idle" /\ lines = <<>> /\ text = <<>>
    /\ from = 1 /\ to = 1
    /\ logBuf = [b \in {"info", "line", "group"} |-> Zeros(Places(b))]
    /\ serialBuf = Zeros(SerialPlaces)
    /\ wire = <<>>
    /\ calls = 0 /\ interrupts = 0 /\ disturbed = FALSE /\ long = FALSE

-----------------------------------------------------------------------------
Indent(level) == Times(4 * level, " ")
Line(head, copies, tail) == [head |-> head, copies |-> copies, tail |-> tail]
Bracketed(cat) == <<"[">> \o cat \o <<"]">>

\* The serial_printf calls of each function of log.c: what stands before and
\* after the text that they copy out of the buffer.
LinesFor(c, level, length) ==
    CASE c.kind = "info" -> <<Line(Indent(level) \o Bracketed(c.cat), TRUE, <<"\n">>)>>
      [] c.kind \in {"group_begin", "group_end"} ->
            <<Line(Indent(level) \o <<"[">>, TRUE, <<"]", "\n">>)>>
      [] c.kind = "line_begin" ->
            <<Line(Indent(level) \o <<"[">>, TRUE, <<"]", " ", "{", "\n">>)>>
      [] c.kind = "line_end" ->
            <<Line(<<"\n">>, FALSE, <<>>),
              Line(Indent(level) \o <<"}", " ", "[">>, TRUE, <<"]", "\n">>)>>
      [] c.kind = "line" ->
            (IF length >= LineLimit THEN <<Line(<<"\n">>, FALSE, <<>>)>> ELSE <<>>)
            \o (IF length >= LineLimit \/ length = 0
                THEN <<Line(Indent(level + 1), FALSE, <<>>)>> ELSE <<>>)
            \o <<Line(<<>>, TRUE, <<" ">>)>>

\* A text is short if it has at most TextSize characters; a line has place for such
\* a text, and for its zero.
Roomy(line) ==
    Len(line.head) + (IF line.copies THEN TextSize ELSE 0) + Len(line.tail) < SerialSize
Long(printed, ls) == Len(printed) > TextSize \/ \E k \in DOMAIN ls : ~Roomy(ls[k])

\* log_group_end counts down before it prints, log_group_begin up afterwards
LevelPrintedEndStill(c) == group_level
LevelPrinted(c) == IF c.kind = "group_end" THEN group_level - 1 ELSE group_level

Begin(c) ==
    /\ phase = "idle" /\ calls < MaxCalls
    /\ c.kind = "group_begin" => group_level < MaxGroups
    /\ c.kind = "group_end" => group_level > 0
    /\ call' = c /\ phase' = "text"
    /\ text' = Formatted(c.text)
    /\ lines' = LinesFor(c, LevelPrinted(c), line_length)
    /\ from' = 1 /\ to' = 1 /\ wire' = <<>>
    /\ calls' = calls + 1 /\ disturbed' = FALSE /\ long' = Long(text', lines')
    /\ UNCHANGED <<group_level, line_length, logBuf, serialBuf, interrupts>>

\* k_sprintf: the text goes into a buffer of the caller's own; as its only
\* effect is its text, the model calls it first.
Sprintf ==
    /\ phase = "idle" /\ calls = 0
    /\ phase' = "sprintf"
    /\ \E k \in DOMAIN FormatCases : \E t \in FormatCases[k] :
          /\ call' = [NoCall EXCEPT !.kind = "sprintf", !.text = t]
          /\ text' = Formatted(t)
    /\ calls' = MaxCalls
    /\ UNCHANGED <<group_level, line_length, lines, from, to, logBuf, serialBuf, wire,
                   interrupts, disturbed, long>>

SprintfReturns ==
    /\ phase = "sprintf" /\ phase' = "idle"
    /\ UNCHANGED <<group_level, line_length, call, lines, text, from, to, logBuf, serialBuf, wire,
                   counters>>

\* where %s and serial_write_str stop
EndsWithLine(c) == c = "\n"
Ends(c) == c = "NUL"

Put(buf, k, c) == [buf EXCEPT ![k] = c]

\* k_vsprintf stores the text, then the zero; log_group_end counts down then.
StoreText ==
    /\ phase = "text" /\ from \in Places(BufferOf(call.kind))
    /\ logBuf' = [logBuf EXCEPT ![BufferOf(call.kind)] = Put(@, from, CharAt(text, from))]
    /\ IF from <= Len(text) THEN from' = from + 1 /\ UNCHANGED <<phase, group_level>>
       ELSE /\ from' = 1 /\ phase' = "head"
            /\ group_level' = IF call.kind = "group_end" THEN group_level - 1 ELSE group_level
    /\ UNCHANGED <<line_length, call, lines, text, to, serialBuf, wire, counters>>

\* serial_printf's k_vsprintf: the head, the characters of the other buffer up
\* to its zero, the tail, the zero
StoreHead ==
    /\ phase = "head" /\ to \in SerialPlaces
    /\ IF from <= Len(Head(lines).head)
       THEN /\ serialBuf' = Put(serialBuf, to, Head(lines).head[from])
            /\ from' = from + 1 /\ to' = to + 1 /\ phase' = phase
       ELSE /\ phase' = (IF Head(lines).copies THEN "copy" ELSE "tail")
            /\ from' = 1 /\ UNCHANGED <<to, serialBuf>>
    /\ UNCHANGED <<group_level, line_length, call, lines, text, logBuf, wire, counters>>

CopyText ==
    /\ phase = "copy" /\ to \in SerialPlaces
    /\ LET c == logBuf[BufferOf(call.kind)][from]
       IN  IF ~Ends(c)
           THEN /\ serialBuf' = Put(serialBuf, to, c)
                /\ from' = from + 1 /\ to' = to + 1 /\ phase' = phase
           ELSE phase' = "tail" /\ from' = 1 /\ UNCHANGED <<to, serialBuf>>
    /\ UNCHANGED <<group_level, line_length, call, lines, text, logBuf, wire, counters>>

StoreTail ==
    /\ phase = "tail" /\ to \in SerialPlaces
    /\ IF from <= Len(Head(lines).tail)
       THEN /\ serialBuf' = Put(serialBuf, to, Head(lines).tail[from])
            /\ from' = from + 1 /\ to' = to + 1 /\ phase' = phase
       ELSE /\ serialBuf' = Put(serialBuf, to, "NUL")
            /\ from' = 1 /\ phase' = "send" /\ to' = to
    /\ UNCHANGED <<group_level, line_length, call, lines, text, logBuf, wire, counters>>

\* The next store, of a character or at last of the zero, is past the buffer's end.
\* What it overwrites is not modelled.
Overflows ==
    /\ \/ phase = "text" /\ from \notin Places(BufferOf(call.kind))
       \/ phase \in {"head", "copy", "tail"} /\ to \notin SerialPlaces
    /\ phase' = "lost"
    /\ UNCHANGED <<group_level, line_length, call, lines, text, from, to, logBuf, serialBuf, wire,
                   counters>>

\* serial_write_str; then the next serial_printf of the call, or its end, where
\* the counters of log.c are set
Send ==
    /\ phase = "send"
    /\ ~Ends(serialBuf[from])
    /\ wire' = Append(wire, serialBuf[from])
    /\ from' = from + 1
    /\ UNCHANGED <<group_level, line_length, call, phase, lines, text, to, logBuf, serialBuf,
                   counters>>

LineLength ==
    CASE call.kind = "line_begin" -> 0
      [] call.kind = "line" ->
            (IF line_length >= LineLimit /\ Len(lines) > 1 THEN 0 ELSE line_length)
            + (IF Len(lines) = 1 THEN from - 1 ELSE 0)
      [] OTHER -> line_length

Sent ==
    /\ phase = "send"
    /\ Ends(serialBuf[from])
    /\ lines' = Tail(lines)
    /\ from' = 1 /\ to' = 1
    /\ line_length' = LineLength
    /\ IF Len(lines) > 1
       THEN phase' = "head" /\ UNCHANGED group_level
       ELSE /\ phase' = "idle"
            /\ group_level' = group_level + (IF call.kind = "group_begin" THEN 1 ELSE 0)
    /\ UNCHANGED <<call, text, logBuf, serialBuf, wire, counters>>

\* what %s copies of a text: the digits of a negative number may hold a zero
UpToZero(t) == SubSeq(t, 1, Skip(t, 1, Alphabet) - 1)

\* A handler's log_info, whole: its text and its line replace what the buffers
\* begin with, if they have place for them, and the line is sent.  Its numbers can
\* get into the one that is just being formatted.
Replace(buf, new) ==
    [k \in DOMAIN buf |->
        IF k <= Len(new) THEN new[k] ELSE IF k = Len(new) + 1 THEN "NUL" ELSE buf[k]]

Formatting(h) ==
    IF phase \notin {"text", "sprintf"} THEN {}
    ELSE Garbled(call.text, text, IF phase = "text" THEN {from - 1} ELSE Nat, LeftBehind(h.text))

HandlerLine(h) == Line(Indent(group_level) \o Bracketed(h.cat), TRUE, <<"\n">>)

Interrupt(h) ==
    /\ phase \notin {"idle", "lost"} /\ interrupts < MaxInterrupts
    /\ LET new == Formatted(h.text)
           line == HandlerLine(h).head \o UpToZero(new) \o HandlerLine(h).tail
       IN  /\ IF Len(new) < LogSize /\ Len(line) < SerialSize
              THEN /\ logBuf' = [logBuf EXCEPT !["info"] = Replace(@, new)]
                   /\ serialBuf' = Replace(serialBuf, line)
                   /\ wire' = wire \o line
                   /\ phase' = phase
              ELSE phase' = "lost" /\ UNCHANGED <<logBuf, serialBuf, wire>>
           /\ long' = (long \/ Long(new, <<HandlerLine(h)>>))
    /\ text' \in {text} \cup Formatting(h)
    /\ interrupts' = interrupts + 1 /\ disturbed' = TRUE
    /\ UNCHANGED <<group_level, line_length, call, lines, from, to, calls>>

LogNext ==
    \/ \E c \in Calls : Begin(c)
    \/ Sprintf \/ SprintfReturns
    \/ StoreText \/ StoreHead \/ CopyText \/ StoreTail \/ Overflows \/ Send \/ Sent
    \/ \E h \in HandlerCalls : Interrupt(h)

LogSpec == LogInit /\ [][LogNext]_logVars

-----------------------------------------------------------------------------
\* k_vsprintf (printf.c 150-272) writes what C says for every call that it is
\* meant for (Supported): widths, arguments taken for them, and several conversions
\* in a row.  When a handler gets in between, the text still has C's length.
FormatsLikeC ==
    AllSupported(call.text) =>
        /\ Len(text) = Len(TextOf(call.text))
        /\ ~disturbed => text = TextOf(call.text)

\* A call of supported conversions into which no handler logged has sent its text
\* as C prints it, in the frame of its kind, indented by four for every group around
\* it (log.c 12-80).
Printed(c) ==
    LET body == TextOf(c.text)
    IN  CASE c.kind = "info" -> Bracketed(c.cat) \o body \o <<"\n">>
          [] c.kind \in {"group_begin", "group_end"} -> Bracketed(body) \o <<"\n">>
          [] c.kind = "line_begin" -> Bracketed(body) \o <<" ", "{", "\n">>
          [] c.kind = "line_end" -> <<"}", " ">> \o Bracketed(body) \o <<"\n">>
          [] c.kind = "line" -> body \o <<" ">>
Around == IF call.kind = "group_begin" THEN group_level - 1
          ELSE IF call.kind = "line" THEN group_level + 1 ELSE group_level
LinesAreRight ==
    (phase = "idle" /\ call.kind \in Kinds /\ AllSupported(call.text) /\ ~disturbed) =>
        \E breaks \in 0 .. 1, indents \in 0 .. 1 :
            /\ (indents = 0 => call.kind = "line" /\ breaks = 0)
            /\ (breaks = 1 => call.kind \in {"line", "line_end"})
            /\ wire = Times(breaks, "\n") \o Times(indents * 4 * Around, " ") \o Printed(call)

\* However the handlers change the buffers meanwhile, no store goes past the end of a
\* buffer, unless the call itself, or one of a handler that came into it, has a text
\* of more than TextSize characters or a frame without place for that many: texts
\* that are mixed up in a shared buffer do not add up.  And the loops that read a
\* buffer have a zero before them.
StaysInBuffers ==
    /\ phase = "lost" => long
    /\ phase = "copy" => \E k \in Places(BufferOf(call.kind)) :
                             k >= from /\ logBuf[BufferOf(call.kind)][k] = "NUL"
    /\ phase = "send" => \E k \in SerialPlaces : k >= from /\ serialBuf[k] = "NUL"

=============================================================================
