---------------------------- MODULE ShellScreen ----------------------------
(***************************************************************************)
(* The rows of the shell's box: where shell_run draws prompts and answers, *)
(* when it scrolls, and the queue of changed regions that ui_refresh       *)
(* empties.  A row is one entry, the line of an answer or a typed line,    *)
(* which may go on in the rows below.  Nothing checks how many entries the *)
(* queue has, nor where the cursor behind the typed line is put.           *)
(***************************************************************************)
EXTENDS Integers, Sequences, SequencesExt

CONSTANTS
    Height,          \* of the box, frame included (13)
    ScrollFrom,      \* the line at which shell_run scrolls (10)
    MaxAnswer,       \* rows an answer can have (10)
    RowChars,        \* columns of a row (58)
    TypedLengths,    \* of a typed line when it is drawn (0 to 1024)
    ClearedColumns,  \* columns cleared after a backspace (50)
    BoxUpdates,      \* entries that the box's own drawing makes (150)
    MaxUpdates,      \* entries of update_list (1000)
    Blank,           \* an empty row
    MaxCommands      \* bound

Rows == 0 .. Height - 3     \* those that ui_putstr fills and scrolling moves

ASSUME ShellScreenAssumption ==
    /\ Height \in Nat /\ Height >= 4
    /\ ScrollFrom \in 2 .. Height - 3
    /\ MaxAnswer \in 0 .. Height - 3
    /\ {RowChars, ClearedColumns, BoxUpdates, MaxUpdates, MaxCommands} \subseteq Nat
    /\ TypedLengths \subseteq Nat
    /\ BoxUpdates > 0 /\ RowChars > 2
    \* the box, a prompt and the longest answer
    /\ BoxUpdates + 1 + MaxAnswer * RowChars <= MaxUpdates
    /\ Blank \notin (0 .. MaxCommands) \X (0 .. MaxAnswer)

VARIABLES
    screen,           \* the box's part of ui_screen_buf, by rows
    current_line,
    update_list_len,
    pc,               \* the part of the loop that is next, or what has gone wrong
    shown,            \* characters of the typed line that are drawn
    transcript,       \* history: the lines typed and answered since the last clear
    overrun,          \* history: an answer went past the last row since then
    wrapped,          \* history: a typed line, or its cursor, left its row
    commands          \* history: lines entered

vars == <<screen, current_line, update_list_len, pc, shown, transcript, overrun, wrapped,
          commands>>

Line(n, i) == <<n, i>>      \* i = 0: the n-th line typed; else line i of its answer

Init ==
    /\ screen = [r \in Rows |-> Blank]
    /\ current_line = 0 /\ update_list_len = BoxUpdates
    /\ pc = "prompt" /\ shown = 0
    /\ transcript = <<>> /\ overrun = FALSE /\ wrapped = FALSE /\ commands = 0

-----------------------------------------------------------------------------
\* every turn of the loop starts with the prompt's '>'
Prompted == [screen EXCEPT ![current_line] = Line(commands, 0)]

\* ui_putstr for the k lines of an answer, from row y on: it goes on at the top
Written(y, k, n) ==
    [r \in Rows |->
        LET here == {i \in 1 .. k : (y + i - 1) % (Height - 2) = r}
        IN  IF here = {} THEN Prompted[r]
            ELSE Line(n, CHOOSE i \in here : \A j \in here : j <= i)]

\* ui_scroll_vertical_n: refuses to empty the box
ScrolledOnce(s, n) ==
    [r \in Rows |-> IF r + 1 \in Rows THEN s[r + 1] ELSE Blank]
Scrolled(s, n) ==
    IF n <= 0 \/ n >= Height - 1 THEN s
    ELSE [r \in Rows |-> IF r + n \in Rows THEN s[r + n] ELSE Blank]

Scrolls(line, k) == line + k >= ScrollFrom

Recent(s) == IF Len(s) <= Height THEN s ELSE SubSeq(s, Len(s) - Height + 1, Len(s))

\* The return key: a command answers with k rows, none for an empty line.
Enter(k) ==
    LET line == current_line + 1
        drawn == Written(line, k, commands)
    IN  /\ pc = "prompt" /\ commands < MaxCommands
        /\ IF Scrolls(line, k)
           THEN /\ screen' = Scrolled(drawn, k + 1)
                /\ current_line' = line - 1
                /\ update_list_len' = 0
           ELSE /\ screen' = drawn
                /\ current_line' = line + k
                /\ update_list_len' = update_list_len + 1 + k * RowChars
        /\ transcript' = Recent(transcript \o [i \in 1 .. k + 1 |-> Line(commands, i - 1)])
        /\ overrun' = (overrun \/ line + k - 1 \notin Rows)
        /\ commands' = commands + 1
        /\ pc' = "answered" /\ shown' = 0
        /\ UNCHANGED wrapped

\* the command clear
Clear ==
    /\ pc = "prompt" /\ commands < MaxCommands
    /\ screen' = Scrolled(Prompted, current_line + 1)
    /\ current_line' = 0
    /\ update_list_len' = 0
    /\ transcript' = <<>> /\ overrun' = FALSE
    /\ commands' = commands + 1
    /\ pc' = "answered" /\ shown' = 0
    /\ UNCHANGED wrapped

NoReturn ==
    /\ pc = "prompt"
    /\ screen' = Prompted
    /\ update_list_len' = update_list_len + 1
    /\ pc' = "answered"
    /\ UNCHANGED <<current_line, shown, transcript, overrun, wrapped, commands>>

\* What keys ask for: backspaces a clearing and a redraw, others a redraw; then the
\* cursor.  length is what strlen gives.
Asked(backspace, other, length) ==
    /\ pc = "answered"
    /\ ~backspace => length >= shown
    /\ ~other => length <= shown

Entries(backspace, other, length) ==
    1 + (IF backspace THEN ClearedColumns + 1 + length ELSE 0) + (IF other THEN length ELSE 0)

\* the rows that a typed line goes on in, from column 2 of its first row on
TypedRows(length) ==
    {(current_line + i) % (Height - 2) : i \in 0 .. (length + 1) \div RowChars}

\* the cursor does not wrap
LeavesRow(length) == length + 3 > RowChars

Redraw(backspace, other, length) ==
    /\ Asked(backspace, other, length)
    /\ update_list_len + Entries(backspace, other, length) <= MaxUpdates
    /\ screen' = [r \in Rows |->
                     IF r = current_line \/ ((backspace \/ other) /\ r \in TypedRows(length))
                     THEN Line(commands, 0) ELSE screen[r]]
    /\ update_list_len' = update_list_len + Entries(backspace, other, length)
    /\ pc' = "refresh" /\ shown' = length
    /\ wrapped' = (wrapped \/ LeavesRow(length))
    /\ UNCHANGED <<current_line, transcript, overrun, commands>>

\* Entries past the end of update_list: what is there is not known, nor what follows.
RedrawOverflows(backspace, other, length) ==
    /\ Asked(backspace, other, length)
    /\ update_list_len + Entries(backspace, other, length) > MaxUpdates
    /\ pc' = "overflow" /\ shown' = length
    /\ UNCHANGED <<screen, current_line, update_list_len, transcript, overrun, wrapped, commands>>

\* A cursor past the end of ui_screen_buf: which line's is there, Ui has.
RedrawLeavesScreen(backspace, other, length) ==
    /\ Asked(backspace, other, length)
    /\ LeavesRow(length)
    /\ pc' = "off_screen" /\ shown' = length
    /\ UNCHANGED <<screen, current_line, update_list_len, transcript, overrun, wrapped, commands>>

Lost == pc \in {"overflow", "off_screen"} /\ UNCHANGED vars

RefreshForgetsLength == UNCHANGED update_list_len
RefreshEmpties == update_list_len' = 0

Refresh ==
    /\ pc = "refresh"
    /\ RefreshEmpties
    /\ pc' = "prompt"
    /\ UNCHANGED <<screen, current_line, shown, transcript, overrun, wrapped, commands>>

Next ==
    \/ \E k \in 0 .. MaxAnswer : Enter(k)
    \/ Clear \/ NoReturn
    \/ \E backspace, other \in BOOLEAN, length \in TypedLengths :
           \/ Redraw(backspace, other, length)
           \/ RedrawOverflows(backspace, other, length)
           \/ RedrawLeavesScreen(backspace, other, length)
    \/ Refresh \/ Lost

Spec == Init /\ [][Next]_vars

-----------------------------------------------------------------------------
\* The prompt stays in the rows that scroll.
TypeOK ==
    /\ screen \in [Rows -> {Blank} \cup (0 .. MaxCommands) \X (0 .. MaxAnswer)]
    /\ current_line \in 0 .. ScrollFrom - 1
    /\ pc \in {"prompt", "answered", "refresh", "overflow", "off_screen"}
    /\ shown \in TypedLengths \cup {0}
    /\ commands \in 0 .. MaxCommands

\* The longest typed line for which there is an entry for everything a turn can draw:
\* the box, a prompt, an answer that does not scroll, the columns that a backspace
\* clears, the line twice and the cursor.
LineThatFits ==
    (MaxUpdates - (BoxUpdates + 1 + (ScrollFrom - 2) * RowChars) - (ClearedColumns + 2)) \div 2

\* update_list is filled without a check (ui.c:56): no order of commands, backspaces and
\* keys exceeds it before a line of more than LineThatFits characters is drawn (166 with
\* the sizes of the code; shell_buffer has 1024).
QueueFits == pc = "overflow" => shown > LineThatFits

\* Above the prompt are the last lines of the transcript, in order and without a
\* gap, below it nothing: as long as no answer was longer than what was left of
\* the box below the prompt, and no typed line longer than its row.
ScreenIsTail ==
    pc = "prompt" /\ ~overrun /\ ~wrapped => \A r \in Rows :
        CASE r < current_line -> screen[r] = transcript[Len(transcript) - current_line + 1 + r]
          [] r = current_line -> screen[r] \in {Blank, Line(commands, 0)}
          [] OTHER -> screen[r] = Blank
=============================================================================
