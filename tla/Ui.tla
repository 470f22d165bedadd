--------------------------------- MODULE Ui ---------------------------------
(***************************************************************************)
(* The cells of the screen: boxes side by side in ui_screen_buf, the       *)
(* regions queued for ui_refresh, and the VGA buffer it copies them to.    *)
(* kernel_main draws the boxes, then shell_run's loop, as ShellScreen has  *)
(* it by rows, draws its prompts, answers and typed lines cell by cell.    *)
(* A character is where it comes from; colours are left out.               *)
(***************************************************************************)
EXTENDS ShellScreen, FiniteSets, FiniteSetsExt

CONSTANTS
    VGA_WIDTH, VGA_HEIGHT,
    Boxes,         \* the boxes that kernel_main makes, in the order they are drawn
    ShellBox,      \* the place of the shell's
    Texts,         \* what is put in the others: [box, x, y, length]
    Answers        \* the answers a command has: the lengths of their strings

Box == [x : Nat, y : Nat, w : Nat, h : Nat]
Shell == Boxes[ShellBox]

ASSUME UiAssumption ==
    /\ VGA_WIDTH \in Nat /\ VGA_HEIGHT \in Nat
    /\ Boxes \in Seq(Box) /\ ShellBox \in DOMAIN Boxes
    \* a string has a place in every box, and all of the box one on the screen
    /\ \A p \in DOMAIN Boxes :
           /\ Boxes[p].w > 1 /\ Boxes[p].x + Boxes[p].w < VGA_WIDTH
           /\ Boxes[p].h > 2 /\ Boxes[p].y + Boxes[p].h < VGA_HEIGHT
    /\ Shell.h = Height /\ Shell.w = RowChars + 1 /\ ClearedColumns + 3 < Shell.w
    /\ Texts \in Seq([box : DOMAIN Boxes, x : Nat, y : Nat, length : Nat])

VARIABLES
    ui_screen_buf, buffer,   \* what is drawn, and what is shown
    update_list,             \* the cells of the regions in the list
    answers                  \* history: what the commands answered

ui == <<ui_screen_buf, buffer, update_list>>
uiVars == <<vars, ui, answers>>

Cells == 0 .. VGA_WIDTH * VGA_HEIGHT - 1

Space == <<>>
Prompt == <<"prompt">>
Cursor == <<"cursor">>
Frame == <<"frame">>
Title(p) == <<"title", p>>
Text(n, s, i) == <<n, s, i>>    \* the i-th character of string s of command n; 0: typed

\* the cells in a region as ui_refresh takes it, right and lower edge included; what
\* is past the last row is not on the screen
Region(x, y, w, h) ==
    Cells \cap {j * VGA_WIDTH + i : i \in x .. x + w, j \in y .. y + h}

\* A drawing has what is in ui_screen_buf, what is shown, and what is queued.
Queue(d, cells) == [buf |-> d.buf, vga |-> d.vga, queue |-> d.queue \cup cells]

ui_refresh(d) ==
    [buf |-> d.buf,
     vga |-> [c \in Cells |-> IF c \in d.queue THEN d.buf[c] ELSE d.vga[c]],
     queue |-> {}]

Index(b, x, y) == (b.y + y) * VGA_WIDTH + b.x + x

\* An operation is the characters that it puts, by cells, and the cells it queues:
\* ui_putch_int for each of them
Put(chars) ==
    [puts |-> chars,
     cells |-> Cells \cap UNION {{c, c + 1, c + VGA_WIDTH, c + VGA_WIDTH + 1} : c \in DOMAIN chars}]

\* what operations leave of a drawing: the last that puts a character in a cell wins
Draw(d, ops) ==
    LET writers(c) == {k \in DOMAIN ops : c \in DOMAIN ops[k].puts}
    IN  [buf |-> [c \in Cells |->
                     IF writers(c) = {} THEN d.buf[c] ELSE ops[Max(writers(c))].puts[c]],
         vga |-> d.vga,
         queue |-> d.queue \cup UNION {ops[k].cells : k \in DOMAIN ops}]

ui_putch(b, x, y, ch) == Put([c \in {Index(b, x + 1, y + 1)} |-> ch])

\* where the i-th character of a string goes that starts at column x of row y
Breaks(b, x, i) == Cardinality({j \in 0 .. i : (x + j) % (b.w - 1) = 0})
AtFrame(b, x, y, i) ==
    Index(b, ((x + i) % b.w) + 1, ((y + Breaks(b, x, i)) % (b.h - 2)) + 1)
At(b, x, y, i) ==
    Index(b, ((x + i) % (b.w - 1)) + 1, ((y + Breaks(b, x, i)) % (b.h - 2)) + 1)

ui_putstr(b, x, y, str) ==
    LET at == [i \in DOMAIN str |-> At(b, x, y, i - 1)]
    IN  Put([c \in {at[i] : i \in DOMAIN str} |-> str[Max({i \in DOMAIN str : at[i] = c})]])

LineBreaks(b, x, length) == IF length = 0 THEN 0 ELSE Breaks(b, x, length - 1)
Lines(b, x, length) == IF length = 0 THEN 1 ELSE 1 + Breaks(b, x, length - 1)

ui_fill(b) ==
    [puts |-> [c \in {Index(b, i, j) : i \in 1 .. b.w - 1, j \in 1 .. b.h - 1} |-> Space],
     cells |-> Region(b.x, b.y, b.w, b.h)]

ui_box(title, b) ==
    LET edge == {Index(b, i, j) : i \in {0, b.w}, j \in 0 .. b.h}
                \cup {Index(b, i, j) : i \in 0 .. b.w, j \in {0, b.h}}
        framed == Put([c \in edge |-> IF c = Index(b, 1, 0) THEN Title(title) ELSE Frame])
        filled == ui_fill(b)
        inside == DOMAIN filled.puts
    IN  [puts |-> [c \in edge \cup inside |->
                      IF c \in inside THEN filled.puts[c] ELSE framed.puts[c]],
         cells |-> framed.cells \cup filled.cells]

\* clears w columns of a row; the region it also queues is not where the cells are
ui_clear_rv(b, x, y, w) ==
    LET cleared == Put([c \in {Index(b, i + 1, y + 1) : i \in x .. x + w - 1} |-> Space])
    IN  [cleared EXCEPT !.cells = @ \cup Region(x, y, w, 1)]

ScrollQueues(d, b) == Queue(d, Region(b.x, b.y, b.w, b.h))
ScrollRefreshes(d, b) == ui_refresh(Queue(d, Region(b.x, b.y, b.w, b.h)))

\* The last row and the last column inside the frame do not move.
ui_scroll_vertical(d, b) ==
    LET e == ui_refresh(d)
        moved == {Index(b, i, j) : i \in 1 .. b.w - 2, j \in 1 .. b.h - 3}
        emptied == {Index(b, i, b.h - 2) : i \in 1 .. b.w - 2}
        rows == [c \in Cells |-> IF c \in moved THEN e.buf[c + VGA_WIDTH]
                                 ELSE IF c \in emptied THEN Space ELSE e.buf[c]]
    IN  ScrollRefreshes([buf |-> rows, vga |-> e.vga, queue |-> {}], b)

ui_scroll_vertical_n(d, b, n) ==
    LET scrolled[k \in 0 .. n] == IF k = 0 THEN d ELSE ui_scroll_vertical(scrolled[k - 1], b)
    IN  IF n <= 0 \/ n >= b.h - 1 THEN d ELSE scrolled[n]

-----------------------------------------------------------------------------
Screen == [buf |-> ui_screen_buf, vga |-> buffer, queue |-> update_list]
Show(d) == ui_screen_buf' = d.buf /\ buffer' = d.vga /\ update_list' = d.queue

String(n, s, length) == [i \in 1 .. length |-> Text(n, s, i)]

\* kernel_main's drawing, and shell_run's of its own box again; the text of another
\* box is that of a command that was never typed
Booted ==
    LET zero == [c \in Cells |-> Space]
        boxes == [p \in DOMAIN Boxes |-> ui_box(p, Boxes[p])]
        texts == [i \in DOMAIN Texts |->
                    ui_putstr(Boxes[Texts[i].box], Texts[i].x, Texts[i].y,
                              String(-1, i, Texts[i].length))]
        drawn == Draw([buf |-> zero, vga |-> zero, queue |-> {}], boxes \o texts)
    IN  Draw(ui_refresh(drawn), <<ui_box(ShellBox, Shell)>>)

UiInit ==
    /\ Init
    /\ ui_screen_buf = Booted.buf /\ buffer = Booted.vga /\ update_list = Booted.queue
    /\ answers = <<>>

WithPrompt == Draw(Screen, <<ui_putch(Shell, 0, current_line, Prompt)>>)

\* the rows before the s-th string of an answer
RowsBefore(strings, s) ==
    LET rows[t \in 1 .. Len(strings) + 1] ==
            IF t = 1 THEN 0 ELSE rows[t - 1] + Lines(Shell, 2, strings[t - 1])
    IN  rows[s]
RowsOf(strings) == RowsBefore(strings, Len(strings) + 1)

\* shell_run's rows are those that ShellScreen's answers have
ASSUME AnswersAssumption ==
    \A strings \in Answers : strings \in Seq(Nat) /\ RowsOf(strings) \in 0 .. MaxAnswer

UiEnter(strings) ==
    LET k == RowsOf(strings)
        line == current_line + 1
        drawn == Draw(WithPrompt,
                      [s \in DOMAIN strings |->
                          ui_putstr(Shell, 2, line + RowsBefore(strings, s),
                                    String(commands, s, strings[s]))])
    IN  /\ Enter(k)
        /\ Show(IF Scrolls(line, k) THEN ui_scroll_vertical_n(drawn, Shell, k + 1) ELSE drawn)
        /\ answers' = Append(answers, strings)

UiClear ==
    /\ Clear
    /\ Show(ui_scroll_vertical_n(WithPrompt, Shell, current_line + 1))
    /\ answers' = Append(answers, <<>>)

UiNoReturn == NoReturn /\ Show(WithPrompt) /\ UNCHANGED answers

\* ui_putstr wraps the typed line, ui_putch the cursor behind it does not.
CursorOnScreen(length) == Index(Shell, 3 + length, current_line + 1) \in Cells

UiRedraw(backspace, other, length) ==
    LET typed == ui_putstr(Shell, 2, current_line, String(commands, 0, length))
        cleared == ui_clear_rv(Shell, 2, current_line, ClearedColumns)
        keys == (IF backspace THEN <<cleared, typed>> ELSE <<>>)
                \o (IF other THEN <<typed>> ELSE <<>>)
    IN  /\ CursorOnScreen(length)
        /\ Redraw(backspace, other, length)
        /\ Show(Draw(Screen, Append(keys, ui_putch(Shell, 2 + length, current_line, Cursor))))
        /\ UNCHANGED answers

UiRedrawOverflows(backspace, other, length) ==
    RedrawOverflows(backspace, other, length) /\ UNCHANGED <<ui, answers>>

UiRedrawLeavesScreen(backspace, other, length) ==
    /\ ~CursorOnScreen(length)
    /\ RedrawLeavesScreen(backspace, other, length)
    /\ UNCHANGED <<ui, answers>>

UiRefresh == Refresh /\ Show(ui_refresh(Screen)) /\ UNCHANGED answers

UiLost == Lost /\ UNCHANGED <<ui, answers>>

UiNext ==
    \/ \E strings \in Answers : UiEnter(strings)
    \/ UiClear \/ UiNoReturn
    \/ \E backspace, other \in BOOLEAN, length \in TypedLengths :
           \/ UiRedraw(backspace, other, length)
           \/ UiRedrawOverflows(backspace, other, length)
           \/ UiRedrawLeavesScreen(backspace, other, length)
    \/ UiRefresh \/ UiLost

UiSpec == UiInit /\ [][UiNext]_uiVars

-----------------------------------------------------------------------------
\* What is drawn is shown once nothing is queued: no drawing changes a cell that
\* it does not queue (ui.c 56, 107, 115, 151), though the regions are of any kind.
ShownIsDrawn == update_list_len = 0 => buffer = ui_screen_buf

Cell(r, column) == ui_screen_buf[Index(Shell, column + 1, r + 1)]

\* The i-th row of an answer to the n-th line, column by column: the string that it is a
\* row of begins at column 2, and goes on at column 0 of the rows that follow.
StringOf(strings, i) ==
    CHOOSE s \in DOMAIN strings :
        i - 1 \in RowsBefore(strings, s) .. RowsBefore(strings, s + 1) - 1
AnswerAt(strings, n, i, column) ==
    LET s == StringOf(strings, i)
        at == column - 2 + (i - 1 - RowsBefore(strings, s)) * (Shell.w - 1) + 1
    IN  IF at \in 1 .. strings[s] THEN Text(n, s, at) ELSE Space

\* the n-th line: the prompt comes with the next turn, and the first turn's line may
\* be entered before anything else of it is drawn
TypedShows(n, r) ==
    /\ Cell(r, 0) = Prompt \/ (r = current_line /\ Cell(r, 0) = Space)
    /\ \/ \E length \in TypedLengths : \A column \in 1 .. ClearedColumns + 1 :
              Cell(r, column) = IF column \in 2 .. length + 1 THEN Text(n, 0, column - 1)
                                ELSE IF column = length + 2 THEN Cursor ELSE Space
       \/ /\ n = 0
          /\ \A column \in 1 .. Shell.w - 3 : Cell(r, column) = Space

\* The rows that ShellScreen has are what the cells show, and nothing of an older
\* row is left between them: up to the column that scrolling leaves alone (ui.c 145)
\* and, in typed lines, the columns that a backspace clears (shell.c 107).  Typed lines
\* that leave their rows are not told apart.
CellsShowRows ==
    pc = "prompt" /\ ~overrun /\ ~wrapped => \A r \in Rows :
        IF screen[r] = Blank \/ screen[r][2] > 0
        THEN \A column \in 0 .. Shell.w - 3 :
                 Cell(r, column) =
                     IF screen[r] = Blank THEN Space
                     ELSE AnswerAt(answers[screen[r][1] + 1], screen[r][1], screen[r][2], column)
        ELSE TypedShows(screen[r][1], r)

\* Whatever the shell draws, the frames, the titles and the other panes stay: text wraps
\* inside the shell's box and scrolling moves nothing else.  Only the cursor (shell.c 115)
\* goes there, when a typed line was too long for its row.
PanesStay ==
    \A c \in Cells \ {Index(Shell, i, j) : i \in 1 .. Shell.w - 1, j \in 1 .. Shell.h - 1} :
        \/ ui_screen_buf[c] = Booted.buf[c]
        \/ wrapped /\ ui_screen_buf[c] = Cursor
=============================================================================
