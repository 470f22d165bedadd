----------------------------- MODULE ShellInput -----------------------------
(***************************************************************************)
(* The line being typed: the keyboard interrupt changes shell_buffer, its  *)
(* index and three flags (shell_keyboard_listener) between any two steps   *)
(* of the loop that draws the line and executes it (shell_run).  An        *)
(* interrupt runs to its end: its gate disables interrupts.                *)
(***************************************************************************)
EXTENDS Integers, Sequences, SequencesExt

CONSTANTS
    Letters,        \* printable characters other than the blank
    Blank,          \* the blank, which ends an argument
    Nul,            \* the terminating zero
    Empty, Cursor,  \* a column with nothing in it; the '_' after the line
    BufferSize,     \* bytes of shell_buffer (1024)
    ClearedColumns, \* columns cleared after a backspace (50)
    MaxKeys         \* bound: keys pressed in a behaviour

Chars == Letters \cup {Blank}
\* shell_buffer and the byte behind it, the low byte of shell_buffer_i, which is
\* zero when the buffer is full; also the columns of a line that does not wrap
Cells == 0 .. BufferSize

ASSUME ShellInputAssumption ==
    /\ BufferSize \in Nat \ {0} /\ ClearedColumns \in Nat
    /\ MaxKeys \in Nat
    /\ Nul \notin Chars /\ {Empty, Cursor} \cap (Chars \cup {Nul}) = {}

VARIABLES
    shell_buffer, shell_buffer_i,
    return_pressed, backspace_pressed, other_pressed,
    pc,         \* where shell_run is
    col,        \* the character that ui_putstr draws next
    shown,      \* the columns of the prompt's line
    typed,      \* history: what the keys since the last reset amount to
    missed,     \* history: keys that came after the redraw they asked for
    keys        \* keys pressed so far

lineVars == <<shell_buffer, shell_buffer_i>>
flags == <<return_pressed, backspace_pressed, other_pressed>>
vars == <<lineVars, flags, pc, col, shown, typed, missed, keys>>

\* the C string that starts in cell k, and its length
StrLen(k) == CHOOSE n \in 0 .. BufferSize - k :
                /\ k + n = BufferSize \/ shell_buffer[k + n] = Nul
                /\ \A m \in 0 .. n - 1 : shell_buffer[k + m] # Nul
CString(k) == [m \in 1 .. StrLen(k) |-> shell_buffer[k + m - 1]]

NoLine == [k \in Cells |-> Empty]

Init ==
    /\ shell_buffer = [k \in Cells |-> Nul] /\ shell_buffer_i = 0
    /\ return_pressed = FALSE /\ backspace_pressed = FALSE /\ other_pressed = FALSE
    /\ pc = "prompt"
    /\ col = 0 /\ shown = NoLine
    /\ typed = <<>> /\ missed = {} /\ keys = 0

-----------------------------------------------------------------------------
\* The interrupt.
Press ==
    /\ keys < MaxKeys
    /\ keys' = keys + 1
    /\ UNCHANGED <<pc, col, shown>>

KeyReturn ==
    /\ Press
    /\ return_pressed' = TRUE
    /\ UNCHANGED <<lineVars, backspace_pressed, other_pressed, typed, missed>>

Erase == shell_buffer' = [shell_buffer EXCEPT ![shell_buffer_i - 1] = Nul]

KeyBackspace ==
    /\ Press
    /\ shell_buffer_i > 0
    /\ backspace_pressed' = TRUE
    /\ shell_buffer_i' = shell_buffer_i - 1
    /\ Erase
    /\ typed' = Front(typed)
    /\ missed' = IF pc \in {"redraw_erased", "erased"} THEN missed \cup {"backspace"} ELSE missed
    /\ UNCHANGED <<return_pressed, other_pressed>>

Full == shell_buffer_i >= BufferSize

KeyOther(ch) ==
    /\ Press
    /\ ~Full
    /\ other_pressed' = TRUE
    /\ shell_buffer' = [k \in Cells |-> CASE k = shell_buffer_i -> ch
                                          [] k = shell_buffer_i + 1 -> Nul
                                          [] OTHER -> shell_buffer[k]]
    /\ shell_buffer_i' = shell_buffer_i + 1
    /\ typed' = Append(typed, ch)
    /\ missed' = IF pc \in {"redraw", "drawn"} THEN missed \cup {"other"} ELSE missed
    /\ UNCHANGED <<return_pressed, backspace_pressed>>

-----------------------------------------------------------------------------
\* The loop.
TestReturn ==
    /\ pc = "prompt"
    /\ pc' = IF return_pressed THEN "process" ELSE "erase"
    /\ return_pressed' = FALSE
    /\ UNCHANGED <<lineVars, backspace_pressed, other_pressed, col, shown, typed,
                   missed, keys>>

\* tokenize_args: the blanks become zeros; then the command runs
Process ==
    /\ pc = "process"
    /\ LET text == CString(0)
           blanks == {k \in 1 .. Len(text) : text[k] = Blank}
       IN  /\ shell_buffer' = [k \in Cells |-> IF k + 1 \in blanks THEN Nul ELSE shell_buffer[k]]
    /\ pc' = "command"
    /\ UNCHANGED <<shell_buffer_i, flags, col, shown, typed, missed, keys>>

CommandDone ==
    /\ pc = "command"
    /\ pc' = "reset_index"
    /\ UNCHANGED <<lineVars, flags, col, shown, typed, missed, keys>>

ResetIndex ==
    /\ pc = "reset_index"
    /\ shell_buffer_i' = 0
    /\ typed' = <<>>
    /\ pc' = "reset_first"
    /\ UNCHANGED <<shell_buffer, flags, col, shown, missed, keys>>

\* then the answer is drawn, and the prompt gets a new line
FirstByteForgotten == UNCHANGED shell_buffer
FirstByteReset == shell_buffer' = [shell_buffer EXCEPT ![0] = Nul]

ResetFirst ==
    /\ pc = "reset_first"
    /\ FirstByteReset
    /\ shown' = NoLine
    /\ missed' = {}
    /\ pc' = "erase"
    /\ UNCHANGED <<shell_buffer_i, flags, col, typed, keys>>

ClearedNot == shown
Cleared == [k \in Cells |-> IF k < ClearedColumns THEN Empty ELSE shown[k]]

TestBackspace ==
    /\ pc = "erase"
    /\ IF backspace_pressed
       THEN pc' = "redraw_erased" /\ shown' = Cleared /\ col' = 0 /\ missed' = {}
       ELSE pc' = "draw" /\ UNCHANGED <<shown, col, missed>>
    /\ UNCHANGED <<lineVars, flags, typed, keys>>

TestOther ==
    /\ pc = "draw"
    /\ IF other_pressed
       THEN pc' = "redraw" /\ col' = 0 /\ missed' = missed \ {"other"}
       ELSE pc' = "cursor" /\ UNCHANGED <<col, missed>>
    /\ UNCHANGED <<lineVars, flags, shown, typed, keys>>

\* one turn of ui_putstr's loop, which asks for the length again each time
DrawChar ==
    /\ pc \in {"redraw_erased", "redraw"}
    /\ col < StrLen(0)
    /\ shown' = [shown EXCEPT ![col] = shell_buffer[col]]
    /\ col' = col + 1
    /\ UNCHANGED <<lineVars, flags, pc, typed, missed, keys>>

DrawDone ==
    /\ pc \in {"redraw_erased", "redraw"}
    /\ col >= StrLen(0)
    /\ pc' = IF pc = "redraw" THEN "drawn" ELSE "erased"
    /\ UNCHANGED <<lineVars, flags, col, shown, typed, missed, keys>>

ClearBackspace ==
    /\ pc = "erased"
    /\ backspace_pressed' = FALSE
    /\ pc' = "draw"
    /\ UNCHANGED <<lineVars, return_pressed, other_pressed, col, shown, typed, missed, keys>>

ClearAll ==
    /\ pc = "drawn"
    /\ other_pressed' = FALSE /\ return_pressed' = FALSE
    /\ pc' = "cursor"
    /\ UNCHANGED <<lineVars, backspace_pressed, col, shown, typed, missed, keys>>

ClearOther ==
    /\ pc = "drawn"
    /\ other_pressed' = FALSE
    /\ pc' = "cursor"
    /\ UNCHANGED <<lineVars, return_pressed, backspace_pressed, col, shown, typed,
                   missed, keys>>

DrawCursor ==
    /\ pc = "cursor"
    /\ shown' = [shown EXCEPT ![StrLen(0)] = Cursor]
    /\ pc' = "prompt"
    /\ UNCHANGED <<lineVars, flags, col, typed, missed, keys>>

-----------------------------------------------------------------------------
Keyboard == KeyReturn \/ KeyBackspace \/ \E ch \in Chars : KeyOther(ch)

Loop ==
    \/ TestReturn \/ Process \/ CommandDone
    \/ ResetIndex \/ ResetFirst
    \/ TestBackspace \/ TestOther \/ DrawChar \/ DrawDone
    \/ ClearBackspace \/ ClearOther \/ DrawCursor

Next == Keyboard \/ Loop

\* The processor returns to the loop after each interrupt; nobody has to type.
Spec == Init /\ [][Next]_vars /\ WF_vars(Loop)

-----------------------------------------------------------------------------
\* The shell executes what was typed since the last command and nothing else:
\* no character of an older, longer line that is still in the buffer.  It may
\* also be nothing at all: a key that comes between the two stores of the reset
\* (shell.c 74-75) has its character overwritten, and all that follows is behind
\* a zero.
ExecutesTheLine == pc = "process" => CString(0) \in {typed, <<>>}

\* The prompt's line shows the buffer and the cursor, in the columns that a
\* backspace clears, whenever the loop starts again with nothing left to do;
\* unless a key came between a redraw and the clearing of the flag it set
\* (shell.c 106-114), or no cursor was ever drawn.
ScreenShowsTheLine ==
    pc = "prompt" /\ ~backspace_pressed /\ ~other_pressed /\ missed = {} /\ shown # NoLine =>
        \A k \in Cells : k < ClearedColumns =>
            shown[k] = CASE k < StrLen(0) -> shell_buffer[k]
                         [] k = StrLen(0) -> Cursor
                         [] OTHER -> Empty

\* A return key is never lost: the line is executed after it (shell.c 67-73),
\* also when it comes while another command runs.
ReturnIsProcessed == return_pressed ~> pc = "process"
=============================================================================
