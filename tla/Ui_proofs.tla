------------------------------ MODULE Ui_proofs ------------------------------
(***************************************************************************)
(* update_list, which nothing checks, overflows only when a line is drawn  *)
(* that is longer than what the rest of a turn leaves free, and the prompt *)
(* never leaves the lines above the one at which shell_run scrolls: for    *)
(* any size of box, rows and list for which the box and an answer fit, and *)
(* typed lines of any length; what each part of a turn can add is bounded. *)
(* The rows above the prompt are the end of the transcript, as long as no  *)
(* typed line has left its row: what is below the prompt is blank even     *)
(* after an answer that went past the last row, which is why clear         *)
(* restores the order.                                                     *)
(*                                                                         *)
(* The cells implement the rows: every drawing of the shell's loop on      *)
(* ui_screen_buf is a step of ShellScreen, so that what is shown of the    *)
(* rows and of the queue holds of the cells, for any boxes and any answers *)
(* that have no more rows than ShellScreen's.  And a cell that differs     *)
(* from the one that is shown is always queued, and a cell outside the     *)
(* shell's box is what it was at the boot or, once a typed line has left   *)
(* its row, the cursor: each operation queues what it puts.                *)
(*                                                                         *)
(* The rows are what the cells show: where a string wraps is the quotient  *)
(* of its columns by the box's width less one, the rows of an answer's     *)
(* strings follow one another, and scrolling moves a row as a whole.  What *)
(* CellInv adds for that is what the row of the prompt shows: as much of   *)
(* the typed line as was drawn, and nothing right of it.                   *)
(***************************************************************************)
EXTENDS Ui, TLAPS, FiniteSetTheorems, SequenceTheorems, NaturalsInduction,
        WellFoundedInduction

AnswerBound == BoxUpdates + 1 + (ScrollFrom - 2) * RowChars

IInv ==
    /\ current_line \in 0 .. ScrollFrom - 1
    /\ update_list_len \in Nat /\ shown \in Nat
    /\ pc \in {"prompt", "answered", "refresh", "overflow", "off_screen"}
    /\ pc = "prompt" => update_list_len \in {0, BoxUpdates}
    /\ pc = "answered" => update_list_len <= AnswerBound
    /\ QueueFits

LEMMA Bounds ==
    /\ AnswerBound \in Nat /\ BoxUpdates + 1 <= AnswerBound
    /\ BoxUpdates \in Nat /\ 0 < BoxUpdates
    /\ ClearedColumns \in Nat /\ RowChars \in Nat /\ RowChars > 2 /\ MaxUpdates \in Nat
    /\ ScrollFrom \in Nat /\ 2 <= ScrollFrom /\ TypedLengths \subseteq Nat
<1>1. /\ ScrollFrom \in Nat /\ ScrollFrom - 2 \in Nat /\ RowChars \in Nat /\ BoxUpdates \in Nat
      /\ 2 <= ScrollFrom
  BY ShellScreenAssumption
<1> DEFINE product == (ScrollFrom - 2) * RowChars
<1>2. product \in Nat
  BY <1>1
<1>3. AnswerBound = BoxUpdates + 1 + product
  BY DEF AnswerBound
<1> HIDE DEF product
<1> QED
  BY <1>1, <1>2, <1>3, ShellScreenAssumption

LEMMA RowsOfAnAnswer ==
    \A k \in 0 .. MaxAnswer :
        /\ k * RowChars \in Nat
        /\ k <= ScrollFrom - 2 => BoxUpdates + 1 + k * RowChars <= AnswerBound
<1>1. /\ MaxAnswer \in Nat /\ RowChars \in Nat /\ BoxUpdates \in Nat
      /\ ScrollFrom \in Nat /\ 2 <= ScrollFrom
  BY ShellScreenAssumption
<1>2. ASSUME NEW k \in 0 .. MaxAnswer PROVE k \in Nat /\ k * RowChars \in Nat
  BY <1>1
<1>3. ASSUME NEW k \in Nat, k <= ScrollFrom - 2
      PROVE  k * RowChars <= (ScrollFrom - 2) * RowChars
  <2>1. (ScrollFrom - 2) - k \in Nat
    BY <1>1, <1>3
  <2>2. k * RowChars \in Nat /\ ((ScrollFrom - 2) - k) * RowChars \in Nat
    BY <1>1, <2>1
  <2>3. (ScrollFrom - 2) * RowChars = k * RowChars + ((ScrollFrom - 2) - k) * RowChars
    BY <1>1, <2>1
  <2> QED
    BY <1>1, <2>2, <2>3
<1>4. (ScrollFrom - 2) * RowChars \in Nat
  BY <1>1
<1> QED
  BY <1>1, <1>2, <1>3, <1>4 DEF AnswerBound

LEMMA InitInvariant == Init => IInv
BY Bounds DEF Init, IInv, QueueFits

LEMMA EnterInvariant ==
    ASSUME IInv, NEW k \in 0 .. MaxAnswer, Enter(k)
    PROVE  IInv'
<1>1. /\ current_line \in 0 .. ScrollFrom - 1 /\ update_list_len \in {0, BoxUpdates}
      /\ pc' = "answered" /\ k \in Nat /\ shown' = 0
  BY DEF IInv, Enter
<1>2. CASE Scrolls(current_line + 1, k)
  <2>1. current_line' = current_line /\ update_list_len' = 0
    BY <1>1, <1>2, Bounds DEF Enter
  <2> QED
    BY <1>1, <2>1, Bounds DEF IInv, QueueFits
<1>3. CASE ~Scrolls(current_line + 1, k)
  <2>1. /\ current_line' = current_line + 1 + k
        /\ update_list_len' = update_list_len + 1 + k * RowChars
    BY <1>3 DEF Enter
  <2>2. current_line' \in 0 .. ScrollFrom - 1 /\ k <= ScrollFrom - 2
    BY <1>1, <1>3, <2>1, Bounds DEF Scrolls
  <2>3. update_list_len' \in Nat /\ update_list_len' <= AnswerBound
    BY <1>1, <2>1, <2>2, RowsOfAnAnswer, Bounds
  <2> QED
    BY <1>1, <2>2, <2>3 DEF IInv, QueueFits
<1> QED
  BY <1>2, <1>3

LEMMA EntriesBound ==
    ASSUME NEW backspace \in BOOLEAN, NEW other \in BOOLEAN, NEW length \in TypedLengths
    PROVE  /\ Entries(backspace, other, length) \in Nat
           /\ 0 < Entries(backspace, other, length)
           /\ Entries(backspace, other, length) <= ClearedColumns + 2 + 2 * length
<1> DEFINE cleared == IF backspace THEN ClearedColumns + 1 + length ELSE 0
           drawn == IF other THEN length ELSE 0
<1>1. length \in Nat /\ ClearedColumns \in Nat
  BY Bounds
<1>2. /\ cleared \in Nat /\ cleared <= ClearedColumns + 1 + length
      /\ drawn \in Nat /\ drawn <= length
  BY <1>1
<1>3. Entries(backspace, other, length) = 1 + cleared + drawn
  BY DEF Entries
<1> HIDE DEF cleared, drawn
<1> QED
  BY <1>1, <1>2, <1>3

LEMMA RedrawInvariant ==
    ASSUME IInv, NEW backspace \in BOOLEAN, NEW other \in BOOLEAN, NEW length \in TypedLengths,
           Redraw(backspace, other, length)
    PROVE  IInv' /\ update_list_len' # 0
<1>1. /\ update_list_len \in Nat /\ length \in Nat /\ shown' = length
      /\ pc' = "refresh" /\ current_line' = current_line
      /\ current_line \in 0 .. ScrollFrom - 1
  BY Bounds DEF IInv, Redraw
<1>2. update_list_len' = update_list_len + Entries(backspace, other, length)
  BY DEF Redraw
<1>3. update_list_len' \in Nat /\ update_list_len' # 0
  BY <1>1, <1>2, EntriesBound
<1> QED
  BY <1>1, <1>3 DEF IInv, QueueFits

\* Only a line that is longer than what is left does not fit.
LEMMA OverflowInvariant ==
    ASSUME IInv, NEW backspace \in BOOLEAN, NEW other \in BOOLEAN, NEW length \in TypedLengths,
           RedrawOverflows(backspace, other, length)
    PROVE  IInv'
<1>1. /\ pc = "answered" /\ pc' = "overflow" /\ shown' = length /\ length \in Nat
      /\ current_line' = current_line /\ update_list_len' = update_list_len
      /\ update_list_len + Entries(backspace, other, length) > MaxUpdates
  BY Bounds DEF RedrawOverflows, Asked
<1>2. update_list_len \in Nat /\ update_list_len <= AnswerBound
  BY <1>1 DEF IInv
<1> DEFINE free == MaxUpdates - AnswerBound - (ClearedColumns + 2)
<1>3. free \in Int /\ 2 * length > free
  BY <1>1, <1>2, Bounds, EntriesBound
<1>4. LineThatFits = free \div 2
  BY DEF LineThatFits, AnswerBound
<1> HIDE DEF free
<1>5. LineThatFits < length
  BY <1>1, <1>3, <1>4
<1> QED
  BY <1>1, <1>2, <1>5 DEF IInv, QueueFits, LineThatFits

LEMMA LeavesInvariant ==
    ASSUME IInv, NEW backspace \in BOOLEAN, NEW other \in BOOLEAN, NEW length \in TypedLengths,
           RedrawLeavesScreen(backspace, other, length)
    PROVE  IInv'
BY Bounds DEF RedrawLeavesScreen, IInv, QueueFits

LEMMA StepInvariant == IInv /\ [Next]_vars => IInv'
<1> SUFFICES ASSUME IInv, [Next]_vars PROVE IInv'
  OBVIOUS
<1>1. ASSUME NEW k \in 0 .. MaxAnswer, Enter(k) PROVE IInv'
  BY <1>1, EnterInvariant
<1>2. CASE Clear
  BY <1>2, Bounds DEF Clear, IInv, QueueFits
<1>3. CASE NoReturn
  BY <1>3, Bounds DEF NoReturn, IInv, QueueFits
<1>4. ASSUME NEW backspace \in BOOLEAN, NEW other \in BOOLEAN, NEW length \in TypedLengths,
             \/ Redraw(backspace, other, length)
             \/ RedrawOverflows(backspace, other, length)
             \/ RedrawLeavesScreen(backspace, other, length)
      PROVE  IInv'
  BY <1>4, RedrawInvariant, OverflowInvariant, LeavesInvariant
<1>5. CASE Refresh
  BY <1>5 DEF Refresh, RefreshEmpties, IInv, QueueFits
<1>6. CASE UNCHANGED vars
  BY <1>6 DEF vars, IInv, QueueFits, LineThatFits
<1> QED
  BY <1>1, <1>2, <1>3, <1>4, <1>5, <1>6 DEF Next, Lost

\* Between two refreshes no more regions are queued than update_list has entries,
\* whatever the commands answer and the keys ask for, until a line of more than
\* LineThatFits characters is drawn: for typed lines of any length and a list of any
\* size that the box and an answer fit in (ui.c 56).
THEOREM QueueNeverOverflows == Spec => []QueueFits
<1>1. IInv => QueueFits
  BY DEF IInv
<1> QED
  BY <1>1, InitInvariant, StepInvariant, PTL DEF Spec

\* No sequence of commands moves the prompt to the line at which shell_run scrolls,
\* or above the box.
THEOREM PromptStaysInBox == Spec => [](current_line \in 0 .. ScrollFrom - 1)
<1>1. IInv => current_line \in 0 .. ScrollFrom - 1
  BY DEF IInv
<1> QED
  BY <1>1, InitInvariant, StepInvariant, PTL DEF Spec

-----------------------------------------------------------------------------
\* The rows.
ScreenLines == Nat \X Nat
AtEnd(s, j) == s[Len(s) - j]

\* Until a typed line leaves its row, and nothing is lost.
InRow == ~wrapped /\ pc \notin {"overflow", "off_screen"}

RowInv ==
    /\ IInv /\ commands \in Nat
    /\ transcript \in Seq(ScreenLines) /\ Len(transcript) >= current_line
    /\ screen = [r \in Rows |-> screen[r]]
    /\ screen[current_line] \in {Blank, Line(commands, 0)}
    /\ \A r \in Rows : r > current_line => screen[r] = Blank
    /\ ~overrun => \A r \in Rows :
           r < current_line => screen[r] = AtEnd(transcript, current_line - 1 - r)

LEMMA Sizes ==
    /\ Height \in Nat /\ Height >= 4 /\ Rows = 0 .. Height - 3
    /\ ScrollFrom \in Nat /\ 1 <= ScrollFrom /\ ScrollFrom <= Height - 3
    /\ MaxAnswer \in Nat /\ MaxAnswer <= Height - 3
BY ShellScreenAssumption DEF Rows

LEMMA ModFacts ==
    ASSUME NEW m \in Nat, NEW n \in Nat, n > 0
    PROVE  /\ m % n \in 0 .. n - 1 /\ m % n <= m
           /\ m < n => m % n = m
OBVIOUS

\* The last lines of a transcript are kept (shell.c 97-105).
LEMMA RecentKeeps ==
    ASSUME NEW s \in Seq(ScreenLines)
    PROVE  /\ Recent(s) \in Seq(ScreenLines)
           /\ Len(Recent(s)) = IF Len(s) <= Height THEN Len(s) ELSE Height
           /\ \A j \in 0 .. Len(Recent(s)) - 1 : AtEnd(Recent(s), j) = AtEnd(s, j)
<1>1. CASE Len(s) <= Height
  BY <1>1 DEF Recent
<1>2. CASE Len(s) > Height
  <2>1. Len(s) \in Nat /\ Len(s) - Height + 1 \in 1 .. Len(s) + 1
    BY <1>2, Sizes
  <2>2. Recent(s) = SubSeq(s, Len(s) - Height + 1, Len(s))
    BY <1>2, <2>1, Sizes DEF Recent
  <2>3. /\ Recent(s) \in Seq(ScreenLines) /\ Len(Recent(s)) = Height
        /\ \A i \in 1 .. Height : Recent(s)[i] = s[Len(s) - Height + i]
    BY <2>1, <2>2, Sizes, SubSeqProperties
  <2>4. ASSUME NEW j \in 0 .. Height - 1 PROVE AtEnd(Recent(s), j) = AtEnd(s, j)
    <3>1. Height - j \in 1 .. Height /\ Len(s) - Height + (Height - j) = Len(s) - j
      BY <2>1, Sizes
    <3>2. QED
      BY <2>3, <3>1 DEF AtEnd
  <2>5. QED
    BY <1>2, <2>1, <2>3, <2>4, Sizes
<1>3. QED
  BY <1>1, <1>2, Sizes

\* Where the rows of an answer go: below them nothing is written, and those that fit
\* come one after the other.
LEMMA WrittenRows ==
    ASSUME NEW y \in Nat, NEW k \in Nat, NEW n, NEW r \in Rows
    PROVE  /\ r >= y + k => Written(y, k, n)[r] = Prompted[r]
           /\ y + k - 1 \in Rows =>
                 Written(y, k, n)[r] = IF r \in y .. y + k - 1 THEN Line(n, r - y + 1)
                                       ELSE Prompted[r]
<1> DEFINE here == {i \in 1 .. k : (y + i - 1) % (Height - 2) = r}
<1>0. Height - 2 \in Nat /\ Height - 2 > 0 /\ r \in Nat
  BY Sizes
<1>1. Written(y, k, n)[r] = IF here = {} THEN Prompted[r]
                            ELSE Line(n, CHOOSE i \in here : \A j \in here : j <= i)
  BY DEF Written
<1>2. ASSUME NEW i \in 1 .. k
      PROVE  /\ (y + i - 1) % (Height - 2) <= y + i - 1
             /\ y + i - 1 < Height - 2 => (y + i - 1) % (Height - 2) = y + i - 1
  <2>1. y + i - 1 \in Nat
    OBVIOUS
  <2>2. QED
    BY <1>0, <2>1, ModFacts
<1>3. ASSUME r >= y + k PROVE here = {}
  <2>1. ASSUME NEW i \in here PROVE FALSE
    <3>1. i \in 1 .. k /\ r <= y + i - 1
      BY <1>2
    <3>2. QED
      BY <1>0, <1>3, <3>1
  <2>2. QED
    BY <2>1
<1>4. ASSUME y + k - 1 \in Rows
      PROVE  here = {i \in 1 .. k : y + i - 1 = r}
  <2>1. ASSUME NEW i \in 1 .. k PROVE (y + i - 1) % (Height - 2) = y + i - 1
    <3>1. y + i - 1 < Height - 2
      BY <1>4, Sizes
    <3>2. QED
      BY <1>2, <3>1
  <2>2. QED
    BY <2>1
<1>5. ASSUME y + k - 1 \in Rows, r \in y .. y + k - 1
      PROVE  Written(y, k, n)[r] = Line(n, r - y + 1)
  <2>1. r - y + 1 \in 1 .. k /\ y + (r - y + 1) - 1 = r
    BY <1>0, <1>5
  <2>2. \A i \in 1 .. k : y + i - 1 = r => i = r - y + 1
    BY <1>0
  <2>3. here = {r - y + 1}
    BY <1>4, <1>5, <2>1, <2>2
  <2> HIDE DEF here
  <2>4. (CHOOSE i \in here : \A j \in here : j <= i) = r - y + 1
    BY <2>1, <2>3
  <2>5. QED
    BY <1>1, <2>3, <2>4
<1>6. ASSUME y + k - 1 \in Rows, r \notin y .. y + k - 1
      PROVE  Written(y, k, n)[r] = Prompted[r]
  <2>1. here = {}
    BY <1>0, <1>4, <1>6
  <2>2. QED
    BY <1>1, <2>1
<1>7. QED
  BY <1>1, <1>3, <1>5, <1>6

LEMMA ScrolledRows ==
    ASSUME NEW s, NEW n \in 1 .. Height - 2
    PROVE  /\ Scrolled(s, n) = [r \in Rows |-> Scrolled(s, n)[r]]
           /\ \A r \in Rows :
                  Scrolled(s, n)[r] = IF r + n \in Rows THEN s[r + n] ELSE Blank
<1>1. Scrolled(s, n) = [r \in Rows |-> IF r + n \in Rows THEN s[r + n] ELSE Blank]
  BY Sizes DEF Scrolled
<1>2. QED
  BY <1>1

\* A transcript with the typed line and the answer after it.
LEMMA Grown ==
    ASSUME NEW t \in Seq(ScreenLines), NEW n \in Nat, NEW k \in Nat
    PROVE  LET g == t \o [i \in 1 .. k + 1 |-> Line(n, i - 1)]
           IN  /\ g \in Seq(ScreenLines) /\ Len(g) = Len(t) + k + 1
               /\ \A j \in 0 .. k : AtEnd(g, j) = Line(n, k - j)
               /\ \A j \in k + 1 .. Len(g) - 1 : AtEnd(g, j) = AtEnd(t, j - k - 1)
<1> DEFINE e == [i \in 1 .. k + 1 |-> Line(n, i - 1)]
           g == t \o e
<1>1. e \in Seq(ScreenLines) /\ Len(e) = k + 1
  <2>1. \A i \in 1 .. k + 1 : Line(n, i - 1) \in ScreenLines
    BY DEF Line, ScreenLines
  <2>2. e \in [1 .. k + 1 -> ScreenLines]
    BY <2>1
  <2>3. QED
    BY <2>2
<1>2. \A i \in 1 .. k + 1 : e[i] = Line(n, i - 1)
  OBVIOUS
<1> HIDE DEF e
<1>3. /\ g \in Seq(ScreenLines) /\ Len(g) = Len(t) + k + 1 /\ Len(t) \in Nat
      /\ \A i \in 1 .. Len(g) : g[i] = IF i <= Len(t) THEN t[i] ELSE e[i - Len(t)]
  BY <1>1, ConcatProperties
<1> HIDE DEF g
<1>4. ASSUME NEW j \in 0 .. k PROVE AtEnd(g, j) = Line(n, k - j)
  <2>1. /\ Len(g) - j \in 1 .. Len(g) /\ ~(Len(g) - j <= Len(t))
        /\ Len(g) - j - Len(t) = k + 1 - j /\ k + 1 - j \in 1 .. k + 1
    BY <1>3
  <2>2. g[Len(g) - j] = e[k + 1 - j]
    BY <1>3, <2>1
  <2>3. e[k + 1 - j] = Line(n, (k + 1 - j) - 1) /\ (k + 1 - j) - 1 = k - j
    BY <1>2, <2>1
  <2>4. QED
    BY <2>2, <2>3 DEF AtEnd
<1>5. ASSUME NEW j \in k + 1 .. Len(g) - 1 PROVE AtEnd(g, j) = AtEnd(t, j - k - 1)
  <2>1. /\ Len(g) - j \in 1 .. Len(g) /\ Len(g) - j <= Len(t)
        /\ Len(g) - j = Len(t) - (j - k - 1)
    BY <1>3
  <2>2. QED
    BY <1>3, <2>1 DEF AtEnd
<1>6. QED
  BY <1>3, <1>4, <1>5 DEF g, e

LEMMA EnterRows ==
    ASSUME RowInv, NEW k \in 0 .. MaxAnswer, Enter(k)
    PROVE  RowInv'
<1> DEFINE n == commands
           top == current_line
           drawn == Written(top + 1, k, n)
           g == transcript \o [i \in 1 .. k + 1 |-> Line(n, i - 1)]
           depth == top + k + 1
<1>1. /\ IInv' /\ k \in Nat /\ n \in Nat /\ top \in Nat /\ top <= ScrollFrom - 1
      /\ k <= Height - 3 /\ top <= Height - 4
  BY EnterInvariant, Sizes DEF RowInv, IInv
<1>2. /\ commands' = n + 1 /\ transcript' = Recent(g)
      /\ overrun' = (overrun \/ top + 1 + k - 1 \notin Rows)
  BY DEF Enter
<1>3. /\ g \in Seq(ScreenLines) /\ Len(g) = Len(transcript) + k + 1
      /\ \A j \in 0 .. k : AtEnd(g, j) = Line(n, k - j)
      /\ \A j \in k + 1 .. Len(g) - 1 : AtEnd(g, j) = AtEnd(transcript, j - k - 1)
      /\ Len(transcript) \in Nat /\ Len(transcript) >= top
  <2>1. transcript \in Seq(ScreenLines) /\ Len(transcript) >= top
    BY DEF RowInv
  <2>2. QED
    BY <1>1, <2>1, Grown
<1> HIDE DEF g
<1>4. /\ transcript' \in Seq(ScreenLines)
      /\ Len(transcript') = IF Len(g) <= Height THEN Len(g) ELSE Height
      /\ \A j \in 0 .. Len(transcript') - 1 : AtEnd(transcript', j) = AtEnd(g, j)
  BY <1>2, <1>3, RecentKeeps
\* what is below the answer, and what is above and in it
<1>5. ASSUME NEW r \in Rows, r >= depth PROVE drawn[r] = Blank
  <2>1. drawn[r] = Prompted[r]
    BY <1>1, <1>5, WrittenRows
  <2>2. r # current_line /\ r > current_line
    BY <1>1, <1>5, Sizes
  <2>3. QED
    BY <2>1, <2>2 DEF Prompted, RowInv
<1>6. ASSUME ~overrun', NEW r \in Rows, r < depth PROVE drawn[r] = AtEnd(g, depth - 1 - r)
  <2>1. ~overrun /\ top + 1 + k - 1 \in Rows
    BY <1>2, <1>6
  <2>2. drawn[r] = IF r \in top + 1 .. top + 1 + k - 1 THEN Line(n, r - (top + 1) + 1)
                   ELSE Prompted[r]
    <3>1. top + 1 \in Nat
      BY <1>1
    <3> HIDE DEF top, n
    <3>2. QED
      BY <1>1, <2>1, <3>1, WrittenRows
  <2>3. r \in Nat
    BY Sizes
  <2>4. CASE r > top
    <3>1. /\ r \in top + 1 .. top + 1 + k - 1
          /\ depth - 1 - r \in 0 .. k /\ r - (top + 1) + 1 = k - (depth - 1 - r)
      BY <1>1, <1>6, <2>3, <2>4
    <3>2. QED
      BY <1>3, <2>2, <3>1
  <2>5. CASE r = top
    <3>1. r \notin top + 1 .. top + 1 + k - 1 /\ depth - 1 - r = k /\ k - k = 0
      BY <1>1, <2>5
    <3>2. Prompted[r] = Line(n, 0)
      BY <2>5 DEF Prompted, RowInv
    <3>3. AtEnd(g, k) = Line(n, 0)
      BY <1>1, <1>3, <3>1
    <3>4. QED
      BY <2>2, <3>1, <3>2, <3>3
  <2>6. CASE r < top
    <3>1. /\ r \notin top + 1 .. top + 1 + k - 1 /\ r # top
          /\ depth - 1 - r \in k + 1 .. Len(g) - 1
          /\ (depth - 1 - r) - k - 1 = top - 1 - r
      BY <1>1, <1>3, <2>3, <2>6
    <3>2. Prompted[r] = screen[r]
      BY <2>6, <3>1 DEF Prompted, RowInv
    <3>3. screen[r] = AtEnd(transcript, top - 1 - r)
      BY <2>1, <2>6 DEF RowInv
    <3>4. AtEnd(g, depth - 1 - r) = AtEnd(transcript, top - 1 - r)
      BY <1>3, <3>1
    <3>5. QED
      BY <2>2, <3>1, <3>2, <3>3, <3>4
  <2>7. QED
    BY <1>1, <2>3, <2>4, <2>5, <2>6
<1>7. CASE Scrolls(top + 1, k)
  <2>1. screen' = Scrolled(drawn, k + 1) /\ current_line' = top
    BY <1>1, <1>7 DEF Enter
  <2>2. k + 1 \in 1 .. Height - 2
    BY <1>1, Sizes
  <2>3. \A r \in Rows : screen'[r] = IF r + (k + 1) \in Rows THEN drawn[r + (k + 1)] ELSE Blank
    BY <2>1, <2>2, ScrolledRows
  <2> HIDE DEF drawn
  <2>4. screen' = [r \in Rows |-> screen'[r]]
    BY <2>1, <2>2, ScrolledRows
  <2>5. \A r \in Rows : r >= top => screen'[r] = Blank
    <3>1. TAKE r \in Rows
    <3>2. r \in Nat
      BY Sizes
    <3>3. ASSUME r >= top, r + (k + 1) \in Rows PROVE drawn[r + (k + 1)] = Blank
      <4>1. r + (k + 1) >= depth
        BY <1>1, <3>2, <3>3
      <4>2. QED
        BY <1>5, <3>3, <4>1
    <3>4. QED
      BY <2>3, <3>3
  <2>6. ASSUME ~overrun', NEW r \in Rows, r < top
        PROVE  screen'[r] = AtEnd(transcript', top - 1 - r)
    <3>1. r \in Nat /\ r + (k + 1) \in Nat /\ r + (k + 1) < depth
      BY <1>1, <2>6, Sizes
    <3>2. top + 1 + k - 1 \in Rows
      BY <1>2, <2>6
    <3>3. r + (k + 1) \in Rows /\ depth - 1 - (r + (k + 1)) = top - 1 - r
      BY <1>1, <3>1, <3>2, Sizes
    <3>4. drawn[r + (k + 1)] = AtEnd(g, top - 1 - r)
      BY <1>6, <2>6, <3>1, <3>3
    <3>5. top - 1 - r \in 0 .. Len(transcript') - 1
      BY <1>1, <1>3, <1>4, <2>6, <3>1
    <3>6. QED
      BY <1>4, <2>3, <3>3, <3>4, <3>5
  <2>7. Len(transcript') >= top
    BY <1>1, <1>3, <1>4
  <2>8. top \in Rows
    BY <1>1, Sizes
  <2>9. QED
    BY <1>1, <1>2, <1>4, <2>1, <2>4, <2>5, <2>6, <2>7, <2>8 DEF RowInv, Rows
<1>8. CASE ~Scrolls(top + 1, k)
  <2>1. screen' = drawn /\ current_line' = depth /\ depth <= ScrollFrom - 1
    BY <1>1, <1>8, Sizes DEF Enter, Scrolls
  <2>2. screen' = [r \in Rows |-> screen'[r]]
    BY <2>1 DEF Written
  <2> HIDE DEF drawn
  <2>3. \A r \in Rows : r >= depth => screen'[r] = Blank
    BY <1>5, <2>1
  <2>4. ASSUME ~overrun', NEW r \in Rows, r < depth
        PROVE  screen'[r] = AtEnd(transcript', depth - 1 - r)
    <3>1. r \in Nat
      BY Sizes
    <3>2. depth - 1 - r \in 0 .. Len(transcript') - 1
      BY <1>1, <1>3, <1>4, <2>1, <2>4, <3>1, Sizes
    <3>3. QED
      BY <1>4, <1>6, <2>1, <2>4, <3>2
  <2>5. Len(transcript') >= depth
    BY <1>1, <1>3, <1>4, <2>1, Sizes
  <2>6. depth \in Rows
    BY <1>1, <2>1, Sizes
  <2>7. /\ screen'[current_line'] \in {Blank, Line(commands', 0)}
        /\ \A r \in Rows : r > current_line' => screen'[r] = Blank
    BY <1>1, <2>1, <2>3, <2>6, Sizes
  <2>8. ~overrun' => \A r \in Rows :
            r < current_line' => screen'[r] = AtEnd(transcript', current_line' - 1 - r)
    BY <2>1, <2>4
  <2>9. QED
    BY <1>1, <1>2, <1>4, <2>1, <2>2, <2>5, <2>7, <2>8 DEF RowInv, Rows
<1>9. QED
  BY <1>7, <1>8

LEMMA ClearRows == ASSUME RowInv, Clear PROVE RowInv'
<1> DEFINE n == current_line + 1
<1>1. current_line \in Nat /\ current_line <= Height - 4 /\ n \in 1 .. Height - 2
  <2>1. current_line \in 0 .. ScrollFrom - 1
    BY DEF RowInv, IInv
  <2>2. QED
    BY <2>1, Sizes
<1>2. IInv'
  BY Bounds DEF RowInv, Clear, IInv, QueueFits
<1>3. /\ screen' = Scrolled(Prompted, n) /\ current_line' = 0 /\ transcript' = <<>>
      /\ commands' = commands + 1
  BY DEF Clear
<1>4. \A r \in Rows : screen'[r] = Blank
  <2>1. TAKE r \in Rows
  <2>2. screen'[r] = IF r + n \in Rows THEN Prompted[r + n] ELSE Blank
    BY <1>1, <1>3, ScrolledRows
  <2>3. ASSUME r + n \in Rows PROVE Prompted[r + n] = Blank
    <3>1. r + n > current_line /\ r + n # current_line
      BY <1>1, Sizes
    <3>2. QED
      BY <2>3, <3>1 DEF Prompted, RowInv
  <2>4. QED
    BY <2>2, <2>3
<1>5. screen' = [r \in Rows |-> screen'[r]]
  BY <1>1, <1>3, ScrolledRows
<1>6. /\ 0 \in Rows /\ Len(transcript') = 0 /\ transcript' \in Seq(ScreenLines)
      /\ \A r \in Rows : ~(r < 0)
  BY <1>3, Sizes
<1>7. commands' \in Nat
  BY <1>3 DEF RowInv
<1>8. QED
  BY <1>2, <1>3, <1>4, <1>5, <1>6, <1>7 DEF RowInv, Rows

\* The prompt and the typed line are put on the prompt's row only.
LEMMA PromptRows ==
    ASSUME RowInv, IInv', screen' = [screen EXCEPT ![current_line] = Line(commands, 0)],
           UNCHANGED <<current_line, transcript, overrun, commands>>
    PROVE  RowInv'
<1>1. current_line \in Rows
  BY Sizes DEF RowInv, IInv
<1>2. /\ screen' = [r \in Rows |-> screen'[r]]
      /\ \A r \in Rows : screen'[r] = IF r = current_line THEN Line(commands, 0) ELSE screen[r]
  BY <1>1 DEF RowInv
<1>3. \A r \in Rows : r > current_line \/ r < current_line => r # current_line
  BY <1>1, Sizes
<1>4. QED
  BY <1>1, <1>2, <1>3 DEF RowInv, Rows

LEMMA InRowBefore == [Next]_vars /\ InRow' => InRow
<1> SUFFICES ASSUME [Next]_vars, InRow' PROVE InRow
  OBVIOUS
<1>1. ASSUME NEW k \in 0 .. MaxAnswer, Enter(k) PROVE InRow
  BY <1>1 DEF InRow, Enter
<1>2. CASE Clear \/ NoReturn \/ Refresh
  BY <1>2 DEF InRow, Clear, NoReturn, Refresh
<1>3. ASSUME NEW backspace \in BOOLEAN, NEW other \in BOOLEAN, NEW length \in TypedLengths,
             Redraw(backspace, other, length)
      PROVE  InRow
  <2>1. wrapped' = (wrapped \/ LeavesRow(length)) /\ pc = "answered"
    BY <1>3 DEF Redraw, Asked
  <2>2. ~wrapped
    BY <2>1, Zenon DEF InRow
  <2>3. QED
    BY <2>1, <2>2 DEF InRow
<1>4. ASSUME NEW backspace \in BOOLEAN, NEW other \in BOOLEAN, NEW length \in TypedLengths,
             \/ RedrawOverflows(backspace, other, length)
             \/ RedrawLeavesScreen(backspace, other, length)
      PROVE  FALSE
  BY <1>4 DEF RedrawOverflows, RedrawLeavesScreen, InRow
<1>5. CASE Lost \/ UNCHANGED vars
  BY <1>5 DEF Lost, vars, InRow
<1> QED
  BY <1>1, <1>2, <1>3, <1>4, <1>5 DEF Next

\* A line that does not leave its row is on no other.
LEMMA OwnRow ==
    ASSUME IInv, NEW length \in TypedLengths, ~LeavesRow(length)
    PROVE  TypedRows(length) = {current_line}
<1>1. /\ length \in Nat /\ length + 1 < RowChars /\ RowChars \in Nat
      /\ current_line \in Nat /\ current_line < Height - 2 /\ Height - 2 \in Nat
  BY Bounds, Sizes DEF LeavesRow, IInv
<1>2. (length + 1) \div RowChars = 0
  BY <1>1
<1>3. (current_line + 0) % (Height - 2) = current_line
  BY <1>1, ModFacts
<1>4. TypedRows(length) = {(current_line + i) % (Height - 2) : i \in {0}}
  <2>1. 0 .. 0 = {0}
    OBVIOUS
  <2>2. QED
    BY <1>2, <2>1 DEF TypedRows
<1>5. QED
  BY <1>3, <1>4

LEMMA RedrawRows ==
    ASSUME RowInv, NEW backspace \in BOOLEAN, NEW other \in BOOLEAN, NEW length \in TypedLengths,
           Redraw(backspace, other, length), InRow'
    PROVE  screen' = [screen EXCEPT ![current_line] = Line(commands, 0)]
<1>1. ~LeavesRow(length)
  BY DEF Redraw, InRow
<1>2. TypedRows(length) = {current_line}
  BY <1>1, OwnRow DEF RowInv
<1>3. screen' = [r \in Rows |-> IF r = current_line THEN Line(commands, 0) ELSE screen[r]]
  BY <1>2 DEF Redraw
<1>4. screen = [r \in Rows |-> screen[r]]
  BY DEF RowInv
<1>5. QED
  BY <1>3, <1>4

LEMMA RowStep == RowInv /\ [Next]_vars /\ InRow' => RowInv'
<1> SUFFICES ASSUME RowInv, [Next]_vars, InRow' PROVE RowInv'
  OBVIOUS
<1>0. IInv'
  BY StepInvariant DEF RowInv
<1>1. ASSUME NEW k \in 0 .. MaxAnswer, Enter(k) PROVE RowInv'
  BY <1>1, EnterRows
<1>2. CASE Clear
  BY <1>2, ClearRows
<1>3. CASE NoReturn
  BY <1>0, <1>3, PromptRows DEF NoReturn, Prompted
<1>4. ASSUME NEW backspace \in BOOLEAN, NEW other \in BOOLEAN, NEW length \in TypedLengths,
             Redraw(backspace, other, length)
      PROVE  RowInv'
  BY <1>0, <1>4, PromptRows, RedrawRows DEF Redraw
<1>5. ASSUME NEW backspace \in BOOLEAN, NEW other \in BOOLEAN, NEW length \in TypedLengths,
             \/ RedrawOverflows(backspace, other, length)
             \/ RedrawLeavesScreen(backspace, other, length)
      PROVE  FALSE
  BY <1>5 DEF RedrawOverflows, RedrawLeavesScreen, InRow
<1>6. CASE Refresh
  BY <1>0, <1>6 DEF Refresh, RowInv, Rows
<1>7. CASE UNCHANGED vars
  BY <1>0, <1>7 DEF vars, RowInv, Rows
<1> QED
  BY <1>1, <1>2, <1>3, <1>4, <1>5, <1>6, <1>7 DEF Next, Lost

LEMMA RowInit == Init => RowInv
<1> SUFFICES ASSUME Init PROVE RowInv
  OBVIOUS
<1>1. IInv
  BY InitInvariant
<1>2. 0 \in Rows /\ \A r \in Rows : ~(r < 0)
  BY Sizes
<1>3. QED
  BY <1>1, <1>2 DEF Init, RowInv

\* For a box of any size, any answers and any keys: above the prompt are the last
\* lines of what was typed and answered, without a gap, and nothing is below it, as
\* long as no answer was longer than what was left of the box and no typed line has
\* left its row (shell.c 64-116).
THEOREM RowsAreTheTranscript == Spec => []ScreenIsTail
<1>1. (InRow => RowInv) => ScreenIsTail
  <2>1. SUFFICES ASSUME RowInv, ~overrun, NEW r \in Rows
                 PROVE  CASE r < current_line ->
                               screen[r] = transcript[Len(transcript) - current_line + 1 + r]
                          [] r = current_line -> screen[r] \in {Blank, Line(commands, 0)}
                          [] OTHER -> screen[r] = Blank
    BY DEF ScreenIsTail, InRow
  <2>2. r \in Nat /\ current_line \in Nat /\ Len(transcript) \in Nat
    BY <2>1, Sizes DEF RowInv, IInv
  <2>3. ASSUME r < current_line
        PROVE  screen[r] = transcript[Len(transcript) - current_line + 1 + r]
    <3>1. Len(transcript) - (current_line - 1 - r) = Len(transcript) - current_line + 1 + r
      BY <2>2
    <3>2. screen[r] = AtEnd(transcript, current_line - 1 - r)
      BY <2>1, <2>3 DEF RowInv
    <3>3. QED
      BY <3>1, <3>2 DEF AtEnd
  <2>4. r = current_line => screen[r] \in {Blank, Line(commands, 0)}
    BY <2>1 DEF RowInv
  <2>5. r > current_line => screen[r] = Blank
    BY <2>1 DEF RowInv
  <2>6. QED
    BY <2>2, <2>3, <2>4, <2>5
<1>2. Init => (InRow => RowInv)
  BY RowInit
<1>3. (InRow => RowInv) /\ [Next]_vars => (InRow => RowInv)'
  BY RowStep, InRowBefore
<1>4. QED
  BY <1>1, <1>2, <1>3, PTL DEF Spec

-----------------------------------------------------------------------------
\* The cells.
LEMMA CellStepsAreRowSteps == [UiNext]_uiVars => [Next]_vars
<1> SUFFICES ASSUME [UiNext]_uiVars PROVE [Next]_vars
  OBVIOUS
<1>1. ASSUME NEW strings \in Answers, UiEnter(strings) PROVE Next
  <2>1. RowsOf(strings) \in 0 .. MaxAnswer
    BY AnswersAssumption
  <2>2. Enter(RowsOf(strings))
    BY <1>1 DEF UiEnter
  <2> QED
    BY <2>1, <2>2 DEF Next
<1>2. CASE UiClear
  BY <1>2 DEF UiClear, Next
<1>3. CASE UiNoReturn
  BY <1>3 DEF UiNoReturn, Next
<1>4. ASSUME NEW backspace \in BOOLEAN, NEW other \in BOOLEAN, NEW length \in TypedLengths,
             \/ UiRedraw(backspace, other, length)
             \/ UiRedrawOverflows(backspace, other, length)
             \/ UiRedrawLeavesScreen(backspace, other, length)
      PROVE  Next
  <2>1. \/ Redraw(backspace, other, length)
        \/ RedrawOverflows(backspace, other, length)
        \/ RedrawLeavesScreen(backspace, other, length)
    BY <1>4 DEF UiRedraw, UiRedrawOverflows, UiRedrawLeavesScreen
  <2> QED
    BY <2>1 DEF Next
<1>5. CASE UiRefresh
  BY <1>5 DEF UiRefresh, Next
<1>6. CASE UNCHANGED uiVars
  BY <1>6 DEF uiVars
<1>7. CASE UiLost
  BY <1>7 DEF UiLost, Next
<1> QED
  BY <1>1, <1>2, <1>3, <1>4, <1>5, <1>6, <1>7 DEF UiNext

\* Whatever is drawn cell by cell, the rows behave as ShellScreen says.
THEOREM CellsImplementRows == UiSpec => Spec
<1>1. UiInit => Init
  BY DEF UiInit
<1> QED
  BY <1>1, CellStepsAreRowSteps, PTL DEF UiSpec, Spec

\* So drawing between two refreshes overflows update_list only when a line of more than
\* LineThatFits characters is drawn (ui.c 56).
THEOREM CellQueueNeverOverflows == UiSpec => []QueueFits
BY CellsImplementRows, QueueNeverOverflows, PTL

\* and so they are when they are drawn cell by cell
THEOREM CellRowsAreTheTranscript == UiSpec => []ScreenIsTail
BY CellsImplementRows, RowsAreTheTranscript, PTL

-----------------------------------------------------------------------------
Interior == {Index(Shell, i, j) : i \in 1 .. Shell.w - 1, j \in 1 .. Shell.h - 1}
WellMade(op) == \A c \in Cells : c \in DOMAIN op.puts => c \in op.cells
Drawing(d) == d = [buf |-> [c \in Cells |-> d.buf[c]], vga |-> [c \in Cells |-> d.vga[c]],
                   queue |-> d.queue]
Drawn(d) == Drawing(d) /\ \A c \in Cells : c \notin d.queue => d.vga[c] = d.buf[c]
Kept(d, left) ==
    \A c \in Cells \ Interior : d.buf[c] = Booted.buf[c] \/ (left /\ d.buf[c] = Cursor)

\* What is put is queued.
LEMMA PutWellMade == ASSUME NEW chars PROVE WellMade(Put(chars))
BY DEF WellMade, Put

LEMMA InRegion ==
    ASSUME NEW b \in Box, NEW i \in 0 .. b.w, NEW j \in 0 .. b.h, Index(b, i, j) \in Cells
    PROVE  Index(b, i, j) \in Region(b.x, b.y, b.w, b.h)
<1>1. PICK m \in b.x .. b.x + b.w, n \in b.y .. b.y + b.h : m = b.x + i /\ n = b.y + j
  BY DEF Box
<1>2. VGA_WIDTH \in Nat
  BY UiAssumption
<1>3. n * VGA_WIDTH + m = Index(b, i, j)
  BY <1>1, <1>2 DEF Index, Box
<1>4. QED
  BY <1>1, <1>3 DEF Region

LEMMA FillWellMade == ASSUME NEW b \in Box PROVE WellMade(ui_fill(b))
<1>1. ASSUME NEW i \in 1 .. b.w - 1, NEW j \in 1 .. b.h - 1, Index(b, i, j) \in Cells
      PROVE  Index(b, i, j) \in Region(b.x, b.y, b.w, b.h)
  BY <1>1, InRegion DEF Box
<1>2. QED
  BY <1>1 DEF WellMade, ui_fill

LEMMA BoxWellMade == ASSUME NEW title, NEW b \in Box PROVE WellMade(ui_box(title, b))
<1> DEFINE edge == {Index(b, i, j) : i \in {0, b.w}, j \in 0 .. b.h}
                   \cup {Index(b, i, j) : i \in 0 .. b.w, j \in {0, b.h}}
           framed == Put([c \in edge |-> IF c = Index(b, 1, 0) THEN Title(title) ELSE Frame])
<1>1. /\ DOMAIN ui_box(title, b).puts = edge \cup DOMAIN ui_fill(b).puts
      /\ ui_box(title, b).cells = framed.cells \cup ui_fill(b).cells
  BY DEF ui_box
<1>2. WellMade(framed) /\ WellMade(ui_fill(b))
  BY PutWellMade, FillWellMade
<1>3. DOMAIN framed.puts = edge
  BY DEF Put
<1> HIDE DEF framed, edge
<1>4. QED
  BY <1>1, <1>2, <1>3 DEF WellMade

LEMMA ClearWellMade ==
    ASSUME NEW b, NEW x, NEW y, NEW w PROVE WellMade(ui_clear_rv(b, x, y, w))
<1> DEFINE cleared == Put([c \in {Index(b, i + 1, y + 1) : i \in x .. x + w - 1} |-> Space])
<1>1. WellMade(cleared)
  BY PutWellMade
<1>2. /\ ui_clear_rv(b, x, y, w).puts = cleared.puts
      /\ ui_clear_rv(b, x, y, w).cells = cleared.cells \cup Region(x, y, w, 1)
  BY DEF ui_clear_rv, Put
<1> HIDE DEF cleared
<1>3. QED
  BY <1>1, <1>2 DEF WellMade

LEMMA DrawDrawn ==
    ASSUME NEW d, Drawn(d), NEW ops, \A k \in DOMAIN ops : WellMade(ops[k])
    PROVE  Drawn(Draw(d, ops))
<1> DEFINE e == Draw(d, ops)
           writers(c) == {k \in DOMAIN ops : c \in DOMAIN ops[k].puts}
<1>1. /\ e.buf = [c \in Cells |->
                     IF writers(c) = {} THEN d.buf[c] ELSE ops[Max(writers(c))].puts[c]]
      /\ e.vga = d.vga
      /\ e.queue = d.queue \cup UNION {ops[k].cells : k \in DOMAIN ops}
  BY DEF Draw
<1>2. ASSUME NEW c \in Cells, c \notin e.queue PROVE e.vga[c] = e.buf[c]
  <2>1. c \notin d.queue /\ writers(c) = {}
    BY <1>1, <1>2 DEF WellMade
  <2>2. QED
    BY <1>1, <2>1 DEF Drawn
<1>3. Drawing(e)
  <2>1. e = [buf |-> e.buf, vga |-> e.vga, queue |-> e.queue]
    BY DEF Draw
  <2>2. e.buf = [c \in Cells |-> e.buf[c]] /\ e.vga = [c \in Cells |-> e.vga[c]]
    BY <1>1 DEF Drawn, Drawing
  <2>3. QED
    BY <2>1, <2>2 DEF Drawing
<1>4. QED
  BY <1>2, <1>3 DEF Drawn

LEMMA RefreshDrawn ==
    ASSUME NEW d, Drawn(d)
    PROVE  LET e == ui_refresh(d)
           IN  Drawn(e) /\ e.buf = d.buf /\ e.vga = e.buf /\ e.queue = {}
<1> DEFINE e == ui_refresh(d)
<1>1. e = [buf |-> d.buf,
           vga |-> [c \in Cells |-> IF c \in d.queue THEN d.buf[c] ELSE d.vga[c]],
           queue |-> {}]
  BY DEF ui_refresh
<1>2. d.buf = [c \in Cells |-> d.buf[c]]
  BY DEF Drawn, Drawing
<1>3. e.vga = d.buf
  BY <1>1, <1>2 DEF Drawn
<1>4. QED
  BY <1>1, <1>2, <1>3 DEF Drawn, Drawing

\* Scrolling once: what was queued is shown, and the box after it; nothing moves but
\* what is inside the frame.
LEMMA ScrollDrawn ==
    ASSUME NEW d, Drawn(d), NEW b \in Box, b.h > 2
    PROVE  LET e == ui_scroll_vertical(d, b)
           IN  /\ Drawn(e) /\ e.queue = {}
               /\ \A c \in Cells \ {Index(b, i, j) : i \in 1 .. b.w - 1, j \in 1 .. b.h - 1} :
                      e.buf[c] = d.buf[c]
<1> DEFINE r == ui_refresh(d)
           e == ui_scroll_vertical(d, b)
           moved == {Index(b, i, j) : i \in 1 .. b.w - 2, j \in 1 .. b.h - 3}
           emptied == {Index(b, i, b.h - 2) : i \in 1 .. b.w - 2}
           rows == [c \in Cells |-> IF c \in moved THEN r.buf[c + VGA_WIDTH]
                                    ELSE IF c \in emptied THEN Space ELSE r.buf[c]]
           region == Region(b.x, b.y, b.w, b.h)
           f == [buf |-> rows, vga |-> r.vga, queue |-> region]
<1>1. Drawn(r) /\ r.buf = d.buf /\ r.vga = r.buf /\ r.queue = {}
  BY RefreshDrawn
<1>2. e = ui_refresh(f)
  <2>1. Queue([buf |-> rows, vga |-> r.vga, queue |-> {}], region) = f
    BY DEF Queue
  <2>2. QED
    BY <2>1 DEF ui_scroll_vertical, ScrollRefreshes
<1>3. \A c \in moved \cup emptied : c \in Cells => c \in region
  <2>1. ASSUME NEW i \in 1 .. b.w - 2, NEW j \in 1 .. b.h - 2, Index(b, i, j) \in Cells
        PROVE  Index(b, i, j) \in region
    BY <2>1, InRegion DEF Box
  <2>2. \A c \in moved : \E i \in 1 .. b.w - 2, j \in 1 .. b.h - 2 : c = Index(b, i, j)
    BY DEF Box
  <2>3. \A c \in emptied : \E i \in 1 .. b.w - 2 : c = Index(b, i, b.h - 2)
    OBVIOUS
  <2>4. \A c \in moved \cup emptied :
            \E i \in 1 .. b.w - 2, j \in 1 .. b.h - 2 : c = Index(b, i, j)
    BY <2>2, <2>3 DEF Box
  <2> HIDE DEF moved, emptied, region
  <2>5. QED
    BY <2>1, <2>4
<1>4. Drawn(f)
  BY <1>1, <1>3 DEF Drawn, Drawing
<1>5. e.buf = rows /\ Drawn(e) /\ e.queue = {}
  BY <1>2, <1>4, RefreshDrawn
<1>6. ASSUME NEW c \in Cells \ {Index(b, i, j) : i \in 1 .. b.w - 1, j \in 1 .. b.h - 1}
      PROVE  e.buf[c] = d.buf[c]
  <2>1. c \notin moved
    BY DEF Box
  <2>2. c \notin emptied
    BY DEF Box
  <2>3. QED
    BY <1>1, <1>5, <2>1, <2>2
<1>7. QED
  BY <1>5, <1>6

-----------------------------------------------------------------------------
\* Induction over a set of numbers.
LEMMA AllNumbers ==
    ASSUME NEW T \in SUBSET Nat, 0 \in T, \A k \in T : k + 1 \in T
    PROVE  T = Nat
<1>1. SUFFICES ASSUME NEW n \in Nat \ T PROVE FALSE
  OBVIOUS
<1>2. \E x \in Nat \ T : \A y \in Nat \ T : ~(<<y, x>> \in OpToRel(<, Nat))
  BY <1>1, WFMin, NatLessThanWellFounded
<1>3. PICK x \in Nat \ T : \A y \in Nat \ T : ~(<<y, x>> \in OpToRel(<, Nat))
  BY <1>2
<1>4. x # 0 /\ x - 1 \in Nat /\ x - 1 < x
  OBVIOUS
<1>5. x - 1 \in T
  BY <1>3, <1>4 DEF OpToRel
<1>6. QED
  BY <1>4, <1>5

IsScrolling(f, d, b, n) ==
    f = [k \in 0 .. n |-> IF k = 0 THEN d ELSE ui_scroll_vertical(f[k - 1], b)]

LEMMA ScrollingExists ==
    ASSUME NEW d, NEW b, NEW n \in Nat
    PROVE  \E f : IsScrolling(f, d, b, n)
<1> DEFINE T == {m \in Nat : \E f : IsScrolling(f, d, b, m)}
<1>1. 0 \in T
  <2>1. IsScrolling([k \in 0 .. 0 |-> d], d, b, 0)
    BY DEF IsScrolling
  <2>2. QED
    BY <2>1
<1>2. ASSUME NEW m \in T PROVE m + 1 \in T
  <2>1. PICK f : IsScrolling(f, d, b, m)
    OBVIOUS
  <2> DEFINE g == [k \in 0 .. m + 1 |-> IF k <= m THEN f[k] ELSE ui_scroll_vertical(f[m], b)]
  <2>2. ASSUME NEW k \in 0 .. m + 1
        PROVE  g[k] = IF k = 0 THEN d ELSE ui_scroll_vertical(g[k - 1], b)
    <3>1. CASE k = 0
      BY <2>1, <3>1 DEF IsScrolling
    <3>2. CASE k \in 1 .. m
      <4>1. g[k] = f[k] /\ g[k - 1] = f[k - 1]
        BY <3>2
      <4>2. f[k] = ui_scroll_vertical(f[k - 1], b)
        BY <2>1, <3>2 DEF IsScrolling
      <4>3. QED
        BY <3>2, <4>1, <4>2
    <3>3. CASE k = m + 1
      <4>1. g[k] = ui_scroll_vertical(f[m], b) /\ g[k - 1] = f[m] /\ k # 0
        BY <3>3
      <4>2. QED
        BY <4>1
    <3>4. QED
      BY <3>1, <3>2, <3>3
  <2>3. g = [k \in 0 .. m + 1 |-> g[k]]
    OBVIOUS
  <2> HIDE DEF g
  <2>4. IsScrolling(g, d, b, m + 1)
    BY <2>2, <2>3 DEF IsScrolling
  <2>5. QED
    BY <2>4
<1> HIDE DEF T
<1>3. T = Nat
  BY <1>1, <1>2, AllNumbers DEF T
<1>4. QED
  BY <1>3 DEF T

\* Scrolling by n rows, or not at all.
LEMMA ScrollNDrawn ==
    ASSUME NEW d, Drawn(d), NEW b \in Box, b.h > 2, NEW n \in Nat
    PROVE  LET e == ui_scroll_vertical_n(d, b, n)
           IN  /\ Drawn(e)
               /\ n \in 1 .. b.h - 2 => e.queue = {}
               /\ \A c \in Cells \ {Index(b, i, j) : i \in 1 .. b.w - 1, j \in 1 .. b.h - 1} :
                      e.buf[c] = d.buf[c]
<1> DEFINE e == ui_scroll_vertical_n(d, b, n)
           scrolled == CHOOSE f : f = [k \in 0 .. n |-> IF k = 0 THEN d
                                                        ELSE ui_scroll_vertical(f[k - 1], b)]
           fixed == Cells \ {Index(b, i, j) : i \in 1 .. b.w - 1, j \in 1 .. b.h - 1}
<1>1. CASE n = 0 \/ n >= b.h - 1
  <2>1. e = d
    BY <1>1 DEF ui_scroll_vertical_n
  <2>2. QED
    BY <1>1, <2>1 DEF Box
<1>2. CASE n > 0 /\ n < b.h - 1
  <2>1. e = scrolled[n]
    BY <1>2 DEF ui_scroll_vertical_n, Box
  <2>2. IsScrolling(scrolled, d, b, n)
    BY ScrollingExists DEF IsScrolling
  <2> HIDE DEF scrolled
  <2> DEFINE T == {k \in Nat : k <= n => /\ Drawn(scrolled[k])
                                         /\ k > 0 => scrolled[k].queue = {}
                                         /\ \A c \in fixed : scrolled[k].buf[c] = d.buf[c]}
  <2> HIDE DEF fixed
  <2>3. 0 \in T
    BY <2>2 DEF IsScrolling
  <2>4. ASSUME NEW k \in T PROVE k + 1 \in T
    <3>1. SUFFICES ASSUME k + 1 <= n
                   PROVE  /\ Drawn(scrolled[k + 1]) /\ scrolled[k + 1].queue = {}
                          /\ \A c \in fixed : scrolled[k + 1].buf[c] = d.buf[c]
      OBVIOUS
    <3>2. scrolled[k + 1] = ui_scroll_vertical(scrolled[k], b)
      BY <2>2, <3>1 DEF IsScrolling
    <3>3. Drawn(scrolled[k]) /\ \A c \in fixed : scrolled[k].buf[c] = d.buf[c]
      BY <3>1
    <3>4. QED
      BY <3>2, <3>3, ScrollDrawn DEF fixed
  <2> HIDE DEF T
  <2>5. T = Nat
    BY <2>3, <2>4, AllNumbers DEF T
  <2>6. QED
    BY <1>2, <2>1, <2>5 DEF T, fixed
<1>3. QED
  BY <1>1, <1>2 DEF Box

-----------------------------------------------------------------------------
LEMMA ShellFacts ==
    /\ Shell \in Box /\ Shell.w \in Nat /\ Shell.w > 1 /\ Shell.h \in Nat /\ Shell.h > 2
    /\ Shell.h = Height /\ Shell.w = RowChars + 1
    /\ ClearedColumns \in Nat /\ ClearedColumns + 3 < Shell.w
    /\ ScrollFrom \in Nat /\ 1 <= ScrollFrom /\ ScrollFrom <= Height - 3
    /\ MaxAnswer \in Nat /\ MaxAnswer <= Height - 3
<1>1. Shell \in Box
  BY UiAssumption DEF Shell
<1>2. /\ Shell.w > 1 /\ Shell.h > 2 /\ Shell.h = Height /\ Shell.w = RowChars + 1
      /\ ClearedColumns + 3 < Shell.w
  BY UiAssumption DEF Shell
<1>3. QED
  BY <1>1, <1>2, ShellScreenAssumption DEF Box

\* Inside(op): the operation puts characters in the shell's box only.
Inside(op) == DOMAIN op.puts \subseteq Interior

LEMMA PutchInside ==
    ASSUME NEW x \in 0 .. Shell.w - 2, NEW y \in 0 .. Shell.h - 2, NEW ch
    PROVE  Inside(ui_putch(Shell, x, y, ch)) /\ WellMade(ui_putch(Shell, x, y, ch))
<1>1. x + 1 \in 1 .. Shell.w - 1 /\ y + 1 \in 1 .. Shell.h - 1
  BY ShellFacts
<1>2. QED
  BY <1>1, PutWellMade DEF Inside, ui_putch, Put, Interior

LEMMA PutstrInside ==
    ASSUME NEW x \in Nat, NEW y \in Nat, NEW n, NEW k, NEW length \in Nat
    PROVE  /\ Inside(ui_putstr(Shell, x, y, String(n, k, length)))
           /\ WellMade(ui_putstr(Shell, x, y, String(n, k, length)))
<1> DEFINE str == String(n, k, length)
<1>1. DOMAIN str = 1 .. length
  BY DEF String
<1>2. ASSUME NEW i \in 1 .. length PROVE At(Shell, x, y, i - 1) \in Interior
  <2>1. x + (i - 1) \in Nat
    OBVIOUS
  <2>2. ((x + (i - 1)) % (Shell.w - 1)) + 1 \in 1 .. Shell.w - 1
    <3>1. Shell.w - 1 \in Nat /\ Shell.w - 1 > 0
      BY ShellFacts
    <3>2. QED
      BY <2>1, <3>1, ModFacts
  <2>3. Breaks(Shell, x, i - 1) \in Nat
    <3>1. IsFiniteSet(0 .. i - 1)
      BY FS_Interval
    <3>2. IsFiniteSet({j \in 0 .. i - 1 : (x + j) % (Shell.w - 1) = 0})
      BY <3>1, FS_Subset
    <3>3. QED
      BY <3>2, FS_CardinalityType DEF Breaks
  <2>4. ((y + Breaks(Shell, x, i - 1)) % (Shell.h - 2)) + 1 \in 1 .. Shell.h - 1
    <3>1. Shell.h - 2 \in Nat /\ Shell.h - 2 > 0
      BY ShellFacts
    <3>2. y + Breaks(Shell, x, i - 1) \in Nat
      BY <2>3
    <3> DEFINE row == (y + Breaks(Shell, x, i - 1)) % (Shell.h - 2)
    <3>3. row \in 0 .. (Shell.h - 2) - 1
      BY <3>1, <3>2, ModFacts
    <3> HIDE DEF row
    <3>4. row + 1 \in 1 .. Shell.h - 1
      BY <3>1, <3>3, ShellFacts
    <3>5. QED
      BY <3>4 DEF row
  <2>5. QED
    BY <2>2, <2>4 DEF At, Interior
<1>3. DOMAIN ui_putstr(Shell, x, y, str).puts = {At(Shell, x, y, i - 1) : i \in 1 .. length}
  BY <1>1 DEF ui_putstr, Put
<1>4. WellMade(ui_putstr(Shell, x, y, str))
  BY PutWellMade DEF ui_putstr
<1>5. QED
  BY <1>2, <1>3, <1>4 DEF Inside

LEMMA ClearInside ==
    ASSUME NEW y \in 0 .. Shell.h - 2
    PROVE  /\ Inside(ui_clear_rv(Shell, 2, y, ClearedColumns))
           /\ WellMade(ui_clear_rv(Shell, 2, y, ClearedColumns))
<1>1. ASSUME NEW i \in 2 .. 2 + ClearedColumns - 1 PROVE Index(Shell, i + 1, y + 1) \in Interior
  <2>1. i + 1 \in 1 .. Shell.w - 1 /\ y + 1 \in 1 .. Shell.h - 1
    BY ShellFacts
  <2>2. QED
    BY <2>1 DEF Interior
<1>2. DOMAIN ui_clear_rv(Shell, 2, y, ClearedColumns).puts
        = {Index(Shell, i + 1, y + 1) : i \in 2 .. 2 + ClearedColumns - 1}
  BY DEF ui_clear_rv, Put
<1>3. QED
  BY <1>1, <1>2, ClearWellMade DEF Inside

LEMMA DrawKept ==
    ASSUME NEW d, NEW left, Kept(d, left), NEW ops, \A k \in DOMAIN ops : Inside(ops[k])
    PROVE  Kept(Draw(d, ops), left)
<1>1. ASSUME NEW c \in Cells \ Interior PROVE Draw(d, ops).buf[c] = d.buf[c]
  <2>1. {k \in DOMAIN ops : c \in DOMAIN ops[k].puts} = {}
    BY DEF Inside
  <2>2. QED
    BY <2>1 DEF Draw
<1>2. QED
  BY <1>1 DEF Kept

\* What kernel_main has drawn.
LEMMA BootedDrawn == Drawn(Booted)
<1> DEFINE zero == [c \in Cells |-> Space]
           empty == [buf |-> zero, vga |-> zero, queue |-> {}]
           boxes == [p \in DOMAIN Boxes |-> ui_box(p, Boxes[p])]
           texts == [i \in DOMAIN Texts |->
                       ui_putstr(Boxes[Texts[i].box], Texts[i].x, Texts[i].y,
                                 String(-1, i, Texts[i].length))]
           drawn == Draw(empty, boxes \o texts)
<1>1. \A p \in DOMAIN Boxes : WellMade(boxes[p])
  BY BoxWellMade, UiAssumption
<1>2. \A i \in DOMAIN Texts : WellMade(texts[i])
  BY PutWellMade DEF ui_putstr
<1>3. Drawn(empty)
  BY DEF Drawn, Drawing
<1>4. \A k \in DOMAIN (boxes \o texts) : WellMade((boxes \o texts)[k])
  <2>1. DOMAIN boxes = 1 .. Len(Boxes) /\ Len(Boxes) \in Nat
    BY UiAssumption
  <2>2. DOMAIN texts = 1 .. Len(Texts) /\ Len(Texts) \in Nat
    BY UiAssumption
  <2>3. DOMAIN Boxes = 1 .. Len(Boxes) /\ DOMAIN Texts = 1 .. Len(Texts)
    BY UiAssumption
  <2> HIDE DEF boxes, texts
  <2>4. /\ \A p \in 1 .. Len(Boxes) : WellMade(boxes[p])
        /\ \A i \in 1 .. Len(Texts) : WellMade(texts[i])
    BY <1>1, <1>2, <2>3
  <2>5. QED
    BY <2>1, <2>2, <2>4
<1> HIDE DEF empty, boxes, texts
<1>5. Drawn(drawn)
  BY <1>3, <1>4, DrawDrawn
<1> HIDE DEF drawn
<1>6. Drawn(ui_refresh(drawn))
  BY <1>5, RefreshDrawn
<1> DEFINE own == <<ui_box(ShellBox, Shell)>>
<1>7. \A k \in DOMAIN own : WellMade(own[k])
  BY BoxWellMade, ShellFacts
<1>8. Booted = Draw(ui_refresh(drawn), own)
  BY DEF Booted, drawn, boxes, texts, empty
<1>9. QED
  BY <1>6, <1>7, <1>8, DrawDrawn

-----------------------------------------------------------------------------
\* The invariant of the cells: what differs from what is shown is queued, and nothing
\* is queued when update_list is empty.
UiInv ==
    /\ IInv
    /\ Drawn(Screen) /\ Kept(Screen, wrapped)
    /\ update_list_len = 0 => update_list = {}

\* Show takes over a drawing.
LEMMA Shows ==
    ASSUME NEW d, Drawn(d), Kept(d, wrapped'), Show(d)
    PROVE  Drawn(Screen)' /\ Kept(Screen, wrapped)' /\ update_list' = d.queue
<1>1. Screen' = d
  <2>1. d = [buf |-> d.buf, vga |-> d.vga, queue |-> d.queue]
    BY DEF Drawn, Drawing
  <2>2. QED
    BY <2>1 DEF Screen, Show
<1>2. Drawn(Screen)'
  BY <1>1 DEF Drawn, Drawing, Cells
<1>3. Kept(Screen, wrapped)'
  BY <1>1 DEF Kept, Cells, Interior, Index, Shell
<1>4. QED
  BY <1>2, <1>3 DEF Show

LEMMA UiInvInit == UiInit => UiInv
<1> SUFFICES ASSUME UiInit PROVE UiInv
  OBVIOUS
<1>1. IInv /\ update_list_len # 0
  BY InitInvariant, Bounds DEF UiInit, Init
<1>2. Screen = Booted
  <2>1. Booted = [buf |-> Booted.buf, vga |-> Booted.vga, queue |-> Booted.queue]
    BY BootedDrawn DEF Drawn, Drawing
  <2>2. QED
    BY <2>1 DEF UiInit, Screen
<1>3. QED
  BY <1>1, <1>2, BootedDrawn DEF UiInv, Kept

\* Operations that put what they queue, inside the box, keep the invariant's part on
\* the screen.
Proper(op) == WellMade(op) /\ Inside(op)

LEMMA DrawProper ==
    ASSUME NEW d, NEW left, Drawn(d), Kept(d, left), NEW ops,
           \A k \in DOMAIN ops : Proper(ops[k])
    PROVE  Drawn(Draw(d, ops)) /\ Kept(Draw(d, ops), left)
BY DrawDrawn, DrawKept DEF Proper

LEMMA WithPromptDrawn ==
    ASSUME UiInv PROVE Drawn(WithPrompt) /\ Kept(WithPrompt, wrapped)
<1> DEFINE op == ui_putch(Shell, 0, current_line, Prompt)
<1>1. 0 \in 0 .. Shell.w - 2 /\ current_line \in 0 .. Shell.h - 2
  BY ShellFacts DEF UiInv, IInv
<1>2. Proper(op)
  BY <1>1, PutchInside DEF Proper
<1> HIDE DEF op
<1>3. \A k \in DOMAIN <<op>> : Proper(<<op>>[k])
  BY <1>2
<1>4. Drawn(Screen) /\ Kept(Screen, wrapped)
  BY DEF UiInv
<1>5. Drawn(Draw(Screen, <<op>>)) /\ Kept(Draw(Screen, <<op>>), wrapped)
  BY <1>3, <1>4, DrawProper
<1>6. QED
  BY <1>5 DEF WithPrompt, op

LEMMA ScrollNKept ==
    ASSUME NEW d, NEW left, Drawn(d), Kept(d, left), NEW n \in 1 .. Height - 2
    PROVE  LET e == ui_scroll_vertical_n(d, Shell, n)
           IN  Drawn(e) /\ Kept(e, left) /\ e.queue = {}
<1>1. n \in Nat /\ n \in 1 .. Shell.h - 2 /\ Shell \in Box /\ Shell.h > 2
  BY ShellFacts
<1>2. QED
  BY <1>1, ScrollNDrawn DEF Kept, Interior

-----------------------------------------------------------------------------
\* Where the characters of the shell's box are.
\* Division has one result, so a cell is one row and one column.
LEMMA OnePlace ==
    ASSUME NEW m \in Nat, NEW a \in Nat, NEW b \in Nat, NEW p \in 0 .. m - 1, NEW q \in 0 .. m - 1,
           a * m + p = b * m + q
    PROVE  a = b /\ p = q
<1>1. ASSUME NEW c \in Nat, NEW d \in Nat, c < d PROVE d * m >= c * m + m
  <2>1. PICK e \in Nat : d = c + 1 + e
    <3>1. d - c - 1 \in Nat /\ d = c + 1 + (d - c - 1)
      BY <1>1
    <3>2. QED
      BY <3>1
  <2>2. d * m = c * m + m + e * m
    BY <2>1
  <2>3. e * m \in Nat /\ c * m \in Nat
    OBVIOUS
  <2>4. QED
    BY <2>2, <2>3
<1>2. a * m \in Nat /\ b * m \in Nat
  OBVIOUS
<1>3. a = b
  BY <1>1, <1>2
<1>4. QED
  BY <1>2, <1>3

LEMMA ModIs ==
    ASSUME NEW m \in Nat, m > 0, NEW q \in Nat, NEW p \in 0 .. m - 1
    PROVE  (q * m + p) % m = p
OBVIOUS

\* The place of a column in row r, as ShellScreen counts the rows.
Place(r, column) == Index(Shell, column + 1, r + 1)
Columns == 0 .. Shell.w - 3      \* those that scrolling moves

LEMMA Places ==
    ASSUME NEW i \in 0 .. Shell.w, NEW j \in 0 .. Shell.h
    PROVE  /\ Index(Shell, i, j) \in Cells
           /\ Index(Shell, i, j) + VGA_WIDTH = Index(Shell, i, j + 1)
           /\ \A p \in 0 .. Shell.w, q \in 0 .. Shell.h :
                  Index(Shell, i, j) = Index(Shell, p, q) => i = p /\ j = q
<1> DEFINE x == Shell.x
           y == Shell.y
           W == VGA_WIDTH
           H == VGA_HEIGHT
<1>1. /\ x \in Nat /\ y \in Nat /\ W \in Nat /\ H \in Nat /\ Shell.w \in Nat /\ Shell.h \in Nat
      /\ x + Shell.w < W /\ y + Shell.h < H
  <2>1. Shell \in Box
    BY ShellFacts
  <2>2. x + Shell.w < W /\ y + Shell.h < H
    BY UiAssumption DEF Shell
  <2>3. QED
    BY <2>1, <2>2, UiAssumption DEF Box
<1>2. \A p \in 0 .. Shell.w, q \in 0 .. Shell.h :
          /\ Index(Shell, p, q) = (y + q) * W + (x + p)
          /\ y + q \in Nat /\ x + p \in 0 .. W - 1
  <2>1. TAKE p \in 0 .. Shell.w, q \in 0 .. Shell.h
  <2>2. y + q \in Nat /\ x + p \in 0 .. W - 1 /\ (y + q) * W \in Nat
    BY <1>1
  <2>3. QED
    BY <1>1, <2>2 DEF Index
<1>3. Index(Shell, i, j) \in Cells
  <2>1. PICK e \in Nat : H = (y + j) + 1 + e
    <3>1. H - (y + j) - 1 \in Nat
      BY <1>1
    <3>2. QED
      BY <1>1, <3>1
  <2>2. W * H = (y + j) * W + W + e * W
    BY <1>1, <2>1
  <2>3. e * W \in Nat /\ (y + j) * W \in Nat
    BY <1>1
  <2> DEFINE before == (y + j) * W
             after == e * W
  <2>4. Index(Shell, i, j) = before + (x + i) /\ x + i \in 0 .. W - 1
    BY <1>2
  <2>5. W * H = before + W + after /\ before \in Nat /\ after \in Nat
    BY <2>2, <2>3
  <2> HIDE DEF before, after, x, W, H
  <2>6. before + (x + i) \in 0 .. W * H - 1
    BY <1>1, <2>4, <2>5
  <2>7. QED
    BY <2>4, <2>6 DEF Cells, W, H
<1>4. Index(Shell, i, j) + W = Index(Shell, i, j + 1)
  <2>1. (y + (j + 1)) * W = (y + j) * W + W
    <3> DEFINE a == y + j
    <3> HIDE DEF y, W
    <3>1. a \in Nat /\ y + (j + 1) = a + 1
      BY <1>1
    <3> HIDE DEF a
    <3>2. (a + 1) * W = a * W + W
      BY <1>1, <3>1
    <3>3. QED
      BY <3>1, <3>2 DEF a
  <2>2. (y + j) * W \in Nat /\ x + i \in Nat
    BY <1>1
  <2> QED
    BY <1>1, <2>1, <2>2 DEF Index
<1>5. ASSUME NEW p \in 0 .. Shell.w, NEW q \in 0 .. Shell.h,
             Index(Shell, i, j) = Index(Shell, p, q)
      PROVE  i = p /\ j = q
  <2>1. (y + j) * W + (x + i) = (y + q) * W + (x + p)
    BY <1>2, <1>5
  <2>2. /\ y + j \in Nat /\ y + q \in Nat /\ W \in Nat
        /\ x + i \in 0 .. W - 1 /\ x + p \in 0 .. W - 1
    BY <1>1, <1>2
  <2> HIDE DEF x, y, W
  <2>3. y + j = y + q /\ x + i = x + p
    BY <2>1, <2>2, OnePlace
  <2>4. QED
    BY <1>1, <2>3
<1>6. QED
  BY <1>3, <1>4, <1>5

LEMMA ColumnFacts ==
    /\ Shell.w \in Nat /\ Shell.w - 1 \in Nat /\ 3 <= Shell.w - 1
    /\ ClearedColumns \in Nat /\ ClearedColumns + 1 \in Columns
    /\ Columns \subseteq 0 .. Shell.w - 2 /\ 0 .. Shell.w - 2 \subseteq Nat
    /\ Rows \subseteq Nat /\ \A r \in Rows : r + 1 \in 1 .. Shell.h - 2
<1>1. /\ Shell.w \in Nat /\ ClearedColumns \in Nat /\ ClearedColumns + 3 < Shell.w
      /\ Shell.h = Height /\ Height \in Nat /\ Height >= 4 /\ Rows = 0 .. Height - 3
  BY ShellFacts, Sizes
<1> HIDE DEF Rows
<1>2. QED
  BY <1>1 DEF Columns

LEMMA RowPlaces ==
    ASSUME NEW r \in Rows, NEW column \in 0 .. Shell.w - 2
    PROVE  /\ Place(r, column) \in Cells
           /\ \A q \in Rows, other \in 0 .. Shell.w - 2 :
                  Place(r, column) = Place(q, other) => r = q /\ column = other
<1>1. \A q \in Rows, other \in 0 .. Shell.w - 2 :
          other + 1 \in 0 .. Shell.w /\ q + 1 \in 0 .. Shell.h
  BY ColumnFacts, ShellFacts
<1>2. r \in Nat /\ column \in Nat
  BY ColumnFacts
<1>3. Place(r, column) \in Cells
  BY <1>1, Places DEF Place
<1>4. ASSUME NEW q \in Rows, NEW other \in 0 .. Shell.w - 2, Place(r, column) = Place(q, other)
      PROVE  r = q /\ column = other
  <2>1. column + 1 = other + 1 /\ r + 1 = q + 1
    BY <1>1, <1>4, Places DEF Place
  <2>2. QED
    BY <1>2, <2>1, ColumnFacts
<1>5. QED
  BY <1>3, <1>4

\* A set of places in a sequence has a last one.
LEMMA LastOf ==
    ASSUME NEW n \in Nat, NEW T \in SUBSET (1 .. n), T # {}
    PROVE  \E x \in T : \A y \in T : x >= y
<1> DEFINE U == {n - y : y \in T}
<1>1. U # {} /\ U \subseteq Nat
  <2>1. \A y \in T : n - y \in Nat
    OBVIOUS
  <2>2. U # {}
    OBVIOUS
  <2>3. QED
    BY <2>1, <2>2
<1>2. \E u \in U : \A v \in U : ~(<<v, u>> \in OpToRel(<, Nat))
  BY <1>1, WFMin, NatLessThanWellFounded
<1>3. PICK x \in T : \A v \in U : ~(<<v, n - x>> \in OpToRel(<, Nat))
  BY <1>2
<1>4. ASSUME NEW y \in T PROVE x >= y
  <2>1. ~(<<n - y, n - x>> \in OpToRel(<, Nat))
    BY <1>3
  <2>2. n - y \in Nat /\ n - x \in Nat
    OBVIOUS
  <2>3. ~(n - y < n - x)
    BY <2>1, <2>2 DEF OpToRel
  <2>4. QED
    BY <2>3
<1>5. QED
  BY <1>4

\* What a drawing leaves in a cell: what was there, or what the last operation puts.
LEMMA DrawAt ==
    ASSUME NEW d, NEW ops, NEW c \in Cells, DOMAIN ops \subseteq Int
    PROVE  /\ (\A k \in DOMAIN ops : c \notin DOMAIN ops[k].puts) => Draw(d, ops).buf[c] = d.buf[c]
           /\ \A k \in DOMAIN ops :
                  /\ c \in DOMAIN ops[k].puts
                  /\ \A l \in DOMAIN ops : c \in DOMAIN ops[l].puts => l <= k
                  => Draw(d, ops).buf[c] = ops[k].puts[c]
<1> DEFINE writers == {k \in DOMAIN ops : c \in DOMAIN ops[k].puts}
<1>1. Draw(d, ops).buf[c] = IF writers = {} THEN d.buf[c] ELSE ops[Max(writers)].puts[c]
  BY DEF Draw
<1>2. ASSUME NEW k \in DOMAIN ops, c \in DOMAIN ops[k].puts,
             \A l \in DOMAIN ops : c \in DOMAIN ops[l].puts => l <= k
      PROVE  Draw(d, ops).buf[c] = ops[k].puts[c]
  <2>1. k \in writers /\ \A l \in writers : l <= k /\ l \in Int
    BY <1>2
  <2> HIDE DEF writers
  <2>2. Max(writers) = k
    BY <2>1 DEF Max
  <2>3. QED
    BY <1>1, <2>1, <2>2
<1>3. QED
  BY <1>1, <1>2

\* An operation after others: they show where it puts nothing.
LEMMA AppendedWins ==
    ASSUME NEW d, NEW S, NEW ops \in Seq(S), NEW op \in S, NEW c \in Cells, c \in DOMAIN op.puts
    PROVE  Draw(d, Append(ops, op)).buf[c] = op.puts[c]
<1> DEFINE all == Append(ops, op)
           n == Len(ops)
<1>1. DOMAIN all = 1 .. n + 1 /\ n \in Nat /\ all[n + 1] = op
  OBVIOUS
<1> HIDE DEF all
<1>2. n + 1 \in DOMAIN all /\ c \in DOMAIN all[n + 1].puts
  BY <1>1
<1>3. DOMAIN all \subseteq Int /\ \A l \in DOMAIN all : l <= n + 1
  BY <1>1
<1>4. Draw(d, all).buf[c] = all[n + 1].puts[c]
  BY <1>2, <1>3, DrawAt
<1>5. QED
  BY <1>1, <1>4 DEF all

LEMMA AppendedElsewhere ==
    ASSUME NEW d, NEW S, NEW ops \in Seq(S), NEW op \in S, NEW c \in Cells, c \notin DOMAIN op.puts
    PROVE  Draw(d, Append(ops, op)).buf[c] = Draw(d, ops).buf[c]
<1> DEFINE all == Append(ops, op)
           n == Len(ops)
           writers(s) == {k \in DOMAIN s : c \in DOMAIN s[k].puts}
<1>1. /\ DOMAIN all = 1 .. n + 1 /\ DOMAIN ops = 1 .. n /\ n \in Nat
      /\ all[n + 1] = op /\ \A k \in 1 .. n : all[k] = ops[k]
  OBVIOUS
<1> HIDE DEF all
<1>2. writers(all) = writers(ops)
  BY <1>1
<1>3. Draw(d, all).buf[c] = IF writers(all) = {} THEN d.buf[c] ELSE all[Max(writers(all))].puts[c]
  BY DEF Draw
<1>4. Draw(d, ops).buf[c] = IF writers(ops) = {} THEN d.buf[c] ELSE ops[Max(writers(ops))].puts[c]
  BY DEF Draw
<1>5. writers(ops) # {} => Max(writers(ops)) \in writers(ops)
  <2>1. SUFFICES ASSUME writers(ops) # {} PROVE Max(writers(ops)) \in writers(ops)
    OBVIOUS
  <2>2. writers(ops) \subseteq 1 .. n
    BY <1>1
  <2> DEFINE T == writers(ops)
  <2> HIDE DEF T
  <2>3. \E x \in T : \A y \in T : x >= y
    BY <1>1, <2>1, <2>2, LastOf DEF T
  <2>4. QED
    BY <2>3 DEF Max, T
<1>6. QED
  BY <1>1, <1>2, <1>3, <1>4, <1>5 DEF all

\* Where the characters of a string go that starts at column 2.
LEMMA BreaksAt ==
    ASSUME NEW i \in Nat
    PROVE  /\ Breaks(Shell, 2, i) \in Nat
           /\ (2 + i) % (Shell.w - 1) \in 0 .. Shell.w - 2
           /\ 2 + i = Breaks(Shell, 2, i) * (Shell.w - 1) + ((2 + i) % (Shell.w - 1))
<1> DEFINE m == Shell.w - 1
           at(k) == {j \in 0 .. k : (2 + j) % m = 0}
           T == {k \in Nat : /\ Cardinality(at(k)) \in Nat
                             /\ 2 + k = Cardinality(at(k)) * m + ((2 + k) % m)}
<1>1. m \in Nat /\ 3 <= m /\ Shell.w - 2 = m - 1
  BY ColumnFacts
<1> HIDE DEF m
<1>2. \A k \in Nat : IsFiniteSet(at(k))
  <2>1. TAKE k \in Nat
  <2>2. IsFiniteSet(0 .. k)
    BY FS_Interval
  <2>3. at(k) \subseteq 0 .. k
    OBVIOUS
  <2> HIDE DEF at
  <2> QED
    BY <2>2, <2>3, FS_Subset
<1>3. 0 \in T
  <2>1. (2 + 0) % m = 2
    BY <1>1, ModFacts
  <2>2. at(0) = {}
    BY <2>1
  <2> HIDE DEF at
  <2>3. Cardinality(at(0)) = 0
    BY <2>2, FS_EmptySet
  <2>4. QED
    BY <1>1, <2>1, <2>3
<1>4. ASSUME NEW k \in T PROVE k + 1 \in T
  <2> DEFINE B == Cardinality(at(k))
             p == (2 + k) % m
  <2>1. B \in Nat /\ 2 + k = B * m + p /\ k \in Nat /\ p \in 0 .. m - 1
    BY <1>1, ModFacts
  <2>2. CASE p = m - 1
    <3>1. 2 + (k + 1) = (B + 1) * m + 0
      BY <1>1, <2>1, <2>2
    <3> HIDE DEF B, p
    <3>2. (2 + (k + 1)) % m = 0
      <4>1. ((B + 1) * m + 0) % m = 0
        BY <1>1, <2>1, ModIs
      <4>2. QED
        BY <3>1, <4>1
    <3>3. at(k + 1) = at(k) \cup {k + 1} /\ k + 1 \notin at(k)
      BY <2>1, <3>2
    <3> HIDE DEF at
    <3>4. Cardinality(at(k + 1)) = B + 1
      BY <1>2, <2>1, <3>3, FS_AddElement DEF B
    <3>5. QED
      BY <2>1, <3>1, <3>2, <3>4
  <2>3. CASE p # m - 1
    <3>1. 2 + (k + 1) = B * m + (p + 1) /\ p + 1 \in 0 .. m - 1 /\ p + 1 # 0
      <4>1. B * m \in Nat
        BY <1>1, <2>1
      <4> HIDE DEF B, p
      <4>2. QED
        BY <1>1, <2>1, <2>3, <4>1
    <3> HIDE DEF B, p
    <3>2. (2 + (k + 1)) % m = p + 1
      <4> DEFINE after == p + 1
      <4>0. B \in Nat /\ m \in Nat /\ m > 0 /\ after \in 0 .. m - 1
        BY <1>1, <2>1, <3>1
      <4> HIDE DEF after
      <4>1. (B * m + after) % m = after
        BY <4>0, ModIs
      <4>2. QED
        BY <3>1, <4>1 DEF after
    <3>3. at(k + 1) = at(k)
      <4>1. \A j \in 0 .. k + 1 : j \in 0 .. k \/ j = k + 1
        BY <2>1
      <4>2. 0 .. k \subseteq 0 .. k + 1 /\ (2 + (k + 1)) % m # 0
        BY <2>1, <3>1, <3>2
      <4>3. QED
        BY <4>1, <4>2
    <3> HIDE DEF at
    <3>4. Cardinality(at(k + 1)) = B
      BY <3>3 DEF B
    <3>5. QED
      BY <2>1, <3>1, <3>2, <3>4
  <2>4. QED
    BY <2>2, <2>3
<1> HIDE DEF T
<1>5. T = Nat
  BY <1>3, <1>4, AllNumbers DEF T
<1>6. i \in T
  BY <1>5
<1>7. (2 + i) % m \in 0 .. m - 1
  BY <1>1, ModFacts
<1>8. QED
  BY <1>1, <1>6, <1>7 DEF T, m, Breaks

LEMMA BreaksGrow ==
    ASSUME NEW i \in Nat, NEW k \in Nat, i <= k
    PROVE  Breaks(Shell, 2, i) <= Breaks(Shell, 2, k)
<1> DEFINE at(l) == {j \in 0 .. l : (2 + j) % (Shell.w - 1) = 0}
<1>1. IsFiniteSet(at(k))
  <2>1. IsFiniteSet(0 .. k)
    BY FS_Interval
  <2>2. at(k) \subseteq 0 .. k
    OBVIOUS
  <2> HIDE DEF at
  <2>3. QED
    BY <2>1, <2>2, FS_Subset
<1>2. at(i) \subseteq at(k)
  OBVIOUS
<1> HIDE DEF at
<1>3. Cardinality(at(i)) <= Cardinality(at(k))
  BY <1>1, <1>2, FS_Subset
<1>4. QED
  BY <1>3 DEF Breaks, at

\* What the model has as shell_run's advance of line: the rows of a string.
LEMMA LinesPositive ==
    ASSUME NEW length \in Nat
    PROVE  Lines(Shell, 2, length) \in Nat /\ Lines(Shell, 2, length) > 0
<1>1. CASE length = 0
  BY <1>1 DEF Lines
<1>2. CASE length # 0
  <2>1. length - 1 \in Nat /\ Lines(Shell, 2, length) = 1 + Breaks(Shell, 2, length - 1)
    BY <1>2 DEF Lines
  <2>2. QED
    BY <2>1, BreaksAt
<1>3. QED
  BY <1>1, <1>2

\* The rows of an answer's strings follow one another.
IsRowSum(f, strings, n) ==
    f = [t \in 1 .. n + 1 |-> IF t = 1 THEN 0 ELSE f[t - 1] + Lines(Shell, 2, strings[t - 1])]

LEMMA RowSumExists ==
    ASSUME NEW strings, NEW n \in Nat
    PROVE  \E f : IsRowSum(f, strings, n)
<1> DEFINE T == {m \in Nat : \E f : IsRowSum(f, strings, m)}
           Ending(f, m) == f[m + 1] + Lines(Shell, 2, strings[m + 1])
<1>1. 0 \in T
  <2>1. IsRowSum([t \in 1 .. 0 + 1 |-> 0], strings, 0)
    BY DEF IsRowSum
  <2>2. QED
    BY <2>1
<1>2. ASSUME NEW m \in T PROVE m + 1 \in T
  <2>1. PICK f : IsRowSum(f, strings, m)
    OBVIOUS
  <2> DEFINE g == [t \in 1 .. (m + 1) + 1 |-> IF t <= m + 1 THEN f[t] ELSE Ending(f, m)]
  <2> HIDE DEF Ending
  <2>2. ASSUME NEW t \in 1 .. (m + 1) + 1
        PROVE  g[t] = IF t = 1 THEN 0 ELSE g[t - 1] + Lines(Shell, 2, strings[t - 1])
    <3>1. CASE t = 1
      BY <2>1, <3>1 DEF IsRowSum
    <3>2. CASE t \in 2 .. m + 1
      <4>1. g[t] = f[t] /\ g[t - 1] = f[t - 1]
        BY <3>2
      <4>2. f[t] = f[t - 1] + Lines(Shell, 2, strings[t - 1])
        BY <2>1, <3>2 DEF IsRowSum
      <4>3. QED
        BY <3>2, <4>1, <4>2
    <3>3. CASE t = m + 2
      <4>1. g[t] = Ending(f, m) /\ g[t - 1] = f[m + 1] /\ t # 1 /\ t - 1 = m + 1
        BY <3>3
      <4>2. QED
        BY <4>1 DEF Ending
    <3>4. QED
      BY <3>1, <3>2, <3>3
  <2>3. g = [t \in 1 .. (m + 1) + 1 |-> g[t]]
    OBVIOUS
  <2> HIDE DEF g
  <2>4. IsRowSum(g, strings, m + 1)
    BY <2>2, <2>3 DEF IsRowSum
  <2>5. QED
    BY <2>4
<1> HIDE DEF T
<1>3. T = Nat
  BY <1>1, <1>2, AllNumbers DEF T
<1>4. QED
  BY <1>3 DEF T

LEMMA RowsBeforeIs ==
    ASSUME NEW strings \in Seq(Nat)
    PROVE  /\ RowsBefore(strings, 1) = 0
           /\ \A s \in 1 .. Len(strings) :
                  RowsBefore(strings, s + 1) = RowsBefore(strings, s) + Lines(Shell, 2, strings[s])
<1> DEFINE f == CHOOSE g : IsRowSum(g, strings, Len(strings))
<1>1. IsRowSum(f, strings, Len(strings))
  <2>1. Len(strings) \in Nat
    OBVIOUS
  <2>2. QED
    BY <2>1, RowSumExists
<1>2. \A s : RowsBefore(strings, s) = f[s]
  BY DEF RowsBefore, IsRowSum
<1> HIDE DEF f
<1>3. f[1] = 0
  BY <1>1 DEF IsRowSum
<1>4. ASSUME NEW s \in 1 .. Len(strings)
      PROVE  f[s + 1] = f[s] + Lines(Shell, 2, strings[s])
  <2>1. s + 1 \in 1 .. Len(strings) + 1 /\ s + 1 # 1 /\ (s + 1) - 1 = s
    OBVIOUS
  <2>2. QED
    BY <1>1, <2>1 DEF IsRowSum
<1>5. QED
  BY <1>2, <1>3, <1>4

LEMMA RowsBeforeOrder ==
    ASSUME NEW strings \in Seq(Nat)
    PROVE  \A t \in 1 .. Len(strings) + 1 :
               /\ RowsBefore(strings, t) \in Nat
               /\ \A s \in 1 .. t : RowsBefore(strings, s) <= RowsBefore(strings, t)
<1> DEFINE R(s) == RowsBefore(strings, s)
           L(s) == Lines(Shell, 2, strings[s])
           T == {k \in Nat : k <= Len(strings) =>
                     /\ R(k + 1) \in Nat
                     /\ \A s \in 1 .. k + 1 : R(s) \in Nat /\ R(s) <= R(k + 1)}
<1>1. R(1) = 0 /\ \A s \in 1 .. Len(strings) : R(s + 1) = R(s) + L(s)
  BY RowsBeforeIs
<1>2. \A s \in 1 .. Len(strings) : L(s) \in Nat
  <2>1. TAKE s \in 1 .. Len(strings)
  <2>2. strings[s] \in Nat
    OBVIOUS
  <2>3. QED
    BY <2>2, LinesPositive
<1> HIDE DEF R, L
<1>3. 0 \in T
  BY <1>1
<1>4. ASSUME NEW k \in T PROVE k + 1 \in T
  <2>1. SUFFICES ASSUME k + 1 <= Len(strings)
                 PROVE  /\ R((k + 1) + 1) \in Nat
                        /\ \A s \in 1 .. (k + 1) + 1 : R(s) \in Nat /\ R(s) <= R((k + 1) + 1)
    OBVIOUS
  <2>2. R(k + 1) \in Nat /\ \A s \in 1 .. k + 1 : R(s) \in Nat /\ R(s) <= R(k + 1)
    BY <2>1
  <2>3. R((k + 1) + 1) = R(k + 1) + L(k + 1) /\ L(k + 1) \in Nat
    BY <1>1, <1>2, <2>1
  <2>4. ASSUME NEW s \in 1 .. (k + 1) + 1 PROVE R(s) \in Nat /\ R(s) <= R((k + 1) + 1)
    <3>1. CASE s = (k + 1) + 1
      BY <2>2, <2>3, <3>1
    <3>2. CASE s \in 1 .. k + 1
      <4>1. R(s) <= R(k + 1) /\ R(s) \in Nat
        BY <2>2, <3>2
      <4>2. QED
        BY <2>2, <2>3, <4>1
    <3>3. QED
      BY <3>1, <3>2
  <2>5. QED
    BY <2>2, <2>3, <2>4
<1> HIDE DEF T
<1>5. T = Nat
  BY <1>3, <1>4, AllNumbers DEF T
<1>6. ASSUME NEW t \in 1 .. Len(strings) + 1
      PROVE  R(t) \in Nat /\ \A s \in 1 .. t : R(s) <= R(t)
  <2>1. t - 1 \in T /\ t - 1 <= Len(strings) /\ (t - 1) + 1 = t
    BY <1>5
  <2>2. QED
    BY <2>1 DEF T
<1>7. QED
  BY <1>6 DEF R

-----------------------------------------------------------------------------
LEMMA EnterKeeps ==
    ASSUME UiInv, NEW strings \in Answers, UiEnter(strings)
    PROVE  UiInv'
<1> DEFINE k == RowsOf(strings)
           line == current_line + 1
           answer == [s \in DOMAIN strings |->
                         ui_putstr(Shell, 2, line + RowsBefore(strings, s),
                                   String(commands, s, strings[s]))]
           drawn == Draw(WithPrompt, answer)
           scrolled == ui_scroll_vertical_n(drawn, Shell, k + 1)
<1>1. /\ Enter(k) /\ k \in 0 .. MaxAnswer
      /\ Show(IF Scrolls(line, k) THEN scrolled ELSE drawn)
  BY AnswersAssumption DEF UiEnter
<1>2. IInv' /\ update_list_len \in Nat /\ wrapped' = wrapped
  BY <1>1, EnterInvariant DEF UiInv, IInv, Enter
<1>3. \A s \in DOMAIN answer : Proper(answer[s])
  <2>1. TAKE s \in DOMAIN answer
  <2>2. RowsBefore(strings, s) \in Nat /\ strings[s] \in Nat
    <3>1. strings \in Seq(Nat) /\ s \in 1 .. Len(strings) /\ s \in 1 .. Len(strings) + 1
      BY AnswersAssumption
    <3>2. QED
      BY <3>1, RowsBeforeOrder
  <2>3. line + RowsBefore(strings, s) \in Nat
    BY <2>2 DEF UiInv, IInv
  <2>4. QED
    BY <2>2, <2>3, PutstrInside DEF Proper
<1> HIDE DEF answer
<1>4. Drawn(drawn) /\ Kept(drawn, wrapped)
  BY <1>3, WithPromptDrawn, DrawProper
<1> HIDE DEF drawn, k
<1>5. CASE Scrolls(line, k)
  <2>1. k + 1 \in 1 .. Height - 2
    BY <1>1, ShellFacts
  <2>2. Drawn(scrolled) /\ Kept(scrolled, wrapped) /\ scrolled.queue = {}
    BY <1>4, <2>1, ScrollNKept
  <2>3. Show(scrolled)
    BY <1>1, <1>5
  <2> HIDE DEF scrolled
  <2>4. QED
    BY <1>2, <2>2, <2>3, Shows DEF UiInv
<1>6. CASE ~Scrolls(line, k)
  <2>1. update_list_len' # 0
    <3>1. update_list_len' = update_list_len + 1 + k * RowChars
      BY <1>1, <1>6 DEF Enter
    <3>2. k * RowChars \in Nat
      BY <1>1, RowsOfAnAnswer
    <3>3. QED
      BY <1>2, <3>1, <3>2
  <2>2. Show(drawn)
    BY <1>1, <1>6
  <2>3. QED
    BY <1>2, <1>4, <2>1, <2>2, Shows DEF UiInv
<1>7. QED
  BY <1>5, <1>6

LEMMA RedrawKeeps ==
    ASSUME UiInv, NEW backspace \in BOOLEAN, NEW other \in BOOLEAN, NEW length \in TypedLengths,
           UiRedraw(backspace, other, length)
    PROVE  UiInv'
<1> DEFINE typed == ui_putstr(Shell, 2, current_line, String(commands, 0, length))
           cleared == ui_clear_rv(Shell, 2, current_line, ClearedColumns)
           keys == (IF backspace THEN <<cleared, typed>> ELSE <<>>)
                   \o (IF other THEN <<typed>> ELSE <<>>)
           cursor == ui_putch(Shell, 2 + length, current_line, Cursor)
           ops == Append(keys, cursor)
           S == {cleared, typed, cursor}
<1>1. /\ Redraw(backspace, other, length) /\ Show(Draw(Screen, ops))
      /\ wrapped' = (wrapped \/ LeavesRow(length))
  BY DEF UiRedraw, Redraw
<1>2. IInv' /\ update_list_len' # 0
  BY <1>1, RedrawInvariant DEF UiInv
<1>3. length \in Nat /\ current_line \in Nat /\ current_line \in 0 .. Shell.h - 2
  BY Bounds, ShellFacts DEF UiInv, IInv
<1>4. Proper(typed)
  BY <1>3, PutstrInside DEF Proper
<1>5. Proper(cleared)
  BY <1>3, ClearInside DEF Proper
\* only the cursor of a line that leaves its row is put elsewhere
<1>6. WellMade(cursor) /\ (Inside(cursor) \/ LeavesRow(length))
  <2>1. WellMade(cursor)
    BY PutWellMade DEF ui_putch
  <2>2. ASSUME ~LeavesRow(length) PROVE Inside(cursor)
    <3>1. 2 + length \in 0 .. Shell.w - 2
      BY <1>3, <2>2, Bounds, ShellFacts DEF LeavesRow
    <3>2. QED
      BY <1>3, <3>1, PutchInside
  <2>3. QED
    BY <2>1, <2>2
<1>7. \A c \in DOMAIN cursor.puts : cursor.puts[c] = Cursor
  BY DEF ui_putch, Put
<1> HIDE DEF typed, cleared, cursor
<1>8. keys \in Seq({cleared, typed}) /\ keys \in Seq(S) /\ ops \in Seq(S) /\ cursor \in S
  <2> DEFINE K == {cleared, typed}
             first == IF backspace THEN <<cleared, typed>> ELSE <<>>
             second == IF other THEN <<typed>> ELSE <<>>
  <2>1. cleared \in K /\ typed \in K /\ cursor \in S /\ K \subseteq S
    OBVIOUS
  <2> HIDE DEF S, K
  <2>2. <<cleared, typed>> \in Seq(K) /\ <<typed>> \in Seq(K) /\ <<>> \in Seq(K)
    BY <2>1
  <2>3. first \in Seq(K)
    BY <2>2
  <2>4. second \in Seq(K)
    BY <2>2
  <2> HIDE DEF first, second
  <2>5. first \o second \in Seq(K)
    BY <2>3, <2>4, ConcatProperties
  <2>6. keys \in Seq(K)
    BY <2>5 DEF first, second
  <2> HIDE DEF keys
  <2>7. keys \in Seq(S)
    BY <2>1, <2>6
  <2>8. ops \in Seq(S)
    BY <2>1, <2>7, AppendProperties
  <2>9. QED
    BY <2>1, <2>6, <2>7, <2>8 DEF K
<1> HIDE DEF keys
<1>9. \A k \in DOMAIN ops : WellMade(ops[k])
  <2> HIDE DEF ops
  <2>1. \A k \in DOMAIN ops : ops[k] \in S
    BY <1>8
  <2>2. QED
    BY <1>4, <1>5, <1>6, <2>1 DEF S, Proper
<1>10. \A k \in DOMAIN keys : Inside(keys[k])
  <2>1. \A k \in DOMAIN keys : keys[k] \in {cleared, typed}
    BY <1>8
  <2>2. QED
    BY <1>4, <1>5, <2>1 DEF Proper
<1>11. Drawn(Draw(Screen, ops))
  BY <1>9, DrawDrawn DEF UiInv
<1>12. Kept(Draw(Screen, keys), wrapped)
  BY <1>10, DrawKept DEF UiInv
<1>13. Kept(Draw(Screen, ops), wrapped')
  <2>1. SUFFICES ASSUME NEW c \in Cells \ Interior
                 PROVE  \/ Draw(Screen, ops).buf[c] = Booted.buf[c]
                        \/ wrapped' /\ Draw(Screen, ops).buf[c] = Cursor
    BY DEF Kept
  <2>2. CASE c \in DOMAIN cursor.puts
    <3> HIDE DEF S
    <3>1. Draw(Screen, ops).buf[c] = cursor.puts[c]
      BY <1>8, <2>2, AppendedWins
    <3>2. wrapped'
      BY <1>1, <1>6, <2>2 DEF Inside
    <3>3. QED
      BY <1>7, <2>2, <3>1, <3>2
  <2>3. CASE c \notin DOMAIN cursor.puts
    <3>1. Draw(Screen, ops).buf[c] = Draw(Screen, keys).buf[c]
      BY <1>8, <2>3, AppendedElsewhere
    <3>2. QED
      BY <1>1, <1>12, <3>1 DEF Kept
  <2>4. QED
    BY <2>2, <2>3
<1> HIDE DEF ops
<1>14. QED
  BY <1>1, <1>2, <1>11, <1>13, Shows DEF UiInv

LEMMA ClearKeeps == ASSUME UiInv, UiClear PROVE UiInv'
<1> DEFINE e == ui_scroll_vertical_n(WithPrompt, Shell, current_line + 1)
<1>1. Clear /\ Show(e)
  BY DEF UiClear
<1>2. current_line + 1 \in 1 .. Height - 2
  BY ShellFacts DEF UiInv, IInv
<1>3. Drawn(e) /\ Kept(e, wrapped) /\ e.queue = {}
  BY <1>2, WithPromptDrawn, ScrollNKept
<1> HIDE DEF e
<1>4. IInv' /\ wrapped' = wrapped
  BY <1>1, Bounds DEF UiInv, Clear, IInv, QueueFits
<1>5. QED
  BY <1>1, <1>3, <1>4, Shows DEF UiInv

LEMMA UiInvStep == UiInv /\ [UiNext]_uiVars => UiInv'
<1> SUFFICES ASSUME UiInv, [UiNext]_uiVars PROVE UiInv'
  OBVIOUS
<1>0. IInv'
  BY CellStepsAreRowSteps, StepInvariant DEF UiInv
<1>1. ASSUME NEW strings \in Answers, UiEnter(strings) PROVE UiInv'
  BY <1>1, EnterKeeps
<1>2. CASE UiClear
  BY <1>2, ClearKeeps
<1>3. CASE UiNoReturn
  <2>1. update_list_len' # 0 /\ wrapped' = wrapped
    BY <1>3 DEF UiNoReturn, NoReturn, UiInv, IInv
  <2>2. QED
    BY <1>0, <1>3, <2>1, WithPromptDrawn, Shows DEF UiNoReturn, UiInv
<1>4. ASSUME NEW backspace \in BOOLEAN, NEW other \in BOOLEAN, NEW length \in TypedLengths,
             UiRedraw(backspace, other, length)
      PROVE  UiInv'
  BY <1>4, RedrawKeeps
<1>5. CASE UiRefresh
  <2>0. wrapped' = wrapped
    BY <1>5 DEF UiRefresh, Refresh
  <2>1. LET e == ui_refresh(Screen)
        IN  Drawn(e) /\ Kept(e, wrapped) /\ e.queue = {}
    BY RefreshDrawn DEF UiInv, Kept
  <2>2. QED
    BY <1>0, <1>5, <2>0, <2>1, Shows DEF UiRefresh, UiInv
<1>6. ASSUME UNCHANGED <<ui, update_list_len, wrapped>> PROVE UiInv'
  <2>1. Screen' = Screen
    BY <1>6 DEF ui, Screen
  <2>2. Drawn(Screen)' /\ Kept(Screen, wrapped)'
    <3>1. Drawn(Screen)'
      BY <2>1 DEF UiInv, Drawn, Drawing, Cells
    <3>2. Kept(Screen, wrapped)'
      BY <1>6, <2>1 DEF UiInv, Kept, Cells, Interior, Index, Shell
    <3>3. QED
      BY <3>1, <3>2
  <2>3. QED
    BY <1>0, <1>6, <2>2 DEF UiInv, ui
<1>7. ASSUME NEW backspace \in BOOLEAN, NEW other \in BOOLEAN, NEW length \in TypedLengths,
             \/ UiRedrawOverflows(backspace, other, length)
             \/ UiRedrawLeavesScreen(backspace, other, length)
      PROVE  UiInv'
  BY <1>6, <1>7 DEF UiRedrawOverflows, RedrawOverflows, UiRedrawLeavesScreen, RedrawLeavesScreen
<1>8. CASE UNCHANGED uiVars \/ UiLost
  BY <1>6, <1>8 DEF uiVars, vars, UiLost, Lost
<1> QED
  BY <1>1, <1>2, <1>3, <1>4, <1>5, <1>7, <1>8 DEF UiNext

LEMMA UiInvAlways == UiSpec => []UiInv
BY UiInvInit, UiInvStep, PTL DEF UiSpec

\* A cell of which a drawing is not yet shown is in a region that is queued, whatever
\* is drawn and scrolled: for any boxes on the screen nothing stays behind once
\* update_list is empty (ui.c 56, 107, 115, 151, 178-190).
THEOREM AllIsShown == UiSpec => []ShownIsDrawn
<1>1. UiInv => ShownIsDrawn
  <2>1. SUFFICES ASSUME UiInv, update_list_len = 0 PROVE buffer = ui_screen_buf
    BY DEF ShownIsDrawn
  <2>2. /\ ui_screen_buf = [c \in Cells |-> ui_screen_buf[c]]
        /\ buffer = [c \in Cells |-> buffer[c]]
        /\ \A c \in Cells : buffer[c] = ui_screen_buf[c]
    BY <2>1 DEF UiInv, Drawn, Drawing, Screen
  <2>3. QED
    BY <2>2
<1>2. QED
  BY <1>1, UiInvAlways, PTL

\* No string, prompt, clearing or scrolling of the shell's box, however it wraps, changes
\* a character on or outside its frame (ui.c 46-75, 109-154), for typed lines of any
\* length: what is found there is what was drawn at the boot or, once a line was too long
\* for its row, the cursor that shell_run does not wrap (shell.c 115).
THEOREM OtherPanesStay == UiSpec => []PanesStay
<1>1. UiInv => PanesStay
  BY DEF UiInv, Kept, PanesStay, Interior, Screen
<1>2. QED
  BY <1>1, UiInvAlways, PTL

-----------------------------------------------------------------------------
\* Scrolling moves the rows of the box up, in the columns but the last (ui.c 135-149).
LEMMA ScrolledOnceAt ==
    ASSUME NEW d, NEW r \in Rows, NEW column \in Columns
    PROVE  ui_scroll_vertical(d, Shell).buf[Place(r, column)] =
               IF r + 1 \in Rows THEN d.buf[Place(r + 1, column)] ELSE Space
<1> DEFINE moved == {Index(Shell, i, j) : i \in 1 .. Shell.w - 2, j \in 1 .. Shell.h - 3}
           emptied == {Index(Shell, i, Shell.h - 2) : i \in 1 .. Shell.w - 2}
           c == Place(r, column)
<1>1. ui_scroll_vertical(d, Shell).buf =
          [e \in Cells |-> IF e \in moved THEN d.buf[e + VGA_WIDTH]
                           ELSE IF e \in emptied THEN Space ELSE d.buf[e]]
  BY DEF ui_scroll_vertical, ScrollRefreshes, ui_refresh, Queue
<1>2. /\ column \in Nat /\ column + 1 \in 1 .. Shell.w - 2 /\ r \in Nat
      /\ Shell.w \in Nat /\ Shell.h \in Nat /\ Shell.h >= 4 /\ Rows = 0 .. Shell.h - 3
  BY ColumnFacts, ShellFacts, Sizes DEF Columns
<1>3. c \in Cells /\ c + VGA_WIDTH = Place(r + 1, column)
  <2>1. column + 1 \in 0 .. Shell.w /\ r + 1 \in 0 .. Shell.h
    BY <1>2
  <2>2. QED
    BY <2>1, Places DEF Place
<1>4. \A i \in 1 .. Shell.w - 2, j \in 1 .. Shell.h - 2 : c = Index(Shell, i, j) => j = r + 1
  <2>1. TAKE i \in 1 .. Shell.w - 2, j \in 1 .. Shell.h - 2
  <2> HIDE DEF moved, emptied, c
  <2>2. column + 1 \in 0 .. Shell.w
    BY <1>2
  <2>3. r + 1 \in 0 .. Shell.h
    BY <1>2
  <2>4. i \in 0 .. Shell.w /\ j \in 0 .. Shell.h
    BY <1>2
  <2>5. QED
    BY <2>2, <2>3, <2>4, Places DEF Place, c
<1>5. CASE r + 1 \in Rows
  <2>1. r + 1 \in 1 .. Shell.h - 3
    BY <1>2, <1>5
  <2>2. c \in moved
    BY <1>2, <2>1 DEF Place
  <2> HIDE DEF c, moved, emptied
  <2>3. QED
    BY <1>1, <1>3, <1>5, <2>2 DEF c
<1>6. CASE r + 1 \notin Rows
  <2>1. r + 1 = Shell.h - 2
    BY <1>2, <1>6
  <2>2. c \in emptied
    BY <1>2, <2>1 DEF Place
  <2>3. c \notin moved
    <3>1. ASSUME NEW i \in 1 .. Shell.w - 2, NEW j \in 1 .. Shell.h - 3, c = Index(Shell, i, j)
          PROVE  FALSE
      <4>1. j \in 1 .. Shell.h - 2
        BY <1>2
      <4>2. j = r + 1
        BY <1>4, <3>1, <4>1
      <4>3. QED
        BY <1>2, <2>1, <4>2
    <3>2. QED
      BY <3>1
  <2> HIDE DEF c, moved, emptied
  <2>4. QED
    BY <1>1, <1>3, <1>6, <2>2, <2>3 DEF c
<1>7. QED
  BY <1>5, <1>6

LEMMA ScrolledAt ==
    ASSUME NEW d, NEW n \in 1 .. Height - 2, NEW r \in Rows, NEW column \in Columns
    PROVE  ui_scroll_vertical_n(d, Shell, n).buf[Place(r, column)] =
               IF r + n \in Rows THEN d.buf[Place(r + n, column)] ELSE Space
<1> DEFINE scrolled == CHOOSE f : f = [k \in 0 .. n |-> IF k = 0 THEN d
                                          ELSE ui_scroll_vertical(f[k - 1], Shell)]
<1>1. n \in Nat /\ n > 0 /\ n < Shell.h - 1 /\ Rows = 0 .. Height - 3 /\ Height \in Nat
  BY Sizes, ShellFacts
<1>2. ui_scroll_vertical_n(d, Shell, n) = scrolled[n]
  BY <1>1, ShellFacts DEF ui_scroll_vertical_n
<1>3. IsScrolling(scrolled, d, Shell, n)
  <2>1. \E f : IsScrolling(f, d, Shell, n)
    BY <1>1, ScrollingExists
  <2>2. QED
    BY <2>1 DEF IsScrolling
<1> HIDE DEF scrolled
<1> DEFINE T == {k \in Nat : 0 < k /\ k <= n =>
                    \A q \in Rows : scrolled[k].buf[Place(q, column)] =
                        IF q + k \in Rows THEN d.buf[Place(q + k, column)] ELSE Space}
<1>4. 0 \in T
  OBVIOUS
<1>5. ASSUME NEW k \in T PROVE k + 1 \in T
  <2>1. SUFFICES ASSUME k + 1 <= n, NEW q \in Rows
                 PROVE  scrolled[k + 1].buf[Place(q, column)] =
                            IF q + (k + 1) \in Rows THEN d.buf[Place(q + (k + 1), column)]
                                                    ELSE Space
    OBVIOUS
  <2>2. k \in Nat /\ k + 1 \in 0 .. n /\ k + 1 # 0 /\ (k + 1) - 1 = k
    BY <1>1, <2>1
  <2>3. scrolled[k + 1] = ui_scroll_vertical(scrolled[k], Shell)
    BY <1>3, <2>2 DEF IsScrolling
  <2>4. scrolled[k + 1].buf[Place(q, column)] =
            IF q + 1 \in Rows THEN scrolled[k].buf[Place(q + 1, column)] ELSE Space
    BY <2>3, ScrolledOnceAt
  <2>5. CASE k = 0
    <3>1. scrolled[0] = d
      BY <1>1, <1>3 DEF IsScrolling
    <3>2. QED
      BY <2>4, <2>5, <3>1
  <2>6. CASE k # 0
    <3>1. \A p \in Rows : scrolled[k].buf[Place(p, column)] =
              IF p + k \in Rows THEN d.buf[Place(p + k, column)] ELSE Space
      BY <1>1, <2>1, <2>2, <2>6
    <3>2. /\ (q + 1) + k = q + (k + 1)
          /\ q + (k + 1) \in Rows => q + 1 \in Rows
      BY <1>1, <2>2
    <3> HIDE DEF T
    <3>3. QED
      BY <2>4, <3>1, <3>2
  <2>7. QED
    BY <2>5, <2>6
<1> HIDE DEF T
<1>6. T = Nat
  BY <1>4, <1>5, AllNumbers DEF T
<1>7. n \in T
  BY <1>1, <1>6
<1>8. QED
  BY <1>1, <1>2, <1>7 DEF T

\* The character of a string from column 2 of row y that a place of the box has.
Spot(r, y, column) == column - 2 + ((r - y) * (Shell.w - 1)) + 1

LEMMA StringPlaces ==
    ASSUME NEW y \in Nat, NEW length \in Nat, NEW str, DOMAIN str = 1 .. length
    PROVE  LET puts == ui_putstr(Shell, 2, y, str).puts
               rows == Lines(Shell, 2, length)
           IN  /\ rows \in Nat /\ rows > 0
               /\ \A r \in Rows, column \in Columns :
                      /\ r >= y + rows => Place(r, column) \notin DOMAIN puts
                      /\ y + rows - 1 \in Rows =>
                            /\ Place(r, column) \in DOMAIN puts => r \in y .. y + rows - 1
                            /\ Place(r, column) \in DOMAIN puts
                                  <=> Spot(r, y, column) \in 1 .. length
                            /\ Spot(r, y, column) \in 1 .. length =>
                                  puts[Place(r, column)] = str[Spot(r, y, column)]
<1> DEFINE m == Shell.w - 1
           B(i) == Breaks(Shell, 2, i - 1)
           C(i) == (2 + (i - 1)) % m
           row(i) == (y + B(i)) % (Shell.h - 2)
           rows == Lines(Shell, 2, length)
           puts == ui_putstr(Shell, 2, y, str).puts
           at == [i \in DOMAIN str |-> At(Shell, 2, y, i - 1)]
<1>1. m \in Nat /\ 3 <= m /\ Shell.w - 2 = m - 1
  BY ColumnFacts
<1>2. \A i \in 1 .. length : /\ B(i) \in Nat /\ C(i) \in 0 .. Shell.w - 2
                             /\ 1 + i = B(i) * m + C(i)
  <2>1. TAKE i \in 1 .. length
  <2>2. i - 1 \in Nat /\ 2 + (i - 1) = 1 + i
    OBVIOUS
  <2>3. QED
    BY <2>2, BreaksAt
<1>3. rows \in Nat /\ rows > 0 /\ \A i \in 1 .. length : B(i) <= rows - 1
  <2>1. CASE length = 0
    BY <2>1 DEF Lines
  <2>2. CASE length # 0
    <3>1. length - 1 \in Nat /\ rows = 1 + Breaks(Shell, 2, length - 1)
      BY <2>2 DEF Lines
    <3>2. Breaks(Shell, 2, length - 1) \in Nat
      BY <3>1, BreaksAt
    <3>3. \A i \in 1 .. length : B(i) <= Breaks(Shell, 2, length - 1)
      <4>1. TAKE i \in 1 .. length
      <4>2. i - 1 \in Nat /\ i - 1 <= length - 1
        OBVIOUS
      <4>3. QED
        BY <3>1, <4>2, BreaksGrow
    <3> HIDE DEF B, rows
    <3>4. QED
      BY <1>2, <3>1, <3>2, <3>3
  <2>3. QED
    BY <2>1, <2>2
<1>4. Shell.h - 2 \in Nat /\ Shell.h - 2 > 0 /\ Rows = 0 .. (Shell.h - 2) - 1
  BY ShellFacts, Sizes
<1>5. \A i \in 1 .. length : /\ row(i) \in Rows /\ row(i) <= y + B(i)
                             /\ y + B(i) < Shell.h - 2 => row(i) = y + B(i)
                             /\ at[i] = Place(row(i), C(i))
  <2>1. TAKE i \in 1 .. length
  <2>2. y + B(i) \in Nat
    BY <1>2
  <2>3. /\ row(i) \in 0 .. (Shell.h - 2) - 1 /\ row(i) <= y + B(i)
        /\ y + B(i) < Shell.h - 2 => row(i) = y + B(i)
    BY <1>4, <2>2, ModFacts
  <2>4. at[i] = Place(row(i), C(i))
    BY DEF At, Place
  <2>5. QED
    BY <1>4, <2>3, <2>4
<1>6. puts = [c \in {at[i] : i \in DOMAIN str} |-> str[Max({i \in DOMAIN str : at[i] = c})]]
  BY DEF ui_putstr, Put
<1>7. DOMAIN at = 1 .. length
  OBVIOUS
<1> HIDE DEF B, C, row, rows, puts, at, m
<1>8. ASSUME NEW r \in Rows, NEW column \in Columns, NEW i \in 1 .. length
      PROVE  at[i] = Place(r, column) <=> (row(i) = r /\ C(i) = column)
  <2>1. column \in 0 .. Shell.w - 2
    BY ColumnFacts
  <2>2. row(i) \in Rows /\ C(i) \in 0 .. Shell.w - 2 /\ at[i] = Place(row(i), C(i))
    BY <1>2, <1>5
  <2>3. QED
    BY <2>1, <2>2, RowPlaces
<1>9. ASSUME NEW r \in Rows, NEW column \in Columns, r >= y + rows
      PROVE  Place(r, column) \notin DOMAIN puts
  <2>1. ASSUME NEW i \in 1 .. length, at[i] = Place(r, column) PROVE FALSE
    <3>1. row(i) = r /\ row(i) <= y + B(i) /\ B(i) <= rows - 1 /\ B(i) \in Nat /\ r \in Nat
      BY <1>2, <1>3, <1>5, <1>8, <2>1, ColumnFacts
    <3>2. QED
      BY <1>3, <1>9, <3>1
  <2>2. QED
    BY <1>6, <2>1
<1>10. ASSUME NEW r \in Rows, NEW column \in Columns, y + rows - 1 \in Rows, NEW i \in 1 .. length
       PROVE  at[i] = Place(r, column) <=> Spot(r, y, column) = i
  <2>1. /\ r \in Nat /\ column \in Nat /\ column \in 0 .. m - 1
        /\ Spot(r, y, column) = column - 2 + ((r - y) * m) + 1
    BY <1>1, ColumnFacts DEF Spot, m
  <2>2. row(i) = y + B(i) /\ B(i) \in Nat
    <3>1. y + B(i) < Shell.h - 2
      <4>1. B(i) \in Nat /\ B(i) <= rows - 1 /\ rows \in Nat
        BY <1>2, <1>3
      <4>2. y + rows - 1 \in 0 .. (Shell.h - 2) - 1 /\ Shell.h - 2 \in Nat
        BY <1>4, <1>10
      <4> DEFINE h == Shell.h - 2
      <4> HIDE DEF h
      <4>3. y + rows - 1 <= h - 1 /\ h \in Nat
        BY <4>2 DEF h
      <4>4. y + B(i) < h
        BY <4>1, <4>3
      <4>5. QED
        BY <4>4 DEF h
    <3>2. QED
      BY <1>2, <1>5, <3>1
  <2>3. ASSUME y + B(i) = r, C(i) = column PROVE Spot(r, y, column) = i
    <3>1. r - y = B(i)
      BY <2>1, <2>2, <2>3
    <3>2. 1 + i = B(i) * m + C(i)
      BY <1>2
    <3>3. QED
      BY <2>1, <2>2, <2>3, <3>1, <3>2, <1>1
  <2>4. ASSUME Spot(r, y, column) = i PROVE y + B(i) = r /\ C(i) = column
    <3>1. (r - y) * m + column = B(i) * m + C(i)
      BY <1>2, <2>1, <2>4, <1>1
    <3>2. r - y \in Nat
      <4>1. SUFFICES ASSUME r < y PROVE FALSE
        BY <2>1
      <4>2. PICK e \in Nat : r - y = -1 - e
        <5>1. y - r - 1 \in Nat /\ r - y = -1 - (y - r - 1)
          BY <2>1, <4>1
        <5>2. QED
          BY <5>1
      <4>3. (r - y) * m = -m - e * m /\ e * m \in Nat
        BY <1>1, <4>2
      <4>4. QED
        BY <1>1, <2>1, <2>4, <4>3
    <3> DEFINE q == r - y
               b == B(i)
               p == C(i)
    <3>3. /\ p \in 0 .. m - 1 /\ column \in 0 .. m - 1 /\ m \in Nat
          /\ b \in Nat /\ q \in Nat /\ q * m + column = b * m + p
      BY <1>1, <1>2, <2>1, <2>2, <3>1, <3>2
    <3> HIDE DEF q, b, p
    <3>4. q = b /\ column = p
      BY <3>3, OnePlace
    <3>5. QED
      BY <2>1, <2>2, <3>4 DEF q, b, p
  <2>5. QED
    BY <1>8, <2>2, <2>3, <2>4
<1>11. ASSUME NEW r \in Rows, NEW column \in Columns, y + rows - 1 \in Rows
       PROVE  /\ Place(r, column) \in DOMAIN puts => r \in y .. y + rows - 1
              /\ Place(r, column) \in DOMAIN puts <=> Spot(r, y, column) \in 1 .. length
              /\ Spot(r, y, column) \in 1 .. length =>
                     puts[Place(r, column)] = str[Spot(r, y, column)]
  <2>1. Place(r, column) \in DOMAIN puts <=> \E i \in 1 .. length : at[i] = Place(r, column)
    BY <1>6
  <2>2. Place(r, column) \in DOMAIN puts <=> Spot(r, y, column) \in 1 .. length
    BY <1>10, <1>11, <2>1
  <2>3. ASSUME Spot(r, y, column) \in 1 .. length
        PROVE  puts[Place(r, column)] = str[Spot(r, y, column)]
    <3> DEFINE s == Spot(r, y, column)
    <3>1. {i \in DOMAIN str : at[i] = Place(r, column)} = {s}
      BY <1>10, <1>11, <2>3
    <3>2. Max({s}) = s
      BY <2>3 DEF Max
    <3>3. puts[Place(r, column)] = str[Max({i \in DOMAIN str : at[i] = Place(r, column)})]
      BY <1>6, <2>2, <2>3
    <3>4. QED
      BY <3>1, <3>2, <3>3
  <2>4. ASSUME NEW i \in 1 .. length, at[i] = Place(r, column) PROVE r \in y .. y + rows - 1
    <3>1. y + B(i) < Shell.h - 2 /\ B(i) \in Nat /\ B(i) <= rows - 1
      BY <1>2, <1>3, <1>4, <1>11
    <3>2. r = y + B(i)
      BY <1>5, <1>8, <2>4, <3>1
    <3>3. QED
      BY <1>3, <3>1, <3>2
  <2>5. QED
    BY <2>1, <2>2, <2>3, <2>4
<1>12. QED
  BY <1>3, <1>9, <1>11 DEF puts, rows

\* One string has the row.
LEMMA StringOfRow ==
    ASSUME NEW strings \in Seq(Nat), NEW i \in 1 .. RowsOf(strings)
    PROVE  \E s \in DOMAIN strings :
               /\ i - 1 \in RowsBefore(strings, s) .. RowsBefore(strings, s + 1) - 1
               /\ s = StringOf(strings, i)
               /\ \A t \in DOMAIN strings :
                      i - 1 \in RowsBefore(strings, t) .. RowsBefore(strings, t + 1) - 1 => t = s
<1> DEFINE R(s) == RowsBefore(strings, s)
           n == Len(strings)
           T == {s \in 1 .. n + 1 : R(s) <= i - 1}
<1>1. n \in Nat /\ DOMAIN strings = 1 .. n /\ RowsOf(strings) = R(n + 1)
  BY DEF RowsOf
<1>2. /\ R(1) = 0
      /\ \A t \in 1 .. n + 1 : R(t) \in Nat /\ \A s \in 1 .. t : R(s) <= R(t)
  BY RowsBeforeIs, RowsBeforeOrder
<1> HIDE DEF R, n
<1>3. 1 \in T
  BY <1>1, <1>2
<1>4. T \in SUBSET (1 .. n + 1) /\ T # {} /\ n + 1 \in Nat
  BY <1>1, <1>3
<1>5. PICK s \in T : \A t \in T : s >= t
  BY <1>4, LastOf
<1>6. R(n + 1) \in Nat /\ i <= R(n + 1)
  BY <1>1, <1>2
<1>7. s \in 1 .. n + 1 /\ R(s) \in Nat /\ R(s) <= i - 1 /\ s # n + 1
  BY <1>1, <1>2, <1>5, <1>6
<1>8. s \in 1 .. n /\ s + 1 \in 1 .. n + 1 /\ s + 1 \notin T
  BY <1>1, <1>5, <1>7
<1>9. i - 1 \in R(s) .. R(s + 1) - 1
  BY <1>2, <1>7, <1>8
<1>10. ASSUME NEW t \in 1 .. n, i - 1 \in R(t) .. R(t + 1) - 1 PROVE t = s
  <2>1. t \in T /\ t + 1 \in 1 .. n + 1
    BY <1>1, <1>2, <1>10
  <2>2. CASE t < s
    <3>1. t + 1 \in 1 .. s
      BY <1>1, <1>7, <2>1, <2>2
    <3>2. R(t + 1) <= R(s) /\ R(t + 1) \in Nat
      BY <1>2, <1>7, <2>1, <3>1
    <3>3. QED
      BY <1>7, <1>10, <3>2
  <2>3. QED
    BY <1>5, <1>7, <2>1, <2>2
<1>11. s = StringOf(strings, i)
  BY <1>1, <1>8, <1>9, <1>10 DEF R, StringOf
<1>12. QED
  BY <1>1, <1>8, <1>9, <1>10, <1>11 DEF R

AnswerOps(strings, line, n) ==
    [s \in DOMAIN strings |->
        ui_putstr(Shell, 2, line + RowsBefore(strings, s), String(n, s, strings[s]))]

\* Rows counted from a line.
LEMMA RowOfSpan ==
    ASSUME NEW line \in Nat, NEW first \in Nat, NEW next \in Nat, NEW top \in Nat, NEW l \in Nat,
           NEW r \in Nat, r \in top .. top + l - 1, top + l = line + next, top = line + first
    PROVE  r - line \in first .. next - 1
OBVIOUS

LEMMA AnswerDrawn ==
    ASSUME NEW strings \in Answers, NEW line \in Nat, NEW n, NEW d, NEW r \in Rows,
           NEW column \in Columns,
           r >= line => d.buf[Place(r, column)] = Space
    PROVE  LET k == RowsOf(strings)
               e == Draw(d, AnswerOps(strings, line, n))
           IN  /\ r >= line + k => e.buf[Place(r, column)] = Space
               /\ line + k - 1 \in Rows =>
                     e.buf[Place(r, column)] =
                         IF r \in line .. line + k - 1
                         THEN AnswerAt(strings, n, r - line + 1, column)
                         ELSE d.buf[Place(r, column)]
<1> DEFINE k == RowsOf(strings)
           R(s) == RowsBefore(strings, s)
           ops == [s \in DOMAIN strings |->
                      ui_putstr(Shell, 2, line + R(s), String(n, s, strings[s]))]
           e == Draw(d, ops)
           c == Place(r, column)
           L(s) == Lines(Shell, 2, strings[s])
<1>1. /\ strings \in Seq(Nat) /\ k \in 0 .. MaxAnswer /\ k \in Nat
      /\ DOMAIN strings = 1 .. Len(strings) /\ Len(strings) \in Nat
  BY AnswersAssumption, Sizes
<1>2. /\ R(1) = 0 /\ k = R(Len(strings) + 1)
      /\ \A s \in 1 .. Len(strings) : R(s + 1) = R(s) + L(s)
      /\ \A t \in 1 .. Len(strings) + 1 : R(t) \in Nat /\ \A s \in 1 .. t : R(s) <= R(t)
  BY <1>1, RowsBeforeIs, RowsBeforeOrder DEF RowsOf
<1>3. r \in Nat /\ column \in 0 .. Shell.w - 2 /\ c \in Cells
  BY ColumnFacts, RowPlaces
<1>4. DOMAIN ops = 1 .. Len(strings) /\ DOMAIN ops \subseteq Int
  BY <1>1
<1> DEFINE y(s) == line + R(s)
           str(s) == String(n, s, strings[s])
           puts(s) == ui_putstr(Shell, 2, y(s), str(s)).puts
<1>5. ASSUME NEW s \in 1 .. Len(strings)
      PROVE  /\ ops[s].puts = puts(s) /\ L(s) \in Nat /\ L(s) > 0 /\ y(s) \in Nat
             /\ y(s) + L(s) - 1 <= line + k - 1 /\ y(s) >= line /\ y(s) + L(s) = line + R(s + 1)
             /\ r >= y(s) + L(s) => c \notin DOMAIN puts(s)
             /\ y(s) + L(s) - 1 \in Rows =>
                   /\ c \in DOMAIN puts(s) => r \in y(s) .. y(s) + L(s) - 1
                   /\ c \in DOMAIN puts(s) <=> Spot(r, y(s), column) \in 1 .. strings[s]
                   /\ Spot(r, y(s), column) \in 1 .. strings[s] =>
                         puts(s)[c] = Text(n, s, Spot(r, y(s), column))
  <2>1. strings[s] \in Nat /\ s \in 1 .. Len(strings) + 1 /\ s + 1 \in 1 .. Len(strings) + 1
    BY <1>1
  <2>2. R(s) \in Nat /\ R(s + 1) \in Nat /\ R(s + 1) <= k /\ R(s + 1) = R(s) + L(s)
    BY <1>1, <1>2, <2>1
  <2>3. /\ y(s) \in Nat /\ DOMAIN str(s) = 1 .. strings[s]
        /\ \A i \in 1 .. strings[s] : str(s)[i] = Text(n, s, i)
    BY <2>2 DEF String
  <2>4. L(s) \in Nat /\ L(s) > 0
    BY <2>1, LinesPositive
  <2>5. ops[s].puts = puts(s)
    BY <1>1
  <2> HIDE DEF L, R, str, ops, c, k
  <2>6. /\ y(s) + L(s) - 1 <= line + k - 1 /\ y(s) >= line /\ y(s) + L(s) = line + R(s + 1)
    <3>1. y(s) = line + R(s) /\ k \in Nat
      BY <1>1
    <3> HIDE DEF y
    <3>2. y(s) >= line /\ y(s) + L(s) = line + R(s + 1)
      BY <2>2, <2>4, <3>1
    <3>3. line + R(s + 1) <= line + k
      BY <2>2, <3>1
    <3>4. QED
      <4>1. y(s) + L(s) - 1 <= line + k - 1
        BY <2>2, <2>4, <3>1, <3>2, <3>3
      <4>2. QED
        BY <3>2, <4>1
  <2> HIDE DEF y
  <2>7. /\ r >= y(s) + L(s) => c \notin DOMAIN puts(s)
        /\ y(s) + L(s) - 1 \in Rows =>
              /\ c \in DOMAIN puts(s) => r \in y(s) .. y(s) + L(s) - 1
              /\ c \in DOMAIN puts(s) <=> Spot(r, y(s), column) \in 1 .. strings[s]
              /\ Spot(r, y(s), column) \in 1 .. strings[s] =>
                    puts(s)[c] = str(s)[Spot(r, y(s), column)]
    BY <2>1, <2>3, StringPlaces DEF c, L
  <2>8. QED
    BY <2>3, <2>4, <2>5, <2>6, <2>7
<1> HIDE DEF L, R, y, str, puts, ops, e, c, k
<1>6. ASSUME r >= line + k PROVE e.buf[c] = Space
  <2>1. \A s \in 1 .. Len(strings) : c \notin DOMAIN ops[s].puts
    <3>1. TAKE s \in 1 .. Len(strings)
    <3>2. r >= y(s) + L(s)
      <4>1. y(s) + L(s) - 1 <= line + k - 1 /\ L(s) \in Nat /\ y(s) \in Nat
        BY <1>5
      <4>2. QED
        BY <1>1, <1>3, <1>6, <4>1
    <3>3. QED
      BY <1>5, <3>2
  <2>2. e.buf[c] = d.buf[c]
    BY <1>3, <1>4, <2>1, DrawAt DEF e
  <2>3. QED
    BY <1>1, <1>3, <1>6, <2>2 DEF c
<1>7. ASSUME line + k - 1 \in Rows, NEW s \in 1 .. Len(strings)
      PROVE  /\ y(s) \in Nat /\ L(s) \in Nat /\ line <= y(s) /\ y(s) + L(s) - 1 \in Rows
             /\ y(s) + L(s) - 1 <= line + k - 1
  <2>1. /\ y(s) \in Nat /\ L(s) \in Nat /\ L(s) > 0 /\ line <= y(s)
        /\ y(s) + L(s) - 1 <= line + k - 1
    BY <1>5
  <2>2. line + k - 1 \in Nat /\ line + k - 1 <= Height - 3
    BY <1>7, Sizes
  <2>3. y(s) + L(s) - 1 \in Nat
    BY <2>1
  <2>4. y(s) + L(s) - 1 <= Height - 3
    BY <1>1, <2>1, <2>2, Sizes
  <2>5. QED
    BY <2>1, <2>3, <2>4, Sizes
<1>8. ASSUME line + k - 1 \in Rows, r \notin line .. line + k - 1 PROVE e.buf[c] = d.buf[c]
  <2>1. \A s \in 1 .. Len(strings) : c \notin DOMAIN ops[s].puts
    <3>1. TAKE s \in 1 .. Len(strings)
    <3>2. /\ y(s) \in Nat /\ L(s) \in Nat /\ line <= y(s) /\ y(s) + L(s) - 1 \in Rows
          /\ y(s) + L(s) - 1 <= line + k - 1
      BY <1>7, <1>8
    <3>3. r \notin y(s) .. y(s) + L(s) - 1
      BY <1>1, <1>3, <1>8, <3>2
    <3>4. QED
      BY <1>5, <3>2, <3>3
  <2>2. QED
    BY <1>3, <1>4, <2>1, DrawAt DEF e
<1>9. ASSUME line + k - 1 \in Rows, r \in line .. line + k - 1
      PROVE  e.buf[c] = AnswerAt(strings, n, r - line + 1, column)
  <2> DEFINE i == r - line + 1
  <2>1. i \in 1 .. k /\ i - 1 = r - line
    BY <1>1, <1>3, <1>9
  <2>2. PICK s \in DOMAIN strings :
            /\ i - 1 \in R(s) .. R(s + 1) - 1 /\ s = StringOf(strings, i)
            /\ \A t \in DOMAIN strings : i - 1 \in R(t) .. R(t + 1) - 1 => t = s
    BY <1>1, <2>1, StringOfRow DEF R, k
  <2> HIDE DEF i
  <2>4. s \in 1 .. Len(strings) /\ R(s) \in Nat
    BY <1>1, <1>2, <2>2
  <2>5. Spot(r, y(s), column) = column - 2 + (i - 1 - R(s)) * (Shell.w - 1) + 1
    <3>1. r - y(s) = i - 1 - R(s)
      <4> HIDE DEF R, L, ops, e, c, k, str, puts
      <4>1. y(s) = line + R(s)
        BY DEF y
      <4> HIDE DEF y
      <4>2. QED
        BY <1>3, <2>1, <2>4, <4>1
    <3>2. QED
      BY <3>1 DEF Spot
  <2>6. AnswerAt(strings, n, i, column) =
            IF Spot(r, y(s), column) \in 1 .. strings[s]
            THEN Text(n, s, Spot(r, y(s), column)) ELSE Space
    <3> DEFINE at == column - 2 + (i - 1 - RowsBefore(strings, s)) * (Shell.w - 1) + 1
    <3>2. AnswerAt(strings, n, i, column) = IF at \in 1 .. strings[s] THEN Text(n, s, at)
                                              ELSE Space
      BY <2>2 DEF AnswerAt
    <3>3. at = Spot(r, y(s), column)
      BY <2>5 DEF R
    <3>4. QED
      BY <3>2, <3>3
  <2>7. \A t \in 1 .. Len(strings) : c \in DOMAIN ops[t].puts => t = s
    <3>1. TAKE t \in 1 .. Len(strings)
    <3>2. SUFFICES ASSUME c \in DOMAIN ops[t].puts PROVE t = s
      OBVIOUS
    <3>3. r \in y(t) .. y(t) + L(t) - 1 /\ y(t) + L(t) = line + R(t + 1) /\ y(t) = line + R(t)
      BY <1>5, <1>7, <1>9, <3>2 DEF y
    <3>4. R(t) \in Nat /\ R(t + 1) \in Nat /\ L(t) \in Nat
      <4>1. t \in 1 .. Len(strings) + 1 /\ t + 1 \in 1 .. Len(strings) + 1
        BY <1>1
      <4>2. QED
        BY <1>2, <1>5, <4>1
    <3>5. i - 1 \in R(t) .. R(t + 1) - 1
      <4>1. y(t) \in Nat /\ r \in Nat
        BY <1>3, <1>5
      <4>2. r - line \in R(t) .. R(t + 1) - 1
        BY <3>3, <3>4, <4>1, RowOfSpan
      <4>3. QED
        BY <2>1, <4>2
    <3>6. QED
      BY <1>1, <2>2, <3>5
  <2>8. CASE Spot(r, y(s), column) \in 1 .. strings[s]
    <3>1. c \in DOMAIN ops[s].puts /\ ops[s].puts[c] = Text(n, s, Spot(r, y(s), column))
      BY <1>5, <1>7, <1>9, <2>4, <2>8
    <3>2. \A l \in DOMAIN ops : c \in DOMAIN ops[l].puts => l <= s
      BY <1>4, <2>4, <2>7
    <3>3. e.buf[c] = ops[s].puts[c]
      BY <1>3, <1>4, <2>4, <3>1, <3>2, DrawAt DEF e
    <3>4. QED
      BY <2>6, <2>8, <3>1, <3>3 DEF i
  <2>9. CASE Spot(r, y(s), column) \notin 1 .. strings[s]
    <3>1. \A l \in DOMAIN ops : c \notin DOMAIN ops[l].puts
      BY <1>4, <1>5, <1>7, <1>9, <2>4, <2>7, <2>9
    <3>2. e.buf[c] = d.buf[c]
      BY <1>3, <1>4, <3>1, DrawAt DEF e
    <3>3. r >= line
      BY <1>1, <1>3, <1>9
    <3>4. d.buf[c] = Space
      BY <3>3 DEF c
    <3>5. QED
      BY <2>6, <2>9, <3>2, <3>4 DEF i
  <2>10. QED
    BY <2>8, <2>9
<1>10. QED
  BY <1>6, <1>8, <1>9 DEF e, ops, c, k, R, AnswerOps

\* What a row of the box shows, in the columns that scrolling moves.
At0(buf, r) == buf[Place(r, 0)]
EmptyRow(buf, r) == \A column \in 1 .. Shell.w - 3 : buf[Place(r, column)] = Space
TypedRow(buf, r, n, length) ==
    \A column \in 1 .. ClearedColumns + 1 :
        buf[Place(r, column)] = IF column \in 2 .. length + 1 THEN Text(n, 0, column - 1)
                                ELSE IF column = length + 2 THEN Cursor ELSE Space
LineRow(buf, r, n) ==
    /\ At0(buf, r) = Prompt
    /\ (\E length \in TypedLengths : TypedRow(buf, r, n, length)) \/ (n = 0 /\ EmptyRow(buf, r))
OldRow(buf, r, line, given) ==
    \E n \in 0 .. Len(given) - 1 : \E i \in 0 .. RowsOf(given[n + 1]) :
        /\ line = Line(n, i)
        /\ IF i = 0 THEN LineRow(buf, r, n)
           ELSE \A column \in Columns : buf[Place(r, column)] = AnswerAt(given[n + 1], n, i, column)
BlankRow(buf, r) == At0(buf, r) = Space /\ EmptyRow(buf, r)

PromptRow ==
    /\ At0(ui_screen_buf, current_line) \in {Prompt, Space}
    /\ \/ /\ shown = 0 /\ EmptyRow(ui_screen_buf, current_line)
          /\ pc # "refresh"
          /\ pc = "prompt" => commands = 0 /\ At0(ui_screen_buf, current_line) = Space
       \/ /\ screen[current_line] = Line(commands, 0) /\ shown \in TypedLengths
          /\ TypedRow(ui_screen_buf, current_line, commands, shown)

\* The invariant of the cells by rows: those above the prompt show what ShellScreen
\* has there unless an answer overran, the one of the prompt what is typed, and those
\* below it, into which the next answer goes, nothing.
CellInv ==
    /\ RowInv /\ UiInv
    /\ commands \in 0 .. MaxCommands
    /\ answers \in Seq(Answers \cup {<<>>}) /\ Len(answers) = commands
    /\ \A r \in Rows : r > current_line => BlankRow(ui_screen_buf, r)
    /\ PromptRow
    /\ ~overrun => \A r \in Rows :
           r < current_line => OldRow(ui_screen_buf, r, screen[r], answers)

\* A row that is moved, or left, with all its columns shows what it did.
SameRow(buf, r, old, q) == \A column \in Columns : buf[Place(r, column)] = old[Place(q, column)]

LEMMA RowMoves ==
    ASSUME NEW buf, NEW r, NEW old, NEW q, SameRow(buf, r, old, q)
    PROVE  /\ At0(buf, r) = At0(old, q)
           /\ EmptyRow(old, q) => EmptyRow(buf, r)
           /\ BlankRow(old, q) => BlankRow(buf, r)
           /\ \A n, length : TypedRow(old, q, n, length) => TypedRow(buf, r, n, length)
           /\ \A n : LineRow(old, q, n) => LineRow(buf, r, n)
<1>1. 0 \in Columns /\ 1 .. Shell.w - 3 \subseteq Columns /\ 1 .. ClearedColumns + 1 \subseteq Columns
  BY ColumnFacts, ShellFacts DEF Columns
<1>2. At0(buf, r) = At0(old, q)
  BY <1>1 DEF At0, SameRow
<1>3. EmptyRow(old, q) => EmptyRow(buf, r)
  BY <1>1 DEF EmptyRow, SameRow
<1>4. \A n, length : TypedRow(old, q, n, length) => TypedRow(buf, r, n, length)
  <2>1. SUFFICES ASSUME NEW n, NEW length, TypedRow(old, q, n, length),
                        NEW column \in 1 .. ClearedColumns + 1
                 PROVE  buf[Place(r, column)] =
                            IF column \in 2 .. length + 1 THEN Text(n, 0, column - 1)
                            ELSE IF column = length + 2 THEN Cursor ELSE Space
    BY DEF TypedRow
  <2>2. column \in Columns
    BY <1>1
  <2>3. buf[Place(r, column)] = old[Place(q, column)]
    BY <2>2 DEF SameRow
  <2>4. QED
    BY <2>1, <2>3 DEF TypedRow
<1>5. QED
  BY <1>2, <1>3, <1>4 DEF BlankRow, LineRow

LEMMA OldRowMoves ==
    ASSUME NEW buf, NEW r, NEW old, NEW q, SameRow(buf, r, old, q), NEW line,
           NEW given \in Seq(Answers \cup {<<>>}), NEW answer \in Answers \cup {<<>>},
           OldRow(old, q, line, given)
    PROVE  OldRow(buf, r, line, given) /\ OldRow(buf, r, line, Append(given, answer))
<1>0. PICK n \in 0 .. Len(given) - 1 : \E i \in 0 .. RowsOf(given[n + 1]) :
          /\ line = Line(n, i)
          /\ IF i = 0 THEN LineRow(old, q, n)
             ELSE \A column \in Columns :
                      old[Place(q, column)] = AnswerAt(given[n + 1], n, i, column)
  BY DEF OldRow
<1>1. PICK i \in 0 .. RowsOf(given[n + 1]) :
          /\ line = Line(n, i)
          /\ IF i = 0 THEN LineRow(old, q, n)
             ELSE \A column \in Columns :
                      old[Place(q, column)] = AnswerAt(given[n + 1], n, i, column)
  BY <1>0
<1>2. IF i = 0 THEN LineRow(buf, r, n)
      ELSE \A column \in Columns : buf[Place(r, column)] = AnswerAt(given[n + 1], n, i, column)
  <2>1. CASE i = 0
    BY <1>1, <2>1, RowMoves
  <2>2. CASE i # 0
    BY <1>1, <2>2 DEF SameRow
  <2>3. QED
    BY <2>1, <2>2
<1>3. /\ Append(given, answer)[n + 1] = given[n + 1]
      /\ n \in 0 .. Len(Append(given, answer)) - 1
  <2>1. Len(given) \in Nat /\ n + 1 \in 1 .. Len(given)
    OBVIOUS
  <2>2. QED
    BY <2>1, AppendProperties
<1>4. OldRow(buf, r, line, given)
  BY <1>1, <1>2 DEF OldRow
<1> DEFINE longer == Append(given, answer)
<1>5. /\ longer[n + 1] = given[n + 1] /\ n \in 0 .. Len(longer) - 1
  BY <1>3
<1> HIDE DEF longer
<1>6. OldRow(buf, r, line, longer)
  BY <1>1, <1>2, <1>5 DEF OldRow
<1>7. QED
  BY <1>4, <1>6 DEF longer

LEMMA BlankRowAt ==
    ASSUME NEW buf, NEW r \in Rows
    PROVE  BlankRow(buf, r) <=> \A column \in Columns : buf[Place(r, column)] = Space
<1>1. Columns = {0} \cup 1 .. Shell.w - 3
  BY ColumnFacts, ShellFacts DEF Columns
<1>2. QED
  BY <1>1 DEF BlankRow, EmptyRow, At0

\* The prompt, in its row only.
LEMMA WithPromptAt ==
    ASSUME current_line \in Rows, NEW r \in Rows, NEW column \in Columns
    PROVE  WithPrompt.buf[Place(r, column)] =
               IF r = current_line /\ column = 0 THEN Prompt ELSE ui_screen_buf[Place(r, column)]
<1> DEFINE op == ui_putch(Shell, 0, current_line, Prompt)
           c == Place(r, column)
<1>1. op.puts = [e \in {Place(current_line, 0)} |-> Prompt]
  BY DEF ui_putch, Put, Place
<1>2. c \in Cells /\ (c = Place(current_line, 0) <=> r = current_line /\ column = 0)
  <2>1. column \in 0 .. Shell.w - 2 /\ 0 \in 0 .. Shell.w - 2
    BY ColumnFacts
  <2>2. QED
    BY <2>1, RowPlaces
<1> HIDE DEF op, c
<1>3. DOMAIN <<op>> = {1} /\ <<op>>[1] = op
  OBVIOUS
<1>4. CASE r = current_line /\ column = 0
  <2>1. Draw(Screen, <<op>>).buf[c] = op.puts[c]
    BY <1>1, <1>2, <1>3, <1>4, DrawAt
  <2>2. op.puts[c] = Prompt
    BY <1>1, <1>2, <1>4
  <2>3. QED
    BY <1>4, <2>1, <2>2 DEF WithPrompt, op, c
<1>5. CASE ~(r = current_line /\ column = 0)
  <2>1. Draw(Screen, <<op>>).buf[c] = Screen.buf[c]
    BY <1>1, <1>2, <1>3, <1>5, DrawAt
  <2>2. QED
    BY <1>5, <2>1 DEF WithPrompt, op, c, Screen
<1>6. QED
  BY <1>4, <1>5

LEMMA CellFacts ==
    ASSUME CellInv
    PROVE  /\ current_line \in Rows /\ current_line \in Nat /\ current_line + 1 \in Nat
           /\ current_line + 1 \in 1 .. Height - 2 /\ current_line + 1 \in Rows
           /\ Rows = 0 .. Height - 3 /\ Height \in Nat
           /\ commands \in Nat /\ shown \in Nat
           /\ \A r \in Rows, column \in Columns :
                  r > current_line => ui_screen_buf[Place(r, column)] = Space
<1>1. current_line \in 0 .. ScrollFrom - 1
  BY DEF CellInv, RowInv, IInv
<1>2. /\ current_line \in Rows /\ current_line \in Nat /\ current_line + 1 \in Nat
      /\ current_line + 1 \in 1 .. Height - 2 /\ current_line + 1 \in Rows
      /\ Rows = 0 .. Height - 3 /\ Height \in Nat
  BY <1>1, Sizes
<1>3. commands \in 0 .. MaxCommands /\ shown \in Nat
  BY DEF CellInv, RowInv, IInv
<1>4. ASSUME NEW r \in Rows, r > current_line
      PROVE  \A column \in Columns : ui_screen_buf[Place(r, column)] = Space
  BY <1>4, BlankRowAt DEF CellInv
<1>5. QED
  BY <1>2, <1>3, <1>4, ShellScreenAssumption

\* What kernel_main has drawn is an empty box.
LEMMA BootedEmpty ==
    ASSUME NEW r \in Rows, NEW column \in Columns
    PROVE  Booted.buf[Place(r, column)] = Space
<1> DEFINE op == ui_box(ShellBox, Shell)
           inside == {Index(Shell, i, j) : i \in 1 .. Shell.w - 1, j \in 1 .. Shell.h - 1}
           c == Place(r, column)
<1>1. PICK d : Booted = Draw(d, <<op>>)
  BY DEF Booted
<1>2. /\ \A e \in inside : e \in DOMAIN op.puts /\ op.puts[e] = Space
  <2>1. ui_fill(Shell).puts = [e \in inside |-> Space]
    BY DEF ui_fill
  <2>2. DOMAIN ui_fill(Shell).puts = inside /\ \A e \in inside : ui_fill(Shell).puts[e] = Space
    BY <2>1
  <2> HIDE DEF inside
  <2>3. QED
    BY <2>2 DEF ui_box
<1>3. c \in inside
  <2>1. column + 1 \in 1 .. Shell.w - 1 /\ r + 1 \in 1 .. Shell.h - 1
    BY ColumnFacts, ShellFacts DEF Columns
  <2>2. QED
    BY <2>1 DEF Place
<1>4. c \in Cells
  BY ColumnFacts, RowPlaces
<1> HIDE DEF op, inside, c
<1>5. DOMAIN <<op>> = {1} /\ <<op>>[1] = op
  OBVIOUS
<1>6. Draw(d, <<op>>).buf[c] = op.puts[c]
  BY <1>2, <1>3, <1>4, <1>5, DrawAt
<1>7. QED
  BY <1>1, <1>2, <1>3, <1>6 DEF c

LEMMA CellInit == UiInit => CellInv
<1> SUFFICES ASSUME UiInit PROVE CellInv
  OBVIOUS
<1>1. RowInv /\ UiInv
  BY RowInit, UiInvInit DEF UiInit
<1>2. /\ commands = 0 /\ shown = 0 /\ answers = <<>> /\ current_line = 0 /\ pc = "prompt"
      /\ ui_screen_buf = Booted.buf
  BY DEF UiInit, Init
<1>3. \A r \in Rows : BlankRow(ui_screen_buf, r)
  BY <1>2, BootedEmpty, BlankRowAt
<1>4. 0 \in Rows /\ \A r \in Rows : ~(r < 0)
  BY Sizes
<1>5. /\ commands \in 0 .. MaxCommands
      /\ answers \in Seq(Answers \cup {<<>>}) /\ Len(answers) = commands
  BY <1>2, ShellScreenAssumption
<1>6. PromptRow
  BY <1>2, <1>3, <1>4 DEF PromptRow, BlankRow
<1>7. QED
  BY <1>1, <1>2, <1>3, <1>4, <1>5, <1>6 DEF CellInv

\* The rows that follow what a command leaves are empty.
LEMMA CellsFollow ==
    ASSUME CellInv, (RowInv /\ UiInv)', NEW answer \in Answers \cup {<<>>},
           commands < MaxCommands, commands' = commands + 1, answers' = Append(answers, answer),
           shown' = 0, pc' = "answered", current_line' \in Rows,
           \A r \in Rows : r >= current_line' => BlankRow(ui_screen_buf', r),
           ~overrun' => \A r \in Rows :
               r < current_line' => OldRow(ui_screen_buf', r, screen'[r], answers')
    PROVE  CellInv'
<1>1. (commands \in 0 .. MaxCommands)'
  BY ShellScreenAssumption DEF CellInv
<1>2. (answers \in Seq(Answers \cup {<<>>}) /\ Len(answers) = commands)'
  BY AppendProperties DEF CellInv
<1>3. \A r \in Rows : r > current_line' => r >= current_line'
  BY ColumnFacts
<1>4. BlankRow(ui_screen_buf', current_line')
  BY ColumnFacts
<1>5. PromptRow'
  BY <1>4 DEF PromptRow, BlankRow
<1>6. QED
  BY <1>1, <1>2, <1>3, <1>5 DEF CellInv

LEMMA EnterCells ==
    ASSUME CellInv, NEW strings \in Answers, UiEnter(strings)
    PROVE  CellInv'
<1> DEFINE k == RowsOf(strings)
           n == commands
           top == current_line
           line == top + 1
           s == Written(line, k, n)
           ops == AnswerOps(strings, line, n)
           drawn == Draw(WithPrompt, ops)
<1>1. /\ Enter(k) /\ k \in 0 .. MaxAnswer /\ k \in Nat
      /\ answers' = Append(answers, strings) /\ shown' = 0
      /\ Show(IF Scrolls(line, k) THEN ui_scroll_vertical_n(drawn, Shell, k + 1) ELSE drawn)
  <2>1. k \in 0 .. MaxAnswer /\ k \in Nat
    BY AnswersAssumption, Sizes
  <2>2. Enter(k)
    BY DEF UiEnter
  <2>3. shown' = 0
    BY <2>2 DEF Enter
  <2>4. /\ answers' = Append(answers, strings)
        /\ Show(IF Scrolls(line, k) THEN ui_scroll_vertical_n(drawn, Shell, k + 1) ELSE drawn)
    BY DEF UiEnter, AnswerOps
  <2>5. QED
    BY <2>1, <2>2, <2>3, <2>4
<1>2. (RowInv /\ UiInv)'
  BY <1>1, EnterRows, EnterKeeps DEF CellInv
<1>3. /\ pc = "prompt" /\ n < MaxCommands /\ n' = n + 1 /\ pc' = "answered"
      /\ overrun' = (overrun \/ line + k - 1 \notin Rows)
      /\ IF Scrolls(line, k)
         THEN screen' = Scrolled(s, k + 1) /\ top' = line - 1
         ELSE screen' = s /\ top' = line + k
  BY <1>1 DEF Enter
<1>4. /\ top \in Rows /\ top \in Nat /\ line \in Nat /\ Rows = 0 .. Height - 3 /\ Height \in Nat
      /\ k + 1 \in 1 .. Height - 2 /\ n \in Nat /\ line = top + 1
  BY <1>1, CellFacts, Sizes
<1> HIDE DEF k, ops, line
<1>5. ASSUME NEW r \in Rows, NEW column \in Columns
      PROVE  /\ r >= line => WithPrompt.buf[Place(r, column)] = Space
             /\ WithPrompt.buf[Place(r, column)] =
                    IF r = top /\ column = 0 THEN Prompt ELSE ui_screen_buf[Place(r, column)]
             /\ r >= line + k => drawn.buf[Place(r, column)] = Space
             /\ line + k - 1 \in Rows =>
                   drawn.buf[Place(r, column)] =
                       IF r \in line .. line + k - 1
                       THEN AnswerAt(strings, n, r - line + 1, column)
                       ELSE WithPrompt.buf[Place(r, column)]
  <2>1. WithPrompt.buf[Place(r, column)] =
            IF r = top /\ column = 0 THEN Prompt ELSE ui_screen_buf[Place(r, column)]
    BY <1>4, WithPromptAt
  <2>2. r >= line => r > top /\ r # top
    BY <1>4
  <2>3. r >= line => WithPrompt.buf[Place(r, column)] = Space
    BY <2>1, <2>2, CellFacts
  <2>4. /\ r >= line + k => drawn.buf[Place(r, column)] = Space
        /\ line + k - 1 \in Rows =>
              drawn.buf[Place(r, column)] =
                  IF r \in line .. line + k - 1
                  THEN AnswerAt(strings, n, r - line + 1, column)
                  ELSE WithPrompt.buf[Place(r, column)]
    <3> DEFINE before == WithPrompt
    <3> HIDE DEF before
    <3>1. r >= line => before.buf[Place(r, column)] = Space
      BY <2>3 DEF before
    <3>2. LET e == Draw(before, ops)
          IN  /\ r >= line + k => e.buf[Place(r, column)] = Space
              /\ line + k - 1 \in Rows =>
                    e.buf[Place(r, column)] =
                        IF r \in line .. line + k - 1
                        THEN AnswerAt(strings, n, r - line + 1, column)
                        ELSE before.buf[Place(r, column)]
      BY <1>4, <3>1, AnswerDrawn DEF k, ops
    <3>3. QED
      BY <3>2 DEF before
  <2>5. QED
    BY <2>1, <2>3, <2>4
<1>6. ASSUME NEW r \in Rows, r >= line + k PROVE BlankRow(drawn.buf, r)
  BY <1>5, <1>6, BlankRowAt
<1>7. Len(answers) = n /\ answers \in Seq(Answers \cup {<<>>}) /\ PromptRow
  BY DEF CellInv
<1> DEFINE longer == Append(answers, strings)
<1>8. /\ longer \in Seq(Answers \cup {<<>>}) /\ Len(longer) = n + 1 /\ longer[n + 1] = strings
      /\ n \in 0 .. Len(longer) - 1
  BY <1>4, <1>7, AppendProperties
<1>9. ASSUME ~overrun', NEW r \in Rows, r < line + k PROVE OldRow(drawn.buf, r, s[r], longer)
  <2>1. ~overrun /\ line + k - 1 \in Rows
    BY <1>3, <1>9
  <2>2. s[r] = IF r \in line .. line + k - 1 THEN Line(n, r - line + 1) ELSE Prompted[r]
    <3>1. k \in Nat /\ line \in Nat
      BY <1>1, <1>4
    <3>2. QED
      BY <2>1, <3>1, WrittenRows
  <2>3. r \in Nat /\ Prompted[r] = IF r = top THEN Line(n, 0) ELSE screen[r]
    <3>1. screen = [q \in Rows |-> screen[q]]
      BY DEF CellInv, RowInv
    <3>2. QED
      BY <1>4, <3>1 DEF Prompted
  <2> HIDE DEF s, drawn, longer
  <2>4. CASE r < top
    <3>1. SameRow(drawn.buf, r, ui_screen_buf, r)
      <4>1. SUFFICES ASSUME NEW column \in Columns
                     PROVE  drawn.buf[Place(r, column)] = ui_screen_buf[Place(r, column)]
        BY DEF SameRow
      <4>2. r # top /\ r \notin line .. line + k - 1
        BY <1>1, <1>4, <2>3, <2>4
      <4>3. QED
        BY <1>5, <2>1, <4>2
    <3>2. OldRow(ui_screen_buf, r, screen[r], answers)
      BY <2>1, <2>4 DEF CellInv
    <3>3. OldRow(drawn.buf, r, screen[r], longer)
      BY <1>7, <3>1, <3>2, OldRowMoves DEF longer
    <3>4. s[r] = screen[r]
      BY <1>4, <2>2, <2>3, <2>4
    <3>5. QED
      BY <3>3, <3>4
  <2>5. CASE r = top
    <3>1. s[r] = Line(n, 0)
      BY <1>4, <2>2, <2>3, <2>5
    <3>2. ASSUME NEW column \in Columns
          PROVE  drawn.buf[Place(r, column)] =
                     IF column = 0 THEN Prompt ELSE ui_screen_buf[Place(r, column)]
      BY <1>4, <1>5, <2>1, <2>3, <2>5
    <3>3. /\ 0 \in Columns
          /\ \A column \in 1 .. Shell.w - 3 : column \in Columns /\ column # 0
          /\ \A column \in 1 .. ClearedColumns + 1 : column \in Columns /\ column # 0
      BY ColumnFacts, ShellFacts DEF Columns
    <3>4. At0(drawn.buf, r) = Prompt
      BY <3>2, <3>3 DEF At0
    <3>5. \/ n = 0 /\ EmptyRow(ui_screen_buf, r)
          \/ TypedRow(ui_screen_buf, r, n, shown) /\ shown \in TypedLengths
      BY <1>3, <1>7, <2>5 DEF PromptRow, CellInv
    <3>6. EmptyRow(ui_screen_buf, r) => EmptyRow(drawn.buf, r)
      BY <3>2, <3>3 DEF EmptyRow
    <3>7. ASSUME TypedRow(ui_screen_buf, r, n, shown) PROVE TypedRow(drawn.buf, r, n, shown)
      <4>1. SUFFICES ASSUME NEW column \in 1 .. ClearedColumns + 1
                     PROVE  drawn.buf[Place(r, column)] =
                                IF column \in 2 .. shown + 1 THEN Text(n, 0, column - 1)
                                ELSE IF column = shown + 2 THEN Cursor ELSE Space
        BY DEF TypedRow
      <4>2. drawn.buf[Place(r, column)] = ui_screen_buf[Place(r, column)]
        BY <3>2, <3>3
      <4>3. QED
        BY <3>7, <4>2 DEF TypedRow
    <3>8. LineRow(drawn.buf, r, n)
      BY <3>4, <3>5, <3>6, <3>7 DEF LineRow
    <3>9. 0 \in 0 .. RowsOf(longer[n + 1])
      BY <1>1, <1>8 DEF k
    <3>10. QED
      BY <1>8, <3>1, <3>8, <3>9 DEF OldRow
  <2>6. CASE r > top
    <3>0. k \in Nat /\ top \in Nat /\ line \in Nat /\ line = top + 1 /\ r \in Nat
      BY <1>1, <1>4, <2>3
    <3> HIDE DEF top
    <3>1. r \in line .. line + k - 1
      BY <1>9, <2>6, <3>0
    <3> DEFINE i == r - line + 1
    <3>2. s[r] = Line(n, i) /\ i \in 0 .. RowsOf(longer[n + 1]) /\ i # 0
      <4>1. i \in 1 .. k
        BY <3>0, <3>1
      <4>2. RowsOf(longer[n + 1]) = k
        BY <1>8 DEF k
      <4> HIDE DEF i
      <4>3. i \in 0 .. RowsOf(longer[n + 1]) /\ i # 0
        BY <1>1, <4>1, <4>2
      <4>4. QED
        BY <2>2, <3>1, <4>3 DEF i
    <3>3. \A column \in Columns :
              drawn.buf[Place(r, column)] = AnswerAt(longer[n + 1], n, i, column)
      BY <1>5, <1>8, <2>1, <3>1
    <3> HIDE DEF i
    <3>4. QED
      BY <1>8, <3>2, <3>3 DEF OldRow
  <2>7. QED
    BY <1>4, <2>3, <2>4, <2>5, <2>6
<1>10. answers' = longer
  BY <1>1
<1> HIDE DEF drawn, s, longer
<1>11. CASE Scrolls(line, k)
  <2> DEFINE e == ui_scroll_vertical_n(drawn, Shell, k + 1)
  <2>1. ui_screen_buf' = e.buf /\ top' = top /\ screen' = Scrolled(s, k + 1)
    BY <1>1, <1>3, <1>4, <1>11 DEF Show
  <2>2. ASSUME NEW r \in Rows, r + (k + 1) \in Rows
        PROVE  SameRow(e.buf, r, drawn.buf, r + (k + 1)) /\ screen'[r] = s[r + (k + 1)]
    <3>1. SameRow(e.buf, r, drawn.buf, r + (k + 1))
      BY <1>4, <2>2, ScrolledAt DEF SameRow
    <3>2. screen'[r] = s[r + (k + 1)]
      BY <1>4, <2>1, <2>2, ScrolledRows
    <3>3. QED
      BY <3>1, <3>2
  <2>3. ASSUME NEW r \in Rows, r + (k + 1) \notin Rows PROVE BlankRow(e.buf, r)
    <3>1. \A column \in Columns : e.buf[Place(r, column)] = Space
      BY <1>4, <2>3, ScrolledAt
    <3>2. QED
      BY <3>1, BlankRowAt
  <2> HIDE DEF e
  <2>4. ASSUME NEW r \in Rows, r >= top PROVE BlankRow(e.buf, r)
    <3>1. CASE r + (k + 1) \in Rows
      <4>1. r + (k + 1) >= line + k
        BY <1>1, <1>4, <2>4, <3>1
      <4>2. BlankRow(drawn.buf, r + (k + 1))
        BY <1>6, <3>1, <4>1
      <4>3. QED
        BY <2>2, <3>1, <4>2, RowMoves
    <3>2. QED
      BY <2>3, <3>1
  <2>5. ASSUME ~overrun', NEW r \in Rows, r < top PROVE OldRow(e.buf, r, screen'[r], longer)
    <3>1. line + k - 1 \in Rows
      BY <1>3, <2>5
    <3>2. r + (k + 1) \in Rows /\ r + (k + 1) < line + k
      BY <1>1, <1>4, <2>5, <3>1
    <3>3. OldRow(drawn.buf, r + (k + 1), s[r + (k + 1)], longer)
      BY <1>9, <2>5, <3>2
    <3>4. SameRow(e.buf, r, drawn.buf, r + (k + 1)) /\ screen'[r] = s[r + (k + 1)]
      BY <2>2, <3>2
    <3>5. QED
      BY <1>8, <3>3, <3>4, OldRowMoves
  <2>6. QED
    BY <1>1, <1>2, <1>3, <1>4, <1>10, <2>1, <2>4, <2>5, CellsFollow
<1>12. CASE ~Scrolls(line, k)
  <2>1. ui_screen_buf' = drawn.buf /\ top' = line + k /\ screen' = s
    BY <1>1, <1>3, <1>12 DEF Show
  <2>2. line + k \in Rows
    BY <1>1, <1>4, <1>12, Sizes DEF Scrolls
  <2>3. QED
    BY <1>1, <1>2, <1>3, <1>6, <1>9, <1>10, <2>1, <2>2, CellsFollow
<1>13. QED
  BY <1>11, <1>12

LEMMA ClearCells == ASSUME CellInv, UiClear PROVE CellInv'
<1> DEFINE n == current_line + 1
           e == ui_scroll_vertical_n(WithPrompt, Shell, n)
<1>1. /\ (RowInv /\ UiInv)'
  BY ClearRows, ClearKeeps DEF CellInv, UiClear
<1>2. /\ commands < MaxCommands /\ commands' = commands + 1 /\ pc' = "answered"
      /\ current_line' = 0 /\ shown' = 0 /\ answers' = Append(answers, <<>>)
      /\ ui_screen_buf' = e.buf
  BY DEF UiClear, Clear, Show
<1>3. /\ current_line \in Rows /\ current_line \in Nat /\ n \in 1 .. Height - 2
      /\ n = current_line + 1
  BY CellFacts
<1> HIDE DEF n
<1>4. ASSUME NEW r \in Rows PROVE BlankRow(e.buf, r)
  <2>1. SUFFICES ASSUME NEW column \in Columns PROVE e.buf[Place(r, column)] = Space
    BY BlankRowAt
  <2>2. e.buf[Place(r, column)] =
            IF r + n \in Rows THEN WithPrompt.buf[Place(r + n, column)] ELSE Space
    BY <1>3, ScrolledAt
  <2>3. ASSUME r + n \in Rows PROVE WithPrompt.buf[Place(r + n, column)] = Space
    <3>1. r + n > current_line /\ r + n # current_line
      BY <1>3, ColumnFacts
    <3>2. WithPrompt.buf[Place(r + n, column)] = ui_screen_buf[Place(r + n, column)]
      BY <1>3, <2>3, <3>1, WithPromptAt
    <3>3. QED
      BY <2>3, <3>1, <3>2, CellFacts
  <2>4. QED
    BY <2>2, <2>3
<1> HIDE DEF e
<1>5. 0 \in Rows /\ \A r \in Rows : ~(r < 0)
  BY Sizes
<1>6. QED
  BY <1>1, <1>2, <1>4, <1>5, CellsFollow

\* What a turn without the return key leaves of the other rows.
LEMMA OthersStay ==
    ASSUME CellInv, (RowInv /\ UiInv)', UNCHANGED <<current_line, commands, answers, overrun>>,
           PromptRow',
           \A r \in Rows : r # current_line => /\ SameRow(ui_screen_buf', r, ui_screen_buf, r)
                                               /\ screen'[r] = screen[r]
    PROVE  CellInv'
<1>1. /\ (commands \in 0 .. MaxCommands)' /\ (Len(answers) = commands)'
      /\ answers' = answers /\ answers \in Seq(Answers \cup {<<>>})
      /\ current_line' = current_line /\ current_line \in Nat
  BY CellFacts DEF CellInv
<1>2. ASSUME NEW r \in Rows, r > current_line' PROVE BlankRow(ui_screen_buf', r)
  <2>1. r # current_line /\ BlankRow(ui_screen_buf, r)
    BY <1>1, <1>2 DEF CellInv
  <2>2. QED
    BY <2>1, RowMoves
<1>3. ASSUME ~overrun', NEW r \in Rows, r < current_line'
      PROVE  OldRow(ui_screen_buf', r, screen'[r], answers')
  <2>1. r # current_line /\ OldRow(ui_screen_buf, r, screen[r], answers)
    BY <1>1, <1>3 DEF CellInv
  <2>2. SameRow(ui_screen_buf', r, ui_screen_buf, r) /\ screen'[r] = screen[r]
    BY <2>1
  <2>3. <<>> \in Answers \cup {<<>>}
    OBVIOUS
  <2>4. OldRow(ui_screen_buf', r, screen[r], answers)
    BY <1>1, <2>1, <2>2, <2>3, OldRowMoves
  <2>5. QED
    BY <1>1, <2>2, <2>4
<1>4. QED
  BY <1>1, <1>2, <1>3 DEF CellInv

LEMMA NoReturnCells == ASSUME CellInv, UiNoReturn, (RowInv /\ UiInv)' PROVE CellInv'
<1>1. /\ current_line' = current_line /\ commands' = commands /\ overrun' = overrun
      /\ answers' = answers /\ shown' = shown /\ pc = "prompt" /\ pc' = "answered"
      /\ screen' = Prompted /\ ui_screen_buf' = WithPrompt.buf
  BY DEF UiNoReturn, NoReturn, Show
<1>2. /\ current_line \in Rows /\ current_line \in Nat
      /\ screen = [r \in Rows |-> screen[r]]
  BY CellFacts DEF CellInv, RowInv
<1>3. \A r \in Rows : screen'[r] = IF r = current_line THEN Line(commands, 0) ELSE screen[r]
  BY <1>1, <1>2 DEF Prompted
<1>4. \A r \in Rows, column \in Columns :
          ui_screen_buf'[Place(r, column)] =
              IF r = current_line /\ column = 0 THEN Prompt ELSE ui_screen_buf[Place(r, column)]
  BY <1>1, <1>2, WithPromptAt
<1>5. \A r \in Rows : r # current_line => /\ SameRow(ui_screen_buf', r, ui_screen_buf, r)
                                          /\ screen'[r] = screen[r]
  BY <1>3, <1>4 DEF SameRow
<1>6. PromptRow'
  <2>1. /\ 0 \in Columns
        /\ \A column \in 1 .. Shell.w - 3 : column \in Columns /\ column # 0
        /\ \A column \in 1 .. ClearedColumns + 1 : column \in Columns /\ column # 0
    BY ColumnFacts, ShellFacts DEF Columns
  <2>2. ui_screen_buf'[Place(current_line, 0)] = Prompt
    BY <1>2, <1>4, <2>1
  <2>3. EmptyRow(ui_screen_buf, current_line) => EmptyRow(ui_screen_buf', current_line)
    BY <1>2, <1>4, <2>1 DEF EmptyRow
  <2>4. ASSUME TypedRow(ui_screen_buf, current_line, commands, shown)
        PROVE  TypedRow(ui_screen_buf', current_line, commands, shown)
    BY <1>2, <1>4, <2>1, <2>4 DEF TypedRow
  <2>5. screen'[current_line] = Line(commands, 0)
    BY <1>2, <1>3
  <2>6. \/ shown = 0 /\ EmptyRow(ui_screen_buf, current_line)
        \/ TypedRow(ui_screen_buf, current_line, commands, shown) /\ shown \in TypedLengths
    BY DEF CellInv, PromptRow
  <2>7. QED
    BY <1>1, <2>2, <2>3, <2>4, <2>5, <2>6 DEF PromptRow, At0
<1>7. QED
  BY <1>1, <1>2, <1>5, <1>6, OthersStay
\* A typed line that fits into its row stays in it, from column 2 on.
LEMMA TypedPlaces ==
    ASSUME NEW y \in Rows, NEW n, NEW length \in Nat, length + 2 <= Shell.w - 2,
           NEW r \in Rows, NEW column \in Columns
    PROVE  LET puts == ui_putstr(Shell, 2, y, String(n, 0, length)).puts
           IN  /\ Place(r, column) \in DOMAIN puts <=> r = y /\ column \in 2 .. length + 1
               /\ Place(r, column) \in DOMAIN puts => puts[Place(r, column)] = Text(n, 0, column - 1)
<1> DEFINE str == String(n, 0, length)
           puts == ui_putstr(Shell, 2, y, str).puts
           m == Shell.w - 1
<1>1. /\ DOMAIN str = 1 .. length /\ \A i \in 1 .. length : str[i] = Text(n, 0, i)
  BY DEF String
<1>2. /\ m \in Nat /\ 3 <= m /\ y \in Nat /\ r \in Nat /\ column \in Nat /\ length + 1 < m
  BY ColumnFacts
<1>3. Lines(Shell, 2, length) = 1
  <2>1. CASE length = 0
    BY <2>1 DEF Lines
  <2>2. CASE length # 0
    <3> DEFINE B == Breaks(Shell, 2, length - 1)
               C == (2 + (length - 1)) % m
    <3>1. length - 1 \in Nat
      BY <2>2
    <3>2. B \in Nat /\ C \in 0 .. Shell.w - 2 /\ 2 + (length - 1) = B * m + C
      BY <3>1, BreaksAt
    <3>3. Lines(Shell, 2, length) = 1 + B
      BY <2>2 DEF Lines
    <3> HIDE DEF B, C, m
    <3>4. C \in Nat /\ 1 + length = B * m + C
      BY <3>1, <3>2, ColumnFacts
    <3>5. B = 0
      <4>1. SUFFICES ASSUME B >= 1 PROVE FALSE
        BY <3>2
      <4>2. (B - 1) * m \in Nat /\ B * m = (B - 1) * m + m
        BY <1>2, <3>2, <4>1
      <4>3. QED
        BY <1>2, <3>4, <4>2
    <3>6. QED
      BY <3>3, <3>5
  <2>3. QED
    BY <2>1, <2>2
<1>4. y + 1 - 1 = y /\ (r \in y .. y + 1 - 1 => r = y)
  BY <1>2
<1> HIDE DEF str, puts, m
<1>5. /\ Place(r, column) \in DOMAIN puts => r = y
      /\ Place(r, column) \in DOMAIN puts <=> Spot(r, y, column) \in 1 .. length
      /\ Spot(r, y, column) \in 1 .. length => puts[Place(r, column)] = str[Spot(r, y, column)]
  BY <1>1, <1>2, <1>3, <1>4, StringPlaces DEF puts
<1>6. r = y => Spot(r, y, column) = column - 1
  BY <1>2, ColumnFacts DEF Spot
<1>7. column - 1 \in 1 .. length <=> column \in 2 .. length + 1
  BY <1>2
<1>8. QED
  BY <1>1, <1>5, <1>6, <1>7 DEF puts, str

\* Clearing and the cursor.
LEMMA ClearedPlaces ==
    ASSUME NEW y \in Rows, NEW r \in Rows, NEW column \in Columns
    PROVE  LET puts == ui_clear_rv(Shell, 2, y, ClearedColumns).puts
           IN  /\ Place(r, column) \in DOMAIN puts <=> r = y /\ column \in 2 .. ClearedColumns + 1
               /\ Place(r, column) \in DOMAIN puts => puts[Place(r, column)] = Space
<1> DEFINE puts == ui_clear_rv(Shell, 2, y, ClearedColumns).puts
           range == 2 .. 2 + ClearedColumns - 1
<1>1. puts = [c \in {Index(Shell, i + 1, y + 1) : i \in range} |-> Space]
  BY DEF ui_clear_rv, Put
<1>2. \A c : c \in DOMAIN puts <=> \E i \in range : c = Place(y, i)
  BY <1>1 DEF Place
<1>3. range = 2 .. ClearedColumns + 1 /\ range \subseteq 0 .. Shell.w - 2
  BY ColumnFacts, ShellFacts
<1>4. column \in 0 .. Shell.w - 2
  BY ColumnFacts
<1> HIDE DEF range
<1>5. Place(r, column) \in DOMAIN puts <=> r = y /\ column \in range
  BY <1>2, <1>3, <1>4, RowPlaces
<1>6. QED
  BY <1>1, <1>3, <1>5

LEMMA CursorPlace ==
    ASSUME NEW y \in Rows, NEW x \in 0 .. Shell.w - 2, NEW r \in Rows, NEW column \in Columns
    PROVE  LET puts == ui_putch(Shell, x, y, Cursor).puts
           IN  /\ Place(r, column) \in DOMAIN puts <=> r = y /\ column = x
               /\ Place(r, column) \in DOMAIN puts => puts[Place(r, column)] = Cursor
<1>1. ui_putch(Shell, x, y, Cursor).puts = [c \in {Place(y, x)} |-> Cursor]
  BY DEF ui_putch, Put, Place
<1>2. column \in 0 .. Shell.w - 2
  BY ColumnFacts
<1>3. QED
  BY <1>1, <1>2, RowPlaces

\* What the keys of one turn leave in a cell of the box.
LEMMA RedrawnAt ==
    ASSUME CellInv, NEW backspace \in BOOLEAN, NEW other \in BOOLEAN, NEW length \in TypedLengths,
           UiRedraw(backspace, other, length), InRow', NEW r \in Rows, NEW column \in Columns
    PROVE  ui_screen_buf'[Place(r, column)] =
               IF r # current_line THEN ui_screen_buf[Place(r, column)]
               ELSE IF column = length + 2 THEN Cursor
               ELSE IF (backspace \/ other) /\ column \in 2 .. length + 1
                    THEN Text(commands, 0, column - 1)
               ELSE IF backspace /\ column \in 2 .. ClearedColumns + 1 THEN Space
               ELSE ui_screen_buf[Place(r, column)]
<1> DEFINE typed == ui_putstr(Shell, 2, current_line, String(commands, 0, length))
           cleared == ui_clear_rv(Shell, 2, current_line, ClearedColumns)
           first == IF backspace THEN <<cleared, typed>> ELSE <<>>
           second == IF other THEN <<typed>> ELSE <<>>
           keys == first \o second
           cursor == ui_putch(Shell, 2 + length, current_line, Cursor)
           c == Place(r, column)
           S == {cleared, typed, cursor}
<1>0. ~LeavesRow(length)
  BY DEF UiRedraw, Redraw, InRow
<1>1. ui_screen_buf' = Draw(Screen, Append(keys, cursor)).buf /\ length + 2 <= Shell.w - 2
  BY <1>0, Bounds, ShellFacts DEF UiRedraw, Show, LeavesRow
<1>2. current_line \in Rows /\ length \in Nat /\ 2 + length \in 0 .. Shell.w - 2
  BY <1>1, CellFacts, Bounds, ShellFacts
<1>3. c \in Cells
  BY ColumnFacts, RowPlaces
<1>4. /\ c \in DOMAIN typed.puts <=> r = current_line /\ column \in 2 .. length + 1
      /\ c \in DOMAIN typed.puts => typed.puts[c] = Text(commands, 0, column - 1)
  BY <1>1, <1>2, TypedPlaces
<1>5. /\ c \in DOMAIN cleared.puts <=> r = current_line /\ column \in 2 .. ClearedColumns + 1
      /\ c \in DOMAIN cleared.puts => cleared.puts[c] = Space
  BY <1>2, ClearedPlaces
<1>6. /\ c \in DOMAIN cursor.puts <=> r = current_line /\ column = 2 + length
      /\ c \in DOMAIN cursor.puts => cursor.puts[c] = Cursor
  BY <1>2, CursorPlace
<1> HIDE DEF typed, cleared, cursor, c
<1>7. /\ keys = IF backspace THEN IF other THEN <<cleared, typed, typed>> ELSE <<cleared, typed>>
                ELSE IF other THEN <<typed>> ELSE <<>>
      /\ keys \in Seq(S)
  <2>1. cleared \in S /\ typed \in S
    OBVIOUS
  <2> HIDE DEF S
  <2>2. CASE backspace /\ other
    <3>1. keys = <<cleared, typed>> \o <<typed>>
      BY <2>2
    <3>2. <<cleared, typed>> \o <<typed>> = <<cleared, typed, typed>>
      <4> DEFINE pair == <<cleared, typed>>
                 one == <<typed>>
                 all == <<cleared, typed, typed>>
      <4>1. /\ pair \in Seq(S) /\ one \in Seq(S) /\ all \in Seq(S)
            /\ Len(pair) = 2 /\ Len(one) = 1 /\ Len(all) = 3
            /\ pair[1] = cleared /\ pair[2] = typed /\ one[1] = typed
            /\ all[1] = cleared /\ all[2] = typed /\ all[3] = typed
        BY <2>1
      <4> HIDE DEF pair, one, all
      <4>2. /\ pair \o one \in Seq(S) /\ Len(pair \o one) = 3
            /\ \A i \in 1 .. 3 :
                  (pair \o one)[i] = IF i <= 2 THEN pair[i] ELSE one[i - 2]
        <5>1. /\ pair \o one \in Seq(S) /\ Len(pair \o one) = Len(pair) + Len(one)
              /\ \A i \in 1 .. Len(pair) + Len(one) :
                    (pair \o one)[i] = IF i <= Len(pair) THEN pair[i] ELSE one[i - Len(pair)]
          BY <4>1, ConcatProperties, Zenon
        <5>2. QED
          BY <4>1, <5>1
      <4>3. \A i \in 1 .. 3 : (pair \o one)[i] = all[i]
        <5>1. TAKE i \in 1 .. 3
        <5>2. i = 1 \/ i = 2 \/ i = 3
          OBVIOUS
        <5>3. QED
          BY <4>1, <4>2, <5>2
      <4>4. pair \o one = all
        BY <4>1, <4>2, <4>3, SeqEqual
      <4>5. QED
        BY <4>4 DEF pair, one, all
    <3>3. <<cleared, typed, typed>> \in Seq(S)
      BY <2>1
    <3> HIDE DEF keys
    <3>4. QED
      BY <2>2, <3>1, <3>2, <3>3
  <2>3. CASE backspace /\ ~other
    <3>1. keys = <<cleared, typed>> \o <<>>
      BY <2>3
    <3>2. <<cleared, typed>> \o <<>> = <<cleared, typed>> /\ <<cleared, typed>> \in Seq(S)
      BY <2>1
    <3> HIDE DEF keys
    <3>3. QED
      BY <2>3, <3>1, <3>2
  <2>4. CASE ~backspace /\ other
    <3>1. keys = <<>> \o <<typed>>
      BY <2>4
    <3>2. <<>> \o <<typed>> = <<typed>> /\ <<typed>> \in Seq(S)
      BY <2>1
    <3> HIDE DEF keys
    <3>3. QED
      BY <2>4, <3>1, <3>2
  <2>5. CASE ~backspace /\ ~other
    <3>1. keys = <<>> \o <<>>
      BY <2>5
    <3>2. <<>> \o <<>> = <<>> /\ <<>> \in Seq(S)
      OBVIOUS
    <3> HIDE DEF keys
    <3>3. QED
      BY <2>5, <3>1, <3>2
  <2>6. QED
    BY <2>2, <2>3, <2>4, <2>5
<1>8. cursor \in S
  OBVIOUS
<1> HIDE DEF keys, S
<1>9. Draw(Screen, Append(keys, cursor)).buf[c] =
          IF c \in DOMAIN cursor.puts THEN cursor.puts[c] ELSE Draw(Screen, keys).buf[c]
  <2>1. keys \in Seq(S)
    BY <1>7
  <2> DEFINE d == Screen
  <2> HIDE DEF d
  <2>2. c \in DOMAIN cursor.puts => Draw(d, Append(keys, cursor)).buf[c] = cursor.puts[c]
    BY <1>3, <1>8, <2>1, AppendedWins
  <2>3. c \notin DOMAIN cursor.puts => Draw(d, Append(keys, cursor)).buf[c] = Draw(d, keys).buf[c]
    BY <1>3, <1>8, <2>1, AppendedElsewhere
  <2>4. QED
    BY <2>2, <2>3 DEF d
<1>10. Draw(Screen, keys).buf[c] =
           IF (backspace \/ other) /\ c \in DOMAIN typed.puts THEN typed.puts[c]
           ELSE IF backspace /\ c \in DOMAIN cleared.puts THEN cleared.puts[c]
           ELSE ui_screen_buf[c]
  <2>0. Screen.buf = ui_screen_buf
    BY DEF Screen
  <2>1. CASE backspace /\ other
    <3>1. keys = <<cleared, typed, typed>>
      BY <1>7, <2>1
    <3>2. /\ DOMAIN keys = {1, 2, 3} /\ DOMAIN keys \subseteq Int
          /\ keys[1] = cleared /\ keys[2] = typed /\ keys[3] = typed
      BY <3>1
    <3>3. c \in DOMAIN typed.puts => Draw(Screen, keys).buf[c] = typed.puts[c]
      BY <1>3, <3>2, DrawAt
    <3>4. c \notin DOMAIN typed.puts /\ c \in DOMAIN cleared.puts
          => Draw(Screen, keys).buf[c] = cleared.puts[c]
      BY <1>3, <3>2, DrawAt
    <3>5. c \notin DOMAIN typed.puts /\ c \notin DOMAIN cleared.puts
          => Draw(Screen, keys).buf[c] = Screen.buf[c]
      BY <1>3, <3>2, DrawAt
    <3>6. QED
      BY <2>0, <2>1, <3>3, <3>4, <3>5
  <2>2. CASE backspace /\ ~other
    <3>1. keys = <<cleared, typed>>
      BY <1>7, <2>2
    <3>2. /\ DOMAIN keys = {1, 2} /\ DOMAIN keys \subseteq Int
          /\ keys[1] = cleared /\ keys[2] = typed
      BY <3>1
    <3>3. c \in DOMAIN typed.puts => Draw(Screen, keys).buf[c] = typed.puts[c]
      BY <1>3, <3>2, DrawAt
    <3>4. c \notin DOMAIN typed.puts /\ c \in DOMAIN cleared.puts
          => Draw(Screen, keys).buf[c] = cleared.puts[c]
      BY <1>3, <3>2, DrawAt
    <3>5. c \notin DOMAIN typed.puts /\ c \notin DOMAIN cleared.puts
          => Draw(Screen, keys).buf[c] = Screen.buf[c]
      BY <1>3, <3>2, DrawAt
    <3>6. QED
      BY <2>0, <2>2, <3>3, <3>4, <3>5
  <2>3. CASE ~backspace /\ other
    <3>1. keys = <<typed>>
      BY <1>7, <2>3
    <3>2. DOMAIN keys = {1} /\ DOMAIN keys \subseteq Int /\ keys[1] = typed
      BY <3>1
    <3>3. c \in DOMAIN typed.puts => Draw(Screen, keys).buf[c] = typed.puts[c]
      BY <1>3, <3>2, DrawAt
    <3>4. c \notin DOMAIN typed.puts => Draw(Screen, keys).buf[c] = Screen.buf[c]
      BY <1>3, <3>2, DrawAt
    <3>5. QED
      BY <2>0, <2>3, <3>3, <3>4
  <2>4. CASE ~backspace /\ ~other
    <3>1. keys = <<>>
      BY <1>7, <2>4
    <3>2. DOMAIN keys = {} /\ DOMAIN keys \subseteq Int
      BY <3>1
    <3>3. Draw(Screen, keys).buf[c] = Screen.buf[c]
      BY <1>3, <3>2, DrawAt
    <3>4. QED
      BY <2>0, <2>4, <3>3
  <2>5. QED
    BY <2>1, <2>2, <2>3, <2>4
<1>11. ui_screen_buf'[c] = IF c \in DOMAIN cursor.puts THEN cursor.puts[c]
                           ELSE Draw(Screen, keys).buf[c]
  BY <1>1, <1>9
<1>12. 2 + length = length + 2
  BY <1>2
<1>13. QED
  BY <1>4, <1>5, <1>6, <1>10, <1>11, <1>12 DEF c

LEMMA RedrawCells ==
    ASSUME CellInv, (RowInv /\ UiInv)', NEW backspace \in BOOLEAN, NEW other \in BOOLEAN,
           NEW length \in TypedLengths, UiRedraw(backspace, other, length), InRow'
    PROVE  CellInv'
<1> DEFINE T == current_line
<1>1. /\ T' = T /\ commands' = commands /\ overrun' = overrun /\ answers' = answers
      /\ shown' = length /\ pc = "answered" /\ pc' = "refresh"
      /\ ~backspace => length >= shown
      /\ ~other => length <= shown
      /\ screen' = [screen EXCEPT ![T] = Line(commands, 0)]
  <2>1. Redraw(backspace, other, length) /\ answers' = answers
    BY DEF UiRedraw
  <2>2. screen' = [screen EXCEPT ![T] = Line(commands, 0)]
    BY <2>1, RedrawRows DEF CellInv
  <2>3. QED
    BY <2>1, <2>2 DEF Redraw, Asked
<1>2. /\ T \in Rows /\ T \in Nat /\ screen = [r \in Rows |-> screen[r]] /\ shown \in Nat
      /\ length \in Nat
  BY CellFacts, Bounds DEF CellInv, RowInv
<1>3. \A r \in Rows : screen'[r] = IF r = T THEN Line(commands, 0) ELSE screen[r]
  BY <1>1, <1>2
<1>4. \A r \in Rows : r # T => SameRow(ui_screen_buf', r, ui_screen_buf, r) /\ screen'[r] = screen[r]
  BY <1>3, RedrawnAt DEF SameRow
<1>5. \/ shown = 0 /\ EmptyRow(ui_screen_buf, T)
      \/ TypedRow(ui_screen_buf, T, commands, shown)
  BY DEF CellInv, PromptRow
<1>6. TypedRow(ui_screen_buf', T, commands, length)
  <2>1. SUFFICES ASSUME NEW column \in 1 .. ClearedColumns + 1
                 PROVE  ui_screen_buf'[Place(T, column)] =
                            IF column \in 2 .. length + 1 THEN Text(commands, 0, column - 1)
                            ELSE IF column = length + 2 THEN Cursor ELSE Space
    BY DEF TypedRow
  <2>2. column \in Columns /\ column \in 1 .. Shell.w - 3 /\ column \in Nat
    BY ColumnFacts, ShellFacts DEF Columns
  <2> DEFINE new == ui_screen_buf'[Place(T, column)]
             old == ui_screen_buf[Place(T, column)]
  <2>3. new = IF column = length + 2 THEN Cursor
              ELSE IF (backspace \/ other) /\ column \in 2 .. length + 1
                   THEN Text(commands, 0, column - 1)
              ELSE IF backspace /\ column \in 2 .. ClearedColumns + 1 THEN Space
              ELSE old
    BY <1>2, <2>2, RedrawnAt
  <2>4. \/ old = IF column \in 2 .. shown + 1 THEN Text(commands, 0, column - 1)
                 ELSE IF column = shown + 2 THEN Cursor ELSE Space
        \/ shown = 0 /\ old = Space
    <3>1. CASE TypedRow(ui_screen_buf, T, commands, shown)
      BY <3>1 DEF TypedRow
    <3>2. CASE shown = 0 /\ EmptyRow(ui_screen_buf, T)
      BY <2>2, <3>2 DEF EmptyRow
    <3>3. QED
      BY <1>5, <3>1, <3>2
  <2> HIDE DEF new, old
  <2>5. new = IF column \in 2 .. length + 1 THEN Text(commands, 0, column - 1)
              ELSE IF column = length + 2 THEN Cursor ELSE Space
    <3>1. CASE column = length + 2
      BY <1>2, <2>2, <2>3, <3>1
    <3>2. CASE column \in 2 .. length + 1
      <4>1. CASE backspace \/ other
        BY <1>2, <2>2, <2>3, <3>2, <4>1
      <4>2. CASE ~(backspace \/ other)
        <5>1. shown = length
          BY <1>1, <1>2, <4>2
        <5>2. new = old
          BY <1>2, <2>2, <2>3, <3>2, <4>2
        <5>3. QED
          BY <1>2, <2>4, <3>2, <5>1, <5>2
      <4>3. QED
        BY <4>1, <4>2
    <3>3. CASE column # length + 2 /\ column \notin 2 .. length + 1
      <4>1. CASE backspace /\ column # 1
        BY <2>2, <2>3, <3>3, <4>1
      <4>2. CASE column = 1
        <5>1. new = old
          BY <2>3, <3>3, <4>2
        <5>2. column \notin 2 .. shown + 1 /\ column # shown + 2
          BY <1>2, <4>2
        <5>3. old = Space
          BY <2>4, <5>2
        <5>4. QED
          BY <3>3, <5>1, <5>3
      <4>3. CASE ~backspace /\ column # 1
        <5>1. new = old /\ shown <= length
          BY <1>1, <2>3, <3>3, <4>3
        <5>2. column > length + 2
          BY <1>2, <2>2, <3>3, <4>3
        <5>3. column \notin 2 .. shown + 1 /\ column # shown + 2
          BY <1>2, <2>2, <5>1, <5>2
        <5>4. old = Space
          BY <2>4, <5>3
        <5>5. QED
          BY <3>3, <5>1, <5>4
      <4>4. QED
        BY <4>1, <4>2, <4>3
    <3>4. QED
      BY <3>1, <3>2, <3>3
  <2>6. QED
    BY <2>5 DEF new
<1>7. PromptRow'
  <2>1. 0 \in Columns
    BY ColumnFacts, ShellFacts DEF Columns
  <2>2. At0(ui_screen_buf', T) = At0(ui_screen_buf, T)
    <3>1. 0 # length + 2 /\ 0 \notin 2 .. length + 1 /\ 0 \notin 2 .. ClearedColumns + 1
      BY <1>2
    <3>2. QED
      BY <1>2, <2>1, <3>1, RedrawnAt DEF At0
  <2>3. At0(ui_screen_buf, T) \in {Prompt, Space}
    BY DEF CellInv, PromptRow
  <2>4. screen'[T] = Line(commands, 0)
    BY <1>2, <1>3
  <2>5. QED
    BY <1>1, <1>6, <2>2, <2>3, <2>4 DEF PromptRow
<1>8. QED
  BY <1>1, <1>4, <1>7, OthersStay

LEMMA CellStep == CellInv /\ [UiNext]_uiVars /\ InRow' => CellInv'
<1> SUFFICES ASSUME CellInv, [UiNext]_uiVars, InRow' PROVE CellInv'
  OBVIOUS
<1>0. (RowInv /\ UiInv)'
  <2>1. [Next]_vars
    BY CellStepsAreRowSteps
  <2>2. RowInv'
    BY <2>1, RowStep DEF CellInv
  <2>3. UiInv'
    BY UiInvStep DEF CellInv
  <2>4. QED
    BY <2>2, <2>3
<1>1. ASSUME NEW strings \in Answers, UiEnter(strings) PROVE CellInv'
  BY <1>1, EnterCells
<1>2. CASE UiClear
  BY <1>2, ClearCells
<1>3. CASE UiNoReturn
  BY <1>0, <1>3, NoReturnCells
<1>4. ASSUME NEW backspace \in BOOLEAN, NEW other \in BOOLEAN, NEW length \in TypedLengths,
             UiRedraw(backspace, other, length)
      PROVE  CellInv'
  BY <1>0, <1>4, RedrawCells
<1>5. ASSUME UNCHANGED <<ui_screen_buf, screen, current_line, commands, answers, overrun, shown>>,
             pc = "refresh" \/ pc' = pc
      PROVE  CellInv'
  <2>1. \A r \in Rows : SameRow(ui_screen_buf', r, ui_screen_buf, r) /\ screen'[r] = screen[r]
    BY <1>5 DEF SameRow
  <2>2. PromptRow'
    BY <1>5 DEF CellInv, PromptRow
  <2>3. QED
    BY <1>0, <1>5, <2>1, <2>2, OthersStay
<1>6. CASE UiRefresh
  <2>1. ui_refresh(Screen).buf = ui_screen_buf
    BY DEF ui_refresh, Screen
  <2>2. QED
    BY <1>5, <1>6, <2>1 DEF UiRefresh, Refresh, Show
<1>7. CASE UNCHANGED uiVars
  BY <1>5, <1>7 DEF uiVars, ui, vars
<1>8. ASSUME NEW backspace \in BOOLEAN, NEW other \in BOOLEAN, NEW length \in TypedLengths,
             \/ UiRedrawOverflows(backspace, other, length)
             \/ UiRedrawLeavesScreen(backspace, other, length)
      PROVE  FALSE
  BY <1>8 DEF UiRedrawOverflows, RedrawOverflows, UiRedrawLeavesScreen, RedrawLeavesScreen, InRow
<1>9. CASE UiLost
  BY <1>9 DEF UiLost, Lost, vars, InRow
<1>10. QED
  BY <1>1, <1>2, <1>3, <1>4, <1>6, <1>7, <1>8, <1>9 DEF UiNext

LEMMA CellInvShows == (InRow => CellInv) => CellsShowRows
<1> SUFFICES ASSUME CellInv, pc = "prompt", ~overrun, NEW r \in Rows
             PROVE  IF screen[r] = Blank \/ screen[r][2] > 0
                    THEN \A column \in 0 .. Shell.w - 3 :
                             Cell(r, column) =
                                 IF screen[r] = Blank THEN Space
                                 ELSE AnswerAt(answers[screen[r][1] + 1], screen[r][1],
                                               screen[r][2], column)
                    ELSE TypedShows(screen[r][1], r)
  BY DEF CellsShowRows, InRow
<1>1. \A column : Cell(r, column) = ui_screen_buf[Place(r, column)]
  BY DEF Cell, Place
<1>2. r \in Nat /\ current_line \in Rows /\ current_line \in Nat /\ commands \in 0 .. MaxCommands
  BY CellFacts, ColumnFacts DEF CellInv
<1>3. \A n \in 0 .. MaxCommands, i \in 0 .. MaxAnswer : Line(n, i) # Blank
  BY ShellScreenAssumption DEF Line
<1>4. CASE r < current_line
  <2>1. PICK n \in 0 .. Len(answers) - 1 : \E i \in 0 .. RowsOf(answers[n + 1]) :
            /\ screen[r] = Line(n, i)
            /\ IF i = 0 THEN LineRow(ui_screen_buf, r, n)
               ELSE \A column \in Columns :
                        ui_screen_buf[Place(r, column)] = AnswerAt(answers[n + 1], n, i, column)
    BY <1>4 DEF CellInv, OldRow
  <2>2. PICK i \in 0 .. RowsOf(answers[n + 1]) :
            /\ screen[r] = Line(n, i)
            /\ IF i = 0 THEN LineRow(ui_screen_buf, r, n)
               ELSE \A column \in Columns :
                        ui_screen_buf[Place(r, column)] = AnswerAt(answers[n + 1], n, i, column)
    BY <2>1
  <2>3. n \in 0 .. MaxCommands /\ n + 1 \in 1 .. Len(answers)
    BY <1>2, ShellScreenAssumption DEF CellInv
  <2>4. RowsOf(answers[n + 1]) \in 0 .. MaxAnswer
    <3>1. answers[n + 1] \in Answers \cup {<<>>}
      BY <2>3 DEF CellInv
    <3>2. RowsOf(<<>>) = 0
      <4>1. <<>> \in Seq(Nat) /\ Len(<<>>) + 1 = 1
        OBVIOUS
      <4>2. QED
        BY <4>1, RowsBeforeIs DEF RowsOf
    <3>3. QED
      <4>1. CASE answers[n + 1] \in Answers
        BY <4>1, AnswersAssumption
      <4>2. CASE answers[n + 1] = <<>>
        BY <3>2, <4>2, Sizes
      <4>3. QED
        BY <3>1, <4>1, <4>2
  <2>5. i \in 0 .. MaxAnswer
    BY <2>4, ShellScreenAssumption
  <2>6. screen[r] # Blank /\ screen[r][1] = n /\ screen[r][2] = i
    BY <1>3, <2>2, <2>3, <2>5 DEF Line
  <2>7. CASE i = 0
    <3>1. TypedShows(n, r)
      BY <1>1, <2>2, <2>7 DEF TypedShows, LineRow, TypedRow, EmptyRow, At0
    <3>2. QED
      BY <2>6, <2>7, <3>1
  <2>8. CASE i # 0
    <3>1. i > 0
      BY <2>5, <2>8
    <3>2. QED
      BY <1>1, <2>2, <2>6, <2>8, <3>1 DEF Columns
  <2>9. QED
    BY <2>7, <2>8
<1>5. CASE r > current_line
  <2>1. \A column \in Columns : Cell(r, column) = Space
    BY <1>1, <1>5, CellFacts
  <2>2. screen[r] = Blank
    BY <1>5 DEF CellInv, RowInv
  <2>3. QED
    BY <2>1, <2>2 DEF Columns
<1>6. CASE r = current_line
  <2>1. PromptRow /\ At0(ui_screen_buf, r) \in {Prompt, Space}
    BY <1>6 DEF CellInv, PromptRow
  <2>2. CASE /\ TypedRow(ui_screen_buf, r, commands, shown) /\ shown \in TypedLengths
             /\ screen[r] = Line(commands, 0)
    <3>1. TypedShows(commands, r)
      BY <1>1, <1>6, <2>1, <2>2 DEF TypedShows, TypedRow, At0, CellInv
    <3>2. screen[r] # Blank /\ screen[r][1] = commands /\ screen[r][2] = 0
      BY <1>2, <1>3, <2>2, ShellScreenAssumption DEF Line
    <3>3. QED
      BY <3>1, <3>2
  <2>3. CASE commands = 0 /\ At0(ui_screen_buf, r) = Space /\ EmptyRow(ui_screen_buf, r)
    <3>1. \A column \in 0 .. Shell.w - 3 : Cell(r, column) = Space
      BY <1>1, <2>3, BlankRowAt DEF BlankRow, Columns
    <3>2. TypedShows(0, r)
      BY <1>1, <1>6, <2>3, <3>1 DEF TypedShows, EmptyRow, At0
    <3>3. screen[r] \in {Blank, Line(0, 0)}
      BY <1>6, <2>3 DEF CellInv, RowInv
    <3>4. QED
      BY <3>1, <3>2, <3>3 DEF Line
  <2>4. QED
    BY <1>6, <2>1, <2>2, <2>3 DEF PromptRow
<1>7. QED
  BY <1>2, <1>4, <1>5, <1>6

\* Whatever is typed, answered, scrolled, cleared or redrawn, the cells of a row show the
\* line that ShellScreen has there, the rows of an answer from the string and the place
\* in it that wrapping gives, and nothing of an older row: for a box of any size that
\* has room for the cleared columns, and any answers, until a typed line leaves its row
\* (shell.c 64-117, ui.c 46-154).
THEOREM CellsShowTheRows == UiSpec => []CellsShowRows
<1>1. UiInit => (InRow => CellInv)
  BY CellInit
<1>2. (InRow => CellInv) /\ [UiNext]_uiVars => (InRow => CellInv)'
  BY CellStep, InRowBefore, CellStepsAreRowSteps
<1>3. QED
  BY <1>1, <1>2, CellInvShows, PTL DEF UiSpec
=============================================================================
