-------------------------- MODULE ShellInput_proofs --------------------------
(***************************************************************************)
(* The shell executes the line that was typed, and shows it, for buffers   *)
(* and cleared areas of every size: the two invariants of ShellInput, from *)
(* what the interrupt and the loop leave in the buffer and on the screen.  *)
(* In the second part the log of the same handlers (Printf, Log): its      *)
(* three invariants, for all calls, texts, sizes and interrupts.           *)
(***************************************************************************)
EXTENDS ShellInput, Log, TLAPS, NaturalsInduction, WellFoundedInduction, SequenceTheorems

Loops == {"prompt", "erase", "redraw_erased", "erased", "draw", "redraw", "drawn", "cursor"}
Executes == {"process", "command", "reset_index", "reset_first"}

TypeOK ==
    /\ shell_buffer \in [Cells -> Chars \cup {Nul}]
    /\ shell_buffer_i \in 0 .. BufferSize
    /\ return_pressed \in BOOLEAN /\ backspace_pressed \in BOOLEAN /\ other_pressed \in BOOLEAN
    /\ pc \in Loops \cup Executes
    /\ col \in 0 .. BufferSize
    /\ shown \in [Cells -> Chars \cup {Nul, Empty, Cursor}]
    /\ typed \in Seq(Chars) /\ missed \in SUBSET {"backspace", "other"}
    /\ keys \in Nat

-----------------------------------------------------------------------------
\* The index counts the typed characters.  Except while a command runs, which cuts
\* the line at its blanks, they are in the buffer, with a zero behind them; or the
\* reset came between the store of the first and the store of a later one.
Holds == \A k \in 0 .. shell_buffer_i - 1 : shell_buffer[k] = typed[k + 1]
Ended == shell_buffer[shell_buffer_i] = Nul
LineInv ==
    /\ Len(typed) = shell_buffer_i
    /\ pc \in Loops \cup {"process"} => Ended /\ (Holds \/ shell_buffer[0] = Nul)
    /\ pc = "reset_first" => Ended \/ shell_buffer_i = 0

\* No backspace is waiting for a redraw, and none was missed by the last one: then no
\* column behind the line holds anything that a redraw of the line would leave there.
Clean == "backspace" \notin missed /\ (backspace_pressed => pc \in {"redraw_erased", "erased"})
Visible == {k \in Cells : k < ClearedColumns}
Behind == \A k \in Visible :
            /\ k > StrLen(0) => shown[k] = Empty
            /\ k = StrLen(0) => shown[k] \in {Empty, Cursor}
\* The first n columns of the line show it
Same(n) == \A k \in Visible : k < n /\ k < StrLen(0) => shown[k] = shell_buffer[k]
Redraws == {"redraw_erased", "redraw"}
Complete == missed = {} /\ (other_pressed => pc = "drawn")
CursorShown == StrLen(0) \in Visible => shown[StrLen(0)] = Cursor
ScreenInv ==
    pc \in Loops /\ Clean =>
        /\ Behind
        /\ pc \in Redraws => col <= StrLen(0) /\ Same(col)
        /\ pc \notin Redraws /\ Complete => Same(BufferSize)
        /\ pc = "prompt" /\ Complete => CursorShown \/ shown = NoLine

IInv == TypeOK /\ LineInv /\ ScreenInv

-----------------------------------------------------------------------------
\* A set of numbers has a least element.
LEMMA LeastElement ==
    ASSUME NEW T \in SUBSET Nat, T # {}
    PROVE  \E m \in T : \A k \in T : m <= k
<1>1. \E x \in T : \A y \in T : ~(<<y, x>> \in OpToRel(<, Nat))
  BY WFMin, NatLessThanWellFounded
<1>2. PICK x \in T : \A y \in T : ~(<<y, x>> \in OpToRel(<, Nat))
  BY <1>1
<1>3. \A y \in T : x <= y
  <2>1. TAKE y \in T
  <2>2. x \in Nat /\ y \in Nat
    OBVIOUS
  <2>3. ~(y < x)
    BY <1>2, <2>2 DEF OpToRel
  <2>4. QED
    BY <2>2, <2>3
<1>4. QED
  BY <1>3

\* n is the length of the string that the buffer starts with.
IsLength(n) ==
    /\ n \in 0 .. BufferSize
    /\ n = BufferSize \/ shell_buffer[n] = Nul
    /\ \A m \in 0 .. n - 1 : shell_buffer[m] # Nul

\* strlen of shell_buffer (string.c 40-47) finds the first zero, or stops at its end.
LEMMA Length == TypeOK => IsLength(StrLen(0))
<1> SUFFICES ASSUME TypeOK PROVE IsLength(StrLen(0))
  OBVIOUS
<1>1. BufferSize \in Nat
  BY ShellInputAssumption
<1> DEFINE T == {n \in 0 .. BufferSize : n = BufferSize \/ shell_buffer[n] = Nul}
<1>2. T \in SUBSET Nat /\ BufferSize \in T
  BY <1>1
<1>3. PICK n \in T : \A k \in T : n <= k
  BY <1>2, LeastElement
<1>4. \A m \in 0 .. n - 1 : shell_buffer[m] # Nul
  BY <1>1, <1>3
<1>5. IsLength(n)
  BY <1>3, <1>4 DEF IsLength
<1>6. StrLen(0) = CHOOSE j \in 0 .. BufferSize : IsLength(j)
  <2>1. \A j \in 0 .. BufferSize - 0 : 
          (/\ 0 + j = BufferSize \/ shell_buffer[0 + j] = Nul
           /\ \A m \in 0 .. j - 1 : shell_buffer[0 + m] # Nul) <=> IsLength(j)
    BY <1>1 DEF IsLength
  <2>2. QED
    BY <1>1, <2>1 DEF StrLen
<1>7. QED
  BY <1>5, <1>6 DEF IsLength

\* There is one such length.
LEMMA OneLength ==
    ASSUME NEW m, NEW n, IsLength(m), IsLength(n)
    PROVE  m = n
<1>1. m \in Nat /\ n \in Nat /\ BufferSize \in Nat /\ m <= BufferSize /\ n <= BufferSize
  BY ShellInputAssumption DEF IsLength
<1>2. ~(m < n)
  BY <1>1 DEF IsLength
<1>3. ~(n < m)
  BY <1>1 DEF IsLength
<1>4. QED
  BY <1>1, <1>2, <1>3
-----------------------------------------------------------------------------
LEMMA TypeInit == Init => TypeOK
BY ShellInputAssumption DEF Init, TypeOK, Cells, NoLine, Loops, Executes

\* Every step of the interrupt and of the loop keeps the types (shell.c 18-120).
LEMMA TypeNext == TypeOK /\ LineInv /\ [Next]_vars => TypeOK'
<1> SUFFICES ASSUME TypeOK, LineInv, [Next]_vars PROVE TypeOK'
  OBVIOUS
<1> USE DEF TypeOK
<1>0. BufferSize \in Nat \ {0} /\ ClearedColumns \in Nat /\ 0 \in Cells
  BY ShellInputAssumption DEF Cells
<1>l. PICK n : n = StrLen(0) /\ n \in 0 .. BufferSize /\ IsLength(n)
  BY Length DEF IsLength
<1>1. CASE KeyReturn
  BY <1>1 DEF KeyReturn, Press, lineVars
<1>2. CASE KeyBackspace
  <2>1. shell_buffer_i - 1 \in 0 .. BufferSize /\ Len(typed) > 0 
    BY <1>0, <1>2 DEF KeyBackspace, LineInv
  <2>2. Front(typed) \in Seq(Chars)
    BY <2>1 DEF Front
  <2>3. shell_buffer' \in [Cells -> Chars \cup {Nul}] /\ shell_buffer_i' \in 0 .. BufferSize
    BY <1>2, <2>1 DEF KeyBackspace, Erase, Cells
  <2>4. missed' \in SUBSET {"backspace", "other"}
    BY <1>2 DEF KeyBackspace
  <2>5. QED
    BY <1>2, <2>2, <2>3, <2>4 DEF KeyBackspace, Press
<1>3. CASE \E ch \in Chars : KeyOther(ch)
  <2>1. PICK ch \in Chars : KeyOther(ch)
    BY <1>3
  <2>2. shell_buffer_i + 1 \in 0 .. BufferSize /\ Append(typed, ch) \in Seq(Chars)
    BY <1>0, <2>1 DEF KeyOther, Full
  <2>3. QED
    BY <1>0, <2>1, <2>2 DEF KeyOther, Press
<1>4. CASE TestReturn
  BY <1>4 DEF TestReturn, lineVars, Loops, Executes
<1>5. CASE Process
  BY <1>5 DEF Process, flags, Loops, Executes
<1>6. CASE CommandDone
  BY <1>6 DEF CommandDone, lineVars, flags, Loops, Executes
<1>7. CASE ResetIndex
  BY <1>0, <1>7 DEF ResetIndex, flags, Loops, Executes
<1>8. CASE ResetFirst
  BY <1>0, <1>8 DEF ResetFirst, FirstByteReset, NoLine, flags, Loops, Executes
<1>9. CASE TestBackspace
  BY <1>0, <1>9 DEF TestBackspace, Cleared, lineVars, flags, Loops, Executes
<1>10. CASE TestOther
  BY <1>0, <1>10 DEF TestOther, lineVars, flags, Loops, Executes
<1>11. CASE DrawChar
  <2>1. col \in Cells /\ col + 1 \in 0 .. BufferSize /\ shell_buffer[col] \in Chars \cup {Nul}
    BY <1>0, <1>l, <1>11 DEF DrawChar, Cells
  <2>2. QED
    BY <1>11, <2>1 DEF DrawChar, lineVars, flags
<1>12. CASE DrawDone
  BY <1>12 DEF DrawDone, lineVars, flags, Loops, Executes
<1>13. CASE ClearBackspace
  BY <1>13 DEF ClearBackspace, lineVars, Loops, Executes
<1>14. CASE ClearOther
  BY <1>14 DEF ClearOther, lineVars, Loops, Executes
<1>15. CASE DrawCursor
  BY <1>15 DEF DrawCursor, lineVars, flags, Loops, Executes
<1>16. CASE UNCHANGED vars
  BY <1>16 DEF vars, lineVars, flags
<1>17. QED
  BY <1>1, <1>2, <1>3, <1>4, <1>5, <1>6, <1>7, <1>8, <1>9, <1>10, <1>11, <1>12, <1>13,
     <1>14, <1>15, <1>16 DEF Next, Keyboard, Loop

-----------------------------------------------------------------------------
LEMMA LineInit == Init => LineInv
BY ShellInputAssumption DEF Init, LineInv, Cells, Holds, Ended, Loops

\* What leaves the buffer, the index and the typed characters alone and does not leave
\* a command keeps the line.
LEMMA LineSame ==
    ASSUME LineInv, UNCHANGED <<lineVars, typed>>, pc' \notin Executes \/ pc' = "process",
           pc \in Loops \cup {"process"}
    PROVE  LineInv'
BY DEF LineInv, Holds, Ended, lineVars, Executes, Loops

\* Every step keeps the line in the buffer (shell.c 28-45, 67-76).
LEMMA LineNext == TypeOK /\ LineInv /\ [Next]_vars => LineInv'
<1> SUFFICES ASSUME TypeOK, LineInv, [Next]_vars PROVE LineInv'
  OBVIOUS
<1>0. BufferSize \in Nat \ {0} /\ 0 \in Cells
  BY ShellInputAssumption DEF Cells
<1>1. CASE KeyReturn
  BY <1>1 DEF KeyReturn, Press, lineVars, LineInv, Holds, Ended
<1>2. CASE KeyBackspace
  <2>1. /\ shell_buffer_i \in 1 .. BufferSize /\ Len(typed) = shell_buffer_i
        /\ typed \in Seq(Chars)
    BY <1>0, <1>2 DEF KeyBackspace, LineInv, TypeOK
  <2>2. /\ Len(Front(typed)) = shell_buffer_i - 1
        /\ \A k \in 1 .. shell_buffer_i - 1 : Front(typed)[k] = typed[k]
    BY <2>1 DEF Front
  <2>3. /\ shell_buffer' = [shell_buffer EXCEPT ![shell_buffer_i - 1] = Nul]
        /\ shell_buffer_i' = shell_buffer_i - 1 /\ typed' = Front(typed) /\ pc' = pc
    BY <1>2 DEF KeyBackspace, Erase, Press
  <2>4. Ended'
    <3>1. shell_buffer_i - 1 \in Cells /\ DOMAIN shell_buffer = Cells
      BY <1>0, <2>1 DEF TypeOK, Cells
    <3>2. QED
      BY <2>3, <3>1 DEF Ended
  <2>5. Holds => Holds'
    BY <2>1, <2>2, <2>3 DEF Holds, TypeOK, Cells
  <2>6. shell_buffer[0] = Nul => shell_buffer'[0] = Nul
    BY <2>1, <2>3 DEF TypeOK, Cells
  <2>7. QED
    BY <2>1, <2>2, <2>3, <2>4, <2>5, <2>6 DEF LineInv
<1>3. CASE \E ch \in Chars : KeyOther(ch)
  <2>1. PICK ch \in Chars : KeyOther(ch)
    BY <1>3
  <2>2. /\ shell_buffer_i \in 0 .. BufferSize - 1 /\ Len(typed) = shell_buffer_i
        /\ typed \in Seq(Chars)
    BY <1>0, <2>1 DEF KeyOther, Full, LineInv, TypeOK
  <2>3. /\ Len(Append(typed, ch)) = shell_buffer_i + 1
        /\ \A k \in 1 .. shell_buffer_i : Append(typed, ch)[k] = typed[k]
        /\ Append(typed, ch)[shell_buffer_i + 1] = ch
    BY <2>2
  <2>4. /\ shell_buffer_i' = shell_buffer_i + 1 /\ typed' = Append(typed, ch) /\ pc' = pc
        /\ \A k \in Cells : shell_buffer'[k] = CASE k = shell_buffer_i -> ch
                                                 [] k = shell_buffer_i + 1 -> Nul
                                                 [] OTHER -> shell_buffer[k]
    BY <2>1 DEF KeyOther, Press
  <2>5. Ended'
    BY <1>0, <2>2, <2>4 DEF Ended, Cells
  <2>6. Holds => Holds'
    <3>1. ASSUME Holds, NEW k \in 0 .. shell_buffer_i PROVE shell_buffer'[k] = typed'[k + 1]
      <4>1. CASE k = shell_buffer_i
        BY <1>0, <2>2, <2>3, <2>4, <4>1 DEF Cells
      <4>2. CASE k # shell_buffer_i
        BY <1>0, <2>2, <2>3, <2>4, <3>1, <4>2 DEF Holds, Cells
      <4>3. QED
        BY <4>1, <4>2
    <3>2. QED
      BY <2>2, <2>4, <3>1 DEF Holds
  <2>7. shell_buffer[0] = Nul => Holds' \/ shell_buffer'[0] = Nul
    <3>1. CASE shell_buffer_i = 0
      BY <2>2, <2>6, <3>1 DEF Holds
    <3>2. CASE shell_buffer_i # 0
      BY <1>0, <2>2, <2>4, <3>2
    <3>3. QED
      BY <3>1, <3>2
  <2>8. QED
    BY <2>2, <2>3, <2>4, <2>5, <2>6, <2>7 DEF LineInv
<1>4. CASE TestReturn
  BY <1>4, LineSame DEF TestReturn, Loops, Executes
<1>5. CASE Process
  BY <1>5 DEF Process, flags, LineInv, Loops
<1>6. CASE CommandDone
  BY <1>6 DEF CommandDone, lineVars, flags, LineInv, Loops
<1>7. CASE ResetIndex
  BY <1>7 DEF ResetIndex, flags, LineInv, Loops
<1>8. CASE ResetFirst
  <2>1. /\ shell_buffer'[0] = Nul /\ shell_buffer_i' = shell_buffer_i /\ typed' = typed
        /\ shell_buffer_i # 0 => shell_buffer'[shell_buffer_i] = shell_buffer[shell_buffer_i]
        /\ pc = "reset_first" /\ pc' = "erase"
    BY <1>0, <1>8 DEF ResetFirst, FirstByteReset, TypeOK
  <2>2. QED
    BY <2>1 DEF LineInv, Ended, Loops
<1>9. CASE TestBackspace
  BY <1>9, LineSame DEF TestBackspace, Loops, Executes
<1>10. CASE TestOther
  BY <1>10, LineSame DEF TestOther, Loops, Executes
<1>11. CASE DrawChar
  BY <1>11, LineSame DEF DrawChar, Loops, Executes
<1>12. CASE DrawDone
  BY <1>12, LineSame DEF DrawDone, Loops, Executes
<1>13. CASE ClearBackspace
  BY <1>13, LineSame DEF ClearBackspace, Loops, Executes
<1>14. CASE ClearOther
  BY <1>14, LineSame DEF ClearOther, Loops, Executes
<1>15. CASE DrawCursor
  BY <1>15, LineSame DEF DrawCursor, Loops, Executes
<1>16. CASE UNCHANGED vars
  BY <1>16 DEF vars, lineVars, LineInv, Holds, Ended
<1>17. QED
  BY <1>1, <1>2, <1>3, <1>4, <1>5, <1>6, <1>7, <1>8, <1>9, <1>10, <1>11, <1>12, <1>13,
     <1>14, <1>15, <1>16 DEF Next, Keyboard, Loop

-----------------------------------------------------------------------------
\* The string is what was typed, unless the buffer starts with a zero.
LEMMA Typed ==
    ASSUME TypeOK, LineInv, pc \in Loops \cup {"process"}
    PROVE  /\ Holds => StrLen(0) = shell_buffer_i
           /\ shell_buffer[0] = Nul => StrLen(0) = 0
<1>0. BufferSize \in Nat \ {0} /\ Nul \notin Chars /\ IsLength(StrLen(0))
  BY ShellInputAssumption, Length
<1>1. ASSUME Holds PROVE IsLength(shell_buffer_i)
  <2>1. \A k \in 0 .. shell_buffer_i - 1 : typed[k + 1] \in Chars
    BY DEF TypeOK, LineInv
  <2>2. QED
    BY <1>0, <1>1, <2>1 DEF LineInv, Ended, Holds, IsLength, TypeOK
<1>2. ASSUME shell_buffer[0] = Nul PROVE IsLength(0)
  BY <1>0, <1>2 DEF IsLength
<1>3. QED
  BY <1>0, <1>1, <1>2, OneLength

\* So the loop executes what was typed, or nothing (shell.c 67-73).
LEMMA LineExecuted == TypeOK /\ LineInv => ExecutesTheLine
<1> SUFFICES ASSUME TypeOK, LineInv, pc = "process" PROVE CString(0) \in {typed, <<>>}
  BY DEF ExecutesTheLine
<1>0. shell_buffer_i \in Nat /\ typed \in Seq(Chars) /\ Len(typed) = shell_buffer_i
  BY DEF TypeOK, LineInv
<1>1. PICK n : n = StrLen(0)
  OBVIOUS
<1>2. CString(0) = [m \in 1 .. n |-> shell_buffer[m - 1]]
  <2>1. CString(0) = [m \in 1 .. n |-> shell_buffer[0 + m - 1]]
    BY <1>1 DEF CString
  <2>2. \A m \in 1 .. n : 0 + m - 1 = m - 1
    OBVIOUS
  <2>3. QED
    BY <2>1, <2>2
<1>3. CASE Holds
  <2>1. n = shell_buffer_i
    BY <1>1, <1>3, Typed
  <2>2. \A m \in 1 .. n : shell_buffer[m - 1] = typed[m]
    BY <1>0, <1>3, <2>1 DEF Holds
  <2>3. typed = [m \in 1 .. n |-> typed[m]]
    BY <1>0, <2>1
  <2>4. QED
    BY <1>2, <2>2, <2>3
<1>4. CASE shell_buffer[0] = Nul
  <2>1. n = 0
    BY <1>1, <1>4, Typed
  <2>2. QED
    BY <1>2, <2>1
<1>5. QED
  BY <1>3, <1>4 DEF LineInv

-----------------------------------------------------------------------------
\* The length depends on the buffer alone.
LEMMA SameLength ==
    ASSUME UNCHANGED shell_buffer
    PROVE  StrLen(0)' = StrLen(0)
BY DEF StrLen

\* A key that is stored makes the string longer by its character, or is behind a zero.
LEMMA LengthOther ==
    ASSUME TypeOK, TypeOK', LineInv, LineInv', pc \in Loops, NEW ch \in Chars, KeyOther(ch)
    PROVE  /\ StrLen(0)' \in {StrLen(0), StrLen(0) + 1}
           /\ \A k \in Cells : k < StrLen(0) => shell_buffer'[k] = shell_buffer[k]
<1>0. BufferSize \in Nat \ {0} /\ pc' = pc /\ TypeOK /\ LineInv /\ pc \in Loops
  BY ShellInputAssumption DEF KeyOther, Press
<1>1. /\ shell_buffer_i \in 0 .. BufferSize - 1 /\ shell_buffer_i' = shell_buffer_i + 1
      /\ \A k \in Cells : k # shell_buffer_i /\ k # shell_buffer_i + 1 =>
            shell_buffer'[k] = shell_buffer[k]
      /\ typed' = Append(typed, ch) /\ shell_buffer'[shell_buffer_i] = ch
  BY <1>0 DEF KeyOther, Full, TypeOK, Cells
<1>t. (TypeOK /\ LineInv /\ pc \in Loops \cup {"process"} =>
         /\ Holds => StrLen(0) = shell_buffer_i
         /\ shell_buffer[0] = Nul => StrLen(0) = 0)'
  BY Typed, PTL
<1>2. CASE Holds
  <2>1. StrLen(0) = shell_buffer_i
    BY <1>0, <1>2, Typed
  <2>2. Holds'
    <3>1. Len(typed) = shell_buffer_i /\ typed \in Seq(Chars)
      BY DEF LineInv, TypeOK
    <3>2. /\ Append(typed, ch)[shell_buffer_i + 1] = ch
          /\ \A k \in 1 .. shell_buffer_i : Append(typed, ch)[k] = typed[k]
      BY <3>1
    <3>3. ASSUME NEW k \in 0 .. shell_buffer_i PROVE shell_buffer'[k] = typed'[k + 1]
      <4>1. CASE k = shell_buffer_i
        BY <1>1, <3>2, <4>1
      <4>2. CASE k # shell_buffer_i
        <5>1. k \in Cells /\ k \in 0 .. shell_buffer_i - 1 /\ k # shell_buffer_i + 1
          BY <1>0, <1>1, <4>2 DEF Cells
        <5>2. shell_buffer'[k] = typed[k + 1] /\ k + 1 \in 1 .. shell_buffer_i
          BY <1>1, <1>2, <5>1 DEF Holds
        <5>3. QED
          BY <1>1, <3>2, <5>2
      <4>3. QED
        BY <4>1, <4>2
    <3>4. 0 .. shell_buffer_i' - 1 = 0 .. shell_buffer_i
      BY <1>0, <1>1
    <3>5. QED
      BY <3>3, <3>4 DEF Holds
  <2>3. StrLen(0)' = shell_buffer_i'
    BY <1>0, <1>t, <2>2
  <2>4. QED
    BY <1>0, <1>1, <2>1, <2>3 DEF Cells
<1>3. CASE shell_buffer[0] = Nul /\ ~Holds
  <2>1. StrLen(0) = 0
    BY <1>0, <1>3, Typed
  <2>2. shell_buffer_i # 0
    BY <1>3 DEF Holds
  <2>3. shell_buffer'[0] = Nul
    BY <1>0, <1>1, <1>3, <2>2 DEF Cells
  <2>4. StrLen(0)' = 0
    BY <1>0, <1>t, <2>3
  <2>5. QED
    BY <1>0, <2>1, <2>4 DEF Cells
<1>4. QED
  BY <1>0, <1>2, <1>3 DEF LineInv

-----------------------------------------------------------------------------
LEMMA ScreenInit == Init => ScreenInv
<1> SUFFICES ASSUME Init PROVE ScreenInv
  OBVIOUS
<1>0. TypeOK /\ LineInv /\ pc \in Loops /\ shell_buffer[0] = Nul /\ shown = NoLine
  BY TypeInit, LineInit, ShellInputAssumption DEF Init, Loops, Cells
<1>1. StrLen(0) = 0
  BY <1>0, Typed
<1>2. \A k \in Visible : k \in Nat /\ shown[k] = Empty
  BY <1>0, ShellInputAssumption DEF NoLine, Visible, Cells
<1>3. QED
  BY <1>0, <1>1, <1>2 DEF ScreenInv, Behind, Same, Redraws, Init

\* Every step keeps the screen in step with the line (shell.c 28-45, 67-118).
LEMMA ScreenNext == IInv /\ TypeOK' /\ LineInv' /\ [Next]_vars => ScreenInv'
<1> SUFFICES ASSUME TypeOK, TypeOK', LineInv, LineInv', ScreenInv, [Next]_vars,
                    pc' \in Loops, Clean'
             PROVE  /\ Behind'
                    /\ pc' \in Redraws => col' <= StrLen(0)' /\ Same(col)'
                    /\ pc' \notin Redraws /\ Complete' => Same(BufferSize)'
                    /\ pc' = "prompt" /\ Complete' => CursorShown' \/ shown' = NoLine
  BY DEF ScreenInv, IInv
<1>0. /\ BufferSize \in Nat \ {0} /\ ClearedColumns \in Nat
      /\ IsLength(StrLen(0)) /\ IsLength(StrLen(0))'
  <2>1. (TypeOK => IsLength(StrLen(0)))'
    BY Length, PTL
  <2>2. QED
    BY <2>1, Length, ShellInputAssumption
<1>1. CASE KeyReturn
  <2>1. UNCHANGED <<shell_buffer, shown, backspace_pressed, other_pressed, missed, pc, col>>
    BY <1>1 DEF KeyReturn, Press, lineVars
  <2>2. StrLen(0)' = StrLen(0)
    BY <2>1, SameLength
  <2>3. QED
    BY <2>1, <2>2 DEF ScreenInv, Behind, Same, CursorShown, Complete, Clean
<1>2. CASE KeyBackspace
  BY <1>2 DEF KeyBackspace, Press, Clean
<1>3. CASE \E ch \in Chars : KeyOther(ch)
  <2>1. PICK ch \in Chars : KeyOther(ch)
    BY <1>3
  <2>2. /\ other_pressed' /\ UNCHANGED <<pc, col, shown, backspace_pressed>>
        /\ missed' = IF pc \in {"redraw", "drawn"} THEN missed \cup {"other"} ELSE missed
    BY <2>1 DEF KeyOther, Press
  <2>3. /\ StrLen(0)' \in {StrLen(0), StrLen(0) + 1} /\ StrLen(0) \in Nat
        /\ \A k \in Cells : k < StrLen(0) => shell_buffer'[k] = shell_buffer[k]
    BY <1>0, <2>1, <2>2, LengthOther DEF IsLength
  <2>4. Clean /\ pc \in Loops
    BY <2>2 DEF Clean
  <2>5. Behind /\ (pc \in Redraws => col <= StrLen(0) /\ Same(col))
    BY <2>4 DEF ScreenInv
  <2>6. ~Complete'
    BY <2>2 DEF Complete
  <2>7. Visible \subseteq Cells /\ Visible \subseteq Nat
    BY <1>0 DEF Visible, Cells
  <2>8. Behind'
    BY <2>2, <2>3, <2>5, <2>7 DEF Behind, Visible
  <2>9. pc \in Redraws => col' <= StrLen(0)' /\ Same(col)'
    BY <2>2, <2>3, <2>5, <2>7 DEF Same, Visible, TypeOK
  <2>10. QED
    BY <2>2, <2>6, <2>8, <2>9
<1>4. CASE TestReturn
  <2>1. UNCHANGED <<shell_buffer, shown, backspace_pressed, other_pressed, missed>>
    BY <1>4 DEF TestReturn, lineVars
  <2>2. StrLen(0)' = StrLen(0)
    BY <2>1, SameLength
  <2>3. QED
    BY <1>4, <2>1, <2>2
    DEF TestReturn, ScreenInv, Behind, Same, Complete, Clean, Loops, Redraws, Visible
<1>5. CASE Process \/ CommandDone \/ ResetIndex
  BY <1>5 DEF Process, CommandDone, ResetIndex, Loops
<1>8. CASE ResetFirst
  <2>1. pc' = "erase" /\ shown' = NoLine /\ shell_buffer'[0] = Nul
    BY <1>8, <1>0 DEF ResetFirst, FirstByteReset, TypeOK, Cells
  <2>2. StrLen(0)' = 0
    <3>1. (TypeOK /\ LineInv /\ pc \in Loops \cup {"process"} =>
              (shell_buffer[0] = Nul => StrLen(0) = 0))'
      BY Typed, PTL
    <3>2. QED
      BY <2>1, <3>1
  <2>3. QED
    BY <2>1, <2>2 DEF Behind, Same, Redraws, Visible, NoLine, Cells
<1>9. CASE TestBackspace
  <2>1. UNCHANGED <<shell_buffer, backspace_pressed, other_pressed>> /\ pc = "erase"
    BY <1>9 DEF TestBackspace, lineVars, flags
  <2>2. StrLen(0)' = StrLen(0)
    BY <2>1, SameLength
  <2>3. CASE backspace_pressed
    <3>1. pc' = "redraw_erased" /\ shown' = Cleared /\ col' = 0
      BY <1>9, <2>3 DEF TestBackspace
    <3>2. \A k \in Visible : k \in Nat /\ shown'[k] = Empty
      BY <3>1, <1>0 DEF Cleared, Visible, Cells
    <3>3. StrLen(0) \in Nat
      BY <1>0 DEF IsLength
    <3>4. QED
      BY <2>2, <3>1, <3>2, <3>3 DEF Behind, Same, Redraws, Visible
  <2>4. CASE ~backspace_pressed
    <3>1. pc' = "draw" /\ UNCHANGED <<shown, missed>>
      BY <1>9, <2>4 DEF TestBackspace
    <3>2. QED
      BY <2>1, <2>2, <3>1
      DEF ScreenInv, Behind, Same, Complete, Clean, Loops, Redraws, Visible
  <2>5. QED
    BY <2>3, <2>4
<1>10. CASE TestOther
  <2>1. UNCHANGED <<shell_buffer, backspace_pressed, other_pressed, shown>> /\ pc = "draw"
    BY <1>10 DEF TestOther, lineVars, flags
  <2>2. StrLen(0)' = StrLen(0)
    BY <2>1, SameLength
  <2>3. CASE other_pressed
    <3>1. pc' = "redraw" /\ col' = 0 /\ missed' = missed \ {"other"}
      BY <1>10, <2>3 DEF TestOther
    <3>2. Clean /\ \A k \in Visible : k \in Nat
      BY <2>1, <3>1 DEF Clean, Visible, Cells
    <3>3. StrLen(0) \in Nat
      BY <1>0 DEF IsLength
    <3>4. QED
      BY <2>1, <2>2, <3>1, <3>2, <3>3
      DEF ScreenInv, Behind, Same, Loops, Redraws, Visible
  <2>4. CASE ~other_pressed
    <3>1. pc' = "cursor" /\ UNCHANGED <<missed>>
      BY <1>10, <2>4 DEF TestOther
    <3>2. QED
      BY <2>1, <2>2, <3>1
      DEF ScreenInv, Behind, Same, Complete, Clean, Loops, Redraws, Visible
  <2>5. QED
    BY <2>3, <2>4
<1>11. CASE DrawChar
  <2>1. /\ UNCHANGED <<shell_buffer, backspace_pressed, other_pressed, missed, pc>>
        /\ pc \in Redraws /\ col < StrLen(0) /\ col' = col + 1
        /\ shown' = [shown EXCEPT ![col] = shell_buffer[col]]
    BY <1>11 DEF DrawChar, lineVars, flags, Redraws
  <2>2. StrLen(0)' = StrLen(0) /\ StrLen(0) \in Nat /\ col \in Nat
    BY <1>0, <2>1, SameLength DEF IsLength, TypeOK
  <2>3. Behind /\ Same(col) /\ col <= StrLen(0)
    BY <2>1 DEF ScreenInv, Clean, Loops, Redraws
  <2>4. \A k \in Cells : k \in Nat /\ shown'[k] = IF k = col THEN shell_buffer[k] ELSE shown[k]
    BY <1>0, <2>1 DEF TypeOK, Cells
  <2>5. QED
    BY <2>1, <2>2, <2>3, <2>4 DEF Behind, Same, Visible, Redraws
<1>12. CASE DrawDone
  <2>1. /\ UNCHANGED <<shell_buffer, backspace_pressed, other_pressed, missed, shown>>
        /\ pc \in Redraws /\ col >= StrLen(0)
        /\ pc' = IF pc = "redraw" THEN "drawn" ELSE "erased"
    BY <1>12 DEF DrawDone, lineVars, flags, Redraws
  <2>2. StrLen(0)' = StrLen(0) /\ StrLen(0) \in 0 .. BufferSize /\ col \in Nat
    BY <1>0, <2>1, SameLength DEF IsLength, TypeOK
  <2>3. Behind /\ Same(col) /\ col <= StrLen(0)
    BY <2>1 DEF ScreenInv, Clean, Loops, Redraws
  <2>4. QED
    BY <1>0, <2>1, <2>2, <2>3 DEF Behind, Same, Visible, Redraws, Cells
<1>13. CASE ClearBackspace
  <2>1. UNCHANGED <<shell_buffer, other_pressed, missed, shown>> /\ pc = "erased" /\ pc' = "draw"
    BY <1>13 DEF ClearBackspace, lineVars
  <2>2. StrLen(0)' = StrLen(0)
    BY <2>1, SameLength
  <2>3. QED
    BY <2>1, <2>2 DEF ScreenInv, Behind, Same, Complete, Clean, Loops, Redraws, Visible
<1>14. CASE ClearOther
  <2>1. /\ UNCHANGED <<shell_buffer, backspace_pressed, missed, shown>>
        /\ pc = "drawn" /\ pc' = "cursor"
    BY <1>14 DEF ClearOther, lineVars
  <2>2. StrLen(0)' = StrLen(0)
    BY <2>1, SameLength
  <2>3. QED
    BY <2>1, <2>2 DEF ScreenInv, Behind, Same, Complete, Clean, Loops, Redraws, Visible
<1>15. CASE DrawCursor
  <2>1. /\ UNCHANGED <<shell_buffer, backspace_pressed, other_pressed, missed>>
        /\ pc = "cursor" /\ pc' = "prompt"
        /\ shown' = [shown EXCEPT ![StrLen(0)] = Cursor]
    BY <1>15 DEF DrawCursor, lineVars, flags
  <2>2. StrLen(0)' = StrLen(0) /\ StrLen(0) \in Cells
    BY <1>0, <2>1, SameLength DEF IsLength, Cells
  <2>3. Clean /\ (Complete' => Complete)
    BY <2>1 DEF Clean, Complete
  <2>4. Behind /\ (Complete => Same(BufferSize))
    BY <2>1, <2>3 DEF ScreenInv, Loops, Redraws
  <2>5. \A k \in Cells : k \in Nat /\ shown'[k] = IF k = StrLen(0) THEN Cursor ELSE shown[k]
    BY <1>0, <2>1 DEF TypeOK, Cells
  <2>6. QED
    BY <2>1, <2>2, <2>3, <2>4, <2>5 DEF Behind, Same, Visible, Redraws, CursorShown
<1>16. CASE UNCHANGED vars
  <2>1. UNCHANGED <<shell_buffer, shown, backspace_pressed, other_pressed, missed, pc, col>>
    BY <1>16 DEF vars, lineVars, flags
  <2>2. StrLen(0)' = StrLen(0)
    BY <2>1, SameLength
  <2>3. QED
    BY <2>1, <2>2 DEF ScreenInv, Behind, Same, CursorShown, Complete, Clean, Visible
<1>17. QED
  BY <1>1, <1>2, <1>3, <1>4, <1>5, <1>8, <1>9, <1>10, <1>11, <1>12, <1>13,
     <1>14, <1>15, <1>16 DEF Next, Keyboard, Loop

\* So a prompt with nothing left to draw shows the line.
LEMMA LineShown == IInv => ScreenShowsTheLine
<1> SUFFICES ASSUME TypeOK, ScreenInv, pc = "prompt", ~backspace_pressed, ~other_pressed,
                    missed = {}, shown # NoLine,
                    NEW k \in Cells, k < ClearedColumns
             PROVE  shown[k] = CASE k < StrLen(0) -> shell_buffer[k]
                                 [] k = StrLen(0) -> Cursor
                                 [] OTHER -> Empty
  BY DEF ScreenShowsTheLine, IInv
<1>1. Clean /\ Complete /\ k \in Visible /\ pc \in Loops \ Redraws
  BY DEF Clean, Complete, Visible, Loops, Redraws
<1>2. Behind /\ Same(BufferSize) /\ CursorShown
  BY <1>1 DEF ScreenInv
<1>3. IsLength(StrLen(0)) /\ BufferSize \in Nat
  BY Length, ShellInputAssumption
<1>4. QED
  BY <1>1, <1>2, <1>3 DEF Behind, Same, CursorShown, IsLength, Cells

-----------------------------------------------------------------------------
\* The types, the line and the screen are an inductive invariant.
THEOREM LineKept == Spec => []IInv
<1>1. Init => IInv
  BY TypeInit, LineInit, ScreenInit DEF IInv
<1>2. IInv /\ [Next]_vars => IInv'
  BY TypeNext, LineNext, ScreenNext DEF IInv
<1>3. QED
  BY <1>1, <1>2, PTL DEF Spec

\* Whatever is typed, and between whichever steps of the loop, the shell executes
\* the characters typed since the last command, or nothing (shell.c 18-120).
THEOREM LineIsExecuted == Spec => []ExecutesTheLine
<1>1. IInv => ExecutesTheLine
  BY LineExecuted DEF IInv
<1>2. QED
  BY <1>1, LineKept, PTL

\* And the prompt's line shows them, once every key has been redrawn, for every
\* length of the buffer and of the cleared area.
THEOREM LineIsShown == Spec => []ScreenShowsTheLine
BY LineShown, LineKept, PTL

-----------------------------------------------------------------------------
(***************************************************************************)
(* The log.  What k_vsprintf prints is what C says, for every call that it *)
(* is meant for.  The induction over the pieces of a call, and over the    *)
(* digits of a number, is over sets of numbers that have 0 and every       *)
(* successor.                                                              *)
(***************************************************************************)
\* FlattenSeq

\* A set of numbers with 0, closed under the successor, has them all.
LEMMA AllNumbers ==
    ASSUME NEW T \in SUBSET Nat, 0 \in T, \A k \in T : k + 1 \in T
    PROVE  T = Nat
<1>1. SUFFICES ASSUME NEW n \in Nat \ T PROVE FALSE
  OBVIOUS
<1>2. PICK m \in Nat \ T : \A k \in Nat \ T : m <= k
  BY <1>1, LeastElement
<1>3. m # 0 /\ m - 1 \in Nat /\ ~(m <= m - 1)
  BY <1>2
<1>4. m - 1 \in T
  BY <1>2, <1>3
<1>5. QED
  BY <1>3, <1>4

\* FlattenSeq's function: the first i sequences of s, joined.
Joins(f, s, n) == f = [i \in 1 .. n |-> IF i = 1 THEN s[i] ELSE f[i - 1] \o s[i]]

\* FlattenSeq is defined with this function, so there is one for every sequence.
LEMMA JoinsExists == ASSUME NEW s, NEW n \in Nat PROVE \E f : Joins(f, s, n)
<1> DEFINE T == {m \in Nat : \E f : Joins(f, s, m)}
<1>1. 0 \in T
  <2>1. Joins([i \in 1 .. 0 |-> s[i]], s, 0)
    BY DEF Joins
  <2>2. QED
    BY <2>1
<1>2. ASSUME NEW m \in T PROVE m + 1 \in T
  <2>1. PICK f : Joins(f, s, m)
    OBVIOUS
  <2> DEFINE last == IF m = 0 THEN s[1] ELSE f[m] \o s[m + 1]
             g == [i \in 1 .. m + 1 |-> IF i <= m THEN f[i] ELSE last]
  <2>2. ASSUME NEW i \in 1 .. m + 1
        PROVE  g[i] = IF i = 1 THEN s[i] ELSE g[i - 1] \o s[i]
    <3>1. CASE i <= m /\ i = 1
      BY <2>1, <3>1 DEF Joins
    <3>2. CASE i <= m /\ i # 1
      <4>1. i \in 1 .. m /\ g[i] = f[i] /\ g[i - 1] = f[i - 1]
        BY <3>2
      <4>2. f[i] = f[i - 1] \o s[i]
        BY <2>1, <3>2, <4>1 DEF Joins
      <4>3. QED
        BY <3>2, <4>1, <4>2
    <3>3. CASE i = m + 1
      <4>1. g[i] = last /\ (m # 0 => g[i - 1] = f[m])
        BY <3>3
      <4>2. QED
        BY <3>3, <4>1
    <3>4. QED
      BY <3>1, <3>2, <3>3
  <2>3. g = [i \in 1 .. m + 1 |-> g[i]]
    OBVIOUS
  <2> HIDE DEF g
  <2>4. Joins(g, s, m + 1)
    BY <2>2, <2>3 DEF Joins
  <2>5. QED
    BY <2>4
<1> HIDE DEF T
<1>3. T = Nat
  BY <1>1, <1>2, AllNumbers DEF T
<1>4. QED
  BY <1>3 DEF T

\* The first n sequences of s, joined, for every n.
JoinsTo(f, s) ==
    /\ f[0] = <<>> /\ f[Len(s)] = FlattenSeq(s)
    /\ \A n \in 1 .. Len(s) : f[n] = f[n - 1] \o s[n]

\* The sequences joined so far, one after another, are sequences; FlattenSeq is the last.
LEMMA JoinsToExist ==
    ASSUME NEW S, NEW s, Len(s) \in Nat, \A n \in 1 .. Len(s) : s[n] \in Seq(S), Len(s) = 0 => s = <<>>
    PROVE  \E f \in [0 .. Len(s) -> Seq(S)] : JoinsTo(f, s)
<1>1. CASE Len(s) = 0
  <2>1. FlattenSeq(s) = <<>>
    BY <1>1 DEF FlattenSeq
  <2> DEFINE f == [n \in 0 .. Len(s) |-> <<>>]
  <2>2. f \in [0 .. Len(s) -> Seq(S)]
    BY EmptySeq
  <2>3. JoinsTo(f, s)
    BY <1>1, <2>1 DEF JoinsTo
  <2>4. QED
    BY <2>2, <2>3
<1>2. CASE Len(s) # 0
  <2> DEFINE N == Len(s)
             flatten == CHOOSE f : f = [i \in 1 .. N |-> IF i = 1 THEN s[i] ELSE f[i - 1] \o s[i]]
             g == [n \in 0 .. N |-> IF n = 0 THEN <<>> ELSE flatten[n]]
  <2>1. FlattenSeq(s) = flatten[N]
    BY <1>2 DEF FlattenSeq
  <2>2. Joins(flatten, s, N)
    BY JoinsExists DEF Joins
  <2> HIDE DEF flatten, N
  <2>3. N \in Nat \ {0} /\ \A n \in 1 .. N : s[n] \in Seq(S)
    BY <1>2 DEF N
  <2>4. \A n \in 1 .. N : flatten[n] = IF n = 1 THEN s[n] ELSE flatten[n - 1] \o s[n]
    BY <2>2 DEF Joins
  <2>5. g[0] = <<>> /\ \A n \in 1 .. N : g[n] = flatten[n]
    BY <2>3
  <2>6. \A n \in 1 .. N : g[n] = g[n - 1] \o s[n]
    <3>1. TAKE n \in 1 .. N
    <3>2. CASE n = 1
      <4>1. g[n - 1] = <<>> /\ g[n] = s[n] /\ s[n] \in Seq(S)
        BY <2>3, <2>4, <2>5, <3>2
      <4>2. QED
        BY <4>1, ConcatEmptySeq
    <3>3. CASE n # 1
      <4>1. n - 1 \in 1 .. N
        BY <2>3, <3>3
      <4>2. QED
        BY <2>4, <2>5, <3>3, <4>1
    <3>4. QED
      BY <3>2, <3>3
  <2> HIDE DEF g
  <2> DEFINE T == {n \in Nat : n <= N => g[n] \in Seq(S)}
  <2>7. T = Nat
    <3>1. 0 \in T
      BY <2>5, EmptySeq
    <3>2. ASSUME NEW n \in T PROVE n + 1 \in T
      <4>1. n \in Nat /\ (n <= N => g[n] \in Seq(S))
        OBVIOUS
      <4>2. CASE n + 1 <= N
        <5>1. n + 1 \in 1 .. N /\ n <= N /\ (n + 1) - 1 = n
          BY <2>3, <4>1, <4>2
        <5>2. g[n + 1] = g[n] \o s[n + 1] /\ g[n] \in Seq(S) /\ s[n + 1] \in Seq(S)
          BY <2>3, <2>6, <4>1, <5>1
        <5>3. g[n + 1] \in Seq(S)
          BY <5>2, ConcatProperties
        <5>4. QED
          BY <4>1, <5>3
      <4>3. CASE ~(n + 1 <= N)
        BY <4>1, <4>3
      <4>4. QED
        BY <4>2, <4>3
    <3> HIDE DEF T
    <3>3. QED
      BY <3>1, <3>2, AllNumbers DEF T
  <2>8. g \in [0 .. N -> Seq(S)]
    <3>1. \A n \in 0 .. N : g[n] \in Seq(S)
      BY <2>3, <2>7
    <3>2. g = [n \in 0 .. N |-> g[n]]
      BY DEF g
    <3>3. QED
      BY <3>1, <3>2
  <2>9. N \in 1 .. N
    BY <2>3
  <2>10. JoinsTo(g, s)
    BY <2>1, <2>5, <2>6, <2>9 DEF JoinsTo, N
  <2>11. QED
    BY <2>8, <2>10 DEF N
<1>3. QED
  BY <1>1, <1>2

\* Two sequences, one behind the other.
LEMMA Concat ==
    ASSUME NEW S, NEW s \in Seq(S), NEW t \in Seq(S)
    PROVE  /\ s \o t \in Seq(S) /\ Len(s) \in Nat /\ Len(t) \in Nat
           /\ Len(s \o t) = Len(s) + Len(t)
           /\ \A k \in 1 .. Len(s) : (s \o t)[k] = s[k]
           /\ \A k \in 1 .. Len(t) : (s \o t)[Len(s) + k] = t[k]
<1> DEFINE m == Len(s)
           n == Len(t)
           u == s \o t
<1>1. m \in Nat /\ n \in Nat
  BY LenProperties
<1>2. /\ u \in Seq(S) /\ Len(u) = m + n
      /\ \A k \in 1 .. m + n : u[k] = IF k <= m THEN s[k] ELSE t[k - m]
  BY ConcatProperties
<1> HIDE DEF m, n, u
<1>3. ASSUME NEW k \in 1 .. m PROVE u[k] = s[k]
  <2>1. k \in 1 .. m + n /\ k <= m
    BY <1>1
  <2>2. QED
    BY <1>2, <2>1
<1>4. ASSUME NEW k \in 1 .. n PROVE u[m + k] = t[k]
  <2>1. m + k \in 1 .. m + n /\ ~(m + k <= m) /\ (m + k) - m = k
    BY <1>1
  <2>2. QED
    BY <1>2, <2>1
<1>5. QED
  BY <1>1, <1>2, <1>3, <1>4 DEF m, n, u

\* What stands behind place p of a sequence stands there in a longer one.
LEMMA Longer ==
    ASSUME NEW S, NEW a \in Seq(S), NEW b \in Seq(S), NEW t, NEW n \in Nat, NEW p \in Nat,
           p + n <= Len(a), \A k \in 1 .. n : a[p + k] = t[k]
    PROVE  p + n <= Len(a \o b) /\ \A k \in 1 .. n : (a \o b)[p + k] = t[k]
<1> DEFINE u == a \o b
           la == Len(a)
           lb == Len(b)
<1>1. la \in Nat /\ lb \in Nat /\ Len(u) = la + lb /\ \A k \in 1 .. la : u[k] = a[k]
  BY Concat
<1>2. p + n <= la
  OBVIOUS
<1> HIDE DEF u, la, lb
<1>3. p + n <= Len(u)
  BY <1>1, <1>2
<1>4. ASSUME NEW k \in 1 .. n PROVE u[p + k] = t[k]
  <2>1. p + k \in 1 .. la
    BY <1>1, <1>2
  <2>2. QED
    BY <1>1, <2>1
<1>5. QED
  BY <1>3, <1>4 DEF u

\* Where the sequences stand in the joined one.
JoinsToIn(f, s, S) ==
    /\ Len(s) \in Nat /\ \A n \in 1 .. Len(s) : s[n] \in Seq(S)
    /\ f \in [0 .. Len(s) -> Seq(S)] /\ JoinsTo(f, s)
Placed(f, s, n) ==
    /\ f[n] = f[n - 1] \o s[n]
    /\ Len(f[n - 1]) + Len(s[n]) <= Len(FlattenSeq(s))
    /\ \A k \in 1 .. Len(s[n]) : FlattenSeq(s)[Len(f[n - 1]) + k] = s[n][k]

\* The n-th sequence stands in the whole behind those before it.
LEMMA JoinsPlace ==
    ASSUME NEW S, NEW s, NEW f, JoinsToIn(f, s, S), NEW n \in 1 .. Len(s)
    PROVE  Placed(f, s, n)
<1> DEFINE N == Len(s)
           p == Len(f[n - 1])
           l == Len(s[n])
           t == s[n]
<1>1. /\ N \in Nat /\ n \in 1 .. N /\ n - 1 \in 0 .. N
      /\ \A m \in 0 .. N : f[m] \in Seq(S)
      /\ \A m \in 1 .. N : s[m] \in Seq(S)
      /\ \A m \in 1 .. N : f[m] = f[m - 1] \o s[m]
      /\ f[N] = FlattenSeq(s)
  <2>1. \A m \in 1 .. N : f[m] = f[m - 1] \o s[m]
    BY DEF JoinsTo, JoinsToIn
  <2>2. f[N] = FlattenSeq(s)
    BY DEF JoinsTo, JoinsToIn
  <2>3. /\ N \in Nat /\ n \in 1 .. N /\ n - 1 \in 0 .. N
        /\ \A m \in 0 .. N : f[m] \in Seq(S)
        /\ \A m \in 1 .. N : s[m] \in Seq(S)
    BY DEF JoinsToIn
  <2> HIDE DEF N
  <2>4. QED
    BY <2>1, <2>2, <2>3
<1>2. f[n] = f[n - 1] \o t /\ f[n - 1] \in Seq(S) /\ t \in Seq(S)
  BY <1>1
<1>3. p \in Nat /\ l \in Nat
  BY <1>2, LenProperties
<1>4. Len(f[n]) = p + l /\ \A k \in 1 .. l : f[n][p + k] = t[k]
  <2> DEFINE a == f[n - 1]
  <2>1. a \in Seq(S) /\ t \in Seq(S) /\ f[n] = a \o t
    BY <1>2
  <2> HIDE DEF a, t
  <2>2. Len(a \o t) = Len(a) + Len(t) /\ \A k \in 1 .. Len(t) : (a \o t)[Len(a) + k] = t[k]
    BY <2>1, Concat
  <2>3. p = Len(a) /\ l = Len(t)
    BY DEF a, t
  <2>4. QED
    BY <2>1, <2>2, <2>3
<1> HIDE DEF N, p, l, t
<1> DEFINE P(m) == p + l <= Len(f[m]) /\ \A k \in 1 .. l : f[m][p + k] = t[k]
           T == {d \in Nat : n + d <= N => P(n + d)}
<1>5. P(n)
  BY <1>3, <1>4
<1>6. ASSUME NEW m \in Nat, n <= m, m + 1 <= N, P(m) PROVE P(m + 1)
  <2>1. m \in 0 .. N /\ m + 1 \in 1 .. N /\ (m + 1) - 1 = m
    BY <1>1, <1>6
  <2>2. f[m + 1] = f[m] \o s[m + 1] /\ f[m] \in Seq(S) /\ s[m + 1] \in Seq(S)
    BY <1>1, <2>1
  <2> DEFINE a == f[m]
             b == s[m + 1]
  <2>3. a \in Seq(S) /\ b \in Seq(S) /\ f[m + 1] = a \o b
        /\ p + l <= Len(a) /\ \A k \in 1 .. l : a[p + k] = t[k]
    BY <1>6, <2>2
  <2> HIDE DEF a, b
  <2>4. p + l <= Len(a \o b) /\ \A k \in 1 .. l : (a \o b)[p + k] = t[k]
    BY <1>3, <2>3, Longer
  <2>5. QED
    BY <2>3, <2>4
<1>7. T = Nat
  <2> HIDE DEF P
  <2>1. 0 \in T
    BY <1>1, <1>5
  <2>2. ASSUME NEW d \in T PROVE d + 1 \in T
    <3>1. d \in Nat /\ (n + d <= N => P(n + d)) /\ n + d \in Nat /\ n \in Nat
      BY <1>1
    <3>2. CASE n + (d + 1) <= N
      <4>1. n + d <= N /\ (n + d) + 1 <= N /\ n <= n + d /\ n + (d + 1) = (n + d) + 1
        BY <1>1, <3>1, <3>2
      <4>2. P((n + d) + 1)
        BY <1>6, <3>1, <4>1
      <4>3. QED
        BY <3>1, <4>1, <4>2
    <3>3. CASE ~(n + (d + 1) <= N)
      BY <3>1, <3>3
    <3>4. QED
      BY <3>2, <3>3
  <2> HIDE DEF T
  <2>3. QED
    BY <2>1, <2>2, AllNumbers DEF T
<1>8. P(N)
  <2> HIDE DEF P
  <2>1. N - n \in Nat /\ n + (N - n) = N /\ N <= N
    BY <1>1
  <2> HIDE DEF T
  <2>2. N - n \in T
    BY <1>7, <2>1
  <2>3. P(n + (N - n))
    BY <2>1, <2>2 DEF T
  <2>4. QED
    BY <2>1, <2>3
<1>9. QED
  BY <1>1, <1>2, <1>8 DEF p, l, t, Placed

-----------------------------------------------------------------------------
\* Digits: division, the powers of a base, and how many of them a number has

\* Quotient and remainder of a number.
LEMMA DivMod ==
    ASSUME NEW v \in Nat, NEW K \in Nat \ {0}
    PROVE  v \div K \in Nat /\ v % K \in 0 .. K - 1 /\ v = (K * (v \div K)) + (v % K)
OBVIOUS

\* A multiple below another one is below it by the factor at least.
LEMMA Smaller ==
    ASSUME NEW K \in Nat \ {0}, NEW q \in Nat, NEW p \in Nat, q < p
    PROVE  (K * q) + K <= K * p
OBVIOUS

\* Quotient and remainder are the only ones of their kind.
LEMMA Quotient ==
    ASSUME NEW v \in Nat, NEW K \in Nat \ {0}, NEW q \in Nat, NEW r \in 0 .. K - 1, v = (K * q) + r
    PROVE  v \div K = q
<1> DEFINE p == v \div K
<1>1. p \in Nat /\ v % K \in 0 .. K - 1 /\ v = (K * p) + (v % K)
  BY DivMod
<1> HIDE DEF p
<1>2. PICK s \in 0 .. K - 1 : v = (K * p) + s
  BY <1>1
<1>3. K * q \in Nat /\ K * p \in Nat
  BY <1>1
<1>4. ~(q < p)
  BY <1>1, <1>2, <1>3, Smaller
<1>5. ~(p < q)
  BY <1>1, <1>2, <1>3, Smaller
<1>6. QED
  BY <1>1, <1>4, <1>5 DEF p

\* Dividing twice divides by the product.
LEMMA DivDiv ==
    ASSUME NEW v \in Nat, NEW K \in Nat \ {0}, NEW b \in {10, 16}
    PROVE  (v \div b) \div K = v \div (b * K) /\ (v \div K) \div b = v \div (b * K)
<1>1. b * K \in Nat \ {0} /\ b \in Nat \ {0}
  OBVIOUS
<1>2. (v \div b) \div K = v \div (b * K)
  <2> DEFINE a == v \div b
             q == a \div K
  <2>1. PICK r \in 0 .. b - 1 : v = (b * a) + r
    BY <1>1, DivMod
  <2>2. a \in Nat
    BY DivMod
  <2> HIDE DEF a
  <2>3. q \in Nat /\ \E m \in 0 .. K - 1 : a = (K * q) + m
    BY <2>2, DivMod
  <2> HIDE DEF q
  <2>4. PICK m \in 0 .. K - 1 : a = (K * q) + m
    BY <2>3
  <2>5. (b * m) + r \in 0 .. (b * K) - 1
    OBVIOUS
  <2>6. v = ((b * K) * q) + ((b * m) + r)
    <3>1. b * (K * q) = (b * K) * q
      BY <2>3
    <3>2. K * q \in Nat
      BY <2>3
    <3>3. b * a = (b * (K * q)) + (b * m)
      BY <2>4, <3>2
    <3>4. b * (K * q) \in Nat /\ b * m \in Nat
      BY <3>2
    <3>5. QED
      BY <2>1, <3>1, <3>3, <3>4
  <2>7. v \div (b * K) = q
    BY <1>1, <2>3, <2>5, <2>6, Quotient
  <2>8. QED
    BY <2>7 DEF q, a
<1>3. (v \div K) \div b = v \div (b * K)
  <2> DEFINE a == v \div K
             q == a \div b
  <2>1. a \in Nat /\ \E r \in 0 .. K - 1 : v = (K * a) + r
    BY DivMod
  <2> HIDE DEF a
  <2>2. PICK r \in 0 .. K - 1 : v = (K * a) + r
    BY <2>1
  <2>3. q \in Nat /\ \E m \in 0 .. b - 1 : a = (b * q) + m
    <3>1. q \in Nat /\ a % b \in 0 .. b - 1 /\ a = (b * q) + (a % b)
      BY <1>1, <2>1, DivMod
    <3> HIDE DEF q
    <3>2. QED
      BY <3>1
  <2> HIDE DEF q
  <2>4. PICK m \in 0 .. b - 1 : a = (b * q) + m
    BY <2>3
  <2>5. (K * m) + r \in 0 .. (b * K) - 1
    <3>1. K * m \in Nat /\ (K * m) + K <= K * b
      BY Smaller
    <3>2. QED
      BY <3>1
  <2>6. v = ((b * K) * q) + ((K * m) + r)
    <3>1. K * a = (K * (b * q)) + (K * m)
      BY <2>3, <2>4
    <3>2. K * (b * q) = (b * K) * q
      BY <2>3
    <3>3. K * m \in Nat /\ (b * K) * q \in Nat
      BY <2>3
    <3>4. QED
      BY <2>2, <3>1, <3>2, <3>3
  <2>7. v \div (b * K) = q
    BY <1>1, <2>3, <2>5, <2>6, Quotient
  <2>8. QED
    BY <2>7 DEF q, a
<1>4. QED
  BY <1>2, <1>3

\* Numeral's function: the powers of b up to the n-th.
Powers(f, b, n) == f = [k \in 0 .. n |-> IF k = 0 THEN 1 ELSE b * f[k - 1]]

\* There is such a function for every n.
LEMMA PowersExist == ASSUME NEW b, NEW n \in Nat PROVE \E f : Powers(f, b, n)
<1> DEFINE T == {m \in Nat : \E f : Powers(f, b, m)}
<1>1. 0 \in T
  <2>1. Powers([k \in 0 .. 0 |-> 1], b, 0)
    BY DEF Powers
  <2>2. QED
    BY <2>1
<1>2. ASSUME NEW m \in T PROVE m + 1 \in T
  <2>1. PICK f : Powers(f, b, m)
    OBVIOUS
  <2> DEFINE g == [k \in 0 .. m + 1 |-> IF k <= m THEN f[k] ELSE b * f[m]]
  <2>2. ASSUME NEW k \in 0 .. m + 1
        PROVE  g[k] = IF k = 0 THEN 1 ELSE b * g[k - 1]
    <3>1. CASE k <= m
      <4>1. k \in 0 .. m /\ g[k] = f[k] /\ (k # 0 => g[k - 1] = f[k - 1])
        BY <3>1
      <4>2. f[k] = IF k = 0 THEN 1 ELSE b * f[k - 1]
        BY <2>1, <4>1 DEF Powers
      <4>3. QED
        BY <4>1, <4>2
    <3>2. CASE k = m + 1
      <4>1. g[k] = b * f[m] /\ g[k - 1] = f[m] /\ k # 0
        BY <3>2
      <4>2. QED
        BY <4>1
    <3>3. QED
      BY <3>1, <3>2
  <2>3. g = [k \in 0 .. m + 1 |-> g[k]]
    OBVIOUS
  <2> HIDE DEF g
  <2>4. Powers(g, b, m + 1)
    BY <2>2, <2>3 DEF Powers
  <2>5. QED
    BY <2>4
<1> HIDE DEF T
<1>3. T = Nat
  BY <1>1, <1>2, AllNumbers DEF T
<1>4. QED
  BY <1>3 DEF T

\* They grow, beyond their exponents.
LEMMA PowersGrow ==
    ASSUME NEW b \in {10, 16}, NEW n \in Nat, NEW f, Powers(f, b, n)
    PROVE  /\ f[0] = 1
           /\ \A k \in 0 .. n : f[k] \in Nat \ {0} /\ f[k] > k
           /\ \A k \in 1 .. n : f[k] = b * f[k - 1]
<1>1. f[0] = 1
  BY DEF Powers
<1>2. \A k \in 1 .. n : f[k] = b * f[k - 1]
  <2>1. TAKE k \in 1 .. n
  <2>2. k \in 0 .. n /\ k # 0
    OBVIOUS
  <2>3. QED
    BY <2>2 DEF Powers
<1> DEFINE T == {k \in Nat : k <= n => f[k] \in Nat \ {0} /\ f[k] > k}
<1>3. 0 \in T
  BY <1>1
<1>4. ASSUME NEW k \in T PROVE k + 1 \in T
  <2>1. CASE k + 1 <= n
    <3>1. k \in Nat /\ f[k] \in Nat \ {0} /\ f[k] > k /\ k + 1 \in 1 .. n /\ (k + 1) - 1 = k
      BY <2>1
    <3>2. f[k + 1] = b * f[k]
      BY <1>2, <3>1
    <3>3. f[k + 1] \in Nat \ {0} /\ f[k + 1] > k + 1
      BY <3>1, <3>2
    <3>4. QED
      BY <3>1, <3>3
  <2>2. CASE ~(k + 1 <= n)
    BY <2>2
  <2>3. QED
    BY <2>1, <2>2
<1> HIDE DEF T
<1>5. T = Nat
  BY <1>3, <1>4, AllNumbers DEF T
<1>6. \A k \in 0 .. n : f[k] \in Nat \ {0} /\ f[k] > k
  BY <1>5 DEF T
<1>7. QED
  BY <1>1, <1>2, <1>6

\* They keep the order of their exponents.
LEMMA PowersOrdered ==
    ASSUME NEW b \in {10, 16}, NEW n \in Nat, NEW f, Powers(f, b, n),
           NEW j \in 0 .. n, NEW k \in 0 .. n, j <= k
    PROVE  f[j] <= f[k]
<1> DEFINE T == {d \in Nat : j + d <= n => f[j] <= f[j + d]}
<1>1. 0 \in T
  BY PowersGrow
<1>2. ASSUME NEW d \in T PROVE d + 1 \in T
  <2>1. CASE j + (d + 1) <= n
    <3>1. /\ d \in Nat /\ j \in Nat /\ j + d \in 0 .. n /\ f[j] <= f[j + d] /\ j + (d + 1) \in 1 .. n
          /\ (j + (d + 1)) - 1 = j + d
      BY <2>1
    <3>2. f[j + (d + 1)] = b * f[j + d] /\ f[j + d] \in Nat \ {0} /\ f[j] \in Nat
      BY <3>1, PowersGrow
    <3>3. f[j + d] <= f[j + (d + 1)] /\ f[j + (d + 1)] \in Nat
      BY <3>2
    <3>4. QED
      BY <3>1, <3>2, <3>3
  <2>2. CASE ~(j + (d + 1) <= n)
    BY <2>2
  <2>3. QED
    BY <2>1, <2>2
<1> HIDE DEF T
<1>3. T = Nat
  BY <1>1, <1>2, AllNumbers DEF T
<1>4. k - j \in T /\ j + (k - j) = k
  BY <1>3
<1>5. QED
  BY <1>4 DEF T

\* Two of these functions agree where both are defined.
LEMMA PowersAgree ==
    ASSUME NEW b \in {10, 16}, NEW n \in Nat, NEW f, Powers(f, b, n),
           NEW m \in Nat, NEW g, Powers(g, b, m), NEW k \in 0 .. n, k <= m
    PROVE  f[k] = g[k]
<1> DEFINE T == {i \in Nat : i <= n /\ i <= m => f[i] = g[i]}
<1>1. 0 \in T
  BY PowersGrow
<1>2. ASSUME NEW i \in T PROVE i + 1 \in T
  <2>1. CASE i + 1 <= n /\ i + 1 <= m
    <3>1. i \in Nat /\ f[i] = g[i] /\ i + 1 \in 1 .. n /\ i + 1 \in 1 .. m /\ (i + 1) - 1 = i
      BY <2>1
    <3>2. f[i + 1] = b * f[i]
      BY <3>1, PowersGrow
    <3>3. g[i + 1] = b * g[i]
      BY <3>1, PowersGrow
    <3>4. QED
      BY <3>1, <3>2, <3>3
  <2>2. CASE ~(i + 1 <= n /\ i + 1 <= m)
    BY <2>2
  <2>3. QED
    BY <2>1, <2>2
<1> HIDE DEF T
<1>3. T = Nat
  BY <1>1, <1>2, AllNumbers DEF T
<1>4. QED
  BY <1>3 DEF T

\* How many digits a number has.
Counts(c, f, v) == v < f[c] /\ (c = 1 \/ f[c - 1] <= v)

\* Every number has a number of digits
LEMMA CountExists ==
    ASSUME NEW b \in {10, 16}, NEW v \in Nat, NEW f, Powers(f, b, v + 1)
    PROVE  \E c \in 1 .. v + 1 : Counts(c, f, v)
<1> DEFINE T == {k \in Nat : k >= 1 /\ k <= v + 1 /\ v < f[k]}
<1>1. v + 1 \in T
  <2>1. v + 1 \in Nat /\ v + 1 \in 0 .. v + 1
    OBVIOUS
  <2>2. f[v + 1] \in Nat /\ f[v + 1] > v + 1
    BY <2>1, PowersGrow
  <2>3. QED
    BY <2>1, <2>2
<1>2. PICK c \in T : \A k \in T : c <= k
  <2>1. T \in SUBSET Nat
    OBVIOUS
  <2> HIDE DEF T
  <2>2. QED
    BY <1>1, <2>1, LeastElement
<1>3. c \in 1 .. v + 1 /\ v < f[c]
  OBVIOUS
<1>4. ASSUME c # 1 PROVE f[c - 1] <= v
  <2>1. c - 1 \in Nat /\ c - 1 >= 1 /\ c - 1 <= v + 1 /\ ~(c <= c - 1) /\ c - 1 \in 0 .. v + 1
    BY <1>3, <1>4
  <2>2. ~(v < f[c - 1])
    BY <1>2, <2>1
  <2>3. f[c - 1] \in Nat
    <3>1. v + 1 \in Nat
      OBVIOUS
    <3>2. QED
      BY <2>1, <3>1, PowersGrow
  <2>4. QED
    BY <2>2, <2>3
<1>5. QED
  BY <1>3, <1>4 DEF Counts

\* and one only, whichever powers it is read from.
LEMMA CountUnique ==
    ASSUME NEW b \in {10, 16}, NEW v \in Nat, NEW n \in Nat, NEW f, Powers(f, b, n),
           NEW c \in 1 .. n, NEW d \in 1 .. n, Counts(c, f, v), Counts(d, f, v)
    PROVE  c = d
<1>1. f[c] \in Nat /\ f[d] \in Nat
  BY PowersGrow
<1>2. ~(c < d)
  <2>1. SUFFICES ASSUME c < d PROVE FALSE
    OBVIOUS
  <2>2. d - 1 \in 0 .. n /\ c \in 0 .. n /\ c <= d - 1 /\ d # 1
    BY <2>1
  <2>3. f[c] <= f[d - 1] /\ f[d - 1] \in Nat
    BY <2>2, PowersOrdered, PowersGrow
  <2>4. v < f[c] /\ f[d - 1] <= v
    BY <2>2 DEF Counts
  <2>5. QED
    BY <1>1, <2>3, <2>4
<1>3. ~(d < c)
  <2>1. SUFFICES ASSUME d < c PROVE FALSE
    OBVIOUS
  <2>2. c - 1 \in 0 .. n /\ d \in 0 .. n /\ d <= c - 1 /\ c # 1
    BY <2>1
  <2>3. f[d] <= f[c - 1] /\ f[c - 1] \in Nat
    BY <2>2, PowersOrdered, PowersGrow
  <2>4. v < f[d] /\ f[c - 1] <= v
    BY <2>2 DEF Counts
  <2>5. QED
    BY <1>1, <2>3, <2>4
<1>4. QED
  BY <1>2, <1>3

\* The numeral of v, from any function of the powers that goes far enough.
Numerals(u, f, c, v, b, chars) == u = [i \in 1 .. c |-> chars[((v \div f[c - i]) % b) + 1]]

\* Numeral is the sequence of those digits.
LEMMA NumeralIs ==
    ASSUME NEW b \in {10, 16}, NEW v \in Nat, NEW chars, NEW n \in Nat, NEW f, Powers(f, b, n),
           NEW c \in 1 .. n, Counts(c, f, v)
    PROVE  Numerals(Numeral(v, b, chars), f, c, v, b, chars)
<1> DEFINE power == CHOOSE g : g = [k \in 0 .. v + 1 |-> IF k = 0 THEN 1 ELSE b * g[k - 1]]
           count == CHOOSE k \in 1 .. v + 1 : v < power[k] /\ (k = 1 \/ power[k - 1] <= v)
<1>1. Numeral(v, b, chars) = [i \in 1 .. count |-> chars[((v \div power[count - i]) % b) + 1]]
  BY DEF Numeral
<1>2. v + 1 \in Nat
  OBVIOUS
<1>3. Powers(power, b, v + 1)
  <2>1. \E g : Powers(g, b, v + 1)
    BY <1>2, PowersExist
  <2>2. \E g : g = [k \in 0 .. v + 1 |-> IF k = 0 THEN 1 ELSE b * g[k - 1]]
    BY <2>1 DEF Powers
  <2>3. power = [k \in 0 .. v + 1 |-> IF k = 0 THEN 1 ELSE b * power[k - 1]]
    BY <2>2
  <2>4. QED
    BY <2>3 DEF Powers
<1> HIDE DEF power
<1>4. \E k \in 1 .. v + 1 : v < power[k] /\ (k = 1 \/ power[k - 1] <= v)
  BY <1>3, CountExists DEF Counts
<1>5. count \in 1 .. v + 1 /\ Counts(count, power, v)
  BY <1>4 DEF Counts
<1> HIDE DEF count
<1>6. c <= v + 1
  <2>1. CASE c = 1
    BY <2>1
  <2>2. CASE c # 1
    <3>1. c - 1 \in 0 .. n
      BY <2>2
    <3>2. f[c - 1] \in Nat /\ f[c - 1] > c - 1
      BY <3>1, PowersGrow
    <3>3. f[c - 1] <= v
      BY <2>2 DEF Counts
    <3>4. QED
      BY <3>1, <3>2, <3>3
  <2>3. QED
    BY <2>1, <2>2
<1>7. ASSUME NEW k \in 0 .. c PROVE power[k] = f[k]
  <2>1. k \in 0 .. v + 1 /\ k <= n
    BY <1>6
  <2>2. QED
    BY <1>2, <1>3, <2>1, PowersAgree
<1>8. Counts(c, power, v)
  <2>1. c \in 0 .. c /\ c - 1 \in 0 .. c
    OBVIOUS
  <2>2. power[c] = f[c] /\ power[c - 1] = f[c - 1]
    BY <1>7, <2>1
  <2>3. QED
    BY <2>2 DEF Counts
<1>9. count = c
  <2>1. c \in 1 .. v + 1
    BY <1>6
  <2>2. QED
    BY <1>2, <1>3, <1>5, <1>8, <2>1, CountUnique
<1>10. ASSUME NEW i \in 1 .. c PROVE power[c - i] = f[c - i]
  BY <1>7
<1>11. QED
  BY <1>1, <1>9, <1>10 DEF Numerals

\* A function on 1 .. n is a sequence.
LEMMA IsSeq ==
    ASSUME NEW S, NEW n \in Nat, NEW u \in [1 .. n -> S]
    PROVE  u \in Seq(S) /\ Len(u) = n
OBVIOUS

\* The numeral of a number: that of its quotient, then its last digit.
LEMMA NumeralStep ==
    ASSUME NEW b \in {10, 16}, NEW v \in Nat, NEW S, NEW chars \in [1 .. 16 -> S]
    PROVE  /\ Numeral(v, b, chars) \in Seq(S)
           /\ Numeral(v, b, chars) = IF v < b THEN <<chars[v + 1]>>
                                     ELSE Append(Numeral(v \div b, b, chars), chars[(v % b) + 1])
<1>1. v + 1 \in Nat /\ b \in Nat \ {0}
  OBVIOUS
<1>2. PICK f : Powers(f, b, v + 1)
  BY <1>1, PowersExist
<1> DEFINE digit(k) == chars[((v \div f[k]) % b) + 1]
<1>3. \A k \in 0 .. v + 1 : digit(k) \in S
  <2>1. TAKE k \in 0 .. v + 1
  <2>2. f[k] \in Nat \ {0}
    BY <1>1, <1>2, PowersGrow
  <2>3. v \div f[k] \in Nat
    BY <2>2, DivMod
  <2>4. (v \div f[k]) % b \in 0 .. b - 1
    BY <1>1, <2>3, DivMod
  <2>5. ((v \div f[k]) % b) + 1 \in 1 .. 16
    BY <2>4
  <2>6. QED
    BY <2>5
<1>4. ASSUME NEW c \in 1 .. v + 1, Counts(c, f, v)
      PROVE  /\ Numeral(v, b, chars) \in Seq(S) /\ Len(Numeral(v, b, chars)) = c
             /\ \A i \in 1 .. c : Numeral(v, b, chars)[i] = digit(c - i)
  <2> DEFINE u == Numeral(v, b, chars)
  <2>1. Numerals(u, f, c, v, b, chars)
    BY <1>1, <1>2, <1>4, NumeralIs
  <2>2. u = [i \in 1 .. c |-> digit(c - i)]
    BY <2>1 DEF Numerals
  <2>3. \A i \in 1 .. c : c - i \in 0 .. v + 1
    OBVIOUS
  <2> HIDE DEF u, digit
  <2>4. u \in [1 .. c -> S]
    BY <1>3, <2>2, <2>3
  <2>5. u \in Seq(S) /\ Len(u) = c
    BY <2>4, IsSeq
  <2>6. QED
    BY <2>2, <2>5 DEF u
<1>5. CASE v < b
  <2>1. f[0] = 1 /\ f[1] = b * f[0]
    <3>1. 1 \in 1 .. v + 1 /\ 1 - 1 = 0
      OBVIOUS
    <3>2. QED
      BY <1>1, <1>2, <3>1, PowersGrow
  <2>2. Counts(1, f, v)
    BY <1>5, <2>1 DEF Counts
  <2>3. 1 \in 1 .. v + 1
    OBVIOUS
  <2> DEFINE u == Numeral(v, b, chars)
  <2>5. digit(1 - 1) = chars[v + 1]
    <3>1. v \div f[0] = v /\ v % b = v
      BY <1>5, <2>1
    <3>2. QED
      BY <3>1
  <2> HIDE DEF digit
  <2>4. u \in Seq(S) /\ Len(u) = 1 /\ u[1] = digit(1 - 1)
    <3>1. 1 \in 1 .. 1
      OBVIOUS
    <3>2. QED
      BY <1>4, <2>2, <2>3, <3>1
  <2> HIDE DEF u
  <2>6. u = <<chars[v + 1]>>
    BY <2>4, <2>5
  <2>7. QED
    BY <1>5, <2>4, <2>6 DEF u
<1>6. CASE ~(v < b)
  <2> DEFINE w == v \div b
  <2>1. w \in Nat /\ v % b \in 0 .. b - 1 /\ v = (b * w) + (v % b)
    BY <1>1, DivMod
  <2> HIDE DEF w
  <2>2. w + 1 <= v
    BY <1>6, <2>1
  <2>3. w + 1 \in Nat
    BY <2>1
  <2>4. PICK g : Powers(g, b, w + 1)
    BY <2>3, PowersExist
  <2>5. PICK d \in 1 .. w + 1 : Counts(d, g, w)
    BY <2>1, <2>4, CountExists
  <2>6. \A k \in 0 .. w + 1 : f[k] = g[k]
    BY <1>1, <1>2, <2>2, <2>3, <2>4, PowersAgree
  <2>7. d \in 0 .. w + 1 /\ d - 1 \in 0 .. w + 1 /\ d \in 1 .. v + 1 /\ d + 1 \in 1 .. v + 1
    BY <2>1, <2>2
  <2>8. Counts(d, f, w)
    BY <2>5, <2>6, <2>7 DEF Counts
  <2>9. Counts(d + 1, f, v)
    <3>1. f[d] \in Nat /\ f[d + 1] = b * f[d]
      <4>1. d \in 0 .. v + 1 /\ d + 1 \in 1 .. v + 1 /\ (d + 1) - 1 = d
        BY <2>7
      <4>2. QED
        BY <1>1, <1>2, <4>1, PowersGrow
    <3>2. v < f[d + 1]
      BY <2>1, <2>8, <3>1 DEF Counts
    <3>3. f[d] <= v
      <4>1. CASE d = 1
        <5>1. f[0] = 1 /\ f[1] = b * f[0]
          <6>1. 1 \in 1 .. v + 1 /\ 1 - 1 = 0
            OBVIOUS
          <6>2. QED
            BY <1>1, <1>2, <6>1, PowersGrow
        <5>2. QED
          BY <1>6, <4>1, <5>1
      <4>2. CASE d # 1
        <5>1. f[d] = b * f[d - 1] /\ f[d - 1] \in Nat
          BY <1>1, <1>2, <2>7, PowersGrow
        <5>2. f[d - 1] <= w
          BY <2>8, <4>2 DEF Counts
        <5>3. QED
          BY <2>1, <5>1, <5>2
      <4>3. QED
        BY <4>1, <4>2
    <3>4. QED
      BY <3>2, <3>3, <2>7 DEF Counts
  <2> DEFINE u == Numeral(v, b, chars)
             t == Numeral(w, b, chars)
             last == chars[(v % b) + 1]
  <2>10. u \in Seq(S) /\ Len(u) = d + 1 /\ \A i \in 1 .. d + 1 : u[i] = digit((d + 1) - i)
    BY <1>4, <2>7, <2>9
  <2>11. t = [i \in 1 .. d |-> chars[((w \div f[d - i]) % b) + 1]]
    <3>1. Numerals(t, f, d, w, b, chars)
      BY <1>1, <1>2, <2>1, <2>7, <2>8, NumeralIs
    <3>2. QED
      BY <3>1 DEF Numerals
  <2>12. ASSUME NEW i \in 1 .. d PROVE t[i] = u[i]
    <3>1. i \in 1 .. d + 1 /\ (d + 1) - i \in 1 .. v + 1 /\ ((d + 1) - i) - 1 = d - i
          /\ d - i \in 0 .. v + 1
      BY <2>7
    <3>2. f[(d + 1) - i] = b * f[d - i] /\ f[d - i] \in Nat \ {0}
      BY <1>1, <1>2, <3>1, PowersGrow
    <3>3. v \div f[(d + 1) - i] = w \div f[d - i]
      <4> DEFINE K == f[d - i]
      <4>1. K \in Nat \ {0} /\ f[(d + 1) - i] = b * K
        BY <3>2
      <4> HIDE DEF K
      <4>2. (v \div b) \div K = v \div (b * K)
        BY <4>1, DivDiv
      <4>3. QED
        BY <4>1, <4>2 DEF K, w
    <3>4. u[i] = chars[((v \div f[(d + 1) - i]) % b) + 1]
      BY <2>10, <3>1
    <3>5. t[i] = chars[((w \div f[d - i]) % b) + 1]
      BY <2>11
    <3>6. QED
      BY <3>3, <3>4, <3>5
  <2>13. u[d + 1] = last /\ last \in S
    <3>1. d + 1 \in 1 .. d + 1 /\ (d + 1) - (d + 1) = 0
      BY <2>7
    <3>2. u[d + 1] = digit(0)
      <4> HIDE DEF u, digit
      <4>1. u[d + 1] = digit((d + 1) - (d + 1))
        BY <2>10, <3>1
      <4>2. QED
        BY <3>1, <4>1
    <3>3. f[0] = 1
      BY <1>1, <1>2, PowersGrow
    <3>4. v \div f[0] = v
      BY <3>3
    <3>5. digit(0) = last
      BY <3>4
    <3>6. 0 \in 0 .. v + 1
      OBVIOUS
    <3> HIDE DEF digit
    <3>7. digit(0) \in S
      BY <1>3, <3>6
    <3>8. QED
      BY <3>2, <3>5, <3>7
  <2> HIDE DEF u, last, digit
  <2>14. t \in Seq(S) /\ Len(t) = d
    <3>1. d \in Nat /\ \A i \in 1 .. d : t[i] \in S
      <4>1. d \in Nat /\ \A i \in 1 .. d : i \in 1 .. Len(u)
        BY <2>7, <2>10
      <4>2. \A i \in 1 .. Len(u) : u[i] \in S
        BY <2>10, ElementOfSeq
      <4>3. QED
        BY <2>12, <4>1, <4>2
    <3>2. t \in [1 .. d -> S]
      <4>1. t = [i \in 1 .. d |-> t[i]]
        BY <2>11
      <4> HIDE DEF t
      <4>2. QED
        BY <3>1, <4>1
    <3> HIDE DEF t
    <3>3. QED
      BY <3>1, <3>2, IsSeq
  <2> HIDE DEF t
  <2>15. u = Append(t, last)
    <3>1. /\ Append(t, last) \in Seq(S) /\ Len(Append(t, last)) = d + 1
          /\ \A i \in 1 .. d : Append(t, last)[i] = t[i]
          /\ Append(t, last)[d + 1] = last
      BY <2>13, <2>14, AppendProperties
    <3>2. \A i \in 1 .. d + 1 : u[i] = Append(t, last)[i]
      <4>1. \A i \in 1 .. d + 1 : i \in 1 .. d \/ i = d + 1
        BY <2>7
      <4>2. QED
        BY <2>12, <2>13, <3>1, <4>1
    <3>3. QED
      BY <2>10, <3>1, <3>2, SeqEqual
  <2>16. QED
    BY <1>6, <2>10, <2>15 DEF u, t, last, w
<1>7. QED
  BY <1>5, <1>6

-----------------------------------------------------------------------------
\* stringify_base and parse_int

CharsOf(uppercase) == IF uppercase THEN UpperChars ELSE base_chars

DigitChars == {"0", "1", "2", "3", "4", "5", "6", "7", "8", "9", "a", "b", "c", "d", "e", "f",
               "A", "B", "C", "D", "E", "F"}

\* The tables of digits have a digit for every remainder.
LEMMA CharsType ==
    /\ base_chars \in [1 .. 16 -> DigitChars] /\ UpperChars \in [1 .. 16 -> DigitChars]
    /\ \A uppercase \in BOOLEAN : CharsOf(uppercase) \in [1 .. 16 -> DigitChars]
<1>1. base_chars \in [1 .. 16 -> DigitChars]
  <2>1. base_chars \in Seq(DigitChars) /\ Len(base_chars) = 16
    BY DEF base_chars, DigitChars
  <2>2. QED
    BY <2>1, LenProperties
<1>2. UpperChars \in [1 .. 16 -> DigitChars]
  <2>1. UpperChars \in Seq(DigitChars) /\ Len(UpperChars) = 16
    BY DEF UpperChars, DigitChars
  <2>2. QED
    BY <2>1, LenProperties
<1>3. QED
  BY <1>1, <1>2 DEF CharsOf

\* Repeated division gives the numeral.
LEMMA StringifyNumber ==
    ASSUME NEW b \in {10, 16}, NEW value \in Nat, NEW uppercase \in BOOLEAN
    PROVE  stringify_base(value, b, uppercase) = Numeral(value, b, CharsOf(uppercase))
<1> DEFINE digit(v) == IF value < 0 /\ v > 0 THEN BeforeBaseChars[v]
                       ELSE IF uppercase THEN UpperChars[v + 1] ELSE base_chars[v + 1]
           size == IF value >= 0 THEN value ELSE -value
           digits == CHOOSE f : f = [v \in 0 .. size |->
                       IF v < b THEN <<digit(v)>> ELSE Append(f[v \div b], digit(v % b))]
           chars == CharsOf(uppercase)
           g == [v \in 0 .. size |-> Numeral(v, b, chars)]
<1>1. stringify_base(value, b, uppercase) = digits[size]
  BY DEF stringify_base
<1>2. size = value
  OBVIOUS
<1>3. \A v \in 0 .. 15 : digit(v) = chars[v + 1]
  BY DEF CharsOf
<1>4. chars \in [1 .. 16 -> DigitChars]
  BY CharsType
<1> HIDE DEF size, chars, digit
<1>5. b \in Nat \ {0} /\ \A v \in 0 .. size : v \div b \in 0 .. size /\ v % b \in 0 .. 15
  <2>1. b \in Nat \ {0}
    OBVIOUS
  <2>2. ASSUME NEW v \in 0 .. size PROVE v \div b \in 0 .. size /\ v % b \in 0 .. 15
    <3>1. v \in Nat
      BY <1>2
    <3>2. v \div b \in Nat /\ v % b \in 0 .. b - 1 /\ v = (b * (v \div b)) + (v % b)
      BY <2>1, <3>1, DivMod
    <3>3. v \div b <= v
      BY <3>1, <3>2
    <3>4. QED
      BY <1>2, <3>2, <3>3
  <2>3. QED
    BY <2>1, <2>2
<1>6. \A v \in 0 .. size : Numeral(v, b, chars) =
            IF v < b THEN <<digit(v)>> ELSE Append(Numeral(v \div b, b, chars), digit(v % b))
  <2>1. TAKE v \in 0 .. size
  <2>2. v \in Nat
    BY <1>2
  <2>3. Numeral(v, b, chars) = IF v < b THEN <<chars[v + 1]>>
                               ELSE Append(Numeral(v \div b, b, chars), chars[(v % b) + 1])
    BY <1>4, <2>2, NumeralStep
  <2>4. v < b => chars[v + 1] = digit(v)
    <3>1. v < b => v \in 0 .. 15
      BY <2>2
    <3>2. QED
      BY <1>3, <3>1
  <2>5. chars[(v % b) + 1] = digit(v % b)
    BY <1>3, <1>5
  <2>6. QED
    BY <2>3, <2>4, <2>5
<1>7. g = [v \in 0 .. size |-> IF v < b THEN <<digit(v)>> ELSE Append(g[v \div b], digit(v % b))]
  BY <1>5, <1>6
<1> HIDE DEF g
<1>8. digits = [v \in 0 .. size |->
                  IF v < b THEN <<digit(v)>> ELSE Append(digits[v \div b], digit(v % b))]
  BY <1>7
<1> HIDE DEF digits
<1>9. \A v \in 0 .. size : digits[v] = Numeral(v, b, chars)
  <2> DEFINE T == {n \in Nat : \A v \in 0 .. size : v <= n => digits[v] = Numeral(v, b, chars)}
  <2>1. ASSUME NEW v \in 0 .. size,
               \A w \in 0 .. size : w < v => digits[w] = Numeral(w, b, chars)
        PROVE  digits[v] = Numeral(v, b, chars)
    <3>1. digits[v] = IF v < b THEN <<digit(v)>> ELSE Append(digits[v \div b], digit(v % b))
      BY <1>8
    <3>2. CASE v < b
      BY <1>6, <3>1, <3>2
    <3>3. CASE ~(v < b)
      <4>1. v \in Nat /\ v \div b \in Nat /\ v % b \in 0 .. b - 1 /\ v = (b * (v \div b)) + (v % b)
        BY <1>2, <1>5, DivMod
      <4>2. v \div b < v
        BY <3>3, <4>1
      <4>3. digits[v \div b] = Numeral(v \div b, b, chars)
        BY <1>5, <2>1, <4>2
      <4>4. QED
        BY <1>6, <3>1, <3>3, <4>3
    <3>4. QED
      BY <3>2, <3>3
  <2>2. 0 \in T
    <3>1. ASSUME NEW v \in 0 .. size, v <= 0 PROVE digits[v] = Numeral(v, b, chars)
      BY <1>2, <2>1, <3>1
    <3>2. QED
      BY <3>1
  <2>3. ASSUME NEW n \in T PROVE n + 1 \in T
    <3>1. n \in Nat /\ \A v \in 0 .. size : v <= n => digits[v] = Numeral(v, b, chars)
      OBVIOUS
    <3>2. ASSUME NEW v \in 0 .. size, v <= n + 1 PROVE digits[v] = Numeral(v, b, chars)
      <4>1. \A w \in 0 .. size : w < v => w <= n
        BY <1>2, <3>1, <3>2
      <4>2. QED
        BY <2>1, <3>1, <4>1
    <3>3. QED
      BY <3>1, <3>2
  <2> HIDE DEF T
  <2>4. T = Nat
    BY <2>2, <2>3, AllNumbers DEF T
  <2>5. QED
    BY <1>2, <2>4 DEF T
<1>10. QED
  BY <1>1, <1>2, <1>9 DEF chars

\* The digits of a decimal numeral are decimal, the first one is not zero, and parse_int
\* reads the number back.
LEMMA DigitsRead ==
    /\ \A d \in 0 .. 9 : base_chars[d + 1] \in Decimal /\ DigitOf(base_chars[d + 1]) = d
    /\ \A d \in 1 .. 9 : base_chars[d + 1] # "0"
    /\ Decimal = {"0", "1", "2", "3", "4", "5", "6", "7", "8", "9"}
<1>1. \A d \in 0 .. 9 : \A e \in 0 .. 9 : base_chars[e + 1] = base_chars[d + 1] => e = d
  BY DEF base_chars
<1>2. \A d \in 0 .. 9 : DigitOf(base_chars[d + 1]) = d
  <2>1. TAKE d \in 0 .. 9
  <2> DEFINE c == base_chars[d + 1]
  <2>2. \E e \in 0 .. 9 : base_chars[e + 1] = c
    OBVIOUS
  <2>3. \A e \in 0 .. 9 : base_chars[e + 1] = c => e = d
    BY <1>1
  <2> HIDE DEF c
  <2>4. DigitOf(c) = d
    BY <2>2, <2>3 DEF DigitOf
  <2>5. QED
    BY <2>4 DEF c
<1>3. Decimal = {"0", "1", "2", "3", "4", "5", "6", "7", "8", "9"}
  <2> DEFINE s == SubSeq(base_chars, 1, 10)
  <2>1. base_chars \in [1 .. 16 -> DigitChars]
    BY CharsType
  <2>2. \A i \in 1 .. 10 : base_chars[i] \in DigitChars
    BY <2>1
  <2>3. s \in Seq(DigitChars) /\ Len(s) = 10 /\ \A i \in 1 .. 10 : s[i] = base_chars[i]
    BY <2>2, SubSeqProperties
  <2>4. DOMAIN s = 1 .. 10
    BY <2>3
  <2> HIDE DEF s
  <2>5. ToSet(s) = {s[i] : i \in 1 .. 10}
    BY <2>4 DEF ToSet
  <2>6. ToSet(s) = {base_chars[i] : i \in 1 .. 10}
    BY <2>3, <2>5
  <2>7. ToSet(s) = {"0", "1", "2", "3", "4", "5", "6", "7", "8", "9"}
    BY <2>6 DEF base_chars
  <2>8. QED
    BY <2>7 DEF s, Decimal
<1>4. \A d \in 0 .. 9 : base_chars[d + 1] \in Decimal
  BY <1>3 DEF base_chars
<1>5. \A d \in 1 .. 9 : base_chars[d + 1] # "0"
  BY DEF base_chars
<1>6. QED
  BY <1>2, <1>3, <1>4, <1>5

\* A width that is written in decimal is read as itself.
LEMMA ParseNumeral ==
    ASSUME NEW w \in Nat
    PROVE  /\ Numeral(w, 10, base_chars) \in Seq(Decimal)
           /\ Len(Numeral(w, 10, base_chars)) \in Nat \ {0}
           /\ w > 0 => Numeral(w, 10, base_chars)[1] # "0"
           /\ parse_int(Numeral(w, 10, base_chars)) = w
<1>1. w + 1 \in Nat /\ 10 \in {10, 16} /\ 10 \in Nat \ {0}
  OBVIOUS
<1>2. PICK f : Powers(f, 10, w + 1)
  BY <1>1, PowersExist
<1>3. PICK c \in 1 .. w + 1 : Counts(c, f, w)
  BY <1>1, <1>2, CountExists
<1> DEFINE u == Numeral(w, 10, base_chars)
           q(k) == w \div f[k]
<1>4. u = [i \in 1 .. c |-> base_chars[(q(c - i) % 10) + 1]]
  <2>1. Numerals(u, f, c, w, 10, base_chars)
    BY <1>1, <1>2, <1>3, NumeralIs
  <2>2. QED
    BY <2>1 DEF Numerals
<1>5. \A k \in 0 .. c : f[k] \in Nat \ {0} /\ q(k) \in Nat /\ q(k) % 10 \in 0 .. 9
  <2>1. TAKE k \in 0 .. c
  <2>2. k \in 0 .. w + 1
    OBVIOUS
  <2>3. f[k] \in Nat \ {0}
    BY <1>1, <1>2, <2>2, PowersGrow
  <2>4. q(k) \in Nat
    BY <2>3, DivMod
  <2> HIDE DEF q
  <2>5. q(k) % 10 \in 0 .. 9
    BY <2>4
  <2>6. QED
    BY <2>3, <2>4, <2>5
<1>6. \A k \in 1 .. c : q(k - 1) \div 10 = q(k)
  <2>1. TAKE k \in 1 .. c
  <2>2. k \in 1 .. w + 1 /\ k - 1 \in 0 .. c
    OBVIOUS
  <2>3. f[k] = 10 * f[k - 1] /\ f[k - 1] \in Nat \ {0}
    BY <1>1, <1>2, <1>5, <2>2, PowersGrow
  <2> DEFINE K == f[k - 1]
  <2>4. K \in Nat \ {0} /\ f[k] = 10 * K
    BY <2>3
  <2> HIDE DEF K
  <2>5. (w \div K) \div 10 = w \div (10 * K)
    BY <1>1, <2>4, DivDiv
  <2>6. QED
    BY <2>4, <2>5 DEF K
<1>7. q(0) = w /\ q(c) = 0
  <2>1. f[0] = 1
    BY <1>1, <1>2, PowersGrow
  <2>2. c \in 0 .. c
    OBVIOUS
  <2>3. w < f[c] /\ f[c] \in Nat \ {0}
    BY <1>3, <1>5, <2>2 DEF Counts
  <2>4. w = (f[c] * 0) + w /\ w \in 0 .. f[c] - 1 /\ 0 \in Nat
    BY <2>3
  <2>5. q(c) = 0
    BY <2>3, <2>4, Quotient
  <2>6. q(0) = w
    BY <2>1
  <2>7. QED
    BY <2>5, <2>6
<1> HIDE DEF u
<1>8. u \in Seq(Decimal) /\ Len(u) = c /\ \A i \in 1 .. c : DigitOf(u[i]) = q(c - i) % 10
  <2>1. ASSUME NEW i \in 1 .. c
        PROVE  u[i] \in Decimal /\ DigitOf(u[i]) = q(c - i) % 10
    <3>1. q(c - i) % 10 \in 0 .. 9
      BY <1>5
    <3>2. u[i] = base_chars[(q(c - i) % 10) + 1]
      BY <1>4
    <3> HIDE DEF q
    <3>3. QED
      BY <3>1, <3>2, DigitsRead
  <2>2. u \in [1 .. c -> Decimal]
    BY <1>4, <2>1
  <2>3. QED
    BY <2>1, <2>2, IsSeq
<1>9. ASSUME w > 0 PROVE u[1] # "0"
  <2>1. q(c - 1) \in 1 .. 9
    <3>1. c - 1 \in 0 .. c /\ c \in 1 .. c
      OBVIOUS
    <3>2. q(c - 1) \div 10 = 0 /\ q(c - 1) \in Nat
      BY <1>5, <1>6, <1>7, <3>1
    <3>3. q(c - 1) < 10
      <4> HIDE DEF q
      <4>1. QED
        BY <3>2
    <3>4. q(c - 1) # 0
      <4>1. CASE c = 1
        BY <1>7, <1>9, <4>1
      <4>2. CASE c # 1
        <5>1. f[c - 1] <= w /\ f[c - 1] \in Nat \ {0}
          BY <1>3, <1>5, <3>1, <4>2 DEF Counts
        <5>2. w = (f[c - 1] * q(c - 1)) + (w % f[c - 1]) /\ w % f[c - 1] \in 0 .. f[c - 1] - 1
          BY <5>1, DivMod
        <5> HIDE DEF q
        <5>3. QED
          BY <5>1, <5>2
      <4>3. QED
        BY <4>1, <4>2
    <3>5. QED
      BY <3>2, <3>3, <3>4
  <2>2. u[1] = base_chars[(q(c - 1) % 10) + 1]
    BY <1>4
  <2> HIDE DEF q
  <2>3. q(c - 1) % 10 = q(c - 1)
    BY <2>1
  <2>4. QED
    BY <2>1, <2>2, <2>3, DigitsRead
<1> DEFINE h == [n \in 0 .. c |-> q(c - n)]
           value == CHOOSE g : g = [n \in 0 .. Len(u) |->
                      IF n = 0 THEN 0 ELSE (10 * g[n - 1]) + DigitOf(u[n])]
<1>10. parse_int(u) = value[Len(u)]
  BY DEF parse_int
<1>11. ASSUME NEW n \in 1 .. c PROVE q(c - n) = (10 * q(c - (n - 1))) + DigitOf(u[n])
  <2>1. (c - n) + 1 \in 1 .. c /\ ((c - n) + 1) - 1 = c - n /\ c - (n - 1) = (c - n) + 1
        /\ c - n \in 0 .. c
    OBVIOUS
  <2>2. q(c - n) \div 10 = q(c - (n - 1)) /\ q(c - n) \in Nat /\ DigitOf(u[n]) = q(c - n) % 10
    BY <1>5, <1>6, <1>8, <2>1
  <2> HIDE DEF q
  <2>3. q(c - n) = (10 * (q(c - n) \div 10)) + (q(c - n) % 10)
    BY <2>2
  <2>4. QED
    BY <2>2, <2>3
<1> HIDE DEF q
<1>12. h = [n \in 0 .. Len(u) |-> IF n = 0 THEN 0 ELSE (10 * h[n - 1]) + DigitOf(u[n])]
  <2>1. \A n \in 0 .. c : q(c - n) = IF n = 0 THEN 0 ELSE (10 * h[n - 1]) + DigitOf(u[n])
    <3>1. TAKE n \in 0 .. c
    <3>2. CASE n = 0
      BY <1>7, <3>2
    <3>3. CASE n # 0
      <4>1. n \in 1 .. c /\ n - 1 \in 0 .. c
        BY <3>3
      <4>2. QED
        BY <1>11, <3>3, <4>1
    <3>4. QED
      BY <3>2, <3>3
  <2>2. QED
    BY <1>8, <2>1
<1> HIDE DEF h
<1>13. value = [n \in 0 .. Len(u) |-> IF n = 0 THEN 0 ELSE (10 * value[n - 1]) + DigitOf(u[n])]
  BY <1>12
<1> HIDE DEF value
<1> DEFINE T == {n \in Nat : n <= c => value[n] = q(c - n)}
<1>14. T = Nat
  <2>1. 0 \in T
    BY <1>7, <1>8, <1>13
  <2>2. ASSUME NEW n \in T PROVE n + 1 \in T
    <3>1. n \in Nat
      OBVIOUS
    <3>2. CASE n + 1 <= c
      <4>1. value[n] = q(c - n) /\ n + 1 \in 1 .. c /\ (n + 1) - 1 = n /\ n + 1 \in 0 .. Len(u)
        BY <1>8, <3>1, <3>2
      <4>2. value[n + 1] = (10 * value[n]) + DigitOf(u[n + 1])
        BY <1>13, <4>1
      <4>3. q(c - (n + 1)) = (10 * q(c - n)) + DigitOf(u[n + 1])
        BY <1>11, <4>1
      <4>4. QED
        BY <3>1, <4>1, <4>2, <4>3
    <3>3. CASE ~(n + 1 <= c)
      BY <3>1, <3>3
    <3>4. QED
      BY <3>2, <3>3
  <2> HIDE DEF T
  <2>3. QED
    BY <2>1, <2>2, AllNumbers DEF T
<1>15. value[c] = w
  <2>1. c \in T /\ c - c = 0
    BY <1>14
  <2>2. QED
    BY <1>7, <2>1
<1>16. QED
  BY <1>8, <1>9, <1>10, <1>15 DEF u

-----------------------------------------------------------------------------
\* fmt_spec_parse

\* Skip stops at the first place that is not in the set.
LEMMA SkipIs ==
    ASSUME NEW s, Len(s) \in Nat, DOMAIN s = 1 .. Len(s), NEW i \in Nat \ {0}, NEW set,
           NEW j \in i .. Len(s) + 1, CharAt(s, j) \notin set, \A k \in i .. j - 1 : s[k] \in set
    PROVE  Skip(s, i, set) = j
<1> DEFINE first(m) == /\ CharAt(s, m) \notin set
                       /\ \A k \in i .. m - 1 : s[k] \in set
<1>1. \E m \in i .. Len(s) + 1 : first(m)
  OBVIOUS
<1>2. ASSUME NEW m \in i .. Len(s) + 1, first(m) PROVE m = j
  <2>1. ~(m < j)
    <3>1. SUFFICES ASSUME m < j PROVE FALSE
      OBVIOUS
    <3>2. m \in i .. j - 1 /\ m \in DOMAIN s
      BY <3>1
    <3>3. CharAt(s, m) = s[m]
      BY <3>2 DEF CharAt
    <3>4. QED
      BY <1>2, <3>2, <3>3
  <2>2. ~(j < m)
    <3>1. SUFFICES ASSUME j < m PROVE FALSE
      OBVIOUS
    <3>2. j \in i .. m - 1 /\ j \in DOMAIN s
      BY <3>1
    <3>3. CharAt(s, j) = s[j]
      BY <3>2 DEF CharAt
    <3>4. QED
      BY <1>2, <3>2, <3>3
  <2>3. QED
    BY <2>1, <2>2
<1>3. Skip(s, i, set) = CHOOSE m \in i .. Len(s) + 1 : first(m)
  BY DEF Skip
<1> HIDE DEF first
<1>4. QED
  BY <1>1, <1>2, <1>3

\* What may stand between the flags and the specifier, and what Number makes of it.
IsWidth(D, w) ==
    \/ D = <<"*">> /\ w = -1
    \/ D = <<>> /\ w = 0
    \/ D \in Seq(Decimal) /\ Len(D) \in Nat \ {0} /\ D[1] # "0" /\ parse_int(D) = w
Converts == {"d", "i", "x", "X", "c", "s", "p", "%"}

\* No digits are read as zero.
LEMMA ParseNothing == parse_int(<<>>) = 0
<1> DEFINE digits == <<>>
           value == CHOOSE g : g = [n \in 0 .. Len(digits) |->
                      IF n = 0 THEN 0 ELSE (10 * g[n - 1]) + DigitOf(digits[n])]
<1>1. parse_int(digits) = value[Len(digits)]
  BY DEF parse_int
<1>2. Len(digits) = 0
  OBVIOUS
<1>3. \E g : g = [n \in 0 .. Len(digits) |-> IF n = 0 THEN 0 ELSE (10 * g[n - 1]) + DigitOf(digits[n])]
  <2>1. \A n \in 0 .. Len(digits) : n = 0
    BY <1>2
  <2> DEFINE g == [n \in 0 .. Len(digits) |-> 0]
  <2>2. g = [n \in 0 .. Len(digits) |-> IF n = 0 THEN 0 ELSE (10 * g[n - 1]) + DigitOf(digits[n])]
    BY <2>1
  <2> HIDE DEF g
  <2>3. QED
    BY <2>2
<1> HIDE DEF digits
<1>4. value = [n \in 0 .. Len(digits) |-> IF n = 0 THEN 0 ELSE (10 * value[n - 1]) + DigitOf(digits[n])]
  BY <1>3
<1> HIDE DEF value
<1>5. value[0] = 0
  BY <1>2, <1>4
<1>6. QED
  BY <1>1, <1>2, <1>5 DEF digits

\* Number reads a width: a star, digits, or nothing.
LEMMA NumberReads ==
    ASSUME NEW s, Len(s) \in Nat, DOMAIN s = 1 .. Len(s), NEW i \in Nat \ {0},
           NEW D, Len(D) \in Nat, NEW w, IsWidth(D, w), i + Len(D) <= Len(s),
           \A k \in 1 .. Len(D) : s[i - 1 + k] = D[k], s[i + Len(D)] \in Converts
    PROVE  Number(s, i) = <<w, i + Len(D)>>
<1> DEFINE n == Len(D)
           end == Skip(s, i, Decimal)
<1>1. i \in DOMAIN s /\ i + n \in DOMAIN s
  OBVIOUS
<1>2. CharAt(s, i) = s[i] /\ CharAt(s, i + n) = s[i + n]
  BY <1>1 DEF CharAt
<1>3. s[i + n] \notin Decimal /\ s[i + n] # "*"
  BY DigitsRead DEF Converts
<1>4. CASE D = <<"*">> /\ w = -1
  <2>1. n = 1 /\ D[1] = "*"
    BY <1>4
  <2>2. 1 \in 1 .. Len(D) /\ i - 1 + 1 = i
    BY <2>1
  <2>3. CharAt(s, i) = "*"
    BY <1>2, <2>1, <2>2
  <2>4. Number(s, i) = <<-1, i + 1>>
    BY <2>3 DEF Number
  <2>5. QED
    BY <1>4, <2>1, <2>4
<1>5. CASE D = <<>> /\ w = 0
  <2>1. n = 0 /\ i + n = i
    BY <1>5
  <2>2. Skip(s, i, Decimal) = i
    <3>1. i \in i .. Len(s) + 1 /\ \A k \in i .. i - 1 : s[k] \in Decimal
      BY <1>1
    <3>2. CharAt(s, i) \notin Decimal
      BY <1>2, <1>3, <2>1
    <3>3. QED
      BY <3>1, <3>2, SkipIs
  <2>3. SubSeq(s, i, i - 1) = <<>>
    BY SubSeqEmpty
  <2>4. CharAt(s, i) # "*"
    BY <1>2, <1>3, <2>1
  <2>5. Number(s, i) = <<parse_int(<<>>), i>>
    BY <2>2, <2>3, <2>4 DEF Number
  <2>6. QED
    BY <1>5, <2>1, <2>5, ParseNothing
<1>6. CASE D \in Seq(Decimal) /\ Len(D) \in Nat \ {0} /\ D[1] # "0" /\ parse_int(D) = w
  <2>1. n \in Nat \ {0} /\ \A k \in 1 .. n : D[k] \in Decimal /\ s[i - 1 + k] = D[k]
    BY <1>6, ElementOfSeq
  <2> HIDE DEF n
  <2>2. \A k \in i .. (i + n) - 1 : s[k] \in Decimal
    <3>1. TAKE k \in i .. (i + n) - 1
    <3>2. (k - i) + 1 \in 1 .. n /\ i - 1 + ((k - i) + 1) = k
      BY <2>1
    <3>3. QED
      BY <2>1, <3>2
  <2>3. Skip(s, i, Decimal) = i + n
    <3>1. i + n \in i .. Len(s) + 1 /\ i + n \in Nat
      BY <1>1, <2>1
    <3>2. CharAt(s, i + n) \notin Decimal
      BY <1>2, <1>3
    <3>3. QED
      BY <2>2, <3>1, <3>2, SkipIs
  <2>4. CharAt(s, i) # "*"
    <3>1. i \in i .. (i + n) - 1
      BY <2>1
    <3>2. s[i] \in Decimal
      BY <2>2, <3>1
    <3>3. QED
      BY <1>2, <3>2, DigitsRead
  <2>5. SubSeq(s, i, (i + n) - 1) = D
    <3> DEFINE m == (i + n) - 1
    <3>1. i \in Int /\ m \in Int /\ i <= m /\ (m - i) + 1 = n
      BY <2>1
    <3>2. /\ SubSeq(s, i, m) \in Seq(Decimal) /\ Len(SubSeq(s, i, m)) = n
          /\ \A k \in 1 .. n : SubSeq(s, i, m)[k] = s[i + k - 1]
      <4>1. /\ SubSeq(s, i, m) \in Seq(Decimal)
            /\ Len(SubSeq(s, i, m)) = IF i <= m THEN m - i + 1 ELSE 0
            /\ \A k \in 1 .. m - i + 1 : SubSeq(s, i, m)[k] = s[i + k - 1]
        BY <2>2, <3>1, SubSeqProperties
      <4> HIDE DEF m
      <4>2. QED
        BY <3>1, <4>1
    <3>3. \A k \in 1 .. n : i + k - 1 = i - 1 + k
      BY <2>1
    <3>4. \A k \in 1 .. n : SubSeq(s, i, m)[k] = D[k]
      BY <2>1, <3>2, <3>3
    <3> HIDE DEF m
    <3>5. QED
      BY <1>6, <3>2, <3>4, SeqEqual DEF m, n
  <2>6. Number(s, i) = <<parse_int(D), i + n>>
    BY <2>3, <2>4, <2>5 DEF Number
  <2>7. QED
    BY <1>6, <2>6 DEF n
<1>7. QED
  BY <1>4, <1>5, <1>6 DEF IsWidth

\* A percent sign, a zero flag or none, a width, a specifier.
SpecStands(s, i, zero, Z, D, w, c) ==
    /\ Len(s) \in Nat /\ DOMAIN s = 1 .. Len(s) /\ i \in Nat \ {0}
    /\ zero \in BOOLEAN /\ Z \in 0 .. 1 /\ Z = (IF zero THEN 1 ELSE 0)
    /\ Len(D) \in Nat /\ IsWidth(D, w) /\ i + Z + Len(D) + 1 <= Len(s)
    /\ Z = 1 => s[i + 1] = "0"
    /\ \A k \in 1 .. Len(D) : s[i + Z + k] = D[k]
    /\ c \in Converts /\ s[i + Z + Len(D) + 1] = c

\* fmt_spec_parse reads flag, width and specifier of a conversion, and stops behind it.
LEMMA SpecRead ==
    ASSUME NEW s, NEW i, NEW zero, NEW Z, NEW D, NEW w, NEW c, SpecStands(s, i, zero, Z, D, w, c)
    PROVE  fmt_spec_parse(s, i) = [zero |-> zero, width |-> w, precision |-> 0, specifier |-> c,
                                   next |-> i + Z + Len(D) + 2]
<1> DEFINE n == Len(D)
           j == i + 1 + Z
<1>0. /\ Len(s) \in Nat /\ DOMAIN s = 1 .. Len(s) /\ i \in Nat \ {0}
      /\ zero \in BOOLEAN /\ Z \in 0 .. 1 /\ Z = (IF zero THEN 1 ELSE 0)
      /\ n \in Nat /\ IsWidth(D, w) /\ i + Z + n + 1 <= Len(s)
      /\ Z = 1 => s[i + 1] = "0"
      /\ \A k \in 1 .. n : s[i + Z + k] = D[k]
      /\ c \in Converts /\ s[i + Z + n + 1] = c
  BY DEF SpecStands
<1>1. j + n \in DOMAIN s /\ j \in DOMAIN s /\ j \in Nat \ {0} /\ j + n = i + Z + n + 1 /\ j + n \in Nat
  BY <1>0
<1>2. s[j + n] = c /\ CharAt(s, j + n) = c
  BY <1>0, <1>1 DEF CharAt
<1> HIDE DEF n
<1>3. s[j] \notin FlagChars
  <2>1. CASE n = 0
    <3>1. s[j] = c
      BY <1>0, <1>1, <1>2, <2>1
    <3>2. QED
      BY <1>0, <3>1 DEF Converts, FlagChars
  <2>2. CASE n # 0
    <3>1. 1 \in 1 .. n /\ i + Z + 1 = j
      BY <1>0, <2>2
    <3>2. s[j] = D[1]
      BY <1>0, <3>1 DEF n
    <3>3. CASE D = <<"*">>
      BY <1>0, <3>2, <3>3 DEF FlagChars
    <3>4. CASE D \in Seq(Decimal) /\ D[1] # "0"
      <4>1. D[1] \in Decimal
        BY <1>0, <3>1, <3>4, ElementOfSeq DEF n
      <4>2. QED
        BY <1>0, <3>2, <3>4, <4>1, DigitsRead DEF FlagChars
    <3>5. QED
      BY <1>0, <2>2, <3>3, <3>4 DEF IsWidth, n
  <2>3. QED
    BY <1>0, <2>1, <2>2
<1>4. Skip(s, i + 1, FlagChars) = j
  <2>1. j \in i + 1 .. Len(s) + 1 /\ i + 1 \in Nat \ {0}
    BY <1>0, <1>1
  <2>2. CharAt(s, j) \notin FlagChars
    BY <1>0, <1>1, <1>3 DEF CharAt
  <2>3. \A k \in i + 1 .. j - 1 : s[k] \in FlagChars
    <3>1. TAKE k \in i + 1 .. j - 1
    <3>2. k = i + 1 /\ Z = 1
      BY <1>0
    <3>3. QED
      BY <1>0, <3>2 DEF FlagChars
  <2> HIDE DEF j
  <2>4. QED
    BY <1>0, <2>1, <2>2, <2>3, SkipIs
<1>5. ("0" \in ToSet(SubSeq(s, i + 1, j - 1))) = zero
  <2>1. CASE Z = 0
    <3>1. i + 1 \in Int /\ j - 1 \in Int /\ j - 1 < i + 1
      BY <1>0, <2>1
    <3>2. SubSeq(s, i + 1, j - 1) = <<>>
      BY <1>0, <3>1, SubSeqEmpty
    <3>3. QED
      BY <1>0, <2>1, <3>2 DEF ToSet
  <2>2. CASE Z = 1
    <3> DEFINE m == i + 1
               t == SubSeq(s, m, m)
               zeros == {"0"}
    <3>1. m \in Int /\ \A k \in m .. m : s[k] \in zeros
      BY <1>0, <2>2
    <3> HIDE DEF m, zeros
    <3>2. /\ t \in Seq(zeros) /\ Len(t) = (IF m <= m THEN m - m + 1 ELSE 0)
          /\ \A k \in 1 .. m - m + 1 : t[k] = s[m + k - 1]
      BY <1>0, <3>1, SubSeqProperties
    <3> HIDE DEF t
    <3>3. Len(t) = 1
      BY <1>0, <3>1, <3>2
    <3>4. 1 \in DOMAIN t /\ t[1] = "0"
      <4>1. 1 \in 1 .. Len(t)
        BY <1>0, <3>3
      <4>2. t[1] \in zeros /\ DOMAIN t = 1 .. Len(t)
        BY <1>0, <3>2, <4>1, ElementOfSeq, LenProperties
      <4>3. QED
        BY <1>0, <4>1, <4>2 DEF zeros
    <3>5. "0" \in ToSet(t)
      BY <1>0, <3>4 DEF ToSet
    <3>6. j - 1 = m
      BY <1>0, <2>2 DEF m
    <3>7. QED
      BY <1>0, <2>2, <3>5, <3>6 DEF t, m
  <2>3. QED
    BY <1>0, <2>1, <2>2
<1>6. Number(s, j) = <<w, j + n>>
  <2>1. \A k \in 1 .. n : j - 1 + k = i + Z + k
    BY <1>0
  <2>2. \A k \in 1 .. n : s[j - 1 + k] = D[k]
    BY <1>0, <2>1 DEF n
  <2>3. j + n <= Len(s)
    BY <1>0, <1>1
  <2> HIDE DEF j
  <2>4. /\ j \in Nat \ {0} /\ j + Len(D) <= Len(s) /\ s[j + Len(D)] \in Converts
        /\ \A k \in 1 .. Len(D) : s[j - 1 + k] = D[k]
    BY <1>0, <1>1, <1>2, <2>2, <2>3 DEF n
  <2>5. Len(s) \in Nat /\ DOMAIN s = 1 .. Len(s) /\ IsWidth(D, w)
    BY <1>0
  <2>6. Number(s, j) = <<w, j + Len(D)>>
    BY <2>4, <2>5, NumberReads
  <2>7. QED
    BY <1>0, <2>6 DEF n
<1>7. c # "." /\ c \notin LengthChars /\ c \in SpecifierChars
  BY <1>0 DEF Converts, LengthChars, SpecifierChars
<1>8. (j + n) + 1 = i + Z + n + 2
  BY <1>0
<1> HIDE DEF j
<1> DEFINE width == Number(s, j)
           precision == IF CharAt(s, width[2]) = "." THEN Number(s, width[2] + 1) ELSE <<0, width[2]>>
           at == IF CharAt(s, precision[2]) \in LengthChars THEN precision[2] + 1 ELSE precision[2]
           known == CharAt(s, at) \in SpecifierChars
<1>9. width[1] = w /\ width[2] = j + n
  BY <1>0, <1>6
<1>10. precision[1] = 0 /\ precision[2] = j + n
  BY <1>0, <1>2, <1>7, <1>9
<1>11. at = j + n
  BY <1>0, <1>2, <1>7, <1>10
<1>12. known
  BY <1>0, <1>2, <1>7, <1>11
<1>13. fmt_spec_parse(s, i) =
         [zero |-> "0" \in ToSet(SubSeq(s, i + 1, j - 1)), width |-> width[1],
          precision |-> precision[1], specifier |-> IF known THEN s[at] ELSE "NUL",
          next |-> IF known THEN at + 1 ELSE at]
  BY <1>0, <1>4 DEF fmt_spec_parse
<1> HIDE DEF width, precision, at, known
<1>14. QED
  BY <1>0, <1>2, <1>5, <1>8, <1>9, <1>10, <1>11, <1>12, <1>13 DEF n

-----------------------------------------------------------------------------
\* What a conversion is written as, and its text

\* The characters of a text over an alphabet, and of a format.
Printable(chars) == chars \cup DigitChars \cup {" ", "x"}
Formats(chars) == chars \cup DigitChars \cup Converts \cup {"*"}

\* A character several times
LEMMA TimesSeq ==
    ASSUME NEW S, NEW n \in Int, NEW c \in S
    PROVE  /\ Times(n, c) \in Seq(S) /\ Len(Times(n, c)) = (IF n > 0 THEN n ELSE 0)
           /\ \A k \in 1 .. n : Times(n, c)[k] = c
<1>1. CASE n <= 0
  <2>1. Times(n, c) = <<>> /\ 1 .. n = {}
    BY <1>1 DEF Times
  <2>2. QED
    BY <1>1, <2>1, EmptySeq
<1>2. CASE n > 0
  <2>1. n \in Nat /\ Times(n, c) = [k \in 1 .. n |-> c]
    BY <1>2 DEF Times
  <2>2. Times(n, c) \in [1 .. n -> S]
    BY <2>1
  <2>3. Times(n, c) \in Seq(S) /\ Len(Times(n, c)) = n
    BY <2>1, <2>2, IsSeq
  <2>4. QED
    BY <1>2, <2>1, <2>3
<1>3. QED
  BY <1>1, <1>2

\* or not at all.
LEMMA TimesNone == ASSUME NEW n \in Int, n <= 0, NEW c PROVE Times(n, c) = <<>>
  BY DEF Times

\* What is written for a width can be read as one.
LEMMA WidthWritten ==
    ASSUME NEW star \in BOOLEAN, NEW width \in Nat, NEW S, Decimal \subseteq S, "*" \in S,
           NEW D, D = (IF star THEN <<"*">>
                       ELSE IF width = 0 THEN <<>> ELSE Numeral(width, 10, base_chars))
    PROVE  IsWidth(D, IF star THEN -1 ELSE width) /\ D \in Seq(S) /\ Len(D) \in Nat
<1>1. CASE star
  BY <1>1 DEF IsWidth
<1>2. CASE ~star /\ width = 0
  BY <1>2, EmptySeq DEF IsWidth
<1>3. CASE ~star /\ width # 0
  <2>1. D = Numeral(width, 10, base_chars) /\ width > 0
    BY <1>3
  <2>2. D \in Seq(Decimal) /\ Len(D) \in Nat \ {0} /\ D[1] # "0" /\ parse_int(D) = width
    BY <2>1, ParseNumeral
  <2>3. D \in Seq(S)
    BY <2>2, SeqMonotonic
  <2>4. QED
    BY <1>3, <2>2, <2>3 DEF IsWidth
<1>4. QED
  BY <1>1, <1>2, <1>3

\* A conversion as it is written: where its parts stand.
FlagLength(p) == IF p.zero THEN 1 ELSE 0
WidthText(p) == IF p.star THEN <<"*">> ELSE IF p.width = 0 THEN <<>> ELSE Numeral(p.width, 10, base_chars)
WidthRead(p) == IF p.star THEN -1 ELSE p.width

\* The parts of a conversion.
LEMMA PieceIs ==
    ASSUME NEW p, NEW chars, IsPiece(p, chars), ~IsPlain(p), Supported(p)
    PROVE  /\ p.zero \in BOOLEAN /\ p.star \in BOOLEAN /\ p.width \in Nat
           /\ p.specifier \in Converts \ {"%"}
           /\ p.specifier = "c" => p.value \in chars
           /\ p.specifier = "s" => p.value \in Seq(chars)
           /\ p.specifier \in {"d", "i", "x", "X", "p"} => p.value \in Int
           /\ FlagLength(p) \in 0 .. 1 /\ IsWidth(WidthText(p), WidthRead(p))
           /\ WidthText(p) \in Seq(Formats(chars)) /\ Len(WidthText(p)) \in Nat
<1>1. /\ p.zero \in BOOLEAN /\ p.star \in BOOLEAN /\ p.width \in Nat
      /\ p.specifier \in Converts \ {"%"}
      /\ p.specifier = "c" => p.value \in chars
      /\ p.specifier = "s" => p.value \in Seq(chars)
      /\ p.specifier \in {"d", "i", "x", "X", "p"} => p.value \in Int
  BY DEF IsPiece, Converts, Supported
<1>2. Decimal \subseteq Formats(chars) /\ "*" \in Formats(chars)
  BY DigitsRead DEF Formats, DigitChars
<1>3. IsWidth(WidthText(p), WidthRead(p)) /\ WidthText(p) \in Seq(Formats(chars))
      /\ Len(WidthText(p)) \in Nat
  BY <1>1, <1>2, WidthWritten DEF WidthText, WidthRead
<1>4. FlagLength(p) \in 0 .. 1
  BY <1>1 DEF FlagLength
<1>5. QED
  BY <1>1, <1>3, <1>4

\* A conversion is written as its parts, one behind the other.
LEMMA ConversionWritten ==
    ASSUME NEW p, NEW chars, IsPiece(p, chars), ~IsPlain(p), Supported(p)
    PROVE  /\ Written(p) \in Seq(Formats(chars))
           /\ Len(Written(p)) = FlagLength(p) + Len(WidthText(p)) + 2
           /\ Written(p)[1] = "%"
           /\ FlagLength(p) = 1 => Written(p)[2] = "0"
           /\ \A k \in 1 .. Len(WidthText(p)) : Written(p)[1 + FlagLength(p) + k] = WidthText(p)[k]
           /\ Written(p)[FlagLength(p) + Len(WidthText(p)) + 2] = p.specifier
<1> DEFINE S == Formats(chars)
           a == <<"%">>
           z == IF p.zero THEN <<"0">> ELSE <<>>
           az == a \o z
           azd == az \o WidthText(p)
           c == <<p.specifier>>
           u == azd \o c
           n == Len(WidthText(p))
<1>1. /\ p.zero \in BOOLEAN /\ p.specifier \in Converts /\ FlagLength(p) \in 0 .. 1
      /\ WidthText(p) \in Seq(S) /\ n \in Nat
  BY PieceIs
<1>2. Written(p) = u
  BY DEF Written, WidthText
<1>3. "%" \in S /\ "0" \in S /\ p.specifier \in S
  BY <1>1 DEF Formats, Converts, DigitChars
<1> HIDE DEF S
<1>4. a \in Seq(S) /\ Len(a) = 1 /\ a[1] = "%" /\ c \in Seq(S) /\ Len(c) = 1 /\ c[1] = p.specifier
  BY <1>3
<1>5. z \in Seq(S) /\ Len(z) = FlagLength(p) /\ (FlagLength(p) = 1 => z[1] = "0")
  BY <1>1, <1>3, EmptySeq DEF FlagLength
<1> HIDE DEF a, z, c
<1>6. az \in Seq(S) /\ Len(az) = 1 + FlagLength(p) /\ az[1] = "%" /\ (FlagLength(p) = 1 => az[2] = "0")
  <2>1. /\ az \in Seq(S) /\ Len(az) = Len(a) + Len(z) /\ \A k \in 1 .. Len(a) : az[k] = a[k]
        /\ \A k \in 1 .. Len(z) : az[Len(a) + k] = z[k]
    <3>1. a \in Seq(S) /\ z \in Seq(S)
      BY <1>4, <1>5
    <3>2. QED
      BY <3>1, Concat
  <2>2. 1 \in 1 .. Len(a) /\ (FlagLength(p) = 1 => 1 \in 1 .. Len(z)) /\ 1 + 1 = 2
    BY <1>4, <1>5
  <2> HIDE DEF az
  <2>3. QED
    BY <1>4, <1>5, <2>1, <2>2
<1> HIDE DEF az
<1>7. /\ azd \in Seq(S) /\ Len(azd) = 1 + FlagLength(p) + n /\ azd[1] = "%"
      /\ (FlagLength(p) = 1 => azd[2] = "0")
      /\ \A k \in 1 .. n : azd[1 + FlagLength(p) + k] = WidthText(p)[k]
  <2>1. /\ azd \in Seq(S) /\ Len(azd) = Len(az) + n /\ \A k \in 1 .. Len(az) : azd[k] = az[k]
        /\ \A k \in 1 .. n : azd[Len(az) + k] = WidthText(p)[k]
    BY <1>1, <1>6, Concat
  <2> HIDE DEF azd, n
  <2>2. 1 \in 1 .. Len(az) /\ (FlagLength(p) = 1 => 2 \in 1 .. Len(az))
    BY <1>1, <1>6
  <2>3. QED
    BY <1>6, <2>1, <2>2
<1> HIDE DEF azd, n
<1>8. /\ u \in Seq(S) /\ Len(u) = Len(azd) + 1 /\ \A k \in 1 .. Len(azd) : u[k] = azd[k]
      /\ u[Len(azd) + 1] = c[1]
  <2>1. /\ u \in Seq(S) /\ Len(u) = Len(azd) + Len(c) /\ \A k \in 1 .. Len(azd) : u[k] = azd[k]
        /\ \A k \in 1 .. Len(c) : u[Len(azd) + k] = c[k]
    <3>1. azd \in Seq(S) /\ c \in Seq(S)
      BY <1>4, <1>7
    <3>2. QED
      BY <3>1, Concat
  <2> HIDE DEF u
  <2>2. 1 \in 1 .. Len(c)
    BY <1>4
  <2>3. QED
    BY <1>4, <2>1, <2>2
<1> HIDE DEF u
<1>9. u[1] = "%" /\ (FlagLength(p) = 1 => u[2] = "0")
  <2>1. 1 \in 1 .. Len(azd) /\ (FlagLength(p) = 1 => 2 \in 1 .. Len(azd))
    BY <1>1, <1>7
  <2>2. QED
    BY <1>7, <1>8, <2>1
<1>10. \A k \in 1 .. n : u[1 + FlagLength(p) + k] = WidthText(p)[k]
  <2>1. \A k \in 1 .. n : 1 + FlagLength(p) + k \in 1 .. Len(azd)
    BY <1>1, <1>7
  <2>2. QED
    BY <1>7, <1>8, <2>1
<1>11. Len(u) = FlagLength(p) + n + 2 /\ u[FlagLength(p) + n + 2] = p.specifier
  <2>1. Len(azd) + 1 = FlagLength(p) + n + 2
    BY <1>1, <1>7
  <2>2. QED
    BY <1>4, <1>8, <2>1
<1>12. QED
  BY <1>2, <1>8, <1>9, <1>10, <1>11 DEF n, S

\* The body of a conversion and its text.
LEMMA BodyIs ==
    ASSUME NEW p, NEW chars, IsPiece(p, chars), ~IsPlain(p), Supported(p)
    PROVE  CBody(p) \in Seq(Printable(chars)) /\ Len(CBody(p)) \in Nat
<1> DEFINE S == Printable(chars)
<1>1. DigitChars \subseteq S /\ "0" \in S /\ "x" \in S /\ chars \subseteq S
  BY DEF Printable, DigitChars
<1>2. ASSUME NEW b \in {10, 16}, NEW cs \in [1 .. 16 -> DigitChars], p.value \in Nat
      PROVE  Numeral(p.value, b, cs) \in Seq(S)
  <2>1. Numeral(p.value, b, cs) \in Seq(DigitChars)
    BY <1>2, NumeralStep
  <2> HIDE DEF S
  <2>2. QED
    BY <1>1, <2>1, SeqMonotonic
<1> HIDE DEF S
<1>3. p.specifier \in {"d", "i", "x", "X", "p"} => p.value \in Nat
  <2>1. p.specifier \in {"d", "i", "x", "X", "p"} => p.value \in Int /\ p.value >= 0
    BY PieceIs DEF Supported
  <2>2. QED
    BY <2>1
<1>4. CASE p.specifier = "c"
  <2>1. CBody(p) = <<p.value>> /\ p.value \in S
    BY <1>1, <1>4, PieceIs DEF CBody
  <2>2. QED
    BY <2>1 DEF S
<1>5. CASE p.specifier = "s"
  <2>1. CBody(p) = p.value /\ p.value \in Seq(chars)
    BY <1>5, PieceIs DEF CBody
  <2>2. p.value \in Seq(S)
    BY <1>1, <2>1, SeqMonotonic
  <2>3. QED
    BY <2>1, <2>2, LenProperties DEF S
<1>6. CASE p.specifier \in {"d", "i"}
  <2>1. CBody(p) = Numeral(p.value, 10, base_chars)
    BY <1>6 DEF CBody
  <2>2. CBody(p) \in Seq(S)
    BY <1>2, <1>3, <1>6, <2>1, CharsType
  <2>3. QED
    BY <2>2, LenProperties DEF S
<1>7. CASE p.specifier \in {"x", "X"}
  <2>1. CBody(p) = Numeral(p.value, 16, base_chars) \/ CBody(p) = Numeral(p.value, 16, UpperChars)
    BY <1>7 DEF CBody
  <2>2. CBody(p) \in Seq(S)
    BY <1>2, <1>3, <1>7, <2>1, CharsType
  <2>3. QED
    BY <2>2, LenProperties DEF S
<1>8. CASE p.specifier = "p"
  <2>1. CBody(p) = <<"0", "x">> \o Numeral(p.value, 16, base_chars)
    BY <1>8 DEF CBody
  <2>2. Numeral(p.value, 16, base_chars) \in Seq(S)
    BY <1>2, <1>3, <1>8, CharsType
  <2>3. <<"0", "x">> \in Seq(S)
    BY <1>1
  <2>4. CBody(p) \in Seq(S)
    BY <2>1, <2>2, <2>3, Concat
  <2>5. QED
    BY <2>4, LenProperties DEF S
<1>9. QED
  BY <1>4, <1>5, <1>6, <1>7, <1>8, PieceIs DEF Converts

\* The text of a piece is printable.
LEMMA CTextIs ==
    ASSUME NEW p, NEW chars, IsPiece(p, chars), Supported(p)
    PROVE  CText(p) \in Seq(Printable(chars))
<1>1. CASE IsPlain(p)
  <2>1. CText(p) = <<p.plain>> /\ p.plain \in Printable(chars)
    BY <1>1 DEF CText, IsPiece, Printable
  <2>2. QED
    BY <2>1
<1>2. CASE ~IsPlain(p)
  <2> DEFINE S == Printable(chars)
             c == IF p.zero THEN "0" ELSE " "
             n == p.width - Len(CBody(p))
  <2>1. CBody(p) \in Seq(S) /\ n \in Int
    BY <1>2, BodyIs, PieceIs
  <2>2. c \in S
    BY DEF Printable, DigitChars
  <2>3. CText(p) = Times(n, c) \o CBody(p)
    BY <1>2 DEF CText
  <2> HIDE DEF S, c, n
  <2>4. Times(n, c) \in Seq(S)
    BY <2>1, <2>2, TimesSeq
  <2>5. QED
    BY <2>1, <2>3, <2>4, Concat DEF S
<1>3. QED
  BY <1>1, <1>2

-----------------------------------------------------------------------------
\* The loop of k_vsprintf

\* A conversion with its width and its argument at hand writes its text.
LEMMA ConvertIs ==
    ASSUME NEW p, NEW chars, IsPiece(p, chars), ~IsPlain(p), Supported(p),
           NEW spec, spec.zero = p.zero, spec.precision = 0, spec.specifier = p.specifier
    PROVE  Convert(spec, p.width, p.value) = CText(p)
<1> DEFINE S == Printable(chars)
           n == p.width - Len(CBody(p))
<1>1. p.width \in Nat /\ p.zero \in BOOLEAN /\ p.specifier \in Converts
  BY PieceIs
<1>2. CText(p) = Times(n, IF p.zero THEN "0" ELSE " ") \o CBody(p)
  BY DEF CText
<1>3. CBody(p) \in Seq(S) /\ Len(CBody(p)) \in Nat
  BY BodyIs
<1>4. p.specifier \in {"d", "i", "x", "X", "p"} => p.value \in Nat
  <2>1. p.specifier \in {"d", "i", "x", "X", "p"} => p.value \in Int /\ p.value >= 0
    BY PieceIs DEF Supported
  <2>2. QED
    BY <2>1
<1>5. p.zero => p.specifier \in {"x", "X"}
  BY DEF Supported
<1>6. CASE p.specifier = "c"
  <2>1. CBody(p) = <<p.value>>
    BY <1>6 DEF CBody
  <2>2. Convert(spec, p.width, p.value) = PadLeft(" ", p.width, <<p.value>>)
    BY <1>6 DEF Convert
  <2>3. ~p.zero
    BY <1>5, <1>6
  <2>4. QED
    BY <1>2, <2>1, <2>2, <2>3 DEF PadLeft
<1>7. CASE p.specifier = "s"
  <2>1. CBody(p) = p.value /\ p.value \in Seq(chars) /\ ~p.zero
    BY <1>5, <1>7, PieceIs DEF CBody
  <2>2. CText(p) = Times(n, " ") \o p.value
    BY <1>2, <2>1
  <2>3. CASE p.width = 0
    <3>1. Convert(spec, p.width, p.value) = p.value
      BY <1>7, <2>3 DEF Convert
    <3>2. n \in Int /\ n <= 0
      BY <1>3, <2>3
    <3>3. Times(n, " ") = <<>>
      BY <3>2, TimesNone
    <3>4. QED
      BY <2>1, <2>2, <3>1, <3>3, ConcatEmptySeq
  <2>4. CASE p.width # 0
    <3>1. p.width >= Len(p.value) /\ Len(p.value) \in Nat
      BY <1>3, <1>7, <2>1, <2>4 DEF Supported
    <3>2. Convert(spec, p.width, p.value) = PadLeft(" ", p.width, SubSeq(p.value, 1, Len(p.value)))
      <4>1. ~(p.width < Len(p.value)) /\ ~(p.width = 0 /\ spec.precision = 0) /\ spec.specifier = "s"
        BY <1>1, <1>7, <2>4, <3>1
      <4>2. QED
        BY <4>1 DEF Convert
    <3>3. SubSeq(p.value, 1, Len(p.value)) = p.value
      BY <2>1, SubSeqFull
    <3>4. QED
      BY <2>1, <2>2, <3>2, <3>3 DEF PadLeft
  <2>5. QED
    BY <2>3, <2>4
<1>8. CASE p.specifier \in {"d", "i"}
  <2>1. CBody(p) = Numeral(p.value, 10, base_chars) /\ ~p.zero
    BY <1>5, <1>8 DEF CBody
  <2>2. Convert(spec, p.width, p.value) = PadLeft(" ", p.width, stringify_base(p.value, 10, FALSE))
    BY <1>8 DEF Convert
  <2>3. stringify_base(p.value, 10, FALSE) = CBody(p)
    BY <1>4, <1>8, <2>1, StringifyNumber DEF CharsOf
  <2>4. QED
    BY <1>2, <2>1, <2>2, <2>3 DEF PadLeft
<1>9. CASE p.specifier \in {"x", "X"}
  <2> DEFINE up == p.specifier = "X"
  <2>1. CBody(p) = Numeral(p.value, 16, CharsOf(up))
    BY <1>9 DEF CBody, CharsOf
  <2>2. Convert(spec, p.width, p.value) =
          PadLeft(IF p.zero THEN "0" ELSE " ", p.width, stringify_base(p.value, 16, up))
    BY <1>9 DEF Convert
  <2>3. up \in BOOLEAN /\ p.value \in Nat
    BY <1>4, <1>9
  <2> HIDE DEF up
  <2>4. stringify_base(p.value, 16, up) = CBody(p)
    BY <2>1, <2>3, StringifyNumber
  <2>5. QED
    BY <1>2, <2>2, <2>4 DEF PadLeft
<1>10. CASE p.specifier = "p"
  <2> DEFINE number == Numeral(p.value, 16, base_chars)
  <2>1. CBody(p) = <<"0", "x">> \o number /\ ~p.zero
    BY <1>5, <1>10 DEF CBody
  <2>2. stringify_base(p.value, 16, FALSE) = number
    BY <1>4, <1>10, StringifyNumber DEF CharsOf
  <2>3. Convert(spec, p.width, p.value) = Times(p.width - Len(number) - 2, " ") \o <<"0", "x">> \o number
    BY <1>10, <2>2 DEF Convert
  <2>4. number \in Seq(S) /\ <<"0", "x">> \in Seq(S) /\ " " \in S
    <3>1. number \in Seq(DigitChars)
      <4>1. p.value \in Nat /\ 16 \in {10, 16} /\ base_chars \in [1 .. 16 -> DigitChars]
        BY <1>4, <1>10, CharsType
      <4>2. QED
        BY <4>1, NumeralStep
    <3>2. DigitChars \subseteq S
      BY DEF Printable
    <3> HIDE DEF number
    <3>3. number \in Seq(S)
      BY <3>1, <3>2, SeqMonotonic
    <3>4. <<"0", "x">> \in Seq(S) /\ " " \in S
      BY DEF Printable, DigitChars
    <3>5. QED
      BY <3>3, <3>4
  <2> DEFINE prefix == <<"0", "x">>
  <2>5. Len(prefix) = 2
    OBVIOUS
  <2> HIDE DEF S, number, prefix
  <2>6. Len(prefix \o number) = 2 + Len(number) /\ Len(number) \in Nat
    <3>1. prefix \in Seq(S) /\ number \in Seq(S)
      BY <2>4 DEF prefix
    <3>2. QED
      BY <2>5, <3>1, Concat, SMTT(20)
  <2>7. n = p.width - Len(number) - 2
    BY <1>1, <2>1, <2>6 DEF prefix
  <2>8. Times(n, " ") \in Seq(S)
    <3>1. n \in Int
      BY <1>1, <2>6, <2>7
    <3> HIDE DEF n
    <3>2. QED
      BY <2>4, <3>1, TimesSeq
  <2>9. (Times(n, " ") \o prefix) \o number = Times(n, " ") \o (prefix \o number)
    <3> HIDE DEF n
    <3> DEFINE pad == Times(n, " ")
    <3>1. prefix \in Seq(S) /\ number \in Seq(S) /\ pad \in Seq(S)
      BY <2>4, <2>8 DEF prefix
    <3> HIDE DEF pad
    <3>2. (pad \o prefix) \o number = pad \o (prefix \o number)
      BY <3>1, ConcatAssociative, SMTT(20)
    <3>3. QED
      BY <3>2 DEF pad
  <2>10. QED
    BY <1>2, <2>1, <2>3, <2>7, <2>9 DEF prefix
<1>11. QED
  BY <1>6, <1>7, <1>8, <1>9, <1>10, PieceIs DEF Converts

\* What a sequence has from a place on.
Stands(u, s, i) ==
    i \in Nat \ {0} /\ i - 1 + Len(u) <= Len(s) /\ \A k \in 1 .. Len(u) : s[i - 1 + k] = u[k]

\* A turn of the loop on a written piece: its text follows, its arguments are taken.
After(i, taken, text_) == [at |-> i, taken |-> taken, text |-> text_]

\* One turn of the loop, at a piece of the format: it goes past the piece, takes the
\* piece's arguments, and appends the piece's text.
LEMMA TurnPiece ==
    ASSUME NEW p, NEW chars, IsPiece(p, chars), Supported(p),
           NEW s, Len(s) \in Nat, DOMAIN s = 1 .. Len(s), NEW list,
           NEW i, Stands(Written(p), s, i),
           NEW taken \in Nat, Stands(Passed(p), list, taken + 1),
           NEW x \in Seq(Printable(chars))
    PROVE  Turn(s, list, After(i, taken, x)) =
             After(i + Len(Written(p)), taken + Len(Passed(p)), x \o CText(p))
<1> DEFINE done == After(i, taken, x)
<1>1. done.at = i /\ done.taken = taken /\ done.text = x
  BY DEF After
<1>2. CASE IsPlain(p) /\ p.plain # "%"
  <2>1. Written(p) = <<p.plain>> /\ CText(p) = <<p.plain>> /\ Passed(p) = <<>>
    BY <1>2 DEF Written, CText, Passed
  <2>2. Len(Written(p)) = 1 /\ Written(p)[1] = p.plain /\ Len(Passed(p)) = 0
    BY <2>1
  <2>3. i <= Len(s) /\ s[i] = p.plain
    <3>1. 1 \in 1 .. Len(Written(p)) /\ i \in Nat \ {0} /\ i - 1 + 1 = i
      BY <2>2 DEF Stands
    <3>2. QED
      BY <2>2, <3>1 DEF Stands
  <2>4. Turn(s, list, done) = [done EXCEPT !.at = @ + 1, !.text = Append(@, s[done.at])]
    BY <1>1, <1>2, <2>3 DEF Turn, Stands
  <2>5. Turn(s, list, done) = After(i + 1, taken, Append(x, p.plain))
    BY <2>3, <2>4 DEF After
  <2>6. Append(x, p.plain) = x \o <<p.plain>>
    <3>1. p.plain \in Printable(chars)
      BY <1>2 DEF IsPiece, Printable
    <3>2. QED
      BY <3>1, AppendIsConcat
  <2>7. QED
    BY <2>1, <2>2, <2>5, <2>6
<1>3. CASE IsPlain(p) /\ p.plain = "%"
  <2>1. Written(p) = <<"%", "%">> /\ CText(p) = <<"%">> /\ Passed(p) = <<>>
    BY <1>3 DEF Written, CText, Passed
  <2>2. Len(Written(p)) = 2 /\ Written(p)[1] = "%" /\ Written(p)[2] = "%" /\ Len(Passed(p)) = 0
    BY <2>1
  <2>3. i \in Nat \ {0} /\ i <= Len(s) /\ i + 1 <= Len(s) /\ s[i] = "%" /\ s[i + 1] = "%"
    <3>1. 1 \in 1 .. Len(Written(p)) /\ 2 \in 1 .. Len(Written(p)) /\ i \in Nat \ {0}
          /\ i - 1 + 1 = i /\ i - 1 + 2 = i + 1
      BY <2>2 DEF Stands
    <3>2. QED
      BY <2>2, <3>1 DEF Stands
  <2> DEFINE none == <<>>
  <2>4. IsWidth(none, 0) /\ Len(none) = 0 /\ "%" \in Converts
    BY DEF IsWidth, Converts
  <2> HIDE DEF none
  <2>5. fmt_spec_parse(s, i) = [zero |-> FALSE, width |-> 0, precision |-> 0, specifier |-> "%",
                                next |-> i + 0 + Len(none) + 2]
    <3> DEFINE noZero == FALSE
               noFlag == 0
               w == 0
               c == "%"
    <3>1. /\ i + noFlag + Len(none) + 1 <= Len(s) /\ s[i + noFlag + Len(none) + 1] = c
          /\ Len(none) \in Nat /\ \A k \in 1 .. Len(none) : s[i + noFlag + k] = none[k]
      <4>1. i + 0 + Len(none) + 1 = i + 1 /\ 1 .. Len(none) = {}
        BY <2>3, <2>4
      <4>2. QED
        BY <2>3, <2>4, <4>1
    <3>2. /\ noZero \in BOOLEAN /\ noFlag \in 0 .. 1 /\ noFlag = (IF noZero THEN 1 ELSE 0)
          /\ (noFlag = 1 => s[i + 1] = "0") /\ IsWidth(none, w) /\ c \in Converts /\ i \in Nat \ {0}
      BY <2>3, <2>4
    <3> HIDE DEF noZero, noFlag, w, c
    <3>3. fmt_spec_parse(s, i) = [zero |-> noZero, width |-> w, precision |-> 0, specifier |-> c,
                                  next |-> i + noFlag + Len(none) + 2]
      <4>1. SpecStands(s, i, noZero, noFlag, none, w, c)
        BY <3>1, <3>2 DEF SpecStands
      <4>2. QED
        BY <4>1, SpecRead
    <3>4. QED
      BY <3>3 DEF noZero, noFlag, w, c
  <2>6. Turn(s, list, done) = Converted(fmt_spec_parse(s, i), list, done)
    BY <1>1, <2>3 DEF Turn
  <2>7. Turn(s, list, done) = After(i + 2, taken, Append(x, "%"))
    <3> DEFINE spec == fmt_spec_parse(s, i)
    <3>1. i + 0 + Len(none) + 2 = i + 2
      BY <2>3, <2>4
    <3>2. spec.specifier = "%" /\ spec.next = i + 2
      BY <2>5, <3>1
    <3> HIDE DEF spec
    <3>3. Converted(spec, list, done) = [done EXCEPT !.at = i + 2, !.text = Append(@, "%")]
      BY <3>2 DEF Converted
    <3>4. QED
      BY <2>6, <3>3 DEF After, spec
  <2>8. Append(x, "%") = x \o <<"%">>
    <3>1. "%" \in Printable(chars)
      BY <1>3 DEF IsPiece, Printable
    <3>2. QED
      BY <3>1, AppendIsConcat
  <2>9. taken + Len(Passed(p)) = taken /\ i + Len(Written(p)) = i + 2
    BY <2>2
  <2>10. QED
    BY <2>1, <2>7, <2>8, <2>9
<1>4. CASE ~IsPlain(p)
  <2>1. /\ p.zero \in BOOLEAN /\ p.star \in BOOLEAN /\ p.width \in Nat
        /\ p.specifier \in Converts \ {"%"}
        /\ FlagLength(p) \in 0 .. 1 /\ IsWidth(WidthText(p), WidthRead(p)) /\ Len(WidthText(p)) \in Nat
    BY <1>4, PieceIs
  <2>2. /\ Len(Written(p)) = FlagLength(p) + Len(WidthText(p)) + 2 /\ Written(p)[1] = "%"
        /\ FlagLength(p) = 1 => Written(p)[2] = "0"
        /\ \A k \in 1 .. Len(WidthText(p)) : Written(p)[1 + FlagLength(p) + k] = WidthText(p)[k]
        /\ Written(p)[FlagLength(p) + Len(WidthText(p)) + 2] = p.specifier
    BY <1>4, ConversionWritten
  <2>3. i \in Nat \ {0} /\ i - 1 + Len(Written(p)) <= Len(s)
        /\ \A k \in 1 .. Len(Written(p)) : s[i - 1 + k] = Written(p)[k]
    BY DEF Stands
  <2> DEFINE z == FlagLength(p)
             d == WidthText(p)
             n == Len(d)
  <2>4. /\ i + z + n + 1 <= Len(s) /\ i <= Len(s) /\ s[i] = "%" /\ (z = 1 => s[i + 1] = "0")
        /\ s[i + z + n + 1] = p.specifier /\ \A k \in 1 .. n : s[i + z + k] = d[k]
    <3>1. z \in 0 .. 1 /\ n \in Nat /\ Len(Written(p)) = z + n + 2
      BY <2>1, <2>2
    <3> HIDE DEF n, z
    <3>2. i + z + n + 1 <= Len(s) /\ i <= Len(s)
      BY <2>3, <3>1
    <3>3. s[i] = "%"
      <4>1. 1 \in 1 .. Len(Written(p)) /\ i - 1 + 1 = i
        BY <2>3, <3>1
      <4>2. QED
        BY <2>2, <2>3, <4>1
    <3>4. z = 1 => s[i + 1] = "0"
      <4>1. 2 \in 1 .. Len(Written(p)) /\ i - 1 + 2 = i + 1
        BY <2>3, <3>1
      <4>2. QED
        BY <2>2, <2>3, <4>1 DEF z
    <3>5. s[i + z + n + 1] = p.specifier
      <4>1. z + n + 2 \in 1 .. Len(Written(p)) /\ i - 1 + (z + n + 2) = i + z + n + 1
        BY <2>3, <3>1
      <4>2. QED
        BY <2>2, <2>3, <4>1 DEF z, n
    <3>6. ASSUME NEW k \in 1 .. n PROVE s[i + z + k] = d[k]
      <4>1. 1 + z + k \in 1 .. Len(Written(p)) /\ i - 1 + (1 + z + k) = i + z + k
        <5>1. i \in Nat /\ z \in 0 .. 1 /\ n \in Nat /\ Len(Written(p)) = z + n + 2 /\ k \in 1 .. n
          BY <2>3, <3>1
        <5>2. QED
          BY <5>1
      <4>2. Written(p)[1 + z + k] = d[k]
        BY <2>2 DEF z, n
      <4>3. QED
        BY <2>3, <4>1, <4>2
    <3>7. QED
      BY <3>2, <3>3, <3>4, <3>5, <3>6
  <2> DEFINE spec == fmt_spec_parse(s, i)
  <2>5. spec = [zero |-> p.zero, width |-> WidthRead(p), precision |-> 0, specifier |-> p.specifier,
                next |-> i + z + n + 2]
    <3>1. z = IF p.zero THEN 1 ELSE 0
      BY DEF FlagLength
    <3>2. p.specifier \in Converts
      BY <2>1
    <3> DEFINE zero == p.zero
               w == WidthRead(p)
               c == p.specifier
    <3>3. /\ zero \in BOOLEAN /\ z \in 0 .. 1 /\ z = (IF zero THEN 1 ELSE 0) /\ Len(d) \in Nat
          /\ IsWidth(d, w) /\ c \in Converts /\ i \in Nat \ {0}
      BY <2>1, <2>3, <3>1, <3>2
    <3>4. /\ i + z + Len(d) + 1 <= Len(s) /\ (z = 1 => s[i + 1] = "0")
          /\ s[i + z + Len(d) + 1] = c /\ \A k \in 1 .. Len(d) : s[i + z + k] = d[k]
      BY <2>4
    <3> HIDE DEF z, d, w, c, zero
    <3>5. fmt_spec_parse(s, i) = [zero |-> zero, width |-> w, precision |-> 0, specifier |-> c,
                                  next |-> i + z + Len(d) + 2]
      <4>1. SpecStands(s, i, zero, z, d, w, c)
        BY <3>3, <3>4 DEF SpecStands
      <4>2. QED
        BY <4>1, SpecRead
    <3>6. QED
      BY <3>5 DEF w, c, zero
  <2>6. Turn(s, list, done) = Converted(spec, list, done)
    BY <1>1, <2>3, <2>4 DEF Turn
  <2> DEFINE stars == IF p.star THEN 1 ELSE 0
             arg == list[taken + stars + 1]
             width == IF p.star THEN list[taken + 1] ELSE p.width
  <2>7. arg = p.value /\ width = p.width /\ Len(Passed(p)) = stars + 1
    <3>1. CASE p.star
      <4>1. Passed(p) = <<p.width>> \o <<p.value>>
        BY <1>4, <3>1 DEF Passed
      <4>2. Len(Passed(p)) = 2 /\ Passed(p)[1] = p.width /\ Passed(p)[2] = p.value
        BY <4>1
      <4>3. 1 \in 1 .. Len(Passed(p)) /\ 2 \in 1 .. Len(Passed(p)) /\ (taken + 1) - 1 + 1 = taken + 1
            /\ (taken + 1) - 1 + 2 = taken + 1 + 1
        BY <4>2
      <4>4. list[taken + 1] = p.width /\ list[taken + 1 + 1] = p.value
        BY <4>2, <4>3 DEF Stands
      <4>5. QED
        BY <3>1, <4>2, <4>4
    <3>2. CASE ~p.star
      <4>1. Passed(p) = <<>> \o <<p.value>>
        BY <1>4, <3>2 DEF Passed
      <4>2. Len(Passed(p)) = 1 /\ Passed(p)[1] = p.value
        BY <4>1
      <4>3. 1 \in 1 .. Len(Passed(p)) /\ (taken + 1) - 1 + 1 = taken + 1 /\ taken + 0 + 1 = taken + 1
        BY <4>2
      <4>4. list[taken + 1] = p.value
        BY <4>2, <4>3 DEF Stands
      <4>5. QED
        BY <3>2, <4>2, <4>3, <4>4
    <3>3. QED
      BY <2>1, <3>1, <3>2
  <2>8. /\ spec.zero = p.zero /\ spec.width = WidthRead(p) /\ spec.precision = 0
        /\ spec.specifier = p.specifier
        /\ spec.next = i + z + n + 2
        /\ spec.width = -1 <=> p.star
        /\ [spec EXCEPT !.precision = 0] = spec
    <3>1. WidthRead(p) = -1 <=> p.star
      BY <2>1 DEF WidthRead
    <3> HIDE DEF z, n
    <3>2. QED
      BY <2>5, <3>1
  <2> HIDE DEF spec
  <2>9. Converted(spec, list, done) =
          [at |-> spec.next, taken |-> taken + stars + 1,
           text |-> x \o Convert([spec EXCEPT !.precision = 0], width, arg)]
    <3>1. spec.specifier \notin {"%", "NUL", "u", "o"} /\ spec.precision # -1
      <4>1. p.specifier \in Converts \ {"%"}
        BY <2>1
      <4>2. \A c \in Converts \ {"%"} : c # "%" /\ c # "NUL" /\ c # "u" /\ c # "o"
        BY DEF Converts
      <4>3. spec.specifier = p.specifier /\ spec.precision = 0
        BY <2>8
      <4>4. spec.specifier # "%" /\ spec.specifier # "NUL" /\ spec.specifier # "u" /\ spec.specifier # "o"
        BY <4>1, <4>2, <4>3
      <4>5. spec.precision # -1
        BY <4>3
      <4>6. QED
        BY <4>4, <4>5
    <3>2. (IF spec.width = -1 THEN 1 ELSE 0) = stars
      BY <2>8
    <3>3. (IF spec.width = -1 THEN list[taken + 1] ELSE spec.width) = width
      BY <2>1, <2>8 DEF WidthRead
    <3>4. taken + (IF spec.width = -1 THEN 1 ELSE 0) + 0 + 1 = taken + stars + 1 /\ stars + 0 = stars
      BY <3>2
    <3> HIDE DEF stars, width, arg, done
    <3>5. QED
      BY <1>1, <2>8, <3>1, <3>2, <3>3, <3>4 DEF Converted, arg
  <2>10. Convert(spec, p.width, p.value) = CText(p)
    BY <1>4, <2>8, ConvertIs
  <2>11. spec.next = i + Len(Written(p)) /\ taken + stars + 1 = taken + Len(Passed(p))
    <3>1. z \in 0 .. 1 /\ n \in Nat /\ Len(Written(p)) = z + n + 2 /\ i \in Nat
          /\ spec.next = i + z + n + 2
      BY <2>1, <2>2, <2>3, <2>8
    <3>2. stars \in 0 .. 1 /\ Len(Passed(p)) = stars + 1
      BY <2>1, <2>7
    <3> HIDE DEF z, n, stars
    <3>3. QED
      BY <3>1, <3>2
  <2> HIDE DEF stars, width, arg, done
  <2>12. QED
    BY <2>6, <2>7, <2>8, <2>9, <2>10, <2>11 DEF After, done
<1>5. QED
  BY <1>2, <1>3, <1>4

Values(chars) == chars \cup Seq(chars) \cup Int

\* The three readings of a piece are sequences, and none is written as nothing.
LEMMA PieceTypes ==
    ASSUME NEW p, NEW chars, IsPiece(p, chars), Supported(p)
    PROVE  /\ Written(p) \in Seq(Formats(chars)) /\ Len(Written(p)) \in Nat \ {0}
           /\ Passed(p) \in Seq(Values(chars)) /\ CText(p) \in Seq(Printable(chars))
<1>1. CText(p) \in Seq(Printable(chars))
  BY CTextIs
<1>2. CASE IsPlain(p)
  <2>1. Passed(p) = <<>> /\ (Written(p) = <<"%", "%">> \/ Written(p) = <<p.plain>>)
    BY <1>2 DEF Written, Passed
  <2>2. p.plain \in Formats(chars) /\ "%" \in Formats(chars)
    BY <1>2 DEF IsPiece, Formats, Converts
  <2> DEFINE F == Formats(chars)
  <2> HIDE DEF F
  <2>3. Written(p) \in Seq(F) /\ Len(Written(p)) \in Nat \ {0}
    <3>1. CASE Written(p) = <<"%", "%">>
      BY <2>2, <3>1 DEF F
    <3>2. CASE Written(p) = <<p.plain>>
      BY <2>2, <3>2 DEF F
    <3>3. QED
      BY <2>1, <3>1, <3>2
  <2>4. QED
    BY <1>1, <2>1, <2>3, EmptySeq DEF F
<1>3. CASE ~IsPlain(p)
  <2>1. Written(p) \in Seq(Formats(chars)) /\ Len(Written(p)) = FlagLength(p) + Len(WidthText(p)) + 2
    BY <1>3, ConversionWritten
  <2>2. FlagLength(p) \in 0 .. 1 /\ Len(WidthText(p)) \in Nat /\ p.width \in Nat
    BY <1>3, PieceIs
  <2>3. Len(Written(p)) \in Nat \ {0}
    BY <2>1, <2>2
  <2>4. p.value \in Values(chars) /\ p.width \in Values(chars)
    BY <1>3, <2>2, PieceIs DEF Values, Converts
  <2> DEFINE V == Values(chars)
             first == IF p.star THEN <<p.width>> ELSE <<>>
  <2>5. Passed(p) = first \o <<p.value>>
    BY <1>3 DEF Passed
  <2> HIDE DEF V
  <2>6. first \in Seq(V) /\ <<p.value>> \in Seq(V)
    BY <2>4, EmptySeq DEF V
  <2> HIDE DEF first
  <2>7. Passed(p) \in Seq(V)
    BY <2>5, <2>6, ConcatProperties
  <2>8. QED
    BY <1>1, <2>1, <2>3, <2>7 DEF V
<1>4. QED
  BY <1>2, <1>3

\* A sequence of the same length as another.
LEMMA MapIs ==
    ASSUME NEW c, Len(c) \in Nat, DOMAIN c = 1 .. Len(c), NEW u, NEW S,
           DOMAIN u = DOMAIN c, u = [k \in DOMAIN c |-> u[k]], \A k \in DOMAIN c : u[k] \in S
    PROVE  Len(u) = Len(c) /\ (Len(u) = 0 => u = <<>>)
<1> DEFINE n == Len(c)
<1>1. n \in Nat /\ u \in [1 .. n -> S]
  OBVIOUS
<1> HIDE DEF n
<1>2. u \in Seq(S) /\ Len(u) = n
  BY <1>1, IsSeq
<1>3. Len(u) = 0 => u = <<>>
  BY <1>2, EmptySeq
<1>4. QED
  BY <1>2, <1>3 DEF n

\* k_vsprintf writes the text of a call that it is meant for.
THEOREM VsprintfIs ==
    ASSUME NEW c, NEW chars, IsCall(c, chars), AllSupported(c)
    PROVE  Formatted(c) = TextOf(c) /\ TextOf(c) \in Seq(Printable(chars))
<1> DEFINE N == Len(c)
           F == Formats(chars)
           V == Values(chars)
           P == Printable(chars)
           w == [k \in DOMAIN c |-> Written(c[k])]
           a == [k \in DOMAIN c |-> Passed(c[k])]
           t == [k \in DOMAIN c |-> CText(c[k])]
           s == FlattenSeq(w)
           list == FlattenSeq(a)
<1>1. N \in Nat /\ DOMAIN c = 1 .. N /\ \A k \in 1 .. N : IsPiece(c[k], chars) /\ Supported(c[k])
  BY DEF IsCall, AllSupported
<1>2. \A k \in 1 .. N : /\ w[k] = Written(c[k]) /\ a[k] = Passed(c[k]) /\ t[k] = CText(c[k])
                        /\ w[k] \in Seq(F) /\ a[k] \in Seq(V) /\ t[k] \in Seq(P)
                        /\ Len(w[k]) \in Nat \ {0}
  BY <1>1, PieceTypes
<1>3. Formatted(c) = k_vsprintf(s, list) /\ TextOf(c) = FlattenSeq(t)
  BY DEF Formatted, FormatOf, ArgumentsOf, TextOf
<1>4. /\ DOMAIN w = 1 .. N /\ w = [k \in DOMAIN c |-> w[k]]
      /\ DOMAIN a = 1 .. N /\ a = [k \in DOMAIN c |-> a[k]]
      /\ DOMAIN t = 1 .. N /\ t = [k \in DOMAIN c |-> t[k]]
  BY <1>1
<1> HIDE DEF F, V, P, w, a, t
<1>5. /\ Len(w) = N /\ (Len(w) = 0 => w = <<>>)
      /\ Len(a) = N /\ (Len(a) = 0 => a = <<>>)
      /\ Len(t) = N /\ (Len(t) = 0 => t = <<>>)
  <2> DEFINE SF == Seq(F)
             SV == Seq(V)
             SP == Seq(P)
  <2>1. \A k \in DOMAIN c : w[k] \in SF /\ a[k] \in SV /\ t[k] \in SP
    BY <1>1, <1>2
  <2> HIDE DEF SF, SV, SP
  <2>2. Len(w) = N /\ (Len(w) = 0 => w = <<>>)
    BY <1>1, <1>4, <2>1, MapIs
  <2>3. Len(a) = N /\ (Len(a) = 0 => a = <<>>)
    BY <1>1, <1>4, <2>1, MapIs
  <2>4. Len(t) = N /\ (Len(t) = 0 => t = <<>>)
    BY <1>1, <1>4, <2>1, MapIs
  <2>5. QED
    BY <2>2, <2>3, <2>4
<1> HIDE DEF N
<1>6. PICK fw \in [0 .. N -> Seq(F)] : JoinsTo(fw, w)
  BY <1>1, <1>2, <1>5, JoinsToExist
<1>7. PICK fa \in [0 .. N -> Seq(V)] : JoinsTo(fa, a)
  BY <1>1, <1>2, <1>5, JoinsToExist
<1>8. PICK ft \in [0 .. N -> Seq(P)] : JoinsTo(ft, t)
  BY <1>1, <1>2, <1>5, JoinsToExist
<1> HIDE DEF s, list
<1>9. /\ fw[0] = <<>> /\ fa[0] = <<>> /\ ft[0] = <<>>
      /\ fw[N] = s /\ ft[N] = FlattenSeq(t)
  BY <1>5, <1>6, <1>7, <1>8 DEF JoinsTo, s
<1>10. \A n \in 0 .. N : /\ fw[n] \in Seq(F) /\ fa[n] \in Seq(V) /\ ft[n] \in Seq(P)
                         /\ Len(fw[n]) \in Nat /\ Len(fa[n]) \in Nat
  <2>1. \A n \in 0 .. N : fw[n] \in Seq(F) /\ fa[n] \in Seq(V) /\ ft[n] \in Seq(P)
    BY <1>6, <1>7, <1>8
  <2>2. QED
    BY <2>1, LenProperties
<1>11. Len(s) \in Nat /\ DOMAIN s = 1 .. Len(s)
  <2>1. s \in Seq(F)
    BY <1>1, <1>9, <1>10
  <2>2. QED
    BY <2>1, LenProperties
<1>12. \A n \in 1 .. N : /\ fw[n] = fw[n - 1] \o w[n] /\ Len(fw[n - 1]) + Len(w[n]) <= Len(s)
                         /\ \A k \in 1 .. Len(w[n]) : s[Len(fw[n - 1]) + k] = w[n][k]
  <2>1. TAKE n \in 1 .. N
  <2>2. JoinsToIn(fw, w, F) /\ n \in 1 .. Len(w)
    BY <1>1, <1>2, <1>5, <1>6 DEF JoinsToIn
  <2>3. Placed(fw, w, n)
    BY <2>2, JoinsPlace
  <2>4. QED
    BY <2>3 DEF s, Placed
<1>13. \A n \in 1 .. N : /\ fa[n] = fa[n - 1] \o a[n] /\ Len(fa[n - 1]) + Len(a[n]) <= Len(list)
                         /\ \A k \in 1 .. Len(a[n]) : list[Len(fa[n - 1]) + k] = a[n][k]
  <2>1. TAKE n \in 1 .. N
  <2>2. JoinsToIn(fa, a, V) /\ n \in 1 .. Len(a)
    BY <1>1, <1>2, <1>5, <1>7 DEF JoinsToIn
  <2>3. Placed(fa, a, n)
    BY <2>2, JoinsPlace
  <2>4. QED
    BY <2>3 DEF list, Placed
<1>14. \A n \in 1 .. N : ft[n] = ft[n - 1] \o t[n]
  BY <1>5, <1>8 DEF JoinsTo
<1> DEFINE State(n) == After(Len(fw[n]) + 1, Len(fa[n]), ft[n])
<1>15. ASSUME NEW n \in 1 .. N PROVE Turn(s, list, State(n - 1)) = State(n)
  <2> DEFINE p == c[n]
             i == Len(fw[n - 1]) + 1
             taken == Len(fa[n - 1])
             x == ft[n - 1]
  <2>1. n - 1 \in 0 .. N /\ i \in Nat \ {0} /\ taken \in Nat /\ x \in Seq(P)
        /\ i - 1 = Len(fw[n - 1]) /\ (taken + 1) - 1 = taken
    BY <1>1, <1>10
  <2>2. IsPiece(p, chars) /\ Supported(p) /\ w[n] = Written(p) /\ a[n] = Passed(p) /\ t[n] = CText(p)
    BY <1>1, <1>2
  <2>3. Stands(Written(p), s, i)
    BY <1>12, <2>1, <2>2 DEF Stands
  <2>4. Stands(Passed(p), list, taken + 1)
    <3>1. /\ Len(fa[n - 1]) + Len(a[n]) <= Len(list)
          /\ \A k \in 1 .. Len(a[n]) : list[Len(fa[n - 1]) + k] = a[n][k]
      BY <1>13
    <3>2. taken + 1 \in Nat \ {0} /\ (taken + 1) - 1 = taken
      BY <2>1
    <3>3. a[n] = Passed(p)
      BY <2>2
    <3>4. taken + Len(Passed(p)) <= Len(list)
          /\ \A k \in 1 .. Len(Passed(p)) : list[taken + k] = Passed(p)[k]
      BY <3>1, <3>3
    <3> HIDE DEF taken, p
    <3>5. QED
      BY <3>2, <3>4 DEF Stands
  <2>5. Len(fw[n]) = Len(fw[n - 1]) + Len(Written(p)) /\ Len(fa[n]) = taken + Len(Passed(p))
    <3>1. fw[n - 1] \in Seq(F) /\ w[n] \in Seq(F) /\ fa[n - 1] \in Seq(V) /\ a[n] \in Seq(V)
      BY <1>2, <1>10, <2>1
    <3>2. Len(fw[n - 1] \o w[n]) = Len(fw[n - 1]) + Len(w[n])
      BY <3>1, ConcatProperties
    <3>3. Len(fa[n - 1] \o a[n]) = Len(fa[n - 1]) + Len(a[n])
      BY <3>1, ConcatProperties
    <3>4. QED
      BY <1>12, <1>13, <2>2, <3>2, <3>3
  <2>6. ft[n] = x \o CText(p)
    BY <1>14, <2>2
  <2> HIDE DEF p, i, taken, x
  <2>7. Turn(s, list, After(i, taken, x)) =
          After(i + Len(Written(p)), taken + Len(Passed(p)), x \o CText(p))
    BY <1>11, <2>1, <2>2, <2>3, <2>4, TurnPiece DEF P
  <2>8. i + Len(Written(p)) = Len(fw[n]) + 1
    <3>1. Len(Written(p)) \in Nat
      BY <1>2, <2>2
    <3>2. QED
      BY <2>1, <2>5, <3>1 DEF i
  <2>9. QED
    BY <2>5, <2>6, <2>7, <2>8 DEF i, taken, x
<1>16. Turn(s, list, State(N)) = State(N)
  <2>1. Len(fw[N]) + 1 > Len(s)
    BY <1>9, <1>11
  <2>2. QED
    BY <2>1 DEF Turn, After
<1>17. N <= Len(s)
  <2> DEFINE T == {n \in Nat : n <= N => n <= Len(fw[n])}
  <2>1. 0 \in T
    BY <1>1, <1>10
  <2>2. ASSUME NEW n \in T PROVE n + 1 \in T
    <3>1. CASE n + 1 <= N
      <4>1. n \in Nat /\ n + 1 \in 1 .. N /\ (n + 1) - 1 = n /\ n <= Len(fw[n]) /\ n \in 0 .. N
        BY <1>1, <3>1
      <4>2. fw[n + 1] = fw[n] \o w[n + 1] /\ fw[n] \in Seq(F) /\ w[n + 1] \in Seq(F)
            /\ Len(w[n + 1]) \in Nat \ {0} /\ Len(fw[n]) \in Nat
        BY <1>2, <1>10, <1>12, <4>1
      <4>3. Len(fw[n] \o w[n + 1]) = Len(fw[n]) + Len(w[n + 1])
        BY <4>2, ConcatProperties
      <4>4. Len(fw[n + 1]) = Len(fw[n]) + Len(w[n + 1])
        BY <4>2, <4>3
      <4>5. n + 1 <= Len(fw[n + 1])
        <5> DEFINE x == Len(fw[n])
                   y == Len(w[n + 1])
                   z == Len(fw[n + 1])
        <5>1. x \in Nat /\ y \in Nat \ {0} /\ z = x + y /\ n <= x /\ n \in Nat
          BY <4>1, <4>2, <4>4
        <5> HIDE DEF x, y, z
        <5>2. n + 1 <= z
          BY <5>1
        <5>3. QED
          BY <5>2 DEF z
      <4>6. QED
        BY <4>1, <4>5
    <3>2. CASE ~(n + 1 <= N)
      BY <3>2
    <3>3. QED
      BY <3>1, <3>2
  <2> HIDE DEF T
  <2>3. T = Nat
    BY <2>1, <2>2, AllNumbers DEF T
  <2>4. N \in T
    BY <1>1, <2>3
  <2>5. QED
    BY <1>1, <1>9, <2>4 DEF T
<1> DEFINE M == Len(s)
           after == CHOOSE f : f = [n \in 0 .. M |->
                      IF n = 0 THEN [at |-> 1, taken |-> 0, text |-> <<>>] ELSE Turn(s, list, f[n - 1])]
           g == [n \in 0 .. M |-> IF n <= N THEN State(n) ELSE State(N)]
<1>18. k_vsprintf(s, list) = after[M].text
  BY DEF k_vsprintf, Turns
<1>19. State(0) = [at |-> 1, taken |-> 0, text |-> <<>>]
  <2>1. Len(fw[0]) = 0 /\ Len(fa[0]) = 0
    BY <1>9, EmptySeq
  <2>2. QED
    BY <1>9, <2>1 DEF After
<1> HIDE DEF State
<1>20. ASSUME NEW n \in 0 .. M
       PROVE  g[n] = IF n = 0 THEN [at |-> 1, taken |-> 0, text |-> <<>>] ELSE Turn(s, list, g[n - 1])
  <2>1. CASE n = 0
    BY <1>1, <1>19, <2>1
  <2>2. CASE n # 0 /\ n <= N
    <3>1. n \in 1 .. N /\ n - 1 \in 0 .. M /\ n - 1 <= N
      BY <1>1, <1>11, <2>2
    <3>2. g[n] = State(n) /\ g[n - 1] = State(n - 1)
      BY <2>2, <3>1
    <3>3. QED
      BY <1>15, <2>2, <3>1, <3>2
  <2>3. CASE n # 0 /\ ~(n <= N)
    <3>1. n - 1 \in 0 .. M
      BY <1>11, <2>3
    <3>2. g[n] = State(N) /\ g[n - 1] = State(N)
      <4>1. n - 1 <= N => n - 1 = N
        BY <1>1, <1>11, <2>3
      <4>2. QED
        BY <2>3, <3>1, <4>1
    <3>3. QED
      BY <1>16, <2>3, <3>2
  <2>4. QED
    BY <2>1, <2>2, <2>3
<1>21. g = [n \in 0 .. M |-> g[n]]
  OBVIOUS
<1>22. g[M] = State(N)
  <2>1. M \in 0 .. M /\ (M <= N => M = N)
    <3>1. M \in Nat /\ N \in Nat /\ N <= M
      BY <1>1, <1>11, <1>17
    <3> HIDE DEF M
    <3>2. QED
      BY <3>1
  <2>2. QED
    BY <2>1
<1> HIDE DEF g
<1>23. g = [n \in 0 .. M |->
              IF n = 0 THEN [at |-> 1, taken |-> 0, text |-> <<>>] ELSE Turn(s, list, g[n - 1])]
  BY <1>20, <1>21
<1>24. after = [n \in 0 .. M |->
              IF n = 0 THEN [at |-> 1, taken |-> 0, text |-> <<>>] ELSE Turn(s, list, after[n - 1])]
  BY <1>23
<1> HIDE DEF after
<1>25. after[M] = g[M]
  <2> DEFINE T == {n \in Nat : n <= M => after[n] = g[n]}
  <2>1. 0 \in T
    <3>1. 0 \in 0 .. M
      BY <1>11
    <3>2. after[0] = [at |-> 1, taken |-> 0, text |-> <<>>]
      BY <1>24, <3>1
    <3>3. g[0] = [at |-> 1, taken |-> 0, text |-> <<>>]
      BY <1>23, <3>1
    <3>4. QED
      BY <3>2, <3>3
  <2>2. ASSUME NEW n \in T PROVE n + 1 \in T
    <3>1. CASE n + 1 <= M
      <4>1. n \in Nat /\ after[n] = g[n] /\ n + 1 \in 0 .. M /\ n + 1 # 0 /\ (n + 1) - 1 = n
        BY <1>11, <3>1
      <4>2. after[n + 1] = Turn(s, list, after[n])
        BY <1>24, <4>1
      <4>3. g[n + 1] = Turn(s, list, g[n])
        BY <1>23, <4>1
      <4>4. QED
        BY <4>1, <4>2, <4>3
    <3>2. CASE ~(n + 1 <= M)
      BY <3>2
    <3>3. QED
      BY <3>1, <3>2
  <2> HIDE DEF T
  <2>3. T = Nat
    BY <2>1, <2>2, AllNumbers DEF T
  <2>4. M \in T
    BY <1>11, <2>3
  <2>5. QED
    BY <1>11, <2>4 DEF T
<1>26. State(N).text = ft[N] /\ ft[N] \in Seq(P)
  BY <1>1, <1>10 DEF State, After
<1>27. QED
  BY <1>3, <1>9, <1>18, <1>22, <1>25, <1>26 DEF P

-----------------------------------------------------------------------------
\* The log stays in its buffers: types, and how far each loop can get

\* The characters that the log prints; "NUL" is none of them.
Shown == Printable(Alphabet) \cup {"[", "]", "{", "}", "\n"}
Phases == {"text", "head", "copy", "tail", "send"}
Buffers == {"info", "line", "group"}
Kept == Shown \cup {"NUL"}
Formed == Alphabet \cup {"NUL"}
StoredIn(places) == [places -> Kept]
BuffersOK(bufs) == DOMAIN bufs = Buffers /\ \A b \in Buffers : bufs[b] \in StoredIn(Places(b))
Buf == logBuf[BufferOf(call.kind)]

\* The places of the call's buffer in which its text ends.
SizeOf(b) == IF b = "group" THEN GroupSize ELSE LogSize
Room == IF long THEN SizeOf(BufferOf(call.kind)) ELSE TextSize + 1

\* How much of the other buffer a line may copy if it has place for its text; the
\* lines, and those that have.
Copied(line) == IF line.copies THEN TextSize ELSE 0
AllLines == [head : Seq(Shown), copies : BOOLEAN, tail : Seq(Shown)]
FitLines == {line \in AllLines : Roomy(line)}

LogTypeOK ==
    /\ group_level \in 0 .. MaxGroups /\ line_length \in Nat
    /\ phase \in Phases \cup {"idle", "sprintf", "lost"}
    /\ disturbed \in BOOLEAN /\ long \in BOOLEAN
    /\ phase = "lost" => long
    /\ phase \in Phases => /\ call \in Calls
                           /\ call.kind = "group_begin" => group_level < MaxGroups
                           /\ call.kind = "group_end" /\ phase = "text" => group_level > 0
                           /\ lines \in Seq(AllLines) /\ lines # <<>> /\ Len(lines) <= 3
                           /\ text \in Seq(Kept)
                           /\ ~long => lines \in Seq(FitLines) /\ Len(text) <= TextSize
    /\ from \in Nat \ {0} /\ to \in Nat \ {0}
    /\ BuffersOK(logBuf) /\ serialBuf \in StoredIn(SerialPlaces)

\* The zero that ends what a loop reads, from a place on.
Zero(buf, i, last) == \E k \in i .. last : buf[k] = "NUL"
Bounds ==
    /\ phase = "text" => from <= Len(text) + 1 /\ to = 1
    /\ phase = "head" => from <= Len(Head(lines).head) + 1 /\ to = from
    /\ phase = "copy" => /\ Head(lines).copies /\ to = Len(Head(lines).head) + from
                         /\ Zero(Buf, from, Room)
    /\ phase = "tail" =>
          /\ from <= Len(Head(lines).tail) + 1
          /\ ~long => to <= Len(Head(lines).head) + Copied(Head(lines)) + from
    /\ phase = "send" => Zero(serialBuf, from, SerialSize)
    /\ phase \in Phases \ {"text"} => Zero(Buf, 1, Room)

-----------------------------------------------------------------------------

\* The alphabet and the frames of the lines are printed, the zero is not.
LEMMA AlphabetShown ==
    /\ Alphabet \subseteq Shown /\ Printable(Alphabet) \subseteq Shown /\ "NUL" \notin Shown
    /\ {"[", "]", "{", "}", "\n", " "} \subseteq Shown
BY LogAssumption DEF Shown, Printable, DigitChars

\* The text of a call of the kernel or of a handler, and what it leaves behind.
LEMMA TextIs ==
    ASSUME NEW c \in Calls \cup HandlerCalls
    PROVE  /\ Formatted(c.text) \in Seq(Formed)
           /\ Formatted(c.text) \in Seq(Kept) /\ Len(Formatted(c.text)) \in Nat
           /\ LeftBehind(c.text) \in Seq(Kept)
           /\ c.cat \in Seq(Shown)
           /\ AllSupported(c.text) => /\ Formatted(c.text) = TextOf(c.text)
                                      /\ TextOf(c.text) \in Seq(Shown)
<1> DEFINE u == Formatted(c.text)
           v == LeftBehind(c.text)
<1>1. c.cat \in Seq(Alphabet) /\ IsCall(c.text, Alphabet) /\ u \in Seq(Formed) /\ v \in Seq(Formed)
  BY LogAssumption DEF Formed
<1>2. AllSupported(c.text) => u = TextOf(c.text) /\ TextOf(c.text) \in Seq(Printable(Alphabet))
  BY <1>1, VsprintfIs
<1>3. Formed \subseteq Kept
  BY AlphabetShown DEF Formed, Kept
<1> HIDE DEF u, v
<1>4. u \in Seq(Kept) /\ v \in Seq(Kept) /\ Len(u) \in Nat
  BY <1>1, <1>3, SeqMonotonic, LenProperties
<1>5. c.cat \in Seq(Shown) /\ (AllSupported(c.text) => TextOf(c.text) \in Seq(Shown))
  BY <1>1, <1>2, AlphabetShown, SeqMonotonic
<1>6. QED
  BY <1>1, <1>2, <1>4, <1>5 DEF u, v

\* The digits that a handler puts into a text change neither its length nor its kind.
LEMMA OverwrittenIs ==
    ASSUME NEW S, NEW t \in Seq(S), NEW left \in Seq(S), NEW last, NEW k
    PROVE  Overwritten(t, last, k, left) \in Seq(S) /\ Len(Overwritten(t, last, k, left)) = Len(t)
<1> DEFINE n == Len(t)
           L == Len(left)
           u == Overwritten(t, last, k, left)
<1>1. /\ n \in Nat /\ DOMAIN t = 1 .. n /\ \A p \in 1 .. n : t[p] \in S
      /\ L \in Nat /\ \A p \in 1 .. L : left[p] \in S
  BY LenProperties, ElementOfSeq
<1> HIDE DEF n, L
<1>2. u = [p \in 1 .. n |-> IF last - p \in 0 .. k - 1 /\ last - p < L
                             THEN left[last - p + 1] ELSE t[p]]
  BY <1>1 DEF Overwritten, L
<1>3. ASSUME NEW q, q \in 0 .. k - 1, q < L PROVE left[q + 1] \in S
  <2>1. q \in Int /\ 0 <= q
    BY <1>3
  <2>2. q + 1 \in 1 .. L
    BY <1>1, <1>3, <2>1
  <2>3. QED
    BY <1>1, <2>2
<1>4. \A p \in 1 .. n : (IF last - p \in 0 .. k - 1 /\ last - p < L
                         THEN left[last - p + 1] ELSE t[p]) \in S
  <2>1. TAKE p \in 1 .. n
  <2>2. CASE last - p \in 0 .. k - 1 /\ last - p < L
    <3>1. left[last - p + 1] \in S
      BY <1>3, <2>2
    <3>2. QED
      BY <2>2, <3>1
  <2>3. CASE ~(last - p \in 0 .. k - 1 /\ last - p < L)
    BY <1>1, <2>3
  <2>4. QED
    BY <2>2, <2>3
<1> HIDE DEF u
<1>5. u \in [1 .. n -> S]
  BY <1>2, <1>4
<1>6. QED
  BY <1>1, <1>5, IsSeq DEF n, u

\* So what a handler makes of the text of the call is a text of the same length.
LEMMA GarbledIs ==
    ASSUME NEW S, text \in Seq(S), NEW h, LeftBehind(h.text) \in Seq(S),
           NEW t \in {text} \cup Formatting(h)
    PROVE  t \in Seq(S) /\ Len(t) = Len(text)
<1> DEFINE left == LeftBehind(h.text)
           garbled(begins) == Garbled(call.text, text, begins, left)
<1>1. CASE t = text
  BY <1>1
<1>2. CASE t \in Formatting(h)
  <2>1. PICK begins : t \in garbled(begins)
    BY <1>2 DEF Formatting
  <2> DEFINE s == FormatOf(call.text)
             list == ArgumentsOf(call.text)
             after == Turns(s, list)
             places == { m \in 1 .. Len(s) : Len(after[m - 1].text) \in begins }
             made(n) == { Overwritten(text, Len(after[n].text), k, left) :
                             k \in 1 .. Len(DigitsOf(s, list, after, n)) }
  <2>2. garbled(begins) = UNION { made(n) : n \in places }
    BY DEF Garbled
  <2> HIDE DEF garbled, places, made
  <2>3. PICK n \in places : t \in made(n)
    BY <2>1, <2>2
  <2>4. PICK k \in 1 .. Len(DigitsOf(s, list, after, n)) :
               t = Overwritten(text, Len(after[n].text), k, left)
    BY <2>3 DEF made
  <2> HIDE DEF left
  <2>5. QED
    BY <2>4, OverwrittenIs DEF left
<1>3. QED
  BY <1>1, <1>2

\* A call of the kernel has a buffer.
LEMMA KindIs ==
    ASSUME NEW c \in Calls
    PROVE  c.kind \in Kinds /\ BufferOf(c.kind) \in Buffers
BY LogAssumption DEF Kinds, BufferOf, Buffers

\* Short sequences of characters.
LEMMA Tuples ==
    ASSUME NEW S, NEW a \in S, NEW b \in S, NEW c \in S, NEW d \in S
    PROVE  /\ <<a>> \in Seq(S) /\ Len(<<a>>) = 1 /\ <<a>>[1] = a
           /\ <<a, b>> \in Seq(S) /\ Len(<<a, b>>) = 2
           /\ <<a, b, c>> \in Seq(S) /\ Len(<<a, b, c>>) = 3
           /\ <<a, b, c, d>> \in Seq(S) /\ Len(<<a, b, c, d>>) = 4
OBVIOUS

\* The beginnings of the lines are texts.
LEMMA FrameIs ==
    ASSUME NEW level \in Nat, NEW cat \in Seq(Shown)
    PROVE  /\ Indent(level) \in Seq(Shown) /\ Bracketed(cat) \in Seq(Shown)
           /\ Indent(level) \o Bracketed(cat) \in Seq(Shown)
           /\ Indent(level) \o <<"[">> \in Seq(Shown)
           /\ Indent(level) \o <<"}", " ", "[">> \in Seq(Shown)
<1> DEFINE S == Shown
<1>1. {"[", "]", "{", "}", "\n", " "} \subseteq S
  BY AlphabetShown
<1> HIDE DEF S
<1>2. <<"[">> \in Seq(S) /\ <<"]">> \in Seq(S) /\ <<"}", " ", "[">> \in Seq(S) /\ " " \in S
  <2>1. "[" \in S /\ "]" \in S /\ "}" \in S /\ " " \in S
    BY <1>1
  <2>2. <<"[">> \in Seq(S) /\ <<"]">> \in Seq(S)
    BY <2>1, Tuples
  <2>3. <<"}", " ", "[">> \in Seq(S)
    BY <2>1, Tuples
  <2>4. QED
    BY <2>1, <2>2, <2>3
<1>3. Indent(level) \in Seq(S)
  <2>1. 4 * level \in Int
    OBVIOUS
  <2>2. QED
    BY <1>2, <2>1, TimesSeq DEF Indent
<1>4. cat \in Seq(S)
  BY DEF S
<1>5. Bracketed(cat) \in Seq(S)
  <2>1. <<"[">> \o cat \in Seq(S)
    BY <1>2, <1>4, ConcatProperties
  <2>2. (<<"[">> \o cat) \o <<"]">> \in Seq(S)
    BY <1>2, <2>1, ConcatProperties
  <2>3. QED
    BY <2>2 DEF Bracketed
<1>6. Indent(level) \o Bracketed(cat) \in Seq(S)
  BY <1>3, <1>5, ConcatProperties
<1>7. Indent(level) \o <<"[">> \in Seq(S) /\ Indent(level) \o <<"}", " ", "[">> \in Seq(S)
  BY <1>2, <1>3, ConcatProperties
<1>8. QED
  BY <1>3, <1>5, <1>6, <1>7 DEF S

\* The lines of a call, one appended to another, are a tuple.
LEMMA Joined ==
    ASSUME NEW x, NEW y, NEW z
    PROVE  (<<x>> \o <<y>>) \o <<z>> = <<x, y, z>> /\ (<<>> \o <<y>>) \o <<z>> = <<y, z>>
<1> DEFINE S == {x, y, z}
           xy == <<x>> \o <<y>>
<1>1. x \in S /\ y \in S /\ z \in S
  OBVIOUS
<1> HIDE DEF S
<1>2. <<x>> \in Seq(S) /\ <<y>> \in Seq(S) /\ <<z>> \in Seq(S) /\ Len(<<x>>) = 1 /\ Len(<<y>>) = 1
      /\ Len(<<z>>) = 1
  BY <1>1
<1>3. xy \in Seq(S) /\ Len(xy) = 2 /\ xy[1] = x /\ xy[2] = y
  BY <1>2
<1> HIDE DEF xy
<1>4. xy \o <<z>> \in Seq(S) /\ Len(xy \o <<z>>) = 3
      /\ \A k \in 1 .. 3 : (xy \o <<z>>)[k] = <<x, y, z>>[k]
  <2> DEFINE last == <<z>>
             u == xy \o last
  <2>0. xy \in Seq(S) /\ last \in Seq(S) /\ Len(last) = 1 /\ last[1] = z
    BY <1>2, <1>3
  <2> HIDE DEF last
  <2>1. /\ u \in Seq(S) /\ Len(u) = Len(xy) + Len(last) /\ \A k \in 1 .. Len(xy) : u[k] = xy[k]
        /\ u[3] = last[1]
    <3>1. u \in Seq(S) /\ Len(u) = Len(xy) + Len(last)
      BY <2>0, Concat
    <3>2. \A k \in 1 .. Len(xy) : u[k] = xy[k]
      BY <2>0, Concat
    <3>3. \A i \in 1 .. Len(xy) + Len(last) : u[i] = IF i <= Len(xy) THEN xy[i] ELSE last[i - Len(xy)]
      BY <2>0, ConcatProperties
    <3> HIDE DEF u
    <3>4. 3 \in 1 .. Len(xy) + Len(last) /\ ~(3 <= Len(xy)) /\ 3 - Len(xy) = 1
      BY <1>3, <2>0
    <3>5. u[3] = last[1]
      BY <3>3, <3>4
    <3>6. QED
      BY <3>1, <3>2, <3>5
  <2> HIDE DEF u
  <2>2. Len(u) = 3 /\ u[1] = x /\ u[2] = y
    BY <1>3, <2>0, <2>1
  <2>3. u[3] = z
    BY <2>0, <2>1
  <2>4. ASSUME NEW k \in 1 .. 3 PROVE u[k] = <<x, y, z>>[k]
    <3>1. k = 1 \/ k = 2 \/ k = 3
      OBVIOUS
    <3>2. QED
      BY <2>2, <2>3, <3>1
  <2>5. QED
    BY <2>1, <2>2, <2>4 DEF u, last
<1>5. <<x, y, z>> \in Seq(S) /\ Len(<<x, y, z>>) = 3
  BY <1>1
<1>6. xy \o <<z>> = <<x, y, z>>
  <2> DEFINE u == <<x, y, z>>
             v == xy \o <<z>>
  <2>1. u \in Seq(S) /\ v \in Seq(S) /\ Len(v) = Len(u) /\ \A k \in 1 .. Len(v) : v[k] = u[k]
    BY <1>4, <1>5
  <2> HIDE DEF u, v
  <2>2. v = u
    BY <2>1, SeqEqual
  <2>3. QED
    BY <2>2 DEF u, v
<1>7. (<<>> \o <<y>>) \o <<z>> = <<y, z>>
  <2>1. <<>> \o <<y>> = <<y>>
    BY <1>2, ConcatEmptySeq
  <2> DEFINE u == <<y, z>>
             v == <<y>> \o <<z>>
  <2>2. u \in Seq(S) /\ v \in Seq(S) /\ Len(v) = Len(u) /\ \A k \in 1 .. Len(v) : v[k] = u[k]
    BY <1>1, <1>2
  <2> HIDE DEF u, v
  <2>3. v = u
    BY <2>2, SeqEqual
  <2>4. QED
    BY <2>1, <2>3 DEF u, v
<1>8. QED
  BY <1>6, <1>7 DEF xy

\* The lines of each kind of call.
NewLine == Line(<<"\n">>, FALSE, <<>>)

\* The lines of each kind of call, without the cases of LinesFor.
LEMMA LinesOf ==
    ASSUME NEW c \in Calls, NEW level \in Nat, NEW length \in Nat
    PROVE  /\ c.kind = "info" => LinesFor(c, level, length) =
                <<Line(Indent(level) \o Bracketed(c.cat), TRUE, <<"\n">>)>>
           /\ c.kind \in {"group_begin", "group_end"} => LinesFor(c, level, length) =
                <<Line(Indent(level) \o <<"[">>, TRUE, <<"]", "\n">>)>>
           /\ c.kind = "line_begin" => LinesFor(c, level, length) =
                <<Line(Indent(level) \o <<"[">>, TRUE, <<"]", " ", "{", "\n">>)>>
           /\ c.kind = "line_end" => LinesFor(c, level, length) =
                <<NewLine, Line(Indent(level) \o <<"}", " ", "[">>, TRUE, <<"]", "\n">>)>>
           /\ c.kind = "line" /\ length >= LineLimit => LinesFor(c, level, length) =
                <<NewLine, Line(Indent(level + 1), FALSE, <<>>), Line(<<>>, TRUE, <<" ">>)>>
           /\ c.kind = "line" /\ ~(length >= LineLimit) /\ length = 0 => LinesFor(c, level, length) =
                <<Line(Indent(level + 1), FALSE, <<>>), Line(<<>>, TRUE, <<" ">>)>>
           /\ c.kind = "line" /\ ~(length >= LineLimit) /\ length # 0 => LinesFor(c, level, length) =
                <<Line(<<>>, TRUE, <<" ">>)>>
<1>1. CASE c.kind = "info"
  BY <1>1 DEF LinesFor
<1>2. CASE c.kind \in {"group_begin", "group_end"}
  BY <1>2 DEF LinesFor
<1>3. CASE c.kind = "line_begin"
  BY <1>3 DEF LinesFor
<1>4. CASE c.kind = "line_end"
  BY <1>4 DEF LinesFor, NewLine
<1>5. CASE c.kind = "line"
  <2> DEFINE new == NewLine
             indent == Line(Indent(level + 1), FALSE, <<>>)
             body == Line(<<>>, TRUE, <<" ">>)
  <2>1. LinesFor(c, level, length) =
          (IF length >= LineLimit THEN <<new>> ELSE <<>>)
          \o (IF length >= LineLimit \/ length = 0 THEN <<indent>> ELSE <<>>) \o <<body>>
    BY <1>5 DEF LinesFor, NewLine
  <2> HIDE DEF new, indent, body
  <2>2. CASE length >= LineLimit
    <3>1. LinesFor(c, level, length) = (<<new>> \o <<indent>>) \o <<body>>
      BY <2>1, <2>2
    <3>2. LinesFor(c, level, length) = <<new, indent, body>>
      BY <3>1, Joined
    <3>3. QED
      BY <1>5, <2>2, <3>2 DEF new, indent, body
  <2>3. CASE ~(length >= LineLimit) /\ length = 0
    <3>1. LinesFor(c, level, length) = (<<>> \o <<indent>>) \o <<body>>
      BY <2>1, <2>3
    <3>2. LinesFor(c, level, length) = <<indent, body>>
      BY <3>1, Joined
    <3>3. QED
      BY <1>5, <2>3, <3>2 DEF indent, body
  <2>4. CASE ~(length >= LineLimit) /\ length # 0
    <3>1. LinesFor(c, level, length) = (<<>> \o <<>>) \o <<body>>
      BY <2>1, <2>4
    <3>2. LinesFor(c, level, length) = <<body>>
      BY <3>1
    <3>3. QED
      BY <1>5, <2>4, <3>2 DEF body
  <2>5. QED
    BY <2>2, <2>3, <2>4
<1>6. QED
  BY <1>1, <1>2, <1>3, <1>4, <1>5, KindIs DEF Kinds

\* A line is one
LEMMA LineIn ==
    ASSUME NEW h \in Seq(Shown), NEW cp \in BOOLEAN, NEW t \in Seq(Shown)
    PROVE  Line(h, cp, t) \in AllLines
BY DEF Line, AllLines

\* and so are those of a call of the kernel, of which there are up to three.
LEMMA LinesIn ==
    ASSUME NEW c \in Calls, NEW level \in 0 .. MaxGroups, NEW length \in Nat
    PROVE  /\ LinesFor(c, level, length) \in Seq(AllLines) /\ LinesFor(c, level, length) # <<>>
           /\ Len(LinesFor(c, level, length)) <= 3
<1> DEFINE S == Shown
           ls == LinesFor(c, level, length)
           nl == <<"\n">>
           bracket == Indent(level) \o <<"[">>
           brace == Indent(level) \o <<"}", " ", "[">>
           category == Indent(level) \o Bracketed(c.cat)
           indent == Indent(level + 1)
           none == <<>>
           blank == <<" ">>
           close == <<"]", "\n">>
           open == <<"]", " ", "{", "\n">>
<1>0. Len(<<>>) = 0
  OBVIOUS
<1>1. level \in Nat /\ level + 1 \in Nat /\ LineLimit \in Nat
  <2>1. MaxGroups \in Nat /\ LineLimit \in Nat
    BY LogAssumption
  <2>2. QED
    BY <2>1
<1>2. c.cat \in Seq(S)
  BY TextIs
<1>3. bracket \in Seq(S) /\ brace \in Seq(S) /\ category \in Seq(S) /\ indent \in Seq(S)
  BY <1>1, <1>2, FrameIs
<1>4. none \in Seq(S) /\ nl \in Seq(S) /\ blank \in Seq(S) /\ close \in Seq(S) /\ open \in Seq(S)
  <2>1. "]" \in S /\ " " \in S /\ "{" \in S /\ "\n" \in S
    BY AlphabetShown
  <2> HIDE DEF S
  <2>2. none \in Seq(S)
    BY EmptySeq
  <2>3. nl \in Seq(S) /\ blank \in Seq(S)
    BY <2>1, Tuples
  <2>4. close \in Seq(S) /\ open \in Seq(S)
    BY <2>1, Tuples
  <2>5. QED
    BY <2>2, <2>3, <2>4
<1>6. c.kind \in Kinds
  BY KindIs
<1>8. /\ c.kind = "info" => ls = <<Line(category, TRUE, nl)>>
      /\ c.kind \in {"group_begin", "group_end"} => ls = <<Line(bracket, TRUE, close)>>
      /\ c.kind = "line_begin" => ls = <<Line(bracket, TRUE, open)>>
      /\ c.kind = "line_end" => ls = <<NewLine, Line(brace, TRUE, close)>>
      /\ c.kind = "line" =>
            \/ ls = <<NewLine, Line(indent, FALSE, none), Line(none, TRUE, blank)>>
            \/ ls = <<Line(indent, FALSE, none), Line(none, TRUE, blank)>>
            \/ ls = <<Line(none, TRUE, blank)>>
  <2>1. CASE c.kind = "info"
    <3>1. ls = <<Line(category, TRUE, nl)>>
      BY <1>1, <2>1, LinesOf
    <3>2. QED
      BY <2>1, <3>1
  <2>2. CASE c.kind \in {"group_begin", "group_end"}
    <3>1. ls = <<Line(bracket, TRUE, close)>>
      BY <1>1, <2>2, LinesOf
    <3>2. QED
      BY <2>2, <3>1
  <2>3. CASE c.kind = "line_begin"
    <3>1. ls = <<Line(bracket, TRUE, open)>>
      BY <1>1, <2>3, LinesOf
    <3>2. QED
      BY <2>3, <3>1
  <2>4. CASE c.kind = "line_end"
    <3>1. ls = <<NewLine, Line(brace, TRUE, close)>>
      BY <1>1, <2>4, LinesOf
    <3>2. QED
      BY <2>4, <3>1
  <2>5. CASE c.kind = "line"
    <3>1. \/ ls = <<NewLine, Line(indent, FALSE, none), Line(none, TRUE, blank)>>
          \/ ls = <<Line(indent, FALSE, none), Line(none, TRUE, blank)>>
          \/ ls = <<Line(none, TRUE, blank)>>
      BY <1>1, <2>5, LinesOf
    <3>2. QED
      BY <2>5, <3>1
  <2>6. QED
    BY <1>6, <2>1, <2>2, <2>3, <2>4, <2>5 DEF Kinds
<1> DEFINE F == AllLines
<1> HIDE DEF S, ls, nl, bracket, brace, category, indent, none, blank, close, open, F
<1>9. ASSUME NEW h \in Seq(S), NEW cp \in BOOLEAN, NEW t \in Seq(S)
      PROVE  Line(h, cp, t) \in F
  BY LineIn DEF S, F
<1>10. NewLine \in F
  <2>1. NewLine = Line(nl, FALSE, none)
    BY DEF NewLine, nl, none
  <2>2. QED
    BY <1>4, <1>9, <2>1
<1>11. ls \in Seq(F) /\ Len(ls) \in 1 .. 3
  <2> DEFINE info == Line(category, TRUE, nl)
             group == Line(bracket, TRUE, close)
             begin == Line(bracket, TRUE, open)
             end == Line(brace, TRUE, close)
             second == Line(indent, FALSE, none)
             last == Line(none, TRUE, blank)
  <2>1. info \in F /\ group \in F /\ begin \in F /\ end \in F /\ second \in F /\ last \in F
    BY <1>3, <1>4, <1>9
  <2>2. \/ ls = <<info>> \/ ls = <<group>> \/ ls = <<begin>> \/ ls = <<NewLine, end>>
        \/ ls = <<NewLine, second, last>> \/ ls = <<second, last>> \/ ls = <<last>>
    BY <1>6, <1>8 DEF Kinds
  <2> HIDE DEF info, group, begin, end, second, last
  <2> DEFINE T == F
  <2>0. info \in T /\ group \in T /\ begin \in T /\ end \in T /\ second \in T /\ last \in T
        /\ NewLine \in T
    BY <1>10, <2>1
  <2> HIDE DEF T
  <2>3. CASE ls = <<info>> \/ ls = <<group>> \/ ls = <<begin>> \/ ls = <<last>>
    <3>1. \A x \in T : <<x>> \in Seq(T) /\ Len(<<x>>) = 1
      BY Tuples
    <3>2. ls \in Seq(T) /\ Len(ls) = 1
      <4> HIDE DEF ls
      <4>1. QED
        BY <2>0, <2>3, <3>1
    <3>3. QED
      BY <3>2 DEF T
  <2>4. CASE ls = <<NewLine, end>> \/ ls = <<second, last>>
    <3>1. \A x, y \in T : <<x, y>> \in Seq(T) /\ Len(<<x, y>>) = 2
      BY Tuples
    <3>2. ls \in Seq(T) /\ Len(ls) = 2
      <4> HIDE DEF ls
      <4>1. QED
        BY <2>0, <2>4, <3>1
    <3>3. QED
      BY <3>2 DEF T
  <2>5. CASE ls = <<NewLine, second, last>>
    BY <1>10, <2>1, <2>5, Tuples
  <2>6. QED
    BY <2>2, <2>3, <2>4, <2>5
<1>12. ls # <<>> /\ Len(ls) <= 3
  <2> DEFINE n == Len(ls)
  <2>0. n \in 1 .. 3
    BY <1>11
  <2> HIDE DEF n
  <2>1. n # 0 /\ n <= 3
    BY <2>0
  <2>2. ls # <<>>
    BY <1>0, <2>1, Zenon DEF n
  <2>3. QED
    BY <2>1, <2>2 DEF n
<1>13. QED
  BY <1>11, <1>12 DEF F, ls

\* Of a call that is not long, the text is short and the lines have place for it.
LEMMA ShortIs ==
    ASSUME NEW printed, Len(printed) \in Nat, NEW ls \in Seq(AllLines), ~Long(printed, ls)
    PROVE  ls \in Seq(FitLines) /\ Len(printed) <= TextSize
<1> DEFINE n == Len(ls)
<1>1. TextSize \in Nat
  BY LogAssumption
<1>2. ~(Len(printed) > TextSize) /\ \A k \in DOMAIN ls : Roomy(ls[k])
  BY DEF Long
<1>3. n \in Nat /\ DOMAIN ls = 1 .. n /\ \A k \in 1 .. n : ls[k] \in AllLines
  BY LenProperties, ElementOfSeq
<1>4. ls = [k \in 1 .. n |-> ls[k]]
  BY <1>3
<1> HIDE DEF n
<1>5. ls \in [1 .. n -> FitLines]
  <2>1. \A k \in 1 .. n : ls[k] \in FitLines
    BY <1>2, <1>3 DEF FitLines
  <2>2. QED
    BY <1>4, <2>1
<1>6. ls \in Seq(FitLines)
  BY <1>3, <1>5, IsSeq
<1>7. Len(printed) <= TextSize
  <2> DEFINE l == Len(printed)
  <2>1. l \in Nat /\ ~(l > TextSize)
    BY <1>2
  <2> HIDE DEF l
  <2>2. l <= TextSize
    BY <1>1, <2>1
  <2>3. QED
    BY <2>2 DEF l
<1>8. QED
  BY <1>6, <1>7

\* Storing a character, and a handler's text over what a buffer begins with.
LEMMA PutIs ==
    ASSUME NEW places, NEW buf \in StoredIn(places), NEW k \in places, NEW c \in Kept
    PROVE  /\ Put(buf, k, c) \in StoredIn(places) /\ Put(buf, k, c)[k] = c
           /\ \A j \in places \ {k} : Put(buf, k, c)[j] = buf[j]
BY DEF Put, StoredIn

\* The handler's text leaves characters in a buffer, and a zero where there was one.
LEMMA ReplaceIs ==
    ASSUME NEW size \in Nat, NEW buf \in StoredIn(1 .. size), NEW new \in Seq(Kept),
           Len(new) < size
    PROVE  /\ Replace(buf, new) \in StoredIn(1 .. size)
           /\ \A last \in 1 .. size, i \in Nat \ {0} :
                 Len(new) < last /\ (i = 1 \/ Zero(buf, i, last)) => Zero(Replace(buf, new), i, last)
<1> DEFINE n == Len(new)
           r == Replace(buf, new)
<1>1. n \in Nat /\ n < size /\ \A k \in 1 .. n : new[k] \in Kept
  BY LenProperties, ElementOfSeq
<1> HIDE DEF n
<1>2. DOMAIN buf = 1 .. size /\ \A k \in 1 .. size : buf[k] \in Kept
  BY DEF StoredIn
<1>3. r = [k \in 1 .. size |-> IF k <= n THEN new[k] ELSE IF k = n + 1 THEN "NUL" ELSE buf[k]]
  BY <1>2 DEF Replace, n
<1>4. \A k \in 1 .. size : (IF k <= n THEN new[k] ELSE IF k = n + 1 THEN "NUL" ELSE buf[k]) \in Kept
  <2>1. TAKE k \in 1 .. size
  <2>2. k <= n => k \in 1 .. n
    BY <1>1
  <2>3. "NUL" \in Kept
    BY DEF Kept
  <2>4. QED
    BY <1>1, <1>2, <2>2, <2>3
<1> HIDE DEF r
<1>5. r \in StoredIn(1 .. size)
  BY <1>3, <1>4 DEF StoredIn
<1>6. n + 1 \in 1 .. size /\ r[n + 1] = "NUL"
  <2>1. n + 1 \in 1 .. size /\ ~(n + 1 <= n)
    BY <1>1
  <2>2. QED
    BY <1>3, <2>1
<1>7. ASSUME NEW last \in 1 .. size, NEW i \in Nat \ {0}, n < last, i = 1 \/ Zero(buf, i, last)
      PROVE  Zero(r, i, last)
  <2>1. CASE i <= n + 1
    <3>1. n + 1 \in i .. last
      BY <1>1, <1>7, <2>1
    <3>2. QED
      BY <1>6, <3>1 DEF Zero
  <2>2. CASE ~(i <= n + 1)
    <3>1. i # 1
      BY <1>1, <2>2
    <3>2. PICK k \in i .. last : buf[k] = "NUL"
      BY <1>7, <3>1 DEF Zero
    <3>3. k \in 1 .. size /\ ~(k <= n) /\ k # n + 1
      BY <1>1, <2>2
    <3>4. r[k] = "NUL"
      BY <1>3, <3>2, <3>3
    <3>5. QED
      BY <3>4 DEF Zero
  <2>3. QED
    BY <2>1, <2>2
<1>8. QED
  BY <1>5, <1>7 DEF r, n

\* The zeros that a buffer is first filled with.
LEMMA ZerosIs == ASSUME NEW places PROVE Zeros(places) \in StoredIn(places)
BY DEF Zeros, StoredIn, Kept

-----------------------------------------------------------------------------

\* The sizes are numbers, and a short text fits into every buffer.
LEMMA SizesAre ==
    /\ SerialSize \in Nat \ {0} /\ LogSize \in Nat /\ TextSize \in Nat /\ MaxGroups \in Nat
    /\ LineLimit \in Nat
    /\ SizeOf("info") = LogSize /\ Places("info") = 1 .. LogSize
    /\ \A b : Places(b) = 1 .. SizeOf(b) /\ SizeOf(b) \in Nat /\ TextSize < SizeOf(b)
BY LogAssumption DEF SizeOf, Places

\* The invariant at the beginning
LEMMA LogInitOK == LogInit => LogTypeOK /\ Bounds
<1> SUFFICES ASSUME LogInit PROVE LogTypeOK /\ Bounds
  OBVIOUS
<1>1. BuffersOK(logBuf) /\ serialBuf \in StoredIn(SerialPlaces)
  <2>1. logBuf = [b \in Buffers |-> Zeros(Places(b))] /\ serialBuf = Zeros(SerialPlaces)
    BY DEF LogInit, Buffers
  <2>2. \A b \in Buffers : Zeros(Places(b)) \in StoredIn(Places(b))
    BY ZerosIs
  <2>3. serialBuf \in StoredIn(SerialPlaces)
    BY <2>1, ZerosIs
  <2>4. BuffersOK(logBuf)
    BY <2>1, <2>2 DEF BuffersOK
  <2>5. QED
    BY <2>3, <2>4
<1>2. MaxGroups \in Nat
  BY LogAssumption
<1>3. LogTypeOK
  <2>1. group_level \in 0 .. MaxGroups /\ line_length \in Nat
    BY <1>2 DEF LogInit
  <2>2. /\ phase = "idle" /\ phase \notin Phases /\ disturbed \in BOOLEAN /\ long \in BOOLEAN
        /\ from = 1 /\ to = 1
    BY DEF LogInit, Phases
  <2>3. QED
    BY <1>1, <2>1, <2>2 DEF LogTypeOK
<1>4. Bounds
  BY DEF LogInit, Bounds, Phases
<1>5. QED
  BY <1>3, <1>4

LogOK == LogTypeOK /\ Bounds

\* The line in print.
LEMMA HeadIs ==
    ASSUME lines \in Seq(AllLines), lines # <<>>
    PROVE  /\ Head(lines) \in AllLines /\ Tail(lines) \in Seq(AllLines)
           /\ lines \in Seq(FitLines) => Tail(lines) \in Seq(FitLines)
           /\ Len(lines) \in Nat \ {0} /\ Len(Tail(lines)) = Len(lines) - 1
           /\ Head(lines).head \in Seq(Shown) /\ Head(lines).tail \in Seq(Shown)
           /\ Head(lines).copies \in BOOLEAN /\ Copied(Head(lines)) \in Nat
           /\ Len(Head(lines).head) \in Nat /\ Len(Head(lines).tail) \in Nat
           /\ lines \in Seq(FitLines) =>
                 Len(Head(lines).head) + Copied(Head(lines)) + Len(Head(lines).tail) < SerialSize
<1>1. Head(lines) \in AllLines /\ Tail(lines) \in Seq(AllLines) /\ Len(Tail(lines)) = Len(lines) - 1
  BY HeadTailProperties
<1>2. lines \in Seq(FitLines) => Head(lines) \in FitLines /\ Tail(lines) \in Seq(FitLines)
  BY HeadTailProperties
<1>3. Len(lines) \in Nat \ {0}
  BY EmptySeq, LenProperties
<1>4. /\ Head(lines).head \in Seq(Shown) /\ Head(lines).tail \in Seq(Shown)
      /\ Head(lines).copies \in BOOLEAN
  BY <1>1 DEF AllLines
<1>5. Head(lines) \in FitLines =>
         Len(Head(lines).head) + Copied(Head(lines)) + Len(Head(lines).tail) < SerialSize
  BY DEF FitLines, Roomy, Copied
<1>6. Copied(Head(lines)) \in Nat
  BY <1>4, SizesAre DEF Copied
<1>7. QED
  BY <1>1, <1>2, <1>3, <1>4, <1>5, <1>6, LenProperties

\* What a loop reads and where it stands.
LEMMA BufIs ==
    ASSUME LogOK, phase \in Phases
    PROVE  /\ call \in Calls /\ BufferOf(call.kind) \in Buffers
           /\ Buf \in StoredIn(1 .. SizeOf(BufferOf(call.kind)))
           /\ SizeOf(BufferOf(call.kind)) \in Nat /\ serialBuf \in StoredIn(SerialPlaces)
           /\ text \in Seq(Kept) /\ Len(text) \in Nat /\ (~long => Len(text) <= TextSize)
           /\ Room \in 1 .. SizeOf(BufferOf(call.kind)) /\ TextSize \in Nat
           /\ TextSize < SizeOf(BufferOf(call.kind)) /\ TextSize < Room
           /\ from \in Nat \ {0} /\ to \in Nat \ {0} /\ SerialSize \in Nat \ {0}
           /\ lines \in Seq(AllLines) /\ lines # <<>> /\ (~long => lines \in Seq(FitLines))
<1> DEFINE b == BufferOf(call.kind)
<1>1. /\ call \in Calls /\ text \in Seq(Kept) /\ BuffersOK(logBuf)
      /\ serialBuf \in StoredIn(SerialPlaces) /\ (~long => Len(text) <= TextSize)
      /\ from \in Nat \ {0} /\ to \in Nat \ {0} /\ long \in BOOLEAN
      /\ lines \in Seq(AllLines) /\ lines # <<>> /\ (~long => lines \in Seq(FitLines))
  BY DEF LogOK, LogTypeOK
<1>2. b \in Buffers
  BY <1>1, KindIs
<1>3. Places(b) = 1 .. SizeOf(b) /\ SizeOf(b) \in Nat /\ TextSize < SizeOf(b) /\ TextSize \in Nat
      /\ SerialSize \in Nat \ {0}
  BY SizesAre
<1> HIDE DEF b
<1>4. Room = IF long THEN SizeOf(b) ELSE TextSize + 1
  BY DEF Room, b
<1>5. Room \in 1 .. SizeOf(b) /\ TextSize < Room
  BY <1>1, <1>3, <1>4
<1>6. Buf \in StoredIn(1 .. SizeOf(b))
  BY <1>1, <1>2, <1>3 DEF Buf, BuffersOK, b
<1>7. QED
  BY <1>1, <1>2, <1>3, <1>5, <1>6, LenProperties DEF b

-----------------------------------------------------------------------------

\* A call begins: its text and its lines fit, or it is long.
LEMMA BeginOK ==
    ASSUME LogOK, NEW c \in Calls, Begin(c)
    PROVE  LogOK'
<1> DEFINE t == Formatted(c.text)
           ls == LinesFor(c, LevelPrinted(c), line_length)
<1>1. /\ call' = c /\ phase' = "text" /\ text' = t /\ lines' = ls
      /\ from' = 1 /\ to' = 1 /\ disturbed' = FALSE /\ long' = Long(t, ls)
      /\ group_level' = group_level /\ line_length' = line_length /\ logBuf' = logBuf
      /\ serialBuf' = serialBuf
      /\ c.kind = "group_begin" => group_level < MaxGroups
      /\ c.kind = "group_end" => group_level > 0
  BY DEF Begin
<1>2. group_level \in 0 .. MaxGroups /\ line_length \in Nat /\ BuffersOK(logBuf)
      /\ serialBuf \in StoredIn(SerialPlaces)
  BY DEF LogOK, LogTypeOK
<1>3. LevelPrinted(c) \in 0 .. MaxGroups
  BY <1>1, <1>2, SizesAre DEF LevelPrinted
<1>4. ls \in Seq(AllLines) /\ ls # <<>> /\ Len(ls) <= 3
  BY <1>2, <1>3, LinesIn
<1>5. t \in Seq(Kept) /\ Len(t) \in Nat
  <2>1. c \in Calls \cup HandlerCalls
    OBVIOUS
  <2>2. QED
    BY <2>1, TextIs
<1> HIDE DEF t, ls
<1>6. ~Long(t, ls) => ls \in Seq(FitLines) /\ Len(t) <= TextSize
  BY <1>4, <1>5, ShortIs
<1>7. Long(t, ls) \in BOOLEAN
  BY DEF Long
<1>8. LogTypeOK'
  <2>1. phase' \in Phases /\ phase' # "lost"
    BY <1>1 DEF Phases
  <2>2. disturbed' \in BOOLEAN /\ long' \in BOOLEAN /\ from' \in Nat \ {0} /\ to' \in Nat \ {0}
    <3>1. disturbed' = FALSE /\ long' = Long(t, ls) /\ from' = 1 /\ to' = 1
      BY <1>1
    <3>2. from' \in Nat \ {0} /\ to' \in Nat \ {0}
      BY <3>1
    <3>3. disturbed' \in BOOLEAN /\ long' \in BOOLEAN
      BY <1>7, <3>1, Zenon
    <3>4. QED
      BY <3>2, <3>3
  <2>3. /\ call' \in Calls
        /\ call'.kind = "group_begin" => group_level' < MaxGroups
        /\ call'.kind = "group_end" => group_level' > 0
    BY <1>1
  <2>4. group_level' \in 0 .. MaxGroups /\ line_length' \in Nat /\ BuffersOK(logBuf')
        /\ serialBuf' \in StoredIn(SerialPlaces)
    BY <1>1, <1>2
  <2>5. /\ lines' \in Seq(AllLines) /\ lines' # <<>> /\ Len(lines') <= 3 /\ text' \in Seq(Kept)
        /\ ~long' => lines' \in Seq(FitLines) /\ Len(text') <= TextSize
    BY <1>1, <1>4, <1>5, <1>6
  <2>6. QED
    BY <2>1, <2>2, <2>3, <2>4, <2>5 DEF LogTypeOK
<1>9. Bounds'
  BY <1>1, <1>5 DEF Bounds, Phases
<1>10. QED
  BY <1>8, <1>9 DEF LogOK

\* k_sprintf's text goes into no buffer of the log.
LEMMA SprintfOK ==
    ASSUME LogOK, Sprintf \/ SprintfReturns
    PROVE  LogOK'
<1>1. /\ phase' \in {"idle", "sprintf"} /\ from' = from /\ to' = to /\ disturbed' = disturbed
      /\ long' = long /\ group_level' = group_level /\ line_length' = line_length
      /\ logBuf' = logBuf /\ serialBuf' = serialBuf
  BY DEF Sprintf, SprintfReturns, counters
<1>2. phase' \notin Phases /\ phase' # "lost"
  BY <1>1 DEF Phases
<1>3. LogTypeOK'
  BY <1>1, <1>2 DEF LogOK, LogTypeOK
<1>4. Bounds'
  BY <1>1, <1>2 DEF Bounds
<1>5. QED
  BY <1>3, <1>4 DEF LogOK

\* StoreText, the character that it stores and where.
LEMMA TextStored ==
    ASSUME LogOK, StoreText
    PROVE  /\ Buf' = Put(Buf, from, CharAt(text, from)) /\ BuffersOK(logBuf')
           /\ Buf \in StoredIn(1 .. SizeOf(BufferOf(call.kind)))
           /\ from \in 1 .. SizeOf(BufferOf(call.kind)) /\ CharAt(text, from) \in Kept
           /\ text \in Seq(Kept) /\ Len(text) \in Nat /\ (~long => Len(text) <= TextSize)
           /\ from \in Nat \ {0} /\ from <= Len(text) + 1 /\ to = 1
           /\ (from = Len(text) + 1 => CharAt(text, from) = "NUL")
<1> DEFINE b == BufferOf(call.kind)
           c == CharAt(text, from)
<1>1. /\ phase = "text" /\ logBuf' = [logBuf EXCEPT ![b] = Put(@, from, c)]
      /\ from \in Places(b) /\ call' = call
  BY DEF StoreText
<1>2. /\ call \in Calls /\ b \in Buffers /\ Buf \in StoredIn(1 .. SizeOf(b))
      /\ text \in Seq(Kept) /\ Len(text) \in Nat /\ (~long => Len(text) <= TextSize)
      /\ from \in Nat \ {0}
  BY <1>1, BufIs DEF Phases
<1>3. from <= Len(text) + 1 /\ to = 1
  BY <1>1 DEF LogOK, Bounds
<1>4. Places(b) = 1 .. SizeOf(b)
  BY SizesAre
<1>5. c \in Kept /\ (from = Len(text) + 1 => c = "NUL")
  <2>1. DOMAIN text = 1 .. Len(text) /\ \A k \in 1 .. Len(text) : text[k] \in Kept
    BY <1>2, LenProperties, ElementOfSeq
  <2>2. from = Len(text) + 1 => from \notin 1 .. Len(text)
    BY <1>2
  <2>3. "NUL" \in Kept
    BY DEF Kept
  <2>4. QED
    BY <2>1, <2>2, <2>3 DEF CharAt
<1> HIDE DEF b, c
<1>6. BuffersOK(logBuf) /\ logBuf[b] = Buf
  BY DEF LogOK, LogTypeOK, Buf, b
<1>7. Put(Buf, from, c) \in StoredIn(Places(b))
  BY <1>1, <1>2, <1>4, <1>5, PutIs
<1>8. BuffersOK(logBuf') /\ Buf' = Put(Buf, from, c)
  <2>1. logBuf' = [logBuf EXCEPT ![b] = Put(Buf, from, c)]
    BY <1>1, <1>6
  <2>2. Buf' = logBuf'[b]
    BY <1>1 DEF Buf, b
  <2>3. DOMAIN logBuf = Buffers /\ \A d \in Buffers : logBuf[d] \in StoredIn(Places(d))
    BY <1>6 DEF BuffersOK
  <2>4. DOMAIN logBuf' = Buffers /\ logBuf'[b] = Put(Buf, from, c)
        /\ \A d \in Buffers : d # b => logBuf'[d] = logBuf[d]
    BY <1>2, <2>1, <2>3
  <2>5. \A d \in Buffers : logBuf'[d] \in StoredIn(Places(d))
    BY <1>7, <2>3, <2>4
  <2>6. QED
    BY <2>2, <2>4, <2>5 DEF BuffersOK
<1>9. QED
  BY <1>1, <1>2, <1>3, <1>4, <1>5, <1>8 DEF b, c

\* The zero of a text that has been stored ends it in the buffer.
LEMMA StoreTextOK ==
    ASSUME LogOK, StoreText
    PROVE  LogOK'
<1> DEFINE c == CharAt(text, from)
           n == Len(text)
           size == SizeOf(BufferOf(call.kind))
<1>1. /\ phase = "text"
      /\ IF from <= n THEN from' = from + 1 /\ phase' = phase /\ group_level' = group_level
         ELSE /\ from' = 1 /\ phase' = "head"
              /\ group_level' = IF call.kind = "group_end" THEN group_level - 1 ELSE group_level
      /\ line_length' = line_length /\ call' = call /\ lines' = lines
      /\ text' = text /\ to' = to /\ serialBuf' = serialBuf /\ disturbed' = disturbed /\ long' = long
  BY DEF StoreText, counters
<1>2. /\ Buf' = Put(Buf, from, c) /\ BuffersOK(logBuf') /\ Buf \in StoredIn(1 .. size)
      /\ from \in 1 .. size /\ c \in Kept /\ (from = n + 1 => c = "NUL")
      /\ n \in Nat /\ (~long => n <= TextSize) /\ from \in Nat \ {0} /\ from <= n + 1 /\ to = 1
  BY TextStored
<1>3. /\ Room = (IF long THEN size ELSE TextSize + 1) /\ TextSize \in Nat /\ size \in Nat
      /\ lines \in Seq(AllLines) /\ lines # <<>>
  BY <1>1, BufIs DEF Phases, Room
<1> HIDE DEF c, n, size
<1>4. Put(Buf, from, c)[from] = c
  <2> DEFINE places == 1 .. size
  <2>1. Buf \in StoredIn(places) /\ from \in places /\ c \in Kept
    BY <1>2
  <2> HIDE DEF places
  <2>2. QED
    BY <2>1, PutIs
<1>5. /\ group_level \in 0 .. MaxGroups /\ MaxGroups \in Nat
      /\ call.kind = "group_begin" => group_level < MaxGroups
      /\ call.kind = "group_end" => group_level > 0
  BY <1>1, SizesAre DEF LogOK, LogTypeOK, Phases
<1>6. LogTypeOK'
  <2>1. phase' \in Phases /\ from' \in Nat \ {0} /\ phase' # "lost" /\ phase \in Phases
    BY <1>1, <1>2 DEF Phases
  <2>2. /\ group_level' \in 0 .. MaxGroups
        /\ call.kind = "group_begin" => group_level' < MaxGroups
        /\ call.kind = "group_end" /\ phase' = "text" => group_level' > 0
    BY <1>1, <1>5
  <2>3. QED
    BY <1>1, <1>2, <2>1, <2>2 DEF LogOK, LogTypeOK
<1>7. Bounds'
  <2>1. CASE from <= n
    <3>1. phase' = "text" /\ from' <= n + 1 /\ to' = 1 /\ Len(text') = n
      BY <1>1, <1>2, <2>1 DEF n
    <3>2. QED
      BY <3>1 DEF Bounds, Phases
  <2>2. CASE ~(from <= n)
    <3>1. phase' = "head" /\ from' = 1 /\ to' = 1
      BY <1>1, <1>2, <2>2
    <3>2. from = n + 1 /\ from \in 1 .. Room /\ Room' = Room
      <4>1. from = n + 1 /\ from \in 1 .. Room
        BY <1>2, <1>3, <2>2
      <4>2. Room' = Room
        BY <1>1 DEF Room
      <4>3. QED
        BY <4>1, <4>2
    <3>3. Zero(Buf', 1, Room')
      BY <1>2, <1>4, <3>2 DEF Zero
    <3>4. Len(Head(lines).head) \in Nat
      BY <1>3, HeadIs
    <3>5. from' <= Len(Head(lines').head) + 1
      BY <1>1, <3>1, <3>4
    <3>6. QED
      BY <3>1, <3>3, <3>5 DEF Bounds
  <2>3. QED
    BY <2>1, <2>2
<1>8. QED
  BY <1>6, <1>7 DEF LogOK

\* The facts about a loop that stores into serial_printf's buffer.
LEMMA SerialStep ==
    ASSUME LogOK, phase \in {"head", "copy", "tail"}, phase' \in Phases \ {"text"},
           from' \in Nat \ {0}, to' \in Nat \ {0}, serialBuf' \in StoredIn(SerialPlaces),
           UNCHANGED <<group_level, line_length, call, lines, text, logBuf, disturbed, long>>
    PROVE  LogTypeOK' /\ Buf' = Buf /\ Room' = Room /\ lines' = lines
<1>1. phase \in Phases /\ phase' \in Phases /\ phase' # "lost" /\ phase' # "text"
  BY DEF Phases
<1>2. QED
  BY <1>1 DEF LogOK, LogTypeOK, Buf, Room

\* A line's head is followed by what is copied, or by the tail.
LEMMA StoreHeadOK ==
    ASSUME LogOK, StoreHead
    PROVE  LogOK'
<1> DEFINE head == Head(lines).head
           n == Len(head)
<1>1. /\ phase = "head" /\ to \in SerialPlaces
      /\ IF from <= n
         THEN serialBuf' = Put(serialBuf, to, head[from]) /\ from' = from + 1 /\ to' = to + 1
              /\ phase' = phase
         ELSE /\ phase' = (IF Head(lines).copies THEN "copy" ELSE "tail")
              /\ from' = 1 /\ to' = to /\ serialBuf' = serialBuf
      /\ UNCHANGED <<group_level, line_length, call, lines, text, logBuf, disturbed, long>>
  BY DEF StoreHead, counters
<1>2. /\ serialBuf \in StoredIn(SerialPlaces) /\ from \in Nat \ {0} /\ TextSize \in Nat
      /\ lines \in Seq(AllLines) /\ lines # <<>>
  BY <1>1, BufIs DEF Phases
<1>3. /\ head \in Seq(Shown) /\ n \in Nat /\ Len(Head(lines).tail) \in Nat
      /\ Head(lines).copies \in BOOLEAN /\ Copied(Head(lines)) \in Nat
  BY <1>2, HeadIs
<1>5. from <= n + 1 /\ to = from /\ Zero(Buf, 1, Room)
  BY <1>1 DEF LogOK, Bounds, Phases
<1>7. \A k \in 1 .. n : head[k] \in Kept
  <2>1. \A k \in 1 .. n : head[k] \in Shown
    BY <1>3, ElementOfSeq
  <2>2. QED
    BY <2>1 DEF Kept
<1> HIDE DEF n
<1>8. CASE from <= n
  <2>1. from \in 1 .. n
    BY <1>2, <1>3, <1>8
  <2>2. serialBuf' \in StoredIn(SerialPlaces)
    <3>1. serialBuf' = Put(serialBuf, to, head[from]) /\ head[from] \in Kept
      BY <1>1, <1>7, <1>8, <2>1
    <3>2. QED
      BY <1>1, <1>2, <3>1, PutIs
  <2>3. phase' = "head" /\ from' = from + 1 /\ to' = to + 1
    BY <1>1, <1>8
  <2>4. from' \in Nat \ {0} /\ to' \in Nat \ {0} /\ from' <= n + 1 /\ to' = from'
    BY <1>2, <1>3, <1>5, <1>8, <2>3
  <2>5. LogTypeOK' /\ Buf' = Buf /\ Room' = Room /\ lines' = lines
    <3>1. phase' \in Phases \ {"text"}
      BY <2>3 DEF Phases
    <3>2. QED
      BY <1>1, <2>2, <2>4, <3>1, SerialStep
  <2>6. Bounds'
    BY <1>5, <2>3, <2>4, <2>5 DEF Bounds, n
  <2>7. QED
    BY <2>5, <2>6 DEF LogOK
<1>9. CASE ~(from <= n)
  <2>1. from = n + 1
    BY <1>2, <1>3, <1>5, <1>9
  <2>2. /\ phase' = (IF Head(lines).copies THEN "copy" ELSE "tail")
        /\ from' = 1 /\ to' = n + 1 /\ serialBuf' = serialBuf
    BY <1>1, <1>5, <1>9, <2>1
  <2>3. LogTypeOK' /\ Buf' = Buf /\ Room' = Room /\ lines' = lines
    <3>1. phase' \in Phases \ {"text"}
      BY <2>2 DEF Phases
    <3>2. from' \in Nat \ {0} /\ to' \in Nat \ {0}
      BY <1>3, <2>2
    <3>3. QED
      BY <1>1, <1>2, <2>2, <3>1, <3>2, SerialStep
  <2>5. from' <= Len(Head(lines).tail) + 1 /\ to' <= n + Copied(Head(lines)) + from' /\ to' = n + from'
    BY <1>3, <2>2
  <2>6. CASE Head(lines).copies
    <3>1. phase' = "copy"
      BY <2>2, <2>6
    <3>2. QED
      BY <1>5, <2>2, <2>3, <2>5, <2>6, <3>1 DEF Bounds, n, LogOK
  <2>7. CASE ~Head(lines).copies
    <3>1. phase' = "tail"
      BY <2>2, <2>7
    <3>2. QED
      BY <1>5, <2>2, <2>3, <2>5, <2>7, <3>1 DEF Bounds, n, LogOK
  <2>8. QED
    BY <2>6, <2>7
<1>10. QED
  BY <1>8, <1>9

\* The copied text ends at a zero of its buffer.
LEMMA CopyTextOK ==
    ASSUME LogOK, CopyText
    PROVE  LogOK'
<1> DEFINE n == Len(Head(lines).head)
           c == Buf[from]
           size == SizeOf(BufferOf(call.kind))
<1>1. /\ phase = "copy" /\ to \in SerialPlaces
      /\ IF ~Ends(c)
         THEN serialBuf' = Put(serialBuf, to, c) /\ from' = from + 1 /\ to' = to + 1 /\ phase' = phase
         ELSE phase' = "tail" /\ from' = 1 /\ to' = to /\ serialBuf' = serialBuf
      /\ UNCHANGED <<group_level, line_length, call, lines, text, logBuf, disturbed, long>>
  BY DEF CopyText, counters, Buf
<1>2. /\ serialBuf \in StoredIn(SerialPlaces) /\ from \in Nat \ {0} /\ TextSize \in Nat
      /\ Buf \in StoredIn(1 .. size) /\ size \in Nat /\ Room \in 1 .. size
      /\ lines \in Seq(AllLines) /\ lines # <<>>
  BY <1>1, BufIs DEF Phases
<1>3. n \in Nat /\ Len(Head(lines).tail) \in Nat
  BY <1>2, HeadIs
<1>5. /\ Head(lines).copies /\ to = n + from /\ Zero(Buf, from, Room) /\ Zero(Buf, 1, Room)
  BY <1>1 DEF LogOK, Bounds, Phases
<1>6. Copied(Head(lines)) = TextSize /\ (~long => Room = TextSize + 1)
  BY <1>5 DEF Copied, Room
<1> HIDE DEF size
<1>7. PICK z \in from .. Room : Buf[z] = "NUL"
  BY <1>5 DEF Zero
<1>8. from \in 1 .. size /\ from <= Room /\ c \in Kept
  <2>1. from \in 1 .. size /\ from <= Room
    BY <1>2, <1>7
  <2>2. QED
    BY <1>2, <2>1 DEF StoredIn
<1> HIDE DEF n, c
<1>9. CASE ~Ends(c)
  <2>1. z # from
    BY <1>7, <1>9 DEF Ends, c
  <2>2. z \in from + 1 .. Room
    BY <1>2, <2>1
  <2>3. serialBuf' \in StoredIn(SerialPlaces)
    <3>1. serialBuf' = Put(serialBuf, to, c)
      BY <1>1, <1>9
    <3>2. QED
      BY <1>1, <1>2, <1>8, <3>1, PutIs
  <2>4. phase' = "copy" /\ from' = from + 1 /\ to' = to + 1
    BY <1>1, <1>9
  <2>5. from' \in Nat \ {0} /\ to' \in Nat \ {0} /\ to' = n + from'
    BY <1>2, <1>3, <1>5, <2>4
  <2>6. LogTypeOK' /\ Buf' = Buf /\ Room' = Room /\ lines' = lines
    <3>1. phase' \in Phases \ {"text"}
      BY <2>4 DEF Phases
    <3>2. QED
      BY <1>1, <2>3, <2>5, <3>1, SerialStep
  <2>7. Zero(Buf', from', Room')
    BY <1>7, <2>2, <2>4, <2>6 DEF Zero
  <2>8. Bounds'
    BY <1>5, <2>4, <2>5, <2>6, <2>7 DEF Bounds, n
  <2>9. QED
    BY <2>6, <2>8 DEF LogOK
<1>10. CASE Ends(c)
  <2>1. phase' = "tail" /\ from' = 1 /\ to' = n + from /\ serialBuf' = serialBuf
    BY <1>1, <1>5, <1>10
  <2>2. to' \in Nat \ {0} /\ from' \in Nat \ {0}
    BY <1>2, <1>3, <2>1
  <2>3. LogTypeOK' /\ Buf' = Buf /\ Room' = Room /\ lines' = lines
    <3>1. phase' \in Phases \ {"text"}
      BY <2>1 DEF Phases
    <3>2. QED
      BY <1>1, <1>2, <2>1, <2>2, <3>1, SerialStep
  <2>4. from' <= Len(Head(lines).tail) + 1 /\ (~long' => to' <= n + Copied(Head(lines)) + from')
    <3> DEFINE m == Len(Head(lines).tail)
    <3>1. n \in Nat /\ m \in Nat /\ long' = long
      BY <1>1, <1>3
    <3> HIDE DEF m
    <3>2. from' <= m + 1 /\ (~long => to' <= n + TextSize + from')
      BY <1>2, <1>6, <1>8, <2>1, <3>1
    <3>3. QED
      BY <1>6, <3>1, <3>2 DEF m
  <2>5. Bounds'
    BY <1>5, <2>1, <2>3, <2>4 DEF Bounds, n
  <2>6. QED
    BY <2>3, <2>5 DEF LogOK
<1>11. QED
  BY <1>9, <1>10

\* The zero behind the tail is in the buffer.
LEMMA StoreTailOK ==
    ASSUME LogOK, StoreTail
    PROVE  LogOK'
<1> DEFINE tail == Head(lines).tail
           n == Len(tail)
           h == Len(Head(lines).head)
           m == Copied(Head(lines))
<1>1. /\ phase = "tail" /\ to \in SerialPlaces
      /\ IF from <= n
         THEN serialBuf' = Put(serialBuf, to, tail[from]) /\ from' = from + 1 /\ to' = to + 1
              /\ phase' = phase
         ELSE serialBuf' = Put(serialBuf, to, "NUL") /\ from' = 1 /\ phase' = "send" /\ to' = to
      /\ UNCHANGED <<group_level, line_length, call, lines, text, logBuf, disturbed, long>>
  BY DEF StoreTail, counters
<1>2. /\ serialBuf \in StoredIn(SerialPlaces) /\ from \in Nat \ {0} /\ to \in Nat \ {0}
      /\ SerialSize \in Nat \ {0} /\ lines \in Seq(AllLines) /\ lines # <<>>
  BY <1>1, BufIs DEF Phases
<1>3. tail \in Seq(Shown) /\ n \in Nat /\ h \in Nat /\ m \in Nat
  BY <1>2, HeadIs
<1>5. from <= n + 1 /\ (~long => to <= h + m + from) /\ Zero(Buf, 1, Room)
  BY <1>1 DEF LogOK, Bounds, Phases
<1>7. \A k \in 1 .. n : tail[k] \in Kept
  <2>1. \A k \in 1 .. n : tail[k] \in Shown
    BY <1>3, ElementOfSeq
  <2>2. QED
    BY <2>1 DEF Kept
<1> HIDE DEF n, h, m
<1>9. CASE from <= n
  <2>1. from \in 1 .. n
    BY <1>2, <1>3, <1>9
  <2>2. serialBuf' \in StoredIn(SerialPlaces)
    <3>1. serialBuf' = Put(serialBuf, to, tail[from]) /\ tail[from] \in Kept
      BY <1>1, <1>7, <1>9, <2>1
    <3>2. QED
      BY <1>1, <1>2, <3>1, PutIs
  <2>3. phase' = "tail" /\ from' = from + 1 /\ to' = to + 1 /\ long' = long
    BY <1>1, <1>9
  <2>4. from' \in Nat \ {0} /\ to' \in Nat \ {0} /\ from' <= n + 1
        /\ (~long' => to' <= h + m + from')
    BY <1>2, <1>3, <1>5, <1>9, <2>3
  <2>5. LogTypeOK' /\ Buf' = Buf /\ Room' = Room /\ lines' = lines
    <3>1. phase' \in Phases \ {"text"}
      BY <2>3 DEF Phases
    <3>2. QED
      BY <1>1, <2>2, <2>4, <3>1, SerialStep
  <2>6. Bounds'
    BY <1>5, <2>3, <2>4, <2>5 DEF Bounds, n, h, m
  <2>7. QED
    BY <2>5, <2>6 DEF LogOK
<1>10. CASE ~(from <= n)
  <2>1. serialBuf' = Put(serialBuf, to, "NUL") /\ from' = 1 /\ phase' = "send" /\ to' = to
    BY <1>1, <1>10
  <2>2. serialBuf' \in StoredIn(SerialPlaces) /\ serialBuf'[to] = "NUL"
    <3>1. "NUL" \in Kept
      BY DEF Kept
    <3>2. QED
      BY <1>1, <1>2, <2>1, <3>1, PutIs
  <2>3. LogTypeOK' /\ Buf' = Buf /\ Room' = Room
    <3>1. phase' \in Phases \ {"text"}
      BY <2>1 DEF Phases
    <3>2. from' \in Nat \ {0} /\ to' \in Nat \ {0}
      BY <1>2, <2>1
    <3>3. QED
      BY <1>1, <2>2, <3>1, <3>2, SerialStep
  <2>4. to \in 1 .. SerialSize
    BY <1>1 DEF SerialPlaces
  <2>5. Zero(serialBuf', from', SerialSize)
    BY <2>1, <2>2, <2>4 DEF Zero
  <2>6. Bounds'
    BY <1>5, <2>1, <2>3, <2>5 DEF Bounds, Phases
  <2>7. QED
    BY <2>3, <2>6 DEF LogOK
<1>11. QED
  BY <1>9, <1>10

\* Only a long call gets to the end of a buffer.
LEMMA OverflowsOK ==
    ASSUME LogOK, Overflows
    PROVE  LogOK'
<1> DEFINE h == Len(Head(lines).head)
           t == Len(Head(lines).tail)
           m == Copied(Head(lines))
           n == Len(text)
           size == SizeOf(BufferOf(call.kind))
<1>1. /\ \/ phase = "text" /\ from \notin Places(BufferOf(call.kind))
         \/ phase \in {"head", "copy", "tail"} /\ to \notin SerialPlaces
      /\ phase' = "lost"
      /\ UNCHANGED <<group_level, line_length, call, lines, text, from, to, logBuf, serialBuf,
                     disturbed, long>>
  BY DEF Overflows, counters
<1>2. /\ from \in Nat \ {0} /\ to \in Nat \ {0} /\ SerialSize \in Nat \ {0} /\ TextSize \in Nat
      /\ size \in Nat /\ TextSize < size /\ n \in Nat /\ (~long => n <= TextSize)
      /\ lines \in Seq(AllLines) /\ lines # <<>> /\ (~long => lines \in Seq(FitLines))
  BY <1>1, BufIs DEF Phases
<1>3. h \in Nat /\ t \in Nat /\ m \in Nat /\ (~long => h + m + t < SerialSize)
  BY <1>2, HeadIs
<1>4. /\ phase = "text" => from <= n + 1
      /\ phase = "head" => from <= h + 1 /\ to = from
      /\ phase = "copy" => Head(lines).copies /\ to = h + from /\ Zero(Buf, from, Room)
      /\ phase = "tail" => from <= t + 1 /\ (~long => to <= h + m + from)
  BY DEF LogOK, Bounds
<1>5. Places(BufferOf(call.kind)) = 1 .. size /\ SerialPlaces = 1 .. SerialSize
  BY SizesAre DEF SerialPlaces
<1>6. Head(lines).copies => m = TextSize
  BY DEF Copied
<1> HIDE DEF h, t, m, n, size
<1>7. ~long => Room = TextSize + 1
  BY DEF Room
<1>8. ASSUME ~long PROVE FALSE
  <2>1. CASE phase = "text"
    BY <1>1, <1>2, <1>4, <1>5, <1>8, <2>1
  <2>2. CASE phase = "head"
    BY <1>1, <1>2, <1>3, <1>4, <1>5, <1>8, <2>2
  <2>3. CASE phase = "copy"
    <3>1. PICK z \in from .. Room : Buf[z] = "NUL"
      BY <1>4, <2>3 DEF Zero
    <3>2. from <= TextSize + 1
      BY <1>2, <1>7, <1>8, <3>1
    <3>3. m = TextSize /\ to = h + from
      BY <1>4, <1>6, <2>3
    <3>4. QED
      BY <1>1, <1>2, <1>3, <1>5, <1>8, <2>3, <3>2, <3>3
  <2>4. CASE phase = "tail"
    BY <1>1, <1>2, <1>3, <1>4, <1>5, <1>8, <2>4
  <2>5. QED
    BY <1>1, <2>1, <2>2, <2>3, <2>4
<1>9. phase' \notin Phases /\ phase' = "lost"
  BY <1>1 DEF Phases
<1>10. LogTypeOK'
  BY <1>1, <1>8, <1>9 DEF LogOK, LogTypeOK
<1>11. Bounds'
  BY <1>9 DEF Bounds
<1>12. QED
  BY <1>10, <1>11 DEF LogOK

\* What is sent ends at that zero.
LEMMA SendOK ==
    ASSUME LogOK, Send
    PROVE  LogOK'
<1>1. /\ phase = "send" /\ phase' = phase /\ ~Ends(serialBuf[from]) /\ from' = from + 1 /\ to' = to
      /\ serialBuf' = serialBuf
      /\ UNCHANGED <<group_level, line_length, call, lines, text, logBuf, disturbed, long>>
  BY DEF Send, counters
<1>2. from \in Nat \ {0} /\ to \in Nat \ {0} /\ SerialSize \in Nat \ {0}
  BY <1>1, BufIs DEF Phases
<1>3. Zero(serialBuf, from, SerialSize) /\ Zero(Buf, 1, Room)
  BY <1>1 DEF LogOK, Bounds, Phases
<1>4. PICK z \in from .. SerialSize : serialBuf[z] = "NUL"
  BY <1>3 DEF Zero
<1>5. z # from
  BY <1>1, <1>4 DEF Ends
<1>6. z \in from + 1 .. SerialSize /\ from + 1 \in Nat \ {0}
  BY <1>2, <1>5
<1>7. LogTypeOK' /\ Buf' = Buf /\ Room' = Room
  <2>1. phase \in Phases /\ phase # "lost"
    BY <1>1 DEF Phases
  <2>2. QED
    BY <1>1, <1>2, <1>6, <2>1 DEF LogOK, LogTypeOK, Buf, Room
<1>8. Zero(serialBuf', from', SerialSize)
  BY <1>1, <1>4, <1>6 DEF Zero
<1>9. Bounds'
  BY <1>1, <1>3, <1>7, <1>8 DEF Bounds, Phases
<1>10. QED
  BY <1>7, <1>9 DEF LogOK

\* The next line begins at the beginning of the buffers.
LEMMA SentOK ==
    ASSUME LogOK, Sent
    PROVE  LogOK'
<1>1. /\ phase = "send" /\ lines' = Tail(lines) /\ from' = 1 /\ to' = 1
      /\ line_length' = LineLength
      /\ IF Len(lines) > 1
         THEN phase' = "head" /\ group_level' = group_level
         ELSE /\ phase' = "idle"
              /\ group_level' = group_level + (IF call.kind = "group_begin" THEN 1 ELSE 0)
      /\ UNCHANGED <<call, text, logBuf, serialBuf, disturbed, long>>
  BY DEF Sent, counters
<1>2. /\ group_level \in 0 .. MaxGroups /\ line_length \in Nat /\ disturbed \in BOOLEAN
      /\ long \in BOOLEAN /\ call \in Calls
      /\ call.kind = "group_begin" => group_level < MaxGroups
      /\ lines \in Seq(AllLines) /\ lines # <<>> /\ Len(lines) <= 3
      /\ text \in Seq(Kept) /\ (~long => lines \in Seq(FitLines) /\ Len(text) <= TextSize)
      /\ from \in Nat \ {0} /\ to \in Nat \ {0}
      /\ BuffersOK(logBuf) /\ serialBuf \in StoredIn(SerialPlaces)
  BY <1>1 DEF LogOK, LogTypeOK, Phases
<1>3. Zero(Buf, 1, Room)
  BY <1>1 DEF LogOK, Bounds, Phases
<1>4. MaxGroups \in Nat
  BY SizesAre
<1>5. line_length' \in Nat
  <2>1. from - 1 \in Nat
    BY <1>2
  <2>2. LineLength \in Nat
    BY <1>2, <2>1 DEF LineLength
  <2>3. QED
    BY <1>1, <2>2
<1>6. /\ Tail(lines) \in Seq(AllLines) /\ Len(lines) \in Nat \ {0} /\ Len(Tail(lines)) = Len(lines) - 1
      /\ lines \in Seq(FitLines) => Tail(lines) \in Seq(FitLines)
  BY <1>2, HeadIs
<1>7. CASE Len(lines) > 1
  <2>1. phase' = "head" /\ group_level' = group_level
    BY <1>1, <1>7
  <2>2. lines' \in Seq(AllLines) /\ Len(lines') <= 3 /\ lines' # <<>>
    <3>1. Len(Tail(lines)) # 0 /\ Len(Tail(lines)) <= 3
      <4> DEFINE n == Len(lines)
                 m == Len(Tail(lines))
      <4>1. n \in Nat /\ n <= 3 /\ n > 1 /\ m = n - 1
        BY <1>2, <1>6, <1>7
      <4> HIDE DEF n, m
      <4>2. m # 0 /\ m <= 3
        BY <4>1
      <4>3. QED
        BY <4>2 DEF m
    <3>2. Len(<<>>) = 0
      OBVIOUS
    <3>3. Tail(lines) # <<>>
      BY <3>1, <3>2, Zenon
    <3>4. QED
      BY <1>1, <1>6, <3>1, <3>3
  <2>3. LogTypeOK'
    <3>1. phase' \in Phases /\ phase' # "lost" /\ phase' # "text"
      BY <2>1 DEF Phases
    <3>2. from' \in Nat \ {0} /\ to' \in Nat \ {0}
      BY <1>1
    <3>3. /\ group_level' \in 0 .. MaxGroups /\ call' \in Calls
          /\ call'.kind = "group_begin" => group_level' < MaxGroups
      <4>1. group_level' = group_level /\ call' = call
        BY <1>1, <2>1
      <4>2. QED
        BY <1>2, <4>1
    <3>4. /\ disturbed' \in BOOLEAN /\ long' \in BOOLEAN /\ BuffersOK(logBuf')
          /\ serialBuf' \in StoredIn(SerialPlaces)
      BY <1>1, <1>2
    <3>5. text' \in Seq(Kept) /\ (~long' => lines' \in Seq(FitLines) /\ Len(text') <= TextSize)
      BY <1>1, <1>2, <1>6
    <3>6. QED
      BY <1>5, <2>2, <3>1, <3>2, <3>3, <3>4, <3>5 DEF LogTypeOK
  <2>4. Len(Head(lines').head) \in Nat
    <3>1. Head(Tail(lines)) \in AllLines
      BY <1>1, <1>6, <2>2, HeadTailProperties
    <3>2. Head(lines').head \in Seq(Shown)
      BY <1>1, <3>1 DEF AllLines
    <3>3. QED
      BY <3>2, LenProperties
  <2>5. from' = 1 /\ to' = from' /\ from' <= Len(Head(lines').head) + 1
    BY <1>1, <2>4
  <2>6. Zero(Buf', 1, Room')
    BY <1>1, <1>3, <2>1 DEF Buf, Room
  <2>7. Bounds'
    BY <2>1, <2>5, <2>6 DEF Bounds
  <2>8. QED
    BY <2>3, <2>7 DEF LogOK
<1>8. CASE ~(Len(lines) > 1)
  <2>1. phase' = "idle" /\ group_level' = group_level + (IF call.kind = "group_begin" THEN 1 ELSE 0)
    BY <1>1, <1>8
  <2>2. group_level' \in 0 .. MaxGroups
    BY <1>2, <1>4, <2>1
  <2>3. phase' \notin Phases /\ phase' # "lost"
    BY <2>1 DEF Phases
  <2>4. from' \in Nat \ {0} /\ to' \in Nat \ {0}
    BY <1>1
  <2>5. LogTypeOK'
    BY <1>1, <1>2, <1>5, <2>1, <2>2, <2>3, <2>4 DEF LogTypeOK
  <2>6. Bounds'
    BY <2>1, <2>3 DEF Bounds
  <2>7. QED
    BY <2>5, <2>6 DEF LogOK
<1>9. QED
  BY <1>7, <1>8

\* What is copied of a text that may hold a zero.
LEMMA UpToZeroIs ==
    ASSUME NEW t \in Seq(Formed)
    PROVE  UpToZero(t) \in Seq(Shown) /\ Len(UpToZero(t)) \in Nat /\ Len(UpToZero(t)) <= Len(t)
<1> DEFINE n == Len(t)
           T == {k \in 1 .. n + 1 : CharAt(t, k) \notin Alphabet}
<1>1. n \in Nat /\ DOMAIN t = 1 .. n /\ \A k \in 1 .. n : t[k] \in Formed
  BY LenProperties, ElementOfSeq
<1>2. "NUL" \notin Alphabet
  BY LogAssumption
<1>3. n + 1 \in T /\ T \subseteq Nat
  <2> HIDE DEF n
  <2>1. n + 1 \in 1 .. n + 1 /\ n + 1 \notin 1 .. n /\ 1 .. n + 1 \subseteq Nat
    BY <1>1
  <2>2. QED
    BY <1>1, <1>2, <2>1 DEF CharAt
<1> HIDE DEF n, T
<1>4. PICK j \in T : \A k \in T : j <= k
  BY <1>3, LeastElement
<1>5. j \in 1 .. n + 1 /\ CharAt(t, j) \notin Alphabet /\ j - 1 \in Nat /\ j - 1 <= n
  BY <1>1 DEF T
<1>6. \A k \in 1 .. j - 1 : t[k] \in Alphabet
  <2>1. TAKE k \in 1 .. j - 1
  <2>2. k \in 1 .. n /\ k \in 1 .. n + 1 /\ ~(j <= k)
    BY <1>1, <1>5
  <2>3. CharAt(t, k) \in Alphabet
    BY <1>4, <2>2 DEF T
  <2>4. QED
    BY <1>1, <2>2, <2>3 DEF CharAt
<1>7. Skip(t, 1, Alphabet) = j
  BY <1>1, <1>5, <1>6, SkipIs DEF n
<1>8. UpToZero(t) = SubSeq(t, 1, j - 1)
  BY <1>7 DEF UpToZero
<1>9. SubSeq(t, 1, j - 1) = [k \in 1 .. j - 1 |-> t[k]]
  <2>1. (1 + (j - 1)) - 1 = j - 1 /\ \A k \in 1 .. j - 1 : (1 + k) - 1 = k
    BY <1>5
  <2>2. QED
    BY <1>5, <2>1
<1>10. UpToZero(t) \in [1 .. j - 1 -> Shown]
  BY <1>6, <1>8, <1>9, AlphabetShown
<1>11. QED
  BY <1>5, <1>10, IsSeq DEF n

\* A handler's text and its line go past a buffer's end only if its call is long. If
\* they fit, they end with a zero before the place where the loop that was interrupted
\* would stop.
LEMMA InterruptOK ==
    ASSUME LogOK, NEW h \in HandlerCalls, Interrupt(h)
    PROVE  LogOK'
<1> DEFINE new == Formatted(h.text)
           printed == UpToZero(new)
           frame == Indent(group_level) \o Bracketed(h.cat)
           nl == <<"\n">>
           line == frame \o printed \o nl
           fits == Len(new) < LogSize /\ Len(line) < SerialSize
           its == Long(new, <<HandlerLine(h)>>)
           b == BufferOf(call.kind)
           size == SizeOf(b)
<1>1. /\ phase \notin {"idle", "lost"} /\ disturbed' = TRUE /\ long' = (long \/ its)
      /\ IF fits
         THEN /\ logBuf' = [logBuf EXCEPT !["info"] = Replace(@, new)]
              /\ serialBuf' = Replace(serialBuf, line)
              /\ phase' = phase
         ELSE phase' = "lost" /\ logBuf' = logBuf /\ serialBuf' = serialBuf
      /\ text' \in {text} \cup Formatting(h)
      /\ UNCHANGED <<group_level, line_length, call, lines, from, to>>
  BY DEF Interrupt, HandlerLine, Line
<1>2. /\ group_level \in 0 .. MaxGroups /\ line_length \in Nat /\ BuffersOK(logBuf)
      /\ serialBuf \in StoredIn(1 .. SerialSize) /\ SerialSize \in Nat /\ LogSize \in Nat
      /\ phase \in Phases \cup {"sprintf"} /\ long \in BOOLEAN /\ MaxGroups \in Nat
      /\ from \in Nat \ {0} /\ to \in Nat \ {0} /\ TextSize \in Nat /\ TextSize < LogSize
  BY <1>1, LogAssumption DEF LogOK, LogTypeOK, SerialPlaces
<1>3. its = (Len(new) > TextSize \/ ~(Len(frame) + TextSize + Len(nl) < SerialSize))
  <2> DEFINE hl == HandlerLine(h)
  <2>1. hl.head = frame /\ hl.copies = TRUE /\ hl.tail = nl
    BY DEF HandlerLine, Line
  <2> HIDE DEF hl
  <2>2. DOMAIN <<hl>> = {1} /\ <<hl>>[1] = hl
    OBVIOUS
  <2>3. (\E k \in DOMAIN <<hl>> : ~Roomy(<<hl>>[k])) = ~Roomy(hl)
    BY <2>2
  <2>4. Roomy(hl) = (Len(frame) + TextSize + Len(nl) < SerialSize)
    BY <2>1 DEF Roomy
  <2>5. its = (Len(new) > TextSize \/ ~Roomy(hl))
    BY <2>3 DEF Long, hl
  <2>6. QED
    BY <2>4, <2>5
<1>4. /\ new \in Seq(Kept) /\ Len(new) \in Nat /\ h.cat \in Seq(Shown)
      /\ LeftBehind(h.text) \in Seq(Kept)
      /\ printed \in Seq(Shown) /\ Len(printed) \in Nat /\ Len(printed) <= Len(new)
  <2>1. h \in Calls \cup HandlerCalls
    OBVIOUS
  <2>2. /\ new \in Seq(Formed) /\ new \in Seq(Kept) /\ Len(new) \in Nat /\ h.cat \in Seq(Shown)
        /\ LeftBehind(h.text) \in Seq(Kept)
    BY <2>1, TextIs
  <2> HIDE DEF new
  <2>3. printed \in Seq(Shown) /\ Len(printed) \in Nat /\ Len(printed) <= Len(new)
    BY <2>2, UpToZeroIs
  <2>4. QED
    BY <2>2, <2>3
<1>5. frame \in Seq(Shown)
  <2>1. group_level \in Nat
    BY <1>2
  <2>2. QED
    BY <1>4, <2>1, FrameIs
<1>6. nl \in Seq(Shown) /\ Len(nl) = 1
  <2>1. "\n" \in Shown
    BY AlphabetShown
  <2> HIDE DEF nl
  <2>2. QED
    BY <2>1, Tuples DEF nl
<1> HIDE DEF new, printed, frame, nl
<1>7. line \in Seq(Kept) /\ Len(line) = Len(frame) + Len(printed) + 1 /\ Len(frame) \in Nat
  <2> DEFINE both == frame \o printed
  <2>1. both \in Seq(Shown) /\ Len(both) = Len(frame) + Len(printed) /\ Len(frame) \in Nat
    BY <1>4, <1>5, Concat
  <2> HIDE DEF both
  <2>2. both \o nl \in Seq(Shown) /\ Len(both \o nl) = Len(both) + 1
    <3>1. both \o nl \in Seq(Shown) /\ Len(both \o nl) = Len(both) + Len(nl)
      BY <1>6, <2>1, Concat
    <3>2. QED
      BY <1>6, <3>1
  <2>3. line = both \o nl
    BY DEF both
  <2> HIDE DEF line
  <2>4. Shown \subseteq Kept
    BY DEF Kept
  <2>5. line \in Seq(Kept)
    BY <2>2, <2>3, <2>4, SeqMonotonic
  <2>6. QED
    BY <2>1, <2>2, <2>3, <2>5
<1> HIDE DEF line
<1>8. ~its => fits /\ Len(new) <= TextSize
  <2> DEFINE n == Len(new)
             f == Len(frame)
             l == Len(printed)
             all == Len(line)
  <2>1. n \in Nat /\ f \in Nat /\ l \in Nat /\ l <= n /\ all = f + l + 1
    BY <1>4, <1>7
  <2>2. ~its => ~(n > TextSize) /\ f + TextSize + 1 < SerialSize
    BY <1>3, <1>6
  <2>3. fits = (n < LogSize /\ all < SerialSize)
    OBVIOUS
  <2> HIDE DEF n, f, l, all, its, fits
  <2>4. ~its => n < LogSize /\ all < SerialSize /\ n <= TextSize
    BY <1>2, <2>1, <2>2
  <2>5. QED
    BY <2>3, <2>4 DEF n
<1>9. /\ long' \in BOOLEAN /\ (long => long') /\ (~fits => long')
      /\ (~long' => ~long /\ Len(new) <= TextSize)
  <2> HIDE DEF its, fits
  <2>1. long' = (long \/ its) /\ long \in BOOLEAN
    BY <1>1, <1>2
  <2>2. QED
    BY <1>8, <2>1
<1>10. text \in Seq(Kept) => text' \in Seq(Kept) /\ Len(text') = Len(text)
  BY <1>1, <1>4, GarbledIs
<1> HIDE DEF its
<1>11. CASE ~fits
  <2>1. /\ phase' = "lost" /\ phase' \notin Phases /\ long' /\ disturbed' \in BOOLEAN
        /\ logBuf' = logBuf /\ serialBuf' = serialBuf
    BY <1>1, <1>9, <1>11 DEF Phases
  <2>2. LogTypeOK'
    BY <1>1, <1>2, <1>9, <2>1 DEF LogTypeOK, SerialPlaces
  <2>3. Bounds'
    BY <2>1 DEF Bounds
  <2>4. QED
    BY <2>2, <2>3 DEF LogOK
<1>12. CASE fits
  <2>1. /\ Len(new) < LogSize /\ Len(line) < SerialSize /\ phase' = phase
        /\ logBuf' = [logBuf EXCEPT !["info"] = Replace(@, new)]
        /\ serialBuf' = Replace(serialBuf, line)
    BY <1>1, <1>12
  <2> HIDE DEF fits
  <2>2. serialBuf' \in StoredIn(1 .. SerialSize)
    BY <1>2, <1>7, <2>1, ReplaceIs
  <2>3. "info" \in Buffers /\ Places("info") = 1 .. LogSize
    BY SizesAre DEF Buffers
  <2>4. logBuf["info"] \in StoredIn(1 .. LogSize) /\ DOMAIN logBuf = Buffers
    BY <1>2, <2>3 DEF BuffersOK
  <2>5. Replace(logBuf["info"], new) \in StoredIn(1 .. LogSize)
    BY <1>2, <1>4, <2>1, <2>4, ReplaceIs
  <2>6. /\ DOMAIN logBuf' = Buffers /\ logBuf'["info"] = Replace(logBuf["info"], new)
        /\ \A d \in Buffers : d # "info" => logBuf'[d] = logBuf[d]
    BY <2>1, <2>3, <2>4
  <2>7. BuffersOK(logBuf')
    <3>1. \A d \in Buffers : logBuf'[d] \in StoredIn(Places(d))
      BY <1>2, <2>3, <2>5, <2>6 DEF BuffersOK
    <3>2. QED
      BY <2>6, <3>1 DEF BuffersOK
  <2>8. LogTypeOK'
    <3>1. /\ disturbed' \in BOOLEAN /\ phase' # "lost" /\ serialBuf' \in StoredIn(SerialPlaces)
      BY <1>1, <2>1, <2>2 DEF SerialPlaces
    <3>2. phase \in Phases =>
             /\ text' \in Seq(Kept)
             /\ ~long' => lines \in Seq(FitLines) /\ Len(text') <= TextSize
      BY <1>9, <1>10 DEF LogOK, LogTypeOK
    <3>3. QED
      BY <1>1, <1>2, <1>9, <2>1, <2>7, <3>1, <3>2 DEF LogOK, LogTypeOK
  <2>9. CASE phase = "sprintf"
    <3>1. phase' \notin Phases /\ phase' = "sprintf"
      BY <2>1, <2>9 DEF Phases
    <3>2. Bounds'
      BY <3>1 DEF Bounds
    <3>3. QED
      BY <2>8, <3>2 DEF LogOK
  <2>10. CASE phase \in Phases
    <3>1. /\ b \in Buffers /\ Buf \in StoredIn(1 .. size) /\ size \in Nat /\ Room \in 1 .. size
          /\ TextSize < Room /\ TextSize < size
      BY <2>10, BufIs
    <3>2. /\ Room = (IF long THEN size ELSE TextSize + 1)
          /\ Room' = (IF long' THEN size ELSE TextSize + 1)
      BY <1>1 DEF Room
    <3>3. b = "info" => size = LogSize
      BY SizesAre
    <3>4. Buf' = (IF b = "info" THEN Replace(Buf, new) ELSE Buf)
      <4>1. Buf' = logBuf'[b] /\ Buf = logBuf[b]
        BY <1>1 DEF Buf
      <4> HIDE DEF b
      <4>2. QED
        BY <2>6, <3>1, <4>1
    <3> HIDE DEF b, size
    <3>5. Room \in 1 .. size /\ Room' \in 1 .. size /\ Room <= Room'
      BY <1>2, <1>9, <3>1, <3>2
    <3>6. b = "info" => Len(new) < Room' /\ Len(new) < size
      <4> DEFINE n == Len(new)
      <4>1. n \in Nat /\ n < LogSize /\ (~long' => n <= TextSize)
        BY <1>4, <1>9, <2>1
      <4> HIDE DEF n
      <4>2. b = "info" => n < Room' /\ n < size
        BY <1>2, <1>9, <3>2, <3>3, <4>1
      <4>3. QED
        BY <4>2 DEF n
    <3>7. ASSUME NEW i \in Nat \ {0}, Zero(Buf, i, Room)
          PROVE  Zero(Buf', i, Room')
      <4>1. PICK z \in i .. Room : Buf[z] = "NUL"
        BY <3>7 DEF Zero
      <4>2. z \in i .. Room'
        BY <3>5, <4>1
      <4>3. Zero(Buf, i, Room')
        BY <4>1, <4>2 DEF Zero
      <4>4. CASE b = "info"
        <5> DEFINE last == Room'
        <5>1. last \in 1 .. size /\ Len(new) < last /\ Zero(Buf, i, last)
          BY <3>5, <3>6, <4>3, <4>4
        <5> HIDE DEF last
        <5>2. Zero(Replace(Buf, new), i, last)
          BY <1>4, <3>1, <3>6, <4>4, <5>1, ReplaceIs
        <5>3. QED
          BY <3>4, <4>4, <5>2 DEF last
      <4>5. CASE b # "info"
        BY <3>4, <4>3, <4>5
      <4>6. QED
        BY <4>4, <4>5
    <3>8. phase = "copy" => Zero(Buf', from, Room')
      BY <1>2, <3>7 DEF LogOK, Bounds
    <3>9. phase \in Phases \ {"text"} => Zero(Buf', 1, Room')
      BY <3>7 DEF LogOK, Bounds
    <3>10. phase = "send" => Zero(serialBuf', from, SerialSize)
      <4>1. phase = "send" => Zero(serialBuf, from, SerialSize)
        BY DEF LogOK, Bounds
      <4>2. SerialSize \in 1 .. SerialSize
        BY LogAssumption
      <4>3. QED
        BY <1>2, <1>7, <2>1, <4>1, <4>2, ReplaceIs
    <3>11. phase = "text" => from <= Len(text') + 1
      BY <1>10, <2>10 DEF LogOK, LogTypeOK, Bounds
    <3>12. phase' = phase /\ lines' = lines /\ from' = from /\ to' = to /\ (~long' => ~long)
      BY <1>1, <1>9, <2>1
    <3>13. Bounds'
      BY <3>8, <3>9, <3>10, <3>11, <3>12 DEF LogOK, Bounds
    <3>14. QED
      BY <2>8, <3>13 DEF LogOK
  <2>11. QED
    BY <1>2, <2>9, <2>10
<1>13. QED
  BY <1>11, <1>12

\* A step that changes nothing of the log
LEMMA LogSame == LogOK /\ UNCHANGED logVars => LogOK'
<1> SUFFICES ASSUME LogOK, UNCHANGED logVars PROVE LogOK'
  OBVIOUS
<1>1. Buf' = Buf /\ Room' = Room
  BY DEF logVars, Buf, Room
<1>2. LogTypeOK'
  BY DEF LogOK, LogTypeOK, logVars
<1>3. Bounds'
  BY <1>1 DEF LogOK, Bounds, logVars
<1>4. QED
  BY <1>2, <1>3 DEF LogOK

\* and every step of LogNext keep the invariant.
LEMMA LogStep == LogOK /\ [LogNext]_logVars => LogOK'
<1> SUFFICES ASSUME LogOK, [LogNext]_logVars PROVE LogOK'
  OBVIOUS
<1>1. ASSUME NEW c \in Calls, Begin(c) PROVE LogOK'
  BY <1>1, BeginOK
<1>2. ASSUME NEW h \in HandlerCalls, Interrupt(h) PROVE LogOK'
  BY <1>2, InterruptOK
<1>3. CASE Sprintf \/ SprintfReturns
  BY <1>3, SprintfOK
<1>4. CASE StoreText
  BY <1>4, StoreTextOK
<1>5. CASE StoreHead
  BY <1>5, StoreHeadOK
<1>6. CASE CopyText
  BY <1>6, CopyTextOK
<1>7. CASE StoreTail
  BY <1>7, StoreTailOK
<1>8. CASE Overflows
  BY <1>8, OverflowsOK
<1>9. CASE Send
  BY <1>9, SendOK
<1>10. CASE Sent
  BY <1>10, SentOK
<1>11. CASE UNCHANGED logVars
  BY <1>11, LogSame
<1>12. QED
  BY <1>1, <1>2, <1>3, <1>4, <1>5, <1>6, <1>7, <1>8, <1>9, <1>10, <1>11 DEF LogNext

\* The type of the state, and the places of the loops in the buffers, hold for all
\* sizes, calls, handlers and interrupts (log.c 12-84, serial.c 35-58).
THEOREM LogIsTyped == LogSpec => []LogOK
<1>1. LogInit => LogOK
  BY LogInitOK DEF LogOK
<1>2. LogOK /\ [LogNext]_logVars => LogOK'
  BY LogStep
<1>3. QED
  BY <1>1, <1>2, PTL DEF LogSpec

\* The zeros that the loops stop at are in the buffers.
LEMMA InBuffers == LogOK => StaysInBuffers
<1> SUFFICES ASSUME LogOK PROVE StaysInBuffers
  OBVIOUS
<1>1. phase = "lost" => long
  BY DEF LogOK, LogTypeOK
<1>2. ASSUME phase = "copy"
      PROVE  \E k \in Places(BufferOf(call.kind)) : k >= from /\ logBuf[BufferOf(call.kind)][k] = "NUL"
  <2> DEFINE size == SizeOf(BufferOf(call.kind))
  <2>1. from \in Nat \ {0} /\ size \in Nat /\ Room \in 1 .. size
    BY <1>2, BufIs DEF Phases
  <2>2. Places(BufferOf(call.kind)) = 1 .. size
    BY SizesAre
  <2>3. PICK z \in from .. Room : Buf[z] = "NUL"
    BY <1>2 DEF LogOK, Bounds, Zero
  <2> HIDE DEF size
  <2>4. z \in 1 .. size /\ z >= from
    BY <2>1, <2>3
  <2>5. QED
    BY <2>2, <2>3, <2>4 DEF Buf
<1>3. ASSUME phase = "send"
      PROVE  \E k \in SerialPlaces : k >= from /\ serialBuf[k] = "NUL"
  <2>1. from \in Nat \ {0} /\ SerialSize \in Nat
    BY <1>3, BufIs DEF Phases
  <2>2. PICK z \in from .. SerialSize : serialBuf[z] = "NUL"
    BY <1>3 DEF LogOK, Bounds, Zero
  <2>3. z \in 1 .. SerialSize /\ z >= from
    BY <2>1, <2>2
  <2>4. QED
    BY <2>2, <2>3 DEF SerialPlaces
<1>4. QED
  BY <1>1, <1>2, <1>3 DEF StaysInBuffers

\* A store past the end of a buffer is the work of a call with a text of more than
\* TextSize characters or with a frame that has no place for that many, the kernel's
\* or one of a handler that came into it; whatever handlers log between any two
\* characters of shorter calls, the loops stop at a zero inside the buffers (log.c
\* 12-84, serial.c 35-58, printf.c 194-199).
THEOREM LogStaysInBuffers == LogSpec => []StaysInBuffers
BY InBuffers, LogIsTyped, PTL

-----------------------------------------------------------------------------
\* What is formatted

FormatInv ==
    AllSupported(call.text) =>
        /\ text \in Seq(Kept) /\ Len(text) = Len(TextOf(call.text))
        /\ ~disturbed => text = TextOf(call.text)

\* A text that is formatted is C's, until a handler changes its digits.
LEMMA FormatStep == FormatInv /\ [LogNext]_logVars => FormatInv'
<1> SUFFICES ASSUME FormatInv, [LogNext]_logVars PROVE FormatInv'
  OBVIOUS
<1>1. ASSUME NEW c \in Calls, Begin(c) PROVE FormatInv'
  <2>1. call' = c /\ text' = Formatted(c.text)
    BY <1>1 DEF Begin
  <2>2. c \in Calls \cup HandlerCalls
    OBVIOUS
  <2>3. AllSupported(c.text) => text' = TextOf(c.text) /\ text' \in Seq(Kept)
    BY <2>1, <2>2, TextIs
  <2>4. QED
    BY <2>1, <2>3 DEF FormatInv
<1>2. CASE Sprintf
  <2>0. PICK k \in DOMAIN FormatCases : \E t \in FormatCases[k] :
           /\ call' = [NoCall EXCEPT !.kind = "sprintf", !.text = t]
           /\ text' = Formatted(t)
    BY <1>2 DEF Sprintf
  <2>1. PICK t \in FormatCases[k] :
           /\ call' = [NoCall EXCEPT !.kind = "sprintf", !.text = t]
           /\ text' = Formatted(t)
    BY <2>0
  <2>2. call'.text = t
    BY <2>1 DEF NoCall
  <2>3. IsCall(t, Alphabet)
    BY LogAssumption
  <2>4. AllSupported(t) => text' = TextOf(t) /\ text' \in Seq(Printable(Alphabet))
    BY <2>1, <2>3, VsprintfIs
  <2>5. Printable(Alphabet) \subseteq Kept
    BY AlphabetShown DEF Kept
  <2>6. AllSupported(t) => text' \in Seq(Kept)
    BY <2>4, <2>5, SeqMonotonic
  <2>7. QED
    BY <2>2, <2>4, <2>6 DEF FormatInv
<1>3. ASSUME call' = call, text' = text, disturbed' = disturbed PROVE FormatInv'
  BY <1>3 DEF FormatInv
<1>4. CASE SprintfReturns \/ StoreText \/ StoreHead \/ CopyText \/ StoreTail \/ Overflows \/ Send
           \/ Sent
  <2>1. call' = call /\ text' = text /\ disturbed' = disturbed
    BY <1>4 DEF SprintfReturns, StoreText, StoreHead, CopyText, StoreTail, Overflows, Send, Sent,
                counters
  <2>2. QED
    BY <1>3, <2>1
<1>5. ASSUME NEW h \in HandlerCalls, Interrupt(h) PROVE FormatInv'
  <2>1. call' = call /\ text' \in {text} \cup Formatting(h) /\ disturbed' = TRUE
    BY <1>5 DEF Interrupt
  <2>2. LeftBehind(h.text) \in Seq(Kept)
    <3>1. h \in Calls \cup HandlerCalls
      OBVIOUS
    <3>2. QED
      BY <3>1, TextIs
  <2>3. text \in Seq(Kept) => text' \in Seq(Kept) /\ Len(text') = Len(text)
    BY <2>1, <2>2, GarbledIs
  <2>4. QED
    BY <2>1, <2>3 DEF FormatInv
<1>6. CASE UNCHANGED logVars
  BY <1>3, <1>6 DEF logVars
<1>7. QED
  BY <1>1, <1>2, <1>4, <1>5, <1>6 DEF LogNext

\* It is so from the start.
LEMMA FormatIs == LogSpec => []FormatInv
<1>1. LogInit => FormatInv
  <2> SUFFICES ASSUME LogInit PROVE FormatInv
    OBVIOUS
  <2>1. text = <<>> /\ call.text = <<>> /\ <<>> \in Seq(Kept)
    BY EmptySeq DEF LogInit, NoCall
  <2>2. TextOf(<<>>) = <<>>
    BY DEF TextOf, FlattenSeq
  <2>3. QED
    BY <2>1, <2>2 DEF FormatInv
<1>2. QED
  BY <1>1, FormatStep, PTL DEF LogSpec

\* Every text that the log or k_sprintf formats is the one that C prescribes if
\* k_vsprintf is meant for its conversions and no handler logs meanwhile; if one does,
\* at most characters of it change, never their number (printf.c 137-265).
THEOREM LogFormatsLikeC == LogSpec => []FormatsLikeC
<1>1. FormatInv => FormatsLikeC
  BY DEF FormatInv, FormatsLikeC
<1>2. QED
  BY <1>1, FormatIs, PTL

-----------------------------------------------------------------------------
\* The lines are right: what an undisturbed call has printed and is to print

\* What a line sends, and the lines of a call together.
Whole(line, t) == line.head \o (IF line.copies THEN t ELSE <<>>) \o line.tail
WholeAt(ls, k, t) == IF k <= Len(ls) THEN Whole(ls[k], t) ELSE <<>>
Rest(ls, t) == WholeAt(ls, 1, t) \o (WholeAt(ls, 2, t) \o WholeAt(ls, 3, t))

\* What LinesAreRight says of the characters sent.
RightWith(c, level, w, breaks, indents) ==
    /\ indents = 0 => c.kind = "line" /\ breaks = 0
    /\ breaks = 1 => c.kind \in {"line", "line_end"}
    /\ w = Times(breaks, "\n") \o Times(indents * 4 * level, " ") \o Printed(c)
Right(c, level, w) == \E breaks \in 0 .. 1, indents \in 0 .. 1 : RightWith(c, level, w, breaks, indents)

-----------------------------------------------------------------------------

\* The characters of a line are a text.
LEMMA WholeIs ==
    ASSUME NEW line \in AllLines, NEW t \in Seq(Shown)
    PROVE  Whole(line, t) \in Seq(Shown)
<1>1. line.head \in Seq(Shown) /\ line.tail \in Seq(Shown) /\ line.copies \in BOOLEAN
  BY DEF AllLines
<1> DEFINE copy == IF line.copies THEN t ELSE <<>>
<1>2. copy \in Seq(Shown)
  <2>1. <<>> \in Seq(Shown)
    BY EmptySeq
  <2>2. QED
    BY <1>1, <2>1
<1> HIDE DEF copy
<1>3. line.head \o copy \in Seq(Shown)
  BY <1>1, <1>2, ConcatProperties
<1>4. (line.head \o copy) \o line.tail \in Seq(Shown)
  BY <1>1, <1>3, ConcatProperties
<1>5. QED
  BY <1>4 DEF Whole, copy

\* What the lines print is what the first prints, then the others.
LEMMA RestIs ==
    ASSUME NEW ls \in Seq(AllLines), NEW t \in Seq(Shown), ls # <<>>, Len(ls) <= 3
    PROVE  /\ Rest(ls, t) = Whole(Head(ls), t) \o Rest(Tail(ls), t)
           /\ Whole(Head(ls), t) \in Seq(Shown) /\ Rest(Tail(ls), t) \in Seq(Shown)
<1> DEFINE tl == Tail(ls)
           n == Len(ls)
           S == Shown
<1>1. Head(ls) \in AllLines /\ tl \in Seq(AllLines) /\ Len(tl) = n - 1
      /\ \A k \in 1 .. Len(tl) : tl[k] = ls[k + 1]
  BY HeadTailProperties
<1>2. n \in 1 .. 3
  <2>1. n \in Nat /\ n # 0 /\ n <= 3
    BY EmptySeq, LenProperties
  <2> HIDE DEF n
  <2>2. QED
    BY <2>1
<1>3. Head(ls) = ls[1]
  OBVIOUS
<1>4. \A k \in 1 .. n : ls[k] \in AllLines
  BY ElementOfSeq
<1> HIDE DEF tl, n, S
<1>5. \A k \in 1 .. n : Whole(ls[k], t) \in Seq(S)
  BY <1>4, WholeIs DEF S
<1>6. <<>> \in Seq(S)
  BY EmptySeq
<1>7. WholeAt(ls, 1, t) = Whole(Head(ls), t) /\ WholeAt(ls, 1, t) \in Seq(S)
  <2>1. 1 <= n /\ 1 \in 1 .. n
    BY <1>2
  <2>2. QED
    BY <1>3, <1>5, <2>1 DEF WholeAt, n
<1>8. WholeAt(tl, 1, t) = WholeAt(ls, 2, t) /\ WholeAt(ls, 2, t) \in Seq(S)
  <2>1. CASE n = 1
    <3>1. ~(1 <= Len(tl)) /\ ~(2 <= n)
      BY <1>1, <2>1
    <3>2. QED
      BY <1>6, <3>1 DEF WholeAt, n
  <2>2. CASE n # 1
    <3>1. 1 <= Len(tl) /\ 1 \in 1 .. Len(tl) /\ 2 <= n /\ 2 \in 1 .. n /\ 1 + 1 = 2
      BY <1>1, <1>2, <2>2
    <3>2. tl[1] = ls[2]
      BY <1>1, <3>1
    <3>3. QED
      BY <1>5, <3>1, <3>2 DEF WholeAt, n
  <2>3. QED
    BY <2>1, <2>2
<1>9. WholeAt(tl, 2, t) = WholeAt(ls, 3, t) /\ WholeAt(ls, 3, t) \in Seq(S)
  <2>1. CASE n # 3
    <3>1. ~(2 <= Len(tl)) /\ ~(3 <= n)
      BY <1>1, <1>2, <2>1
    <3>2. QED
      BY <1>6, <3>1 DEF WholeAt, n
  <2>2. CASE n = 3
    <3>1. 2 <= Len(tl) /\ 2 \in 1 .. Len(tl) /\ 3 <= n /\ 3 \in 1 .. n /\ 2 + 1 = 3
      BY <1>1, <1>2, <2>2
    <3>2. tl[2] = ls[3]
      BY <1>1, <3>1
    <3>3. QED
      BY <1>5, <3>1, <3>2 DEF WholeAt, n
  <2>3. QED
    BY <2>1, <2>2
<1>10. WholeAt(tl, 3, t) = <<>>
  <2>1. ~(3 <= Len(tl))
    BY <1>1, <1>2
  <2>2. QED
    BY <2>1 DEF WholeAt
<1> DEFINE a == WholeAt(ls, 1, t)
           b == WholeAt(ls, 2, t)
           c == WholeAt(ls, 3, t)
<1> HIDE DEF a, b, c
<1>11. a \in Seq(S) /\ b \in Seq(S) /\ c \in Seq(S)
  BY <1>7, <1>8, <1>9 DEF a, b, c
<1>12. c \o <<>> = c /\ b \o c \in Seq(S)
  BY <1>11, ConcatEmptySeq, ConcatProperties
<1>13. Rest(tl, t) = b \o (c \o <<>>) /\ Rest(ls, t) = a \o (b \o c)
  BY <1>8, <1>9, <1>10 DEF Rest, a, b, c
<1>14. a = Whole(Head(ls), t)
  BY <1>7 DEF a
<1>15. QED
  BY <1>11, <1>12, <1>13, <1>14 DEF S, tl

\* After the last line nothing is left.
LEMMA NoRest == ASSUME NEW t PROVE Rest(<<>>, t) = <<>>
<1>1. Len(<<>>) = 0 /\ ~(1 <= 0) /\ ~(2 <= 0) /\ ~(3 <= 0)
  OBVIOUS
<1>2. WholeAt(<<>>, 1, t) = <<>> /\ WholeAt(<<>>, 2, t) = <<>> /\ WholeAt(<<>>, 3, t) = <<>>
  BY <1>1 DEF WholeAt
<1>3. QED
  BY <1>2 DEF Rest

\* One line, two, three.
Rests(t, x, y, z) ==
    /\ Rest(<<x>>, t) = Whole(x, t)
    /\ Rest(<<x, y>>, t) = Whole(x, t) \o Whole(y, t)
    /\ Rest(<<x, y, z>>, t) = Whole(x, t) \o (Whole(y, t) \o Whole(z, t))

\* What up to three lines print.
LEMMA RestOf ==
    ASSUME NEW t, NEW x, NEW y, NEW z,
           Whole(x, t) \in Seq(Shown), Whole(y, t) \in Seq(Shown)
    PROVE  Rests(t, x, y, z)
<1>1. /\ Len(<<x>>) = 1 /\ Len(<<x, y>>) = 2 /\ Len(<<x, y, z>>) = 3
      /\ 1 <= 1 /\ ~(2 <= 1) /\ ~(3 <= 1) /\ 1 <= 2 /\ 2 <= 2 /\ ~(3 <= 2) /\ 1 <= 3 /\ 2 <= 3 /\ 3 <= 3
  OBVIOUS
<1>2. /\ <<x>>[1] = x /\ <<x, y>>[1] = x /\ <<x, y>>[2] = y
      /\ <<x, y, z>>[1] = x /\ <<x, y, z>>[2] = y /\ <<x, y, z>>[3] = z
  OBVIOUS
<1> DEFINE a == Whole(x, t)
           b == Whole(y, t)
           c == Whole(z, t)
<1>3. /\ WholeAt(<<x>>, 1, t) = a /\ WholeAt(<<x>>, 2, t) = <<>> /\ WholeAt(<<x>>, 3, t) = <<>>
      /\ WholeAt(<<x, y>>, 1, t) = a /\ WholeAt(<<x, y>>, 2, t) = b /\ WholeAt(<<x, y>>, 3, t) = <<>>
      /\ WholeAt(<<x, y, z>>, 1, t) = a /\ WholeAt(<<x, y, z>>, 2, t) = b /\ WholeAt(<<x, y, z>>, 3, t) = c
  BY <1>1, <1>2 DEF WholeAt
<1>4. a \in Seq(Shown) /\ b \in Seq(Shown) /\ <<>> \in Seq(Shown)
  BY EmptySeq
<1> HIDE DEF a, b, c
<1>5. a \o <<>> = a /\ b \o <<>> = b /\ <<>> \o <<>> = <<>>
  BY <1>4, ConcatEmptySeq
<1>6. /\ Rest(<<x>>, t) = a \o (<<>> \o <<>>)
      /\ Rest(<<x, y>>, t) = a \o (b \o <<>>)
      /\ Rest(<<x, y, z>>, t) = a \o (b \o c)
  BY <1>3 DEF Rest
<1>7. QED
  BY <1>5, <1>6 DEF a, b, c, Rests

-----------------------------------------------------------------------------
\* How the pieces of a line associate.
Assoc(x, y, z) == (x \o y) \o z = x \o (y \o z)

\* Joining texts is associative
LEMMA Associates == \A S : \A x, y, z \in Seq(S) : Assoc(x, y, z)
BY ConcatAssociative DEF Assoc

Arranged(a, b, t, p, q, r) ==
    /\ ((a \o b) \o t) \o q = a \o ((b \o t) \o q)
    /\ ((a \o b) \o t) \o (p \o q) = a \o (((b \o t) \o p) \o q)
    /\ ((a \o (r \o b)) \o t) \o (p \o q) = a \o ((r \o ((b \o t) \o p)) \o q)

\* so the head, the text and the tail of a line are the frame that the property states.
LEMMA Frames == \A S : \A a, b, t, p, q, r \in Seq(S) : Arranged(a, b, t, p, q, r)
<1>0. SUFFICES ASSUME NEW S, NEW a \in Seq(S), NEW b \in Seq(S), NEW t \in Seq(S),
                      NEW p \in Seq(S), NEW q \in Seq(S), NEW r \in Seq(S)
               PROVE  Arranged(a, b, t, p, q, r)
  OBVIOUS
<1>1. PICK bt \in Seq(S) : bt = b \o t
  BY ConcatProperties
<1>2. PICK pq \in Seq(S) : pq = p \o q
  BY ConcatProperties
<1>3. PICK rb \in Seq(S) : rb = r \o b
  BY ConcatProperties
<1>4. PICK rbt \in Seq(S) : rbt = r \o bt
  BY ConcatProperties
<1>5. PICK btp \in Seq(S) : btp = bt \o p
  BY ConcatProperties
<1>6. Assoc(a, b, t)
  BY Associates, Zenon
<1>7. Assoc(r, b, t)
  BY Associates, Zenon
<1>9. Assoc(a, bt, q)
  BY Associates, Zenon
<1>10. Assoc(a, bt, pq)
  BY Associates, Zenon
<1>11. Assoc(bt, p, q)
  BY Associates, Zenon
<1>12. Assoc(a, rb, t)
  BY Associates, Zenon
<1>13. Assoc(r, bt, p)
  BY Associates, Zenon
<1>14. Assoc(a, rbt, pq)
  BY Associates, Zenon
<1>15. Assoc(rbt, p, q)
  BY Associates, Zenon
<1>16. ((a \o b) \o t) \o q = a \o ((b \o t) \o q)
  BY <1>1, <1>6, <1>9, Zenon DEF Assoc
<1>17. ((a \o b) \o t) \o (p \o q) = a \o (((b \o t) \o p) \o q)
  BY <1>1, <1>2, <1>6, <1>10, <1>11, Zenon DEF Assoc
<1>18. ((a \o (r \o b)) \o t) \o (p \o q) = a \o ((r \o ((b \o t) \o p)) \o q)
  <2>1. (a \o rb) \o t = a \o rbt
    BY <1>1, <1>3, <1>4, <1>7, <1>12, Zenon DEF Assoc
  <2>2. rbt \o pq = (r \o btp) \o q
    BY <1>2, <1>4, <1>5, <1>13, <1>15, Zenon DEF Assoc
  <2>3. ((a \o rb) \o t) \o pq = a \o ((r \o btp) \o q)
    BY <1>14, <2>1, <2>2, Zenon DEF Assoc
  <2>4. QED
    BY <1>1, <1>2, <1>3, <1>5, <2>3, Zenon DEF Assoc
<1>19. QED
  BY <1>16, <1>17, <1>18, Zenon DEF Arranged

Joining(w, x, y, z) ==
    /\ <<x, y>> = <<x>> \o <<y>> /\ <<x, y, z>> = <<x, y>> \o <<z>>
    /\ <<w, x, y, z>> = <<w>> \o <<x, y, z>>

\* First line and other lines of a tuple.
LEMMA Pairs == ASSUME NEW w, NEW x, NEW y, NEW z PROVE Joining(w, x, y, z)
<1> DEFINE S == {w, x, y, z}
<1>1. w \in S /\ x \in S /\ y \in S /\ z \in S
  OBVIOUS
<1> HIDE DEF S
<1>2. ASSUME NEW a \in Seq(S), NEW b \in Seq(S), NEW u \in Seq(S), Len(u) = Len(a) + Len(b),
             \A k \in 1 .. Len(a) : u[k] = a[k], \A k \in 1 .. Len(b) : u[Len(a) + k] = b[k]
      PROVE  u = a \o b
  <2> DEFINE v == a \o b
  <2>1. /\ v \in Seq(S) /\ Len(v) = Len(a) + Len(b) /\ Len(a) \in Nat /\ Len(b) \in Nat
        /\ \A k \in 1 .. Len(a) : v[k] = a[k]
        /\ \A k \in 1 .. Len(b) : v[Len(a) + k] = b[k]
    BY Concat
  <2> HIDE DEF v
  <2>2. ASSUME NEW k \in 1 .. Len(u) PROVE u[k] = v[k]
    <3>1. CASE k <= Len(a)
      <4>1. k \in 1 .. Len(a)
        BY <2>1, <3>1
      <4>2. QED
        BY <1>2, <2>1, <4>1
    <3>2. CASE ~(k <= Len(a))
      <4>1. k - Len(a) \in 1 .. Len(b) /\ Len(a) + (k - Len(a)) = k
        BY <1>2, <2>1, <3>2
      <4>2. PICK j \in 1 .. Len(b) : Len(a) + j = k
        BY <4>1
      <4>3. u[Len(a) + j] = b[j] /\ v[Len(a) + j] = b[j]
        BY <1>2, <2>1
      <4>4. QED
        BY <4>2, <4>3
    <3>3. QED
      BY <3>1, <3>2
  <2>3. u = v
    BY <1>2, <2>1, <2>2, SeqEqual
  <2>4. QED
    BY <2>3 DEF v
<1>3. <<x, y>> = <<x>> \o <<y>>
  <2> DEFINE a == <<x>>
             b == <<y>>
             u == <<x, y>>
  <2>1. a \in Seq(S) /\ b \in Seq(S) /\ u \in Seq(S) /\ Len(a) = 1 /\ Len(b) = 1 /\ Len(u) = 2
    BY <1>1, Tuples
  <2>2. a[1] = x /\ b[1] = y /\ u[1] = x /\ u[2] = y
    OBVIOUS
  <2> HIDE DEF a, b, u
  <2>3. Len(u) = Len(a) + Len(b)
    BY <2>1
  <2>4. \A k \in 1 .. Len(a) : u[k] = a[k]
    BY <2>1, <2>2
  <2>5. \A k \in 1 .. Len(b) : u[Len(a) + k] = b[k]
    BY <2>1, <2>2
  <2>6. u = a \o b
    BY <1>2, <2>1, <2>3, <2>4, <2>5
  <2>7. QED
    BY <2>6 DEF a, b, u
<1>4. <<x, y, z>> = <<x, y>> \o <<z>>
  <2> DEFINE a == <<x, y>>
             b == <<z>>
             u == <<x, y, z>>
  <2>1. a \in Seq(S) /\ b \in Seq(S) /\ u \in Seq(S) /\ Len(a) = 2 /\ Len(b) = 1 /\ Len(u) = 3
    BY <1>1, Tuples
  <2>2. a[1] = x /\ a[2] = y /\ b[1] = z /\ u[1] = x /\ u[2] = y /\ u[3] = z
    OBVIOUS
  <2> HIDE DEF a, b, u
  <2>3. Len(u) = Len(a) + Len(b)
    BY <2>1
  <2>4. ASSUME NEW k \in 1 .. Len(a) PROVE u[k] = a[k]
    <3>1. k = 1 \/ k = 2
      BY <2>1
    <3>2. QED
      BY <2>2, <3>1
  <2>5. \A k \in 1 .. Len(b) : u[Len(a) + k] = b[k]
    BY <2>1, <2>2
  <2>6. u = a \o b
    BY <1>2, <2>1, <2>3, <2>4, <2>5
  <2>7. QED
    BY <2>6 DEF a, b, u
<1>5. <<w, x, y, z>> = <<w>> \o <<x, y, z>>
  <2> DEFINE a == <<w>>
             b == <<x, y, z>>
             u == <<w, x, y, z>>
  <2>1. a \in Seq(S) /\ b \in Seq(S) /\ u \in Seq(S) /\ Len(a) = 1 /\ Len(b) = 3 /\ Len(u) = 4
    BY <1>1, Tuples
  <2>2. a[1] = w /\ b[1] = x /\ b[2] = y /\ b[3] = z /\ u[1] = w /\ u[2] = x /\ u[3] = y /\ u[4] = z
    OBVIOUS
  <2> HIDE DEF a, b, u
  <2>3. Len(u) = Len(a) + Len(b)
    BY <2>1
  <2>4. \A k \in 1 .. Len(a) : u[k] = a[k]
    BY <2>1, <2>2
  <2>5. ASSUME NEW k \in 1 .. Len(b) PROVE u[Len(a) + k] = b[k]
    <3>1. k = 1 \/ k = 2 \/ k = 3
      BY <2>1
    <3>2. QED
      BY <2>1, <2>2, <3>1
  <2>6. u = a \o b
    BY <1>2, <2>1, <2>3, <2>4, <2>5
  <2>7. QED
    BY <2>6 DEF a, b, u
<1>6. QED
  BY <1>3, <1>4, <1>5, Zenon DEF Joining

\* A character once.
LEMMA OnceIs == ASSUME NEW c PROVE Times(1, c) = <<c>>
<1> DEFINE u == Times(1, c)
           v == <<c>>
           S == {c}
<1>1. c \in S
  OBVIOUS
<1> HIDE DEF S
<1>2. u \in Seq(S) /\ Len(u) = 1 /\ \A k \in 1 .. 1 : u[k] = c
  <2>1. 1 \in Int /\ 1 > 0
    OBVIOUS
  <2>2. QED
    BY <1>1, <2>1, TimesSeq
<1>3. v \in Seq(S) /\ Len(v) = 1 /\ v[1] = c
  BY <1>1, Tuples
<1> HIDE DEF u, v
<1>4. \A k \in 1 .. Len(u) : u[k] = v[k]
  BY <1>2, <1>3
<1>5. u = v
  BY <1>2, <1>3, <1>4, SeqEqual
<1>6. QED
  BY <1>5 DEF u, v

\* The frames that LinesAreRight allows.
LEMMA RightIs ==
    ASSUME NEW c, NEW level \in Nat, Printed(c) \in Seq(Shown)
    PROVE  /\ Right(c, level, Indent(level) \o Printed(c))
           /\ c.kind \in {"line", "line_end"} =>
                 Right(c, level, <<"\n">> \o (Indent(level) \o Printed(c)))
           /\ c.kind = "line" => Right(c, level, Printed(c))
<1> DEFINE p == Printed(c)
           a == Indent(level)
           nl == <<"\n">>
           S == Shown
<1>1. p \in Seq(S) /\ a \in Seq(S) /\ nl \in Seq(S)
  <2>1. a \in Seq(Shown)
    <3>1. <<>> \in Seq(Shown)
      BY EmptySeq
    <3>2. QED
      BY <3>1, FrameIs
  <2>2. "\n" \in Shown
    BY AlphabetShown
  <2>3. nl \in Seq(Shown)
    BY <2>2, Tuples
  <2>4. QED
    BY <2>1, <2>3
<1>2. Times(0, "\n") = <<>> /\ Times(0, " ") = <<>> /\ Times(1, "\n") = nl
  <2>1. 0 \in Int /\ 0 <= 0
    OBVIOUS
  <2>2. Times(0, "\n") = <<>> /\ Times(0, " ") = <<>>
    BY <2>1, TimesNone
  <2>3. Times(1, "\n") = nl
    BY OnceIs
  <2>4. QED
    BY <2>2, <2>3
<1>3. 1 * 4 * level = 4 * level /\ 0 * 4 * level = 0 /\ 0 \in 0 .. 1 /\ 1 \in 0 .. 1
  OBVIOUS
<1>4. Times(1 * 4 * level, " ") = a /\ Times(0 * 4 * level, " ") = <<>>
  BY <1>2, <1>3 DEF Indent
<1> HIDE DEF p, a, nl, S
<1>5. <<>> \o a = a /\ <<>> \o p = p /\ <<>> \o <<>> = <<>>
  <2>1. <<>> \in Seq(S)
    BY EmptySeq
  <2>2. QED
    BY <1>1, <2>1, ConcatEmptySeq
<1>6. Right(c, level, a \o p)
  <2>1. a \o p = Times(0, "\n") \o Times(1 * 4 * level, " ") \o p
    BY <1>2, <1>4, <1>5
  <2>2. RightWith(c, level, a \o p, 0, 1)
    <3>1. 1 # 0 /\ 0 # 1
      OBVIOUS
    <3>2. QED
      BY <2>1, <3>1, Zenon DEF RightWith, p
  <2>3. QED
    BY <1>3, <2>2 DEF Right
<1>7. ASSUME c.kind \in {"line", "line_end"}
      PROVE  Right(c, level, nl \o (a \o p))
  <2>1. Assoc(nl, a, p)
    BY <1>1, Associates, Zenon
  <2>2. nl \o (a \o p) = Times(1, "\n") \o Times(1 * 4 * level, " ") \o p
    BY <1>2, <1>4, <2>1, Zenon DEF Assoc
  <2>3. RightWith(c, level, nl \o (a \o p), 1, 1)
    <3>1. 1 # 0
      OBVIOUS
    <3>2. QED
      BY <1>7, <2>2, <3>1, Zenon DEF RightWith, p
  <2>4. QED
    BY <1>3, <2>3 DEF Right
<1>8. ASSUME c.kind = "line"
      PROVE  Right(c, level, p)
  <2>1. p = Times(0, "\n") \o Times(0 * 4 * level, " ") \o p
    BY <1>2, <1>4, <1>5
  <2>2. RightWith(c, level, p, 0, 0)
    BY <1>3, <1>8, <2>1 DEF RightWith, p
  <2>3. QED
    BY <1>3, <2>2 DEF Right
<1>9. QED
  BY <1>6, <1>7, <1>8 DEF p, a, nl

\* What the lines of a call send together is what LinesAreRight says.
LEMMA LinesSendIt ==
    ASSUME NEW c \in Calls, NEW level \in Nat, NEW length \in Nat, AllSupported(c.text)
    PROVE  Right(c, level + (IF c.kind = "line" THEN 1 ELSE 0),
                 Rest(LinesFor(c, level, length), TextOf(c.text)))
<1> DEFINE S == Shown
           t == TextOf(c.text)
           a == Indent(level)
           b == Bracketed(c.cat)
           nl == <<"\n">>
           left == <<"[">>
           right == <<"]">>
           brace == <<"}", " ">>
           open == <<" ", "{", "\n">>
           blank == <<" ">>
           P == Printed(c)
           R == Rest(LinesFor(c, level, length), t)
<1>1. t \in Seq(S) /\ c.cat \in Seq(S)
  <2>1. c \in Calls \cup HandlerCalls
    OBVIOUS
  <2>2. QED
    BY <2>1, TextIs
<1>2. a \in Seq(S) /\ b \in Seq(S) /\ <<>> \in Seq(S)
  BY <1>1, FrameIs, EmptySeq
<1>3. /\ nl \in Seq(S) /\ left \in Seq(S) /\ right \in Seq(S) /\ brace \in Seq(S)
      /\ open \in Seq(S) /\ blank \in Seq(S)
  <2>1. "]" \in S /\ "[" \in S /\ "}" \in S /\ " " \in S /\ "{" \in S /\ "\n" \in S
    BY AlphabetShown
  <2> HIDE DEF S
  <2>2. nl \in Seq(S) /\ left \in Seq(S) /\ right \in Seq(S) /\ blank \in Seq(S)
    BY <2>1, Tuples
  <2>3. brace \in Seq(S) /\ open \in Seq(S)
    BY <2>1, Tuples
  <2>4. QED
    BY <2>2, <2>3
<1>4. /\ <<"]", "\n">> = right \o nl /\ <<"]", " ", "{", "\n">> = right \o open
      /\ <<"}", " ", "[">> = brace \o left
  <2>1. Joining("]", "]", "\n", "\n") /\ Joining("]", " ", "{", "\n") /\ Joining("}", "}", " ", "[")
    BY Pairs, Zenon
  <2>2. QED
    BY <2>1, Zenon DEF Joining
<1>5. /\ c.kind = "info" => P = (b \o t) \o nl
      /\ c.kind \in {"group_begin", "group_end"} => P = ((left \o t) \o right) \o nl
      /\ c.kind = "line_begin" => P = ((left \o t) \o right) \o open
      /\ c.kind = "line_end" => P = (brace \o ((left \o t) \o right)) \o nl
      /\ c.kind = "line" => P = t \o blank
  <2>1. CASE c.kind = "info"
    BY <2>1 DEF Printed
  <2>2. CASE c.kind \in {"group_begin", "group_end"}
    BY <2>2 DEF Printed, Bracketed
  <2>3. CASE c.kind = "line_begin"
    BY <2>3 DEF Printed, Bracketed
  <2>4. CASE c.kind = "line_end"
    BY <2>4 DEF Printed, Bracketed
  <2>5. CASE c.kind = "line"
    BY <2>5 DEF Printed
  <2>6. QED
    BY <2>1, <2>2, <2>3, <2>4, <2>5, KindIs DEF Kinds
<1>6. Whole(NewLine, t) = nl
  <2>1. Whole(NewLine, t) = (nl \o <<>>) \o <<>>
    BY DEF Whole, NewLine, Line
  <2> HIDE DEF nl, S
  <2>2. nl \o <<>> = nl
    BY <1>3, ConcatEmptySeq
  <2>3. QED
    BY <2>1, <2>2
<1> HIDE DEF S, t, a, b, nl, left, right, brace, open, blank
<1>7. CASE c.kind = "info"
  <2> DEFINE line == Line(a \o b, TRUE, nl)
  <2>1. LinesFor(c, level, length) = <<line>>
    BY <1>7, LinesOf DEF a, b, nl
  <2>2. Whole(line, t) = ((a \o b) \o t) \o nl
    BY DEF Whole, Line
  <2>3. ((a \o b) \o t) \o nl = a \o ((b \o t) \o nl)
    <3>1. Arranged(a, b, t, nl, nl, nl)
      BY <1>1, <1>2, <1>3, Frames, Zenon
    <3>2. QED
      BY <3>1 DEF Arranged
  <2>4. Whole(line, t) = a \o P
    BY <1>5, <1>7, <2>2, <2>3
  <2>5. P \in Seq(S)
    <3>1. b \o t \in Seq(S)
      BY <1>1, <1>2, ConcatProperties
    <3>2. (b \o t) \o nl \in Seq(S)
      BY <1>3, <3>1, ConcatProperties
    <3>3. QED
      BY <1>5, <1>7, <3>2
  <2>6. R = a \o P
    <3>1. a \o P \in Seq(S)
      BY <1>2, <2>5, ConcatProperties
    <3> HIDE DEF line, P
    <3>2. Rest(<<line>>, t) = Whole(line, t)
      <4>1. Rests(t, line, line, line)
        BY <2>4, <3>1, RestOf DEF S
      <4>2. QED
        BY <4>1 DEF Rests
    <3>3. QED
      BY <2>1, <2>4, <3>2
  <2> HIDE DEF R
  <2>7. Right(c, level, R)
    BY <2>5, <2>6, RightIs DEF S, a
  <2>8. level + (IF c.kind = "line" THEN 1 ELSE 0) = level
    BY <1>7
  <2>9. QED
    BY <2>7, <2>8 DEF R, t
<1>8. ASSUME NEW close \in Seq(S), NEW tail \in Seq(S), tail = right \o close,
             c.kind # "line_end", c.kind # "line",
             P = ((left \o t) \o right) \o close,
             LinesFor(c, level, length) = <<Line(a \o left, TRUE, tail)>>
      PROVE  Right(c, level + (IF c.kind = "line" THEN 1 ELSE 0), Rest(LinesFor(c, level, length), t))
  <2> DEFINE line == Line(a \o left, TRUE, tail)
  <2>1. Whole(line, t) = ((a \o left) \o t) \o tail
    BY DEF Whole, Line
  <2>2. ((a \o left) \o t) \o (right \o close) = a \o (((left \o t) \o right) \o close)
    <3>1. Arranged(a, left, t, right, close, nl)
      BY <1>1, <1>2, <1>3, Frames, Zenon
    <3>2. QED
      BY <3>1 DEF Arranged
  <2>3. Whole(line, t) = a \o P
    BY <1>8, <2>1, <2>2
  <2>4. P \in Seq(S)
    <3>1. left \o t \in Seq(S)
      BY <1>1, <1>3, ConcatProperties
    <3>2. (left \o t) \o right \in Seq(S)
      BY <1>3, <3>1, ConcatProperties
    <3>3. ((left \o t) \o right) \o close \in Seq(S)
      BY <3>2, ConcatProperties
    <3>4. QED
      BY <1>8, <3>3
  <2>5. R = a \o P
    <3>1. a \o P \in Seq(S)
      BY <1>2, <2>4, ConcatProperties
    <3> HIDE DEF line, P
    <3>2. Rest(<<line>>, t) = Whole(line, t)
      <4>1. Rests(t, line, line, line)
        BY <2>3, <3>1, RestOf DEF S
      <4>2. QED
        BY <4>1 DEF Rests
    <3>3. QED
      BY <1>8, <2>3, <3>2 DEF line
  <2> HIDE DEF R
  <2>6. Right(c, level, R)
    BY <2>4, <2>5, RightIs DEF S, a
  <2>7. level + (IF c.kind = "line" THEN 1 ELSE 0) = level
    BY <1>8
  <2>8. QED
    BY <2>6, <2>7 DEF R
<1>9. CASE c.kind \in {"group_begin", "group_end"}
  <2> DEFINE tail == <<"]", "\n">>
  <2>1. LinesFor(c, level, length) = <<Line(a \o left, TRUE, tail)>>
    BY <1>9, LinesOf DEF a, left
  <2>2. tail = right \o nl /\ tail \in Seq(S) /\ P = ((left \o t) \o right) \o nl
    <3>1. right \o nl \in Seq(S)
      BY <1>3, ConcatProperties
    <3>2. QED
      BY <1>4, <1>5, <1>9, <3>1
  <2>3. c.kind # "line_end" /\ c.kind # "line"
    BY <1>9
  <2> HIDE DEF tail, P
  <2>4. QED
    BY <1>3, <1>8, <2>1, <2>2, <2>3 DEF t
<1>10. CASE c.kind = "line_begin"
  <2> DEFINE tail == <<"]", " ", "{", "\n">>
  <2>1. LinesFor(c, level, length) = <<Line(a \o left, TRUE, tail)>>
    BY <1>10, LinesOf DEF a, left
  <2>2. tail = right \o open /\ tail \in Seq(S) /\ P = ((left \o t) \o right) \o open
    <3>1. right \o open \in Seq(S)
      BY <1>3, ConcatProperties
    <3>2. QED
      BY <1>4, <1>5, <1>10, <3>1
  <2>3. c.kind # "line_end" /\ c.kind # "line"
    BY <1>10
  <2> HIDE DEF tail, P
  <2>4. QED
    BY <1>3, <1>8, <2>1, <2>2, <2>3 DEF t
<1>11. CASE c.kind = "line_end"
  <2> DEFINE head == <<"}", " ", "[">>
             tail == <<"]", "\n">>
             line == Line(a \o head, TRUE, tail)
  <2>1. LinesFor(c, level, length) = <<NewLine, line>>
    BY <1>11, LinesOf DEF a
  <2>2. head = brace \o left /\ tail = right \o nl
    BY <1>4
  <2>3. Whole(line, t) = ((a \o head) \o t) \o tail
    BY DEF Whole, Line
  <2>4. ((a \o (brace \o left)) \o t) \o (right \o nl) = a \o ((brace \o ((left \o t) \o right)) \o nl)
    <3>1. Arranged(a, left, t, right, nl, brace)
      BY <1>1, <1>2, <1>3, Frames, Zenon
    <3>2. QED
      BY <3>1 DEF Arranged
  <2>5. Whole(line, t) = a \o P
    BY <1>5, <1>11, <2>2, <2>3, <2>4
  <2>6. P \in Seq(S)
    <3>1. left \o t \in Seq(S)
      BY <1>1, <1>3, ConcatProperties
    <3>2. (left \o t) \o right \in Seq(S)
      BY <1>3, <3>1, ConcatProperties
    <3>3. brace \o ((left \o t) \o right) \in Seq(S)
      BY <1>3, <3>2, ConcatProperties
    <3>4. (brace \o ((left \o t) \o right)) \o nl \in Seq(S)
      BY <1>3, <3>3, ConcatProperties
    <3>5. QED
      BY <1>5, <1>11, <3>4
  <2>7. R = nl \o (a \o P)
    <3>1. a \o P \in Seq(S)
      BY <1>2, <2>6, ConcatProperties
    <3> HIDE DEF line, P
    <3>2. Rest(<<NewLine, line>>, t) = Whole(NewLine, t) \o Whole(line, t)
      <4>1. Rests(t, NewLine, line, line)
        BY <1>3, <1>6, <2>5, <3>1, RestOf DEF S
      <4>2. QED
        BY <4>1 DEF Rests
    <3>3. QED
      BY <1>6, <2>1, <2>5, <3>2
  <2> HIDE DEF R
  <2>8. Right(c, level, R)
    BY <1>11, <2>6, <2>7, RightIs DEF S, a, nl
  <2>9. level + (IF c.kind = "line" THEN 1 ELSE 0) = level
    BY <1>11
  <2>10. QED
    BY <2>8, <2>9 DEF R, t
<1>12. CASE c.kind = "line"
  <2> DEFINE deep == Indent(level + 1)
             indent == Line(deep, FALSE, <<>>)
             body == Line(<<>>, TRUE, blank)
  <2>1. \/ LinesFor(c, level, length) = <<NewLine, indent, body>>
        \/ LinesFor(c, level, length) = <<indent, body>>
        \/ LinesFor(c, level, length) = <<body>>
    <3>1. CASE length >= LineLimit
      BY <1>12, <3>1, LinesOf DEF blank
    <3>2. CASE ~(length >= LineLimit) /\ length = 0
      BY <1>12, <3>2, LinesOf DEF blank
    <3>3. CASE ~(length >= LineLimit) /\ length # 0
      BY <1>12, <3>3, LinesOf DEF blank
    <3>4. QED
      BY <3>1, <3>2, <3>3
  <2>2. level + 1 \in Nat
    OBVIOUS
  <2>3. deep \in Seq(S)
    BY <1>2, <2>2, FrameIs DEF S
  <2>4. Whole(indent, t) = deep
    <3>1. Whole(indent, t) = (deep \o <<>>) \o <<>>
      BY DEF Whole, Line
    <3> HIDE DEF deep
    <3>2. deep \o <<>> = deep
      BY <2>3, ConcatEmptySeq
    <3>3. QED
      BY <3>1, <3>2
  <2>5. Whole(body, t) = P
    <3>1. Whole(body, t) = (<<>> \o t) \o blank
      BY DEF Whole, Line
    <3>2. <<>> \o t = t
      BY <1>1, ConcatEmptySeq
    <3>3. QED
      BY <1>5, <1>12, <3>1, <3>2
  <2>6. P \in Seq(S)
    <3>1. t \o blank \in Seq(S)
      BY <1>1, <1>3, ConcatProperties
    <3>2. QED
      BY <1>5, <1>12, <3>1
  <2> HIDE DEF indent, body, P
  <2>7. R = nl \o (deep \o P) \/ R = deep \o P \/ R = P
    <3>1. CASE LinesFor(c, level, length) = <<NewLine, indent, body>>
      <4>0. Whole(NewLine, t) \in Seq(Shown) /\ Whole(indent, t) \in Seq(Shown)
        BY <1>3, <1>6, <2>3, <2>4 DEF S
      <4>1. Rest(<<NewLine, indent, body>>, t) = Whole(NewLine, t) \o (Whole(indent, t) \o Whole(body, t))
        <5>1. Rests(t, NewLine, indent, body)
          BY <4>0, RestOf
        <5>2. QED
          BY <5>1 DEF Rests
      <4>2. QED
        BY <1>6, <2>4, <2>5, <3>1, <4>1
    <3>2. CASE LinesFor(c, level, length) = <<indent, body>>
      <4>1. Rest(<<indent, body>>, t) = Whole(indent, t) \o Whole(body, t)
        <5>1. Rests(t, indent, body, body)
          BY <2>3, <2>4, <2>5, <2>6, RestOf DEF S
        <5>2. QED
          BY <5>1 DEF Rests
      <4>2. QED
        BY <2>4, <2>5, <3>2, <4>1
    <3>3. CASE LinesFor(c, level, length) = <<body>>
      <4>1. Rest(<<body>>, t) = Whole(body, t)
        <5>1. Rests(t, body, body, body)
          BY <2>5, <2>6, RestOf DEF S
        <5>2. QED
          BY <5>1 DEF Rests
      <4>2. QED
        BY <2>5, <3>3, <4>1
    <3>4. QED
      BY <2>1, <3>1, <3>2, <3>3
  <2> HIDE DEF R
  <2>8. Right(c, level + 1, R)
    <3>1. Printed(c) \in Seq(Shown)
      BY <2>6 DEF P, S
    <3>2. /\ Right(c, level + 1, Indent(level + 1) \o Printed(c))
          /\ Right(c, level + 1, <<"\n">> \o (Indent(level + 1) \o Printed(c)))
          /\ Right(c, level + 1, Printed(c))
      BY <1>12, <2>2, <3>1, RightIs
    <3>3. QED
      BY <2>7, <3>2 DEF P, nl
  <2>9. level + (IF c.kind = "line" THEN 1 ELSE 0) = level + 1
    BY <1>12
  <2>10. QED
    BY <2>8, <2>9 DEF R, t
<1>13. QED
  BY <1>7, <1>9, <1>10, <1>11, <1>12, KindIs DEF Kinds

\* As long as no handler logged: what the buffers hold, what is still to be sent.
Has(buf, u, n) == \A k \in 1 .. n : buf[k] = u[k]
Line1 == Whole(Head(lines), text)
TextLength == IF Head(lines).copies THEN Len(text) ELSE 0
LevelNow == IF call.kind = "group_end" /\ phase = "text" THEN group_level - 1 ELSE group_level
Level == LevelNow + (IF call.kind = "line" THEN 1 ELSE 0)
Undisturbed ==
    /\ phase \in Phases \/ call.kind \in Kinds => wire \in Seq(Shown)
    /\ phase \in Phases => text \in Seq(Shown)
    /\ phase = "sprintf" => call.kind \notin Kinds
    /\ phase = "text" => Has(Buf, text, from - 1)
    /\ phase \in Phases \ {"text"} => Has(Buf, text, Len(text)) /\ Buf[Len(text) + 1] = "NUL"
    /\ phase \in {"head", "copy", "tail"} => Has(serialBuf, Line1, to - 1)
    /\ phase = "copy" => from <= Len(text) + 1
    /\ phase = "tail" => to = Len(Head(lines).head) + TextLength + from
    /\ phase = "send" => /\ Has(serialBuf, Line1, Len(Line1)) /\ serialBuf[Len(Line1) + 1] = "NUL"
                         /\ from <= Len(Line1) + 1
    /\ phase \in Phases \ {"send"} => Right(call, Level, wire \o Rest(lines, text))
    /\ phase = "send" =>
          Right(call, Level, (wire \o SubSeq(Line1, from, Len(Line1))) \o Rest(Tail(lines), text))
    /\ phase = "idle" /\ call.kind \in Kinds => Right(call, Around, wire)

LogInv == LogOK /\ (AllSupported(call.text) /\ ~disturbed => Undisturbed)

-----------------------------------------------------------------------------
\* The characters of a line.
LEMMA LineIs ==
    ASSUME lines \in Seq(AllLines), lines # <<>>, text \in Seq(Shown)
    PROVE  /\ Line1 \in Seq(Shown) /\ TextLength \in Nat
           /\ Len(Line1) = Len(Head(lines).head) + TextLength + Len(Head(lines).tail)
           /\ Len(Line1) \in Nat
           /\ Has(Head(lines).head, Line1, Len(Head(lines).head))
           /\ Head(lines).copies => \A k \in 1 .. Len(text) : Line1[Len(Head(lines).head) + k] = text[k]
           /\ \A k \in 1 .. Len(Head(lines).tail) :
                 Line1[Len(Head(lines).head) + TextLength + k] = Head(lines).tail[k]
<1> DEFINE head == Head(lines).head
           tail == Head(lines).tail
           copy == IF Head(lines).copies THEN text ELSE <<>>
           both == head \o copy
           S == Shown
<1>1. head \in Seq(S) /\ tail \in Seq(S) /\ Head(lines).copies \in BOOLEAN
  BY HeadIs
<1>2. copy \in Seq(S) /\ Len(copy) = TextLength
  <2>1. <<>> \in Seq(S) /\ Len(<<>>) = 0
    BY EmptySeq
  <2>2. QED
    BY <1>1, <2>1 DEF TextLength
<1>3. Head(lines).copies => copy = text
  OBVIOUS
<1>4. Line1 = both \o tail
  BY DEF Line1, Whole
<1> HIDE DEF S, head, tail, copy
<1>5. /\ both \in Seq(S) /\ Len(head) \in Nat /\ Len(copy) \in Nat /\ Len(both) = Len(head) + Len(copy)
      /\ \A k \in 1 .. Len(head) : both[k] = head[k]
      /\ \A k \in 1 .. Len(copy) : both[Len(head) + k] = copy[k]
  <2>1. both \in Seq(S) /\ Len(head) \in Nat /\ Len(copy) \in Nat /\ Len(both) = Len(head) + Len(copy)
    BY <1>1, <1>2, Concat
  <2>2. \A k \in 1 .. Len(head) : both[k] = head[k]
    BY <1>1, <1>2, Concat
  <2>3. \A k \in 1 .. Len(copy) : both[Len(head) + k] = copy[k]
    BY <1>1, <1>2, Concat
  <2>4. QED
    BY <2>1, <2>2, <2>3
<1> HIDE DEF both
<1>6. /\ Line1 \in Seq(S) /\ Len(tail) \in Nat /\ Len(both) \in Nat
      /\ Len(Line1) = Len(both) + Len(tail)
      /\ \A k \in 1 .. Len(both) : Line1[k] = both[k]
      /\ \A k \in 1 .. Len(tail) : Line1[Len(both) + k] = tail[k]
  <2> DEFINE u == both \o tail
  <2>0. both \in Seq(S) /\ tail \in Seq(S)
    BY <1>1, <1>5
  <2>1. u \in Seq(S) /\ Len(tail) \in Nat /\ Len(both) \in Nat /\ Len(u) = Len(both) + Len(tail)
    BY <2>0, Concat
  <2>2. \A k \in 1 .. Len(both) : u[k] = both[k]
    BY <2>0, Concat
  <2>3. \A k \in 1 .. Len(tail) : u[Len(both) + k] = tail[k]
    BY <2>0, Concat
  <2>4. QED
    BY <1>4, <2>1, <2>2, <2>3
<1> DEFINE h == Len(head)
           m == Len(copy)
           b == Len(both)
<1>7. h \in Nat /\ m \in Nat /\ b = h + m /\ m = TextLength
  BY <1>2, <1>5
<1> HIDE DEF h, m, b
<1>8. ASSUME NEW k \in 1 .. h PROVE head[k] = Line1[k]
  <2>1. k \in 1 .. b
    BY <1>7
  <2>2. QED
    BY <1>5, <1>6, <2>1 DEF h, b
<1>9. ASSUME NEW k \in 1 .. m PROVE Line1[h + k] = copy[k]
  <2>1. h + k \in 1 .. b
    BY <1>7
  <2>2. Line1[h + k] = both[h + k]
    BY <1>6, <2>1 DEF b
  <2>3. QED
    BY <1>5, <2>2 DEF h, m
<1>10. Head(lines).copies => \A k \in 1 .. Len(text) : Line1[h + k] = text[k]
  BY <1>3, <1>9 DEF m
<1>11. \A k \in 1 .. Len(tail) : Line1[h + TextLength + k] = tail[k]
  BY <1>6, <1>7 DEF b
<1>12. Len(Line1) = h + TextLength + Len(tail) /\ Len(Line1) \in Nat
  BY <1>6, <1>7 DEF b
<1>13. QED
  BY <1>6, <1>7, <1>8, <1>10, <1>11, <1>12 DEF h, S, head, tail, Has

\* Storing the next character of what a buffer is to hold.
LEMMA PutHas ==
    ASSUME NEW size \in Nat, NEW buf \in StoredIn(1 .. size), NEW k \in 1 .. size, NEW c \in Kept,
           NEW u, Has(buf, u, k - 1), c = u[k]
    PROVE  Has(Put(buf, k, c), u, k)
<1>1. SUFFICES ASSUME NEW j \in 1 .. k PROVE Put(buf, k, c)[j] = u[j]
  BY DEF Has
<1> DEFINE places == 1 .. size
<1>2. Put(buf, k, c)[k] = c /\ \A i \in places \ {k} : Put(buf, k, c)[i] = buf[i]
  <2>1. buf \in StoredIn(places) /\ k \in places
    OBVIOUS
  <2> HIDE DEF places
  <2>2. QED
    BY <2>1, PutIs
<1>3. CASE j = k
  BY <1>2, <1>3
<1>4. CASE j # k
  <2>1. j \in 1 .. size /\ j \in 1 .. k - 1
    BY <1>4
  <2>2. Put(buf, k, c)[j] = buf[j]
    BY <1>2, <1>4, <2>1
  <2>3. QED
    BY <2>1, <2>2 DEF Has
<1>5. QED
  BY <1>3, <1>4

\* What no step between the text and the end of a line changes.
LEMMA SameCall ==
    ASSUME UNCHANGED <<group_level, call, lines, text>>, phase = "text" <=> phase' = "text"
    PROVE  Level' = Level /\ Line1' = Line1 /\ TextLength' = TextLength
<1>1. LevelNow' = LevelNow
  BY DEF LevelNow
<1>2. QED
  BY <1>1 DEF Level, Line1, TextLength

\* What a step reads, undisturbed.
LEMMA PhaseIs ==
    ASSUME LogOK, Undisturbed, phase \in Phases
    PROVE  /\ from \in Nat \ {0} /\ to \in Nat \ {0}
           /\ lines \in Seq(AllLines) /\ lines # <<>> /\ Len(lines) <= 3
           /\ serialBuf \in StoredIn(1 .. SerialSize) /\ SerialSize \in Nat
           /\ text \in Seq(Shown) /\ Len(text) \in Nat
           /\ Head(lines).head \in Seq(Shown) /\ Len(Head(lines).head) \in Nat
           /\ Head(lines).tail \in Seq(Shown) /\ Len(Head(lines).tail) \in Nat
           /\ Head(lines).copies \in BOOLEAN
<1>1. lines \in Seq(AllLines) /\ lines # <<>> /\ Len(lines) <= 3
  BY DEF LogOK, LogTypeOK
<1>2. text \in Seq(Shown)
  BY DEF Undisturbed
<1>3. QED
  BY <1>1, <1>2, BufIs, HeadIs DEF SerialPlaces

-----------------------------------------------------------------------------

\* The text's characters are stored in their order
LEMMA StoreTextRight ==
    ASSUME LogOK, Undisturbed, StoreText
    PROVE  Undisturbed'
<1> DEFINE c == CharAt(text, from)
           size == SizeOf(BufferOf(call.kind))
           n == Len(text)
<1>1. /\ phase = "text"
      /\ IF from <= n THEN from' = from + 1 /\ phase' = phase /\ group_level' = group_level
         ELSE /\ from' = 1 /\ phase' = "head"
              /\ group_level' = IF call.kind = "group_end" THEN group_level - 1 ELSE group_level
      /\ UNCHANGED <<call, lines, text, to, serialBuf, wire>>
  BY DEF StoreText
<1>2. /\ Buf' = Put(Buf, from, c) /\ from \in 1 .. size /\ c \in Kept
      /\ Buf \in StoredIn(1 .. size) /\ size \in Nat
      /\ text \in Seq(Shown) /\ n \in Nat /\ DOMAIN text = 1 .. n
      /\ from \in Nat \ {0} /\ from <= n + 1 /\ to = 1
      /\ (from = n + 1 => c = "NUL")
  BY <1>1, TextStored, PhaseIs, SizesAre, LenProperties DEF Phases
<1>3. Has(Buf, text, from - 1) /\ wire \in Seq(Shown) /\ Right(call, Level, wire \o Rest(lines, text))
  BY <1>1 DEF Undisturbed, Phases
<1>4. Level' = Level
  <2>1. LevelNow' = LevelNow
    BY <1>1 DEF LevelNow
  <2>2. QED
    BY <1>1, <2>1 DEF Level
<1>5. /\ Right(call', Level', wire' \o Rest(lines', text')) /\ wire' \in Seq(Shown)
      /\ text' \in Seq(Shown)
  BY <1>1, <1>2, <1>3, <1>4
<1> HIDE DEF c, size, n
<1>6. CASE from <= n
  <2>1. c = text[from]
    BY <1>2, <1>6 DEF CharAt, c
  <2>2. Has(Buf', text, from)
    BY <1>2, <1>3, <2>1, PutHas
  <2>3. phase' = "text" /\ from' - 1 = from
    BY <1>1, <1>2, <1>6
  <2>4. Has(Buf', text', from' - 1)
    BY <1>1, <2>2, <2>3
  <2>5. QED
    BY <1>5, <2>3, <2>4 DEF Undisturbed, Phases
<1>7. CASE ~(from <= n)
  <2>1. from = n + 1 /\ from - 1 = n
    BY <1>2, <1>7
  <2>2. phase' = "head" /\ to' = 1 /\ to' - 1 = 0
    BY <1>1, <1>2, <1>7
  <2>3. Put(Buf, from, c)[from] = c /\ \A i \in (1 .. size) \ {from} : Put(Buf, from, c)[i] = Buf[i]
    BY <1>2, PutIs
  <2>4. Buf'[n + 1] = "NUL"
    BY <1>2, <2>1, <2>3
  <2>5. Has(Buf', text, n)
    <3>1. SUFFICES ASSUME NEW k \in 1 .. n PROVE Buf'[k] = text[k]
      BY DEF Has
    <3>2. k \in (1 .. size) \ {from}
      BY <1>2, <2>1
    <3>3. Buf'[k] = Buf[k]
      BY <1>2, <2>3, <3>2
    <3>4. QED
      BY <1>3, <2>1, <3>3 DEF Has
  <2>6. Has(serialBuf', Line1', to' - 1)
    BY <2>2 DEF Has
  <2>7. text' = text /\ Len(text') = n
    BY <1>1 DEF n
  <2>8. QED
    BY <1>5, <2>2, <2>4, <2>5, <2>6, <2>7 DEF Undisturbed, Phases
<1>8. QED
  BY <1>6, <1>7

\* then the head's in the other buffer
LEMMA StoreHeadRight ==
    ASSUME LogOK, Undisturbed, StoreHead
    PROVE  Undisturbed'
<1> DEFINE head == Head(lines).head
           n == Len(head)
<1>1. /\ phase = "head" /\ to \in 1 .. SerialSize
      /\ IF from <= n
         THEN serialBuf' = Put(serialBuf, to, head[from]) /\ from' = from + 1 /\ to' = to + 1
              /\ phase' = phase
         ELSE /\ phase' = (IF Head(lines).copies THEN "copy" ELSE "tail")
              /\ from' = 1 /\ to' = to /\ serialBuf' = serialBuf
      /\ UNCHANGED <<group_level, call, lines, text, logBuf, wire>>
  BY DEF StoreHead, SerialPlaces
<1>2. phase \in Phases /\ phase # "text" /\ phase # "send"
  BY <1>1 DEF Phases
<1>3. /\ wire \in Seq(Shown) /\ Has(Buf, text, Len(text)) /\ Buf[Len(text) + 1] = "NUL"
      /\ Has(serialBuf, Line1, to - 1) /\ Right(call, Level, wire \o Rest(lines, text))
  BY <1>1, <1>2 DEF Undisturbed
<1>4. /\ from \in Nat \ {0} /\ lines \in Seq(AllLines) /\ lines # <<>>
      /\ serialBuf \in StoredIn(1 .. SerialSize) /\ SerialSize \in Nat /\ text \in Seq(Shown) /\ Len(text) \in Nat
      /\ head \in Seq(Shown) /\ n \in Nat /\ Head(lines).copies \in BOOLEAN
  BY <1>2, PhaseIs
<1>5. from <= n + 1 /\ to = from
  BY <1>1 DEF LogOK, Bounds
<1>6. Has(head, Line1, n)
  BY <1>4, LineIs
<1>7. \A k \in 1 .. n : head[k] \in Shown
  BY <1>4, ElementOfSeq
<1>8. /\ Right(call', Level', wire' \o Rest(lines', text')) /\ wire' \in Seq(Shown)
      /\ Has(Buf', text', Len(text')) /\ Buf'[Len(text') + 1] = "NUL"
      /\ Line1' = Line1 /\ TextLength' = TextLength /\ Head(lines') = Head(lines) /\ text' = text
      /\ text' \in Seq(Shown)
  <2>1. phase # "text" /\ phase' # "text"
    BY <1>1
  <2>2. QED
    BY <1>1, <1>3, <1>4, <2>1, SameCall DEF Buf
<1> HIDE DEF n
<1>9. CASE from <= n
  <2>1. from \in 1 .. n
    BY <1>4, <1>9
  <2>2. phase' = "head" /\ serialBuf' = Put(serialBuf, to, head[from]) /\ to' = to + 1
    BY <1>1, <1>9
  <2>3. head[from] = Line1[to] /\ head[from] \in Kept
    BY <1>5, <1>6, <1>7, <2>1 DEF Has, Kept
  <2>4. Has(Put(serialBuf, to, head[from]), Line1, to)
    BY <1>1, <1>3, <1>4, <2>3, PutHas
  <2>5. to' - 1 = to
    BY <1>4, <1>5, <2>2
  <2>6. Has(serialBuf', Line1', to' - 1)
    BY <1>8, <2>2, <2>4, <2>5
  <2>7. QED
    BY <1>8, <2>2, <2>6 DEF Undisturbed, Phases
<1>10. CASE ~(from <= n)
  <2>1. /\ phase' = (IF Head(lines).copies THEN "copy" ELSE "tail")
        /\ from' = 1 /\ to' = to /\ serialBuf' = serialBuf
    BY <1>1, <1>10
  <2>2. Has(serialBuf', Line1', to' - 1)
    BY <1>3, <1>8, <2>1
  <2>3. to' = n + 1 /\ from' <= Len(text) + 1
    BY <1>4, <1>5, <1>10, <2>1
  <2>4. CASE Head(lines).copies
    <3>1. phase' = "copy"
      BY <2>1, <2>4
    <3>2. QED
      BY <1>8, <2>2, <2>3, <3>1 DEF Undisturbed, Phases
  <2>5. CASE ~Head(lines).copies
    <3>1. phase' = "tail"
      BY <2>1, <2>5
    <3>2. TextLength = 0
      BY <2>5 DEF TextLength
    <3>3. to' = n + TextLength' + from'
      <4>1. TextLength' = 0 /\ from' = 1 /\ n \in Nat /\ to' = n + 1
        BY <1>4, <1>8, <2>1, <2>3, <3>2
      <4>2. QED
        BY <4>1
    <3>4. QED
      BY <1>8, <2>2, <3>1, <3>3 DEF Undisturbed, Phases, n
  <2>6. QED
    BY <2>4, <2>5
<1>11. QED
  BY <1>9, <1>10

\* then the text behind it
LEMMA CopyTextRight ==
    ASSUME LogOK, Undisturbed, CopyText
    PROVE  Undisturbed'
<1> DEFINE h == Len(Head(lines).head)
           t == Len(text)
           c == Buf[from]
<1>1. /\ phase = "copy" /\ to \in 1 .. SerialSize
      /\ IF ~Ends(c)
         THEN serialBuf' = Put(serialBuf, to, c) /\ from' = from + 1 /\ to' = to + 1 /\ phase' = phase
         ELSE phase' = "tail" /\ from' = 1 /\ to' = to /\ serialBuf' = serialBuf
      /\ UNCHANGED <<group_level, call, lines, text, logBuf, wire>>
  BY DEF CopyText, Buf, SerialPlaces
<1>2. phase \in Phases /\ phase # "text" /\ phase # "send"
  BY <1>1 DEF Phases
<1>3. /\ wire \in Seq(Shown) /\ Has(Buf, text, t) /\ Buf[t + 1] = "NUL" /\ from <= t + 1
      /\ Has(serialBuf, Line1, to - 1) /\ Right(call, Level, wire \o Rest(lines, text))
  BY <1>1, <1>2 DEF Undisturbed
<1>4. /\ lines \in Seq(AllLines) /\ lines # <<>>
      /\ serialBuf \in StoredIn(1 .. SerialSize) /\ SerialSize \in Nat /\ text \in Seq(Shown)
  BY <1>2, PhaseIs
<1>5. from \in Nat \ {0} /\ t \in Nat /\ h \in Nat
  BY <1>2, PhaseIs
<1>6. Head(lines).copies /\ to = h + from
  BY <1>1 DEF LogOK, Bounds
<1>7. \A k \in 1 .. t : Line1[h + k] = text[k]
  BY <1>4, <1>6, LineIs
<1>8. \A k \in 1 .. t : text[k] \in Shown
  BY <1>4, ElementOfSeq
<1>9. /\ Right(call', Level', wire' \o Rest(lines', text')) /\ wire' \in Seq(Shown)
      /\ Has(Buf', text', Len(text')) /\ Buf'[Len(text') + 1] = "NUL"
      /\ Line1' = Line1 /\ TextLength' = TextLength /\ Head(lines') = Head(lines) /\ text' = text
      /\ text' \in Seq(Shown)
  <2>1. phase # "text" /\ phase' # "text"
    BY <1>1
  <2>2. QED
    BY <1>1, <1>3, <1>4, <2>1, SameCall DEF Buf
<1> HIDE DEF h, t, c
<1>10. CASE ~Ends(c)
  <2>1. from # t + 1
    BY <1>3, <1>10 DEF Ends, c
  <2>2. from \in 1 .. t /\ from + 1 <= t + 1
    <3>1. from <= t + 1
      BY <1>3
    <3>2. QED
      BY <1>5, <2>1, <3>1
  <2>3. c = Line1[to] /\ c \in Kept
    <3>1. c = text[from]
      BY <1>3, <2>2 DEF Has, c
    <3>2. Line1[to] = text[from]
      BY <1>6, <1>7, <2>2
    <3>3. QED
      BY <1>8, <2>2, <3>1, <3>2 DEF Kept
  <2>4. Has(Put(serialBuf, to, c), Line1, to)
    BY <1>1, <1>3, <1>4, <2>3, PutHas
  <2>5. phase' = "copy" /\ serialBuf' = Put(serialBuf, to, c) /\ to' = to + 1 /\ from' = from + 1
    BY <1>1, <1>10
  <2>6. to' - 1 = to /\ from' <= t + 1
    BY <1>5, <1>6, <2>2, <2>5
  <2>7. Has(serialBuf', Line1', to' - 1)
    BY <1>9, <2>4, <2>5, <2>6
  <2>8. QED
    BY <1>9, <2>5, <2>6, <2>7 DEF Undisturbed, Phases, t
<1>11. CASE Ends(c)
  <2>1. from = t + 1
    <3>1. from \notin 1 .. t
      <4>1. SUFFICES ASSUME from \in 1 .. t PROVE FALSE
        OBVIOUS
      <4>2. c = text[from] /\ text[from] \in Shown
        BY <1>3, <1>8, <4>1 DEF Has, c
      <4>3. QED
        BY <1>11, <4>2, AlphabetShown DEF Ends
    <3>2. from <= t + 1
      BY <1>3
    <3>3. QED
      BY <1>5, <3>1, <3>2
  <2>2. phase' = "tail" /\ from' = 1 /\ to' = to /\ serialBuf' = serialBuf
    BY <1>1, <1>11
  <2>3. TextLength = t
    BY <1>6 DEF TextLength, t
  <2>4. to' = h + TextLength' + from'
    <3>1. to' = h + from /\ from = t + 1 /\ TextLength' = t /\ from' = 1
      BY <1>6, <1>9, <2>1, <2>2, <2>3
    <3>2. h \in Nat /\ t \in Nat
      BY <1>5
    <3>3. QED
      BY <3>1, <3>2
  <2>5. Has(serialBuf', Line1', to' - 1)
    BY <1>3, <1>9, <2>2
  <2>6. QED
    BY <1>9, <2>2, <2>4, <2>5 DEF Undisturbed, Phases, h
<1>12. QED
  BY <1>10, <1>11

\* then the tail, and the zero.
LEMMA StoreTailRight ==
    ASSUME LogOK, Undisturbed, StoreTail
    PROVE  Undisturbed'
<1> DEFINE tail == Head(lines).tail
           h == Len(Head(lines).head)
           n == Len(tail)
           l == Len(Line1)
           R == Rest(Tail(lines), text)
<1>1. /\ phase = "tail" /\ to \in 1 .. SerialSize
      /\ IF from <= n
         THEN serialBuf' = Put(serialBuf, to, tail[from]) /\ from' = from + 1 /\ to' = to + 1
              /\ phase' = phase
         ELSE serialBuf' = Put(serialBuf, to, "NUL") /\ from' = 1 /\ phase' = "send" /\ to' = to
      /\ UNCHANGED <<group_level, call, lines, text, logBuf, wire>>
  BY DEF StoreTail, SerialPlaces
<1>2. phase \in Phases /\ phase # "text" /\ phase # "send"
  BY <1>1 DEF Phases
<1>3. /\ wire \in Seq(Shown) /\ Has(Buf, text, Len(text)) /\ Buf[Len(text) + 1] = "NUL"
      /\ to = h + TextLength + from
      /\ Has(serialBuf, Line1, to - 1) /\ Right(call, Level, wire \o Rest(lines, text))
  BY <1>1, <1>2 DEF Undisturbed
<1>4. /\ lines \in Seq(AllLines) /\ lines # <<>> /\ Len(lines) <= 3
      /\ serialBuf \in StoredIn(1 .. SerialSize) /\ SerialSize \in Nat /\ text \in Seq(Shown) /\ tail \in Seq(Shown)
  BY <1>2, PhaseIs
<1>5. from \in Nat \ {0} /\ h \in Nat /\ n \in Nat /\ TextLength \in Nat /\ l \in Nat
      /\ l = h + TextLength + n
      /\ from <= n + 1
  <2>1. from \in Nat \ {0} /\ h \in Nat /\ n \in Nat
    BY <1>2, PhaseIs
  <2>2. TextLength \in Nat /\ l \in Nat /\ l = h + TextLength + n
    BY <1>4, LineIs
  <2>3. from <= n + 1
    BY <1>1 DEF LogOK, Bounds
  <2>4. QED
    BY <2>1, <2>2, <2>3
<1>6. (\A k \in 1 .. n : Line1[h + TextLength + k] = tail[k]) /\ Line1 \in Seq(Shown)
  BY <1>4, LineIs
<1>7. \A k \in 1 .. n : tail[k] \in Shown
  BY <1>4, ElementOfSeq
<1>0. to = h + TextLength + from
  BY <1>3
<1>8. /\ wire' \in Seq(Shown) /\ wire' = wire /\ Head(lines') = Head(lines) /\ lines' = lines
      /\ Has(Buf', text', Len(text')) /\ Buf'[Len(text') + 1] = "NUL"
      /\ Line1' = Line1 /\ TextLength' = TextLength /\ text' = text /\ call' = call /\ Level' = Level
      /\ text' \in Seq(Shown)
  <2>1. phase # "text" /\ phase' # "text"
    BY <1>1
  <2>2. QED
    BY <1>1, <1>3, <1>4, <2>1, SameCall DEF Buf
<1> HIDE DEF tail, h, n, l
<1>9. CASE from <= n
  <2>1. from \in 1 .. n /\ to + 1 = h + TextLength + (from + 1) /\ (to + 1) - 1 = to
    BY <1>0, <1>5, <1>9
  <2>2. tail[from] = Line1[to] /\ tail[from] \in Kept
    BY <1>3, <1>6, <1>7, <2>1 DEF Kept
  <2>3. Has(Put(serialBuf, to, tail[from]), Line1, to)
    BY <1>1, <1>3, <1>4, <2>2, PutHas
  <2>4. phase' = "tail" /\ serialBuf' = Put(serialBuf, to, tail[from]) /\ to' = to + 1
        /\ from' = from + 1
    BY <1>1, <1>9
  <2>5. Has(serialBuf', Line1', to' - 1) /\ to' = h + TextLength' + from'
    BY <1>8, <2>1, <2>3, <2>4
  <2>6. Right(call', Level', wire' \o Rest(lines', text'))
    BY <1>3, <1>8
  <2>7. QED
    BY <1>8, <2>4, <2>5, <2>6 DEF Undisturbed, Phases, h
<1>10. CASE ~(from <= n)
  <2>1. from = n + 1 /\ to = l + 1 /\ to - 1 = l
    BY <1>0, <1>5, <1>10
  <2>2. phase' = "send" /\ serialBuf' = Put(serialBuf, to, "NUL") /\ from' = 1
    BY <1>1, <1>10
  <2>0. /\ Put(serialBuf, to, "NUL")[to] = "NUL"
        /\ \A i \in (1 .. SerialSize) \ {to} : Put(serialBuf, to, "NUL")[i] = serialBuf[i]
    <3>1. "NUL" \in Kept
      BY DEF Kept
    <3>2. QED
      <4> DEFINE places == 1 .. SerialSize
      <4>1. serialBuf \in StoredIn(places) /\ to \in places
        BY <1>1, <1>4
      <4> HIDE DEF places
      <4>2. /\ Put(serialBuf, to, "NUL")[to] = "NUL"
            /\ \A i \in places \ {to} : Put(serialBuf, to, "NUL")[i] = serialBuf[i]
        BY <3>1, <4>1, PutIs
      <4>3. QED
        BY <4>2 DEF places
  <2>3. serialBuf'[l + 1] = "NUL"
    BY <2>0, <2>1, <2>2
  <2>4. Has(serialBuf', Line1, l)
    <3>1. SUFFICES ASSUME NEW k \in 1 .. l PROVE serialBuf'[k] = Line1[k]
      BY DEF Has
    <3>2. k \in (1 .. SerialSize) \ {to}
      BY <1>1, <1>4, <1>5, <2>1
    <3>3. Put(serialBuf, to, "NUL")[k] = serialBuf[k]
      BY <2>0, <3>2
    <3>4. serialBuf[k] = Line1[k]
      BY <1>3, <2>1 DEF Has
    <3>5. QED
      BY <2>2, <3>3, <3>4
  <2>5. SubSeq(Line1, 1, l) = Line1
    BY <1>6, SubSeqFull DEF l
  <2>6. R \in Seq(Shown) /\ Rest(lines, text) = Line1 \o R
    BY <1>4, RestIs DEF Line1
  <2> HIDE DEF R
  <2>7. wire \o Rest(lines, text) = (wire \o Line1) \o R
    <3>1. Assoc(wire, Line1, R)
      BY <1>3, <1>6, <2>6, Associates, Zenon
    <3>2. QED
      BY <2>6, <3>1, Zenon DEF Assoc
  <2>8. Right(call, Level, (wire \o SubSeq(Line1, 1, l)) \o R)
    BY <1>3, <2>5, <2>7
  <2>9. Right(call', Level', (wire' \o SubSeq(Line1', from', Len(Line1'))) \o Rest(Tail(lines'), text'))
    BY <1>8, <2>2, <2>8 DEF l, R
  <2>10. /\ Has(serialBuf', Line1', Len(Line1')) /\ serialBuf'[Len(Line1') + 1] = "NUL"
         /\ from' <= Len(Line1') + 1
    <3>1. 1 <= l + 1
      BY <1>5
    <3>2. QED
      BY <1>8, <2>2, <2>3, <2>4, <3>1 DEF l
  <2>11. QED
    BY <1>8, <2>2, <2>9, <2>10 DEF Undisturbed, Phases
<1>11. QED
  BY <1>9, <1>10

\* Where the line ends in the buffer that is sent.
LEMMA AtTheEnd ==
    ASSUME LogOK, Undisturbed, phase = "send"
    PROVE  Ends(serialBuf[from]) <=> from = Len(Line1) + 1
<1>1. phase \in Phases
  BY DEF Phases
<1>2. Line1 \in Seq(Shown) /\ Len(Line1) \in Nat /\ from \in Nat \ {0}
  BY <1>1, PhaseIs, LineIs
<1>3. Has(serialBuf, Line1, Len(Line1)) /\ serialBuf[Len(Line1) + 1] = "NUL" /\ from <= Len(Line1) + 1
  BY DEF Undisturbed
<1>4. ASSUME from # Len(Line1) + 1 PROVE ~Ends(serialBuf[from])
  <2> DEFINE l == Len(Line1)
  <2>1. l \in Nat /\ from <= l + 1 /\ from # l + 1
    BY <1>2, <1>3, <1>4
  <2> HIDE DEF l
  <2>2. from \in 1 .. l
    BY <1>2, <2>1
  <2>3. serialBuf[from] = Line1[from] /\ Line1[from] \in Shown
    BY <1>2, <1>3, <2>2, ElementOfSeq DEF Has, l
  <2>4. QED
    BY <2>3, AlphabetShown DEF Ends
<1>5. QED
  BY <1>3, <1>4 DEF Ends

\* The characters of the line go out in their order.
LEMMA SendRight ==
    ASSUME LogOK, Undisturbed, Send
    PROVE  Undisturbed'
<1> DEFINE l == Len(Line1)
           R == Rest(Tail(lines), text)
           c == Line1[from]
           rest == SubSeq(Line1, from + 1, l)
<1>1. /\ phase = "send" /\ phase' = "send" /\ ~Ends(serialBuf[from])
      /\ wire' = Append(wire, serialBuf[from])
      /\ from' = from + 1
      /\ UNCHANGED <<group_level, call, lines, text, logBuf, serialBuf>>
  BY DEF Send
<1>2. phase \in Phases /\ phase # "text"
  BY <1>1 DEF Phases
<1>3. /\ wire \in Seq(Shown) /\ Has(Buf, text, Len(text)) /\ Buf[Len(text) + 1] = "NUL"
      /\ Has(serialBuf, Line1, l) /\ serialBuf[l + 1] = "NUL"
  BY <1>1, <1>2 DEF Undisturbed
<1>4. from <= l + 1 /\ Right(call, Level, (wire \o SubSeq(Line1, from, l)) \o R)
  BY <1>1 DEF Undisturbed
<1>5. lines \in Seq(AllLines) /\ lines # <<>> /\ text \in Seq(Shown) /\ from \in Nat \ {0}
  BY <1>2, PhaseIs
<1>6. Line1 \in Seq(Shown) /\ l \in Nat
  BY <1>5, LineIs
<1>7. from # l + 1
  BY <1>1, AtTheEnd
<1> HIDE DEF l
<1>8. from \in 1 .. l /\ l \in from .. l /\ from + 1 <= l + 1
  BY <1>4, <1>5, <1>6, <1>7
<1>9. serialBuf[from] = c /\ c \in Shown
  <2>1. serialBuf[from] = c
    BY <1>3, <1>8 DEF Has
  <2>2. c \in Shown
    BY <1>6, <1>8, ElementOfSeq DEF l
  <2>3. QED
    BY <2>1, <2>2
<1>10. SubSeq(Line1, from, l) = <<c>> \o rest
  BY <1>6, <1>8, SubSeqRecursiveFirst DEF l
<1>11. rest \in Seq(Shown)
  <2>1. \A i \in from + 1 .. l : Line1[i] \in Shown
    <3>1. TAKE i \in from + 1 .. l
    <3>2. i \in 1 .. l
      BY <1>5, <1>6
    <3>3. QED
      BY <1>6, <3>2, ElementOfSeq DEF l
  <2>2. from + 1 \in Int /\ l \in Int
    BY <1>5, <1>6
  <2>3. QED
    BY <2>1, <2>2, SubSeqProperties
<1>12. wire' = wire \o <<c>> /\ wire' \in Seq(Shown) /\ <<c>> \in Seq(Shown)
  <2>1. wire' = Append(wire, c)
    BY <1>1, <1>9
  <2>2. Append(wire, c) \in Seq(Shown)
    BY <1>3, <1>9, AppendProperties
  <2>3. Append(wire, c) = wire \o <<c>>
    BY <1>3, <1>9, AppendIsConcat
  <2>4. <<c>> \in Seq(Shown)
    BY <1>9, Tuples
  <2>5. QED
    BY <2>1, <2>2, <2>3, <2>4
<1> HIDE DEF rest, c
<1>13. wire \o SubSeq(Line1, from, l) = wire' \o rest
  <2>1. Assoc(wire, <<c>>, rest)
    BY <1>3, <1>11, <1>12, Associates, Zenon
  <2>2. QED
    BY <1>10, <1>12, <2>1, Zenon DEF Assoc
<1>14. Line1' = Line1 /\ Level' = Level /\ call' = call /\ lines' = lines /\ text' = text
  <2>1. phase = "text" <=> phase' = "text"
    BY <1>1
  <2>2. QED
    BY <1>1, <2>1, SameCall
<1>15. Right(call', Level', (wire' \o SubSeq(Line1', from', Len(Line1'))) \o Rest(Tail(lines'), text'))
  BY <1>1, <1>4, <1>13, <1>14 DEF rest, l
<1>16. /\ Has(serialBuf', Line1', Len(Line1')) /\ serialBuf'[Len(Line1') + 1] = "NUL"
       /\ from' <= Len(Line1') + 1
       /\ Has(Buf', text', Len(text')) /\ Buf'[Len(text') + 1] = "NUL"
  BY <1>1, <1>3, <1>8, <1>14 DEF l, Buf
<1>17. QED
  BY <1>1, <1>12, <1>15, <1>16 DEF Undisturbed, Phases

\* After the last line, all of it has gone out.
LEMMA SentRight ==
    ASSUME LogOK, Undisturbed, Sent
    PROVE  Undisturbed'
<1> DEFINE l == Len(Line1)
           R == Rest(Tail(lines), text)
           n == Len(lines)
<1>1. /\ phase = "send" /\ Ends(serialBuf[from]) /\ lines' = Tail(lines) /\ from' = 1 /\ to' = 1
      /\ IF n > 1
         THEN phase' = "head" /\ group_level' = group_level
         ELSE /\ phase' = "idle"
              /\ group_level' = group_level + (IF call.kind = "group_begin" THEN 1 ELSE 0)
      /\ UNCHANGED <<call, text, logBuf, serialBuf, wire>>
  BY DEF Sent
<1>2. phase \in Phases /\ phase # "text"
  BY <1>1 DEF Phases
<1>3. /\ wire \in Seq(Shown) /\ Has(Buf, text, Len(text)) /\ Buf[Len(text) + 1] = "NUL"
      /\ Right(call, Level, (wire \o SubSeq(Line1, from, l)) \o R)
  BY <1>1, <1>2 DEF Undisturbed
<1>4. /\ lines \in Seq(AllLines) /\ lines # <<>> /\ Len(lines) <= 3 /\ text \in Seq(Shown)
  BY <1>2, PhaseIs
<1>5. Line1 \in Seq(Shown) /\ l \in Nat
  BY <1>4, LineIs
<1>6. from = l + 1
  BY <1>1, AtTheEnd
<1>7. SubSeq(Line1, from, l) = <<>>
  <2>1. from \in Int /\ l \in Int /\ l < from
    BY <1>5, <1>6
  <2>2. QED
    BY <2>1, SubSeqEmpty
<1>8. Right(call, Level, wire \o R)
  <2>1. wire \o <<>> = wire
    BY <1>3, ConcatEmptySeq
  <2>2. QED
    BY <1>3, <1>7, <2>1
<1>9. CASE n > 1
  <2>1. phase' = "head" /\ group_level' = group_level /\ call' = call /\ text' = text
    BY <1>1, <1>9
  <2>2. Level' = Level
    <3>1. LevelNow' = LevelNow
      BY <1>1, <2>1 DEF LevelNow
    <3>2. QED
      BY <2>1, <3>1 DEF Level
  <2>3. Right(call', Level', wire' \o Rest(lines', text'))
    BY <1>1, <1>8, <2>1, <2>2
  <2>4. /\ Has(Buf', text', Len(text')) /\ Buf'[Len(text') + 1] = "NUL"
        /\ wire' \in Seq(Shown) /\ text' \in Seq(Shown)
    BY <1>1, <1>3, <1>4, <2>1 DEF Buf
  <2>5. to' - 1 = 0
    BY <1>1
  <2>6. Has(serialBuf', Line1', to' - 1)
    BY <2>5 DEF Has
  <2>7. QED
    BY <2>1, <2>3, <2>4, <2>6 DEF Undisturbed, Phases
<1>10. CASE ~(n > 1)
  <2>1. phase' = "idle" /\ call' = call /\ wire' = wire
        /\ group_level' = group_level + (IF call.kind = "group_begin" THEN 1 ELSE 0)
    BY <1>1, <1>10
  <2>2. Tail(lines) = <<>>
    <3>1. Tail(lines) \in Seq(AllLines) /\ n \in Nat \ {0} /\ Len(Tail(lines)) = n - 1
      BY <1>4, HeadIs
    <3>2. Len(Tail(lines)) = 0
      BY <1>10, <3>1
    <3>3. QED
      BY <3>1, <3>2, EmptySeq
  <2>3. wire \o R = wire
    <3>1. R = <<>>
      BY <2>2, NoRest
    <3>2. QED
      BY <1>3, <3>1, ConcatEmptySeq
  <2>4. group_level \in Nat
    BY SizesAre DEF LogOK, LogTypeOK
  <2>5. Around' = Level
    <3>1. LevelNow = group_level
      BY <1>1 DEF LevelNow
    <3>2. Level = group_level + (IF call.kind = "line" THEN 1 ELSE 0)
      BY <3>1 DEF Level
    <3>3. CASE call.kind = "group_begin"
      <4>1. Around' = group_level' - 1 /\ Level = group_level + 0 /\ group_level' = group_level + 1
        BY <2>1, <3>2, <3>3 DEF Around
      <4>2. QED
        BY <2>4, <4>1
    <3>4. CASE call.kind = "line"
      <4>1. Around' = group_level' + 1 /\ Level = group_level + 1 /\ group_level' = group_level + 0
        BY <2>1, <3>2, <3>4 DEF Around
      <4>2. QED
        BY <2>4, <4>1
    <3>5. CASE call.kind \notin {"group_begin", "line"}
      <4>1. Around' = group_level' /\ Level = group_level + 0 /\ group_level' = group_level + 0
        BY <2>1, <3>2, <3>5 DEF Around
      <4>2. QED
        BY <2>4, <4>1
    <3>6. QED
      BY <3>3, <3>4, <3>5
  <2>6. Right(call', Around', wire') /\ wire' \in Seq(Shown)
    BY <1>3, <1>8, <2>1, <2>3, <2>5
  <2>7. phase' \notin Phases
    BY <2>1 DEF Phases
  <2>8. QED
    BY <2>1, <2>6, <2>7 DEF Undisturbed, Phases
<1>11. QED
  BY <1>9, <1>10

\* A call that begins has sent nothing yet.
LEMMA BeginRight ==
    ASSUME LogOK, NEW c \in Calls, AllSupported(c.text), Begin(c)
    PROVE  Undisturbed'
<1> DEFINE level == LevelPrinted(c)
<1>1. /\ call' = c /\ phase' = "text" /\ text' = Formatted(c.text)
      /\ lines' = LinesFor(c, level, line_length)
      /\ from' = 1 /\ wire' = <<>> /\ group_level' = group_level
      /\ c.kind = "group_end" => group_level > 0
  BY DEF Begin
<1>2. group_level \in Nat /\ line_length \in Nat
  BY SizesAre DEF LogOK, LogTypeOK
<1>3. level \in Nat
  BY <1>1, <1>2 DEF LevelPrinted
<1>4. text' = TextOf(c.text) /\ text' \in Seq(Shown)
  <2>1. c \in Calls \cup HandlerCalls
    OBVIOUS
  <2>2. QED
    BY <1>1, <2>1, TextIs
<1>5. Level' = level + (IF c.kind = "line" THEN 1 ELSE 0)
  <2>1. LevelNow' = level
    BY <1>1 DEF LevelNow, LevelPrinted
  <2>2. QED
    BY <1>1, <2>1 DEF Level
<1> HIDE DEF level
<1>6. Right(c, level + (IF c.kind = "line" THEN 1 ELSE 0), Rest(lines', text'))
  BY <1>1, <1>2, <1>3, <1>4, LinesSendIt
<1>7. wire' \o Rest(lines', text') = Rest(lines', text')
  <2>1. lines' \in Seq(AllLines) /\ lines' # <<>> /\ Len(lines') <= 3 /\ text' \in Seq(Shown)
    <3>1. LogOK' /\ phase' \in Phases
      BY <1>1, BeginOK DEF Phases
    <3>2. c \in Calls \cup HandlerCalls
      OBVIOUS
    <3>3. QED
      BY <1>4, <3>1, <3>2, TextIs DEF LogOK, LogTypeOK
  <2>2. /\ Rest(lines', text') = Whole(Head(lines'), text') \o Rest(Tail(lines'), text')
        /\ Whole(Head(lines'), text') \in Seq(Shown) /\ Rest(Tail(lines'), text') \in Seq(Shown)
    BY <2>1, RestIs
  <2>3. Rest(lines', text') \in Seq(Shown)
    BY <2>2, ConcatProperties
  <2>4. <<>> \o Rest(lines', text') = Rest(lines', text')
    BY <2>3, ConcatEmptySeq
  <2>5. QED
    BY <1>1, <2>4
<1>8. Right(call', Level', wire' \o Rest(lines', text'))
  BY <1>1, <1>5, <1>6, <1>7
<1>9. wire' \in Seq(Shown)
  BY <1>1, EmptySeq
<1>10. Has(Buf', text', from' - 1)
  <2>1. from' - 1 = 0
    BY <1>1
  <2>2. QED
    BY <2>1 DEF Has
<1>11. QED
  BY <1>1, <1>4, <1>8, <1>9, <1>10 DEF Undisturbed, Phases

-----------------------------------------------------------------------------

\* At the beginning no call was sent,
LEMMA LogInvInit == LogInit => LogInv
<1> SUFFICES ASSUME LogInit PROVE LogInv
  OBVIOUS
<1>1. LogOK
  BY LogInitOK DEF LogOK
<1>2. phase = "idle" /\ call.kind = "none" /\ wire = <<>>
  BY DEF LogInit, NoCall
<1>3. wire \in Seq(Shown) /\ phase \notin Phases /\ call.kind \notin Kinds
  BY <1>2, EmptySeq DEF Phases, Kinds
<1>4. Undisturbed
  BY <1>2, <1>3 DEF Undisturbed, Phases
<1>5. QED
  BY <1>1, <1>4 DEF LogInv

\* every step of the log keeps what was said of the undisturbed call,
LEMMA LogInvStep == LogInv /\ [LogNext]_logVars => LogInv'
<1> SUFFICES ASSUME LogInv, [LogNext]_logVars PROVE LogInv'
  OBVIOUS
<1>1. LogOK /\ LogOK' /\ (AllSupported(call.text) /\ ~disturbed => Undisturbed)
  BY LogStep DEF LogInv
<1>2. SUFFICES ASSUME AllSupported(call'.text), ~disturbed' PROVE Undisturbed'
  BY <1>1 DEF LogInv
<1>3. ASSUME NEW c \in Calls, Begin(c) PROVE Undisturbed'
  <2>1. AllSupported(c.text)
    BY <1>2, <1>3 DEF Begin
  <2>2. QED
    BY <1>1, <1>3, <2>1, BeginRight
<1>4. ASSUME NEW h \in HandlerCalls, Interrupt(h) PROVE Undisturbed'
  BY <1>2, <1>4 DEF Interrupt
<1>5. CASE Sprintf
  <2>1. phase' = "sprintf" /\ call'.kind = "sprintf"
    <3>1. /\ phase' = "sprintf"
          /\ \E k \in DOMAIN FormatCases : \E t \in FormatCases[k] :
                call' = [NoCall EXCEPT !.kind = "sprintf", !.text = t]
      BY <1>5 DEF Sprintf
    <3>2. call'.kind = "sprintf"
      BY <3>1 DEF NoCall
    <3>3. QED
      BY <3>1, <3>2
  <2>2. phase' \notin Phases /\ call'.kind \notin Kinds
    BY <2>1 DEF Phases, Kinds
  <2>3. QED
    BY <2>1, <2>2 DEF Undisturbed, Phases
<1>14. CASE SprintfReturns
  <2>1. /\ phase = "sprintf" /\ phase' = "idle" /\ call' = call /\ wire' = wire
        /\ disturbed' = disturbed
    BY <1>14 DEF SprintfReturns, counters
  <2>2. phase' \notin Phases /\ call'.kind \notin Kinds
    BY <1>1, <1>2, <2>1 DEF Undisturbed, Phases
  <2>3. QED
    BY <2>1, <2>2 DEF Undisturbed, Phases
<1>15. CASE Overflows
  <2>1. phase \in Phases /\ phase' = "lost" /\ call' = call /\ wire' = wire /\ disturbed' = disturbed
    BY <1>15 DEF Overflows, counters, Phases
  <2>2. wire \in Seq(Shown)
    BY <1>1, <1>2, <2>1 DEF Undisturbed
  <2>3. QED
    BY <2>1, <2>2 DEF Undisturbed, Phases
<1>6. CASE StoreText
  <2>1. disturbed' = disturbed /\ call' = call
    BY <1>6 DEF StoreText, counters
  <2>2. QED
    BY <1>1, <1>2, <1>6, <2>1, StoreTextRight
<1>7. CASE StoreHead
  <2>1. disturbed' = disturbed /\ call' = call
    BY <1>7 DEF StoreHead, counters
  <2>2. QED
    BY <1>1, <1>2, <1>7, <2>1, StoreHeadRight
<1>8. CASE CopyText
  <2>1. disturbed' = disturbed /\ call' = call
    BY <1>8 DEF CopyText, counters
  <2>2. QED
    BY <1>1, <1>2, <1>8, <2>1, CopyTextRight
<1>9. CASE StoreTail
  <2>1. disturbed' = disturbed /\ call' = call
    BY <1>9 DEF StoreTail, counters
  <2>2. QED
    BY <1>1, <1>2, <1>9, <2>1, StoreTailRight
<1>10. CASE Send
  <2>1. disturbed' = disturbed /\ call' = call
    BY <1>10 DEF Send, counters
  <2>2. QED
    BY <1>1, <1>2, <1>10, <2>1, SendRight
<1>11. CASE Sent
  <2>1. disturbed' = disturbed /\ call' = call
    BY <1>11 DEF Sent, counters
  <2>2. QED
    BY <1>1, <1>2, <1>11, <2>1, SentRight
<1>12. CASE UNCHANGED logVars
  <2>1. /\ UNCHANGED <<group_level, call, lines, text>> /\ Buf' = Buf /\ Around' = Around
        /\ UNCHANGED <<phase, from, to, serialBuf, wire, disturbed>>
    BY <1>12 DEF logVars, Buf, Around
  <2>2. Level' = Level /\ Line1' = Line1 /\ TextLength' = TextLength
    BY <2>1, SameCall
  <2>3. Undisturbed
    BY <1>1, <1>2, <2>1
  <2>4. QED
    BY <2>1, <2>2, <2>3 DEF Undisturbed
<1>13. QED
  BY <1>3, <1>4, <1>5, <1>6, <1>7, <1>8, <1>9, <1>10, <1>11, <1>12, <1>14, <1>15 DEF LogNext

\* and so each call into which no handler logged has sent its text in the frame of its
\* kind, indented for the groups around it, for all sizes and texts (log.c 12-84,
\* serial.c 35-58).
THEOREM LogLinesAreRight == LogSpec => []LinesAreRight
<1>1. LogInv => LinesAreRight
  BY DEF LogInv, Undisturbed, LinesAreRight, Right, RightWith
<1>2. QED
  BY <1>1, LogInvInit, LogInvStep, PTL DEF LogSpec
=============================================================================
