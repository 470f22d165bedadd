------------------------- MODULE CommandLine_proofs -------------------------
(***************************************************************************)
(* What the shell reads, in two parts.                                     *)
(*                                                                         *)
(* CommandLine: the tokenizer stays in shell_buffer, for every length of   *)
(* the buffer and whatever lines are typed over one another.  It may step  *)
(* over the zero that ends the line, after a quote that is not closed;     *)
(* what holds it is that the last two bytes of the buffer are zeros: the   *)
(* scan for the closing quote ends at the first of them, and the tokenizer *)
(* at the second.  After that, what the arguments hold: the words of the   *)
(* line.                                                                   *)
(*                                                                         *)
(* Listing: the names that list prints into the arena, read back as C      *)
(* reads them, and turned into names of the directory again by read.       *)
(***************************************************************************)
EXTENDS CommandLine, Listing, WellFoundedInduction, SequenceTheorems, TLAPS

Zeros == {BufferSize - 2, BufferSize - 1}

IInv ==
    /\ TypeOK
    /\ \A k \in Zeros \cap Cells : shell_buffer[k] = Nul

LEMMA LeastExists ==
    ASSUME NEW S \in SUBSET Nat, S # {}
    PROVE  \E m \in S : \A n \in S : m <= n
<1>1. PICK m \in S : \A n \in S : ~ (<<n, m>> \in OpToRel(<, Nat))
  BY WFMin, NatLessThanWellFounded
<1>2. \A n \in S : ~ (n < m)
  BY <1>1 DEF OpToRel
<1> QED
  BY <1>2

LEMMA Constants ==
    /\ BufferSize \in Nat /\ 0 < BufferSize
    /\ Nul \notin Chars /\ Quote \in Chars /\ Quote # Nul
    /\ \A l \in Lines : l \in Seq(Chars) /\ Len(l) \in Nat /\ Len(l) <= BufferSize - 2
BY CommandLineAssumption DEF Chars

\* A scan that starts at or before a stop ends there or earlier, at a stop.
LEMMA StopsBefore ==
    ASSUME NEW stops, NEW k \in Nat, NEW e \in Nat, k <= e, e < BufferSize,
           shell_buffer[e] \in stops
    PROVE  /\ StopsAt(stops, k) \in k .. e
           /\ shell_buffer[StopsAt(stops, k)] \in stops
<1> DEFINE S == {c \in k .. BufferSize : c = BufferSize \/ shell_buffer[c] \in stops}
           Stop(c) == /\ c = BufferSize \/ shell_buffer[c] \in stops
                      /\ \A d \in k .. c - 1 : shell_buffer[d] \notin stops
<1>0. BufferSize \in Nat
  BY Constants
<1>1. e \in S /\ S \in SUBSET Nat
  BY <1>0
<1>2. PICK m \in S : \A n \in S : m <= n
  <2> HIDE DEF S
  <2> QED BY <1>1, LeastExists
<1>3. m \in k .. BufferSize /\ Stop(m)
  BY <1>0, <1>2
<1>4. StopsAt(stops, k) = CHOOSE c \in k .. BufferSize : Stop(c)
  BY DEF StopsAt
<1>5. StopsAt(stops, k) \in k .. BufferSize /\ Stop(StopsAt(stops, k))
  <2> HIDE DEF Stop
  <2> QED BY <1>3, <1>4
<1>6. ~ (e < StopsAt(stops, k))
  <2>1. ASSUME e < StopsAt(stops, k) PROVE FALSE
    <3>1. e \in k .. StopsAt(stops, k) - 1
      BY <1>0, <1>5, <2>1
    <3> QED
      BY <1>5, <3>1
  <2> QED
    BY <2>1
<1> QED
  BY <1>0, <1>5, <1>6

LEMMA InitInvariant == Init => IInv
BY Constants, CommandLineAssumption DEF Init, IInv, TypeOK, Cells, Zeros

LEMMA TypeInvariant ==
    ASSUME IInv, NEW l \in Lines, Type(l)
    PROVE  IInv'
<1>1. /\ l \in Seq(Chars) /\ Len(l) \in Nat /\ Len(l) <= BufferSize - 2
      /\ BufferSize \in Nat /\ 0 < BufferSize
  BY Constants
<1>2. shell_buffer \in [Cells -> Chars \cup {Nul}]
  BY DEF IInv, TypeOK
<1>3. shell_buffer' = [k \in Cells |-> CASE k < Len(l) -> l[k + 1]
                                         [] k = Len(l) -> Nul
                                         [] OTHER -> shell_buffer[k]]
  BY DEF Type
<1>4. ASSUME NEW k \in Cells PROVE shell_buffer'[k] \in Chars \cup {Nul}
  <2>1. k \in Nat
    BY DEF Cells
  <2>2. CASE k < Len(l)
    <3>1. l[k + 1] \in Chars
      BY <1>1, <2>1, <2>2
    <3> QED
      BY <1>3, <2>2, <3>1
  <2>3. CASE k >= Len(l)
    BY <1>1, <1>2, <1>3, <2>1, <2>3
  <2> QED
    BY <1>1, <2>1, <2>2, <2>3
<1>5. shell_buffer' \in [Cells -> Chars \cup {Nul}]
  BY <1>3, <1>4
<1>6. ASSUME NEW k \in Zeros \cap Cells PROVE shell_buffer'[k] = Nul
  <2>1. k \in Cells /\ k \in Nat /\ Len(l) <= k
    BY <1>1 DEF Zeros, Cells
  <2>2. shell_buffer[k] = Nul
    BY <1>6 DEF IInv
  <2> QED
    BY <1>1, <1>3, <2>1, <2>2
<1>7. /\ str' \in Cells /\ start' \in Cells /\ args' \in Seq(Cells) /\ Len(args') <= MaxArgs
      /\ pc' = "scan" /\ line' \in Lines
  BY <1>1, CommandLineAssumption DEF Type, Cells
<1> QED
  BY <1>5, <1>6, <1>7 DEF IInv, TypeOK

\* Where the tokenizer reads something other than a zero there is room for two more.
LEMMA RoomBehind ==
    ASSUME IInv, shell_buffer[str] # Nul
    PROVE  str \in Nat /\ str <= BufferSize - 3
<1>1. str \in 0 .. BufferSize - 1 /\ str \notin Zeros
  BY DEF IInv, TypeOK, Cells
<1> QED
  BY <1>1, Constants DEF Zeros

LEMMA ScanCharInvariant == IInv /\ ScanChar => IInv'
<1> SUFFICES ASSUME IInv, ScanChar PROVE IInv'
  OBVIOUS
<1>1. shell_buffer[str] # Nul
  BY Constants DEF ScanChar, Chars
<1>2. str' \in Cells
  BY <1>1, RoomBehind, Constants DEF ScanChar, Cells
<1> QED
  BY <1>2 DEF IInv, TypeOK, ScanChar, Zeros, Cells

LEMMA ScanBlankInvariant == IInv /\ ScanBlank => IInv'
<1> SUFFICES ASSUME IInv, ScanBlank PROVE IInv'
  OBVIOUS
<1>1. shell_buffer[str] # Nul
  BY Constants DEF ScanBlank, Chars
<1>2. str' \in Cells /\ start' \in Cells
  BY <1>1, RoomBehind, Constants DEF ScanBlank, AfterBlank, Cells
<1>3. shell_buffer' \in [Cells -> Chars \cup {Nul}]
  BY DEF IInv, TypeOK, ScanBlank
<1>4. \A k \in Zeros \cap Cells : shell_buffer'[k] = Nul
  BY DEF IInv, TypeOK, ScanBlank
<1>5. args' \in Seq(Cells) /\ Len(args') <= MaxArgs
  BY CommandLineAssumption DEF IInv, TypeOK, ScanBlank
<1> QED
  BY <1>2, <1>3, <1>4, <1>5 DEF IInv, TypeOK, ScanBlank

\* The scan for the closing quote starts at the first of the two zeros at the latest.
LEMMA ScanQuoteInvariant == IInv /\ ScanQuote => IInv'
<1> SUFFICES ASSUME IInv, ScanQuote PROVE IInv'
  OBVIOUS
<1> DEFINE close == StopsAt(CloseAt, str + 1)
           e == BufferSize - 2
<1>1. str \in Nat /\ str <= BufferSize - 3 /\ BufferSize \in Nat
  <2>1. shell_buffer[str] # Nul
    BY Constants DEF ScanQuote
  <2> QED
    BY <2>1, RoomBehind, Constants
<1>2. e \in Nat /\ str + 1 \in Nat /\ str + 1 <= e /\ e < BufferSize
      /\ shell_buffer[e] \in CloseAt
  <2>1. e \in Nat /\ e \in Zeros \cap Cells
    BY <1>1 DEF Zeros, Cells
  <2> QED
    BY <1>1, <2>1 DEF IInv, CloseAt
<1>3. close \in str + 1 .. e
  <2> HIDE DEF e
  <2> QED BY <1>2, StopsBefore
<1>4. /\ start' = str + 1 /\ str' = close + 1
      /\ shell_buffer' = [k \in Cells |-> IF k = close THEN Nul ELSE shell_buffer[k]]
  BY DEF ScanQuote
<1> HIDE DEF close
<1>5. str' \in Cells /\ start' \in Cells
  BY <1>1, <1>3, <1>4 DEF Cells
<1>6. shell_buffer' \in [Cells -> Chars \cup {Nul}]
  BY <1>4 DEF IInv, TypeOK
<1>7. \A k \in Zeros \cap Cells : shell_buffer'[k] = Nul
  BY <1>4 DEF IInv
<1> QED
  BY <1>5, <1>6, <1>7 DEF IInv, TypeOK, ScanQuote

LEMMA ScanEndInvariant == IInv /\ ScanEnd => IInv'
<1> SUFFICES ASSUME IInv, ScanEnd PROVE IInv'
  OBVIOUS
<1>1. args' \in Seq(Cells) /\ Len(args') <= MaxArgs
  BY CommandLineAssumption DEF IInv, TypeOK, ScanEnd
<1> QED
  BY <1>1 DEF IInv, TypeOK, ScanEnd

LEMMA StepInvariant == IInv /\ [Next]_vars => IInv'
<1> SUFFICES ASSUME IInv, [Next]_vars PROVE IInv'
  OBVIOUS
<1>1. ASSUME NEW l \in Lines, Type(l) PROVE IInv'
  BY <1>1, TypeInvariant
<1>2. CASE ScanChar
  BY <1>2, ScanCharInvariant
<1>3. CASE ScanBlank
  BY <1>3, ScanBlankInvariant
<1>4. CASE ScanQuote
  BY <1>4, ScanQuoteInvariant
<1>5. CASE ScanEnd
  BY <1>5, ScanEndInvariant
<1>6. CASE ScanPastArgs
  BY <1>6 DEF ScanPastArgs, IInv, TypeOK
<1>7. CASE Dispatch
  BY <1>7 DEF Dispatch, IInv, TypeOK
<1>8. CASE UNCHANGED vars
  BY <1>8 DEF vars, IInv, TypeOK
<1> QED
  BY <1>1, <1>2, <1>3, <1>4, <1>5, <1>6, <1>7, <1>8 DEF Next

\* tokenize_args never reads or writes outside shell_buffer and never counts more
\* arguments than args has, for lines that leave the last two bytes free
\* (shell.c 121-142).
THEOREM TokenizerStaysInBuffer == Spec => []TypeOK
<1>1. IInv => TypeOK
  BY DEF IInv
<1> QED
  BY <1>1, InitInvariant, StepInvariant, PTL DEF Spec
-----------------------------------------------------------------------------
\* A set of numbers with 0, closed under the successor, has them all.
LEMMA AllNumbers ==
    ASSUME NEW T \in SUBSET Nat, 0 \in T, \A k \in T : k + 1 \in T
    PROVE  T = Nat
<1>1. SUFFICES ASSUME NEW n \in Nat \ T PROVE FALSE
  OBVIOUS
<1>2. PICK m \in Nat \ T : \A k \in Nat \ T : m <= k
  BY <1>1, LeastExists
<1>3. m # 0 /\ m - 1 \in Nat /\ ~(m <= m - 1)
  BY <1>2
<1>4. m - 1 \in T
  BY <1>2, <1>3
<1>5. QED
  BY <1>3, <1>4

\* FlattenSeq's function: the first i sequences of s, joined.
Joins(f, s, n) == f = [i \in 1 .. n |-> IF i = 1 THEN s[i] ELSE f[i - 1] \o s[i]]

LEMMA JoinsExists == ASSUME NEW s, NEW n \in Nat PROVE \E f : Joins(f, s, n)
<1> DEFINE T == {m \in Nat : \E f : Joins(f, s, m)}
<1>1. 0 \in T
  <2>1. Joins([i \in 1 .. 0 |-> s[i]], s, 0)
    BY DEF Joins
  <2>2. QED
    BY <2>1
<1>2. ASSUME NEW m \in T PROVE m + 1 \in T
  <2>1. PICK f : Joins(f, s, m)
    OBVIOUS
  <2> DEFINE last == IF m = 0 THEN s[1] ELSE f[m] \o s[m + 1]
             g == [i \in 1 .. m + 1 |-> IF i <= m THEN f[i] ELSE last]
  <2>2. ASSUME NEW i \in 1 .. m + 1
        PROVE  g[i] = IF i = 1 THEN s[i] ELSE g[i - 1] \o s[i]
    <3>1. CASE i <= m /\ i = 1
      BY <2>1, <3>1 DEF Joins
    <3>2. CASE i <= m /\ i # 1
      <4>1. i \in 1 .. m /\ g[i] = f[i] /\ g[i - 1] = f[i - 1]
        BY <3>2
      <4>2. f[i] = f[i - 1] \o s[i]
        BY <2>1, <3>2, <4>1 DEF Joins
      <4>3. QED
        BY <3>2, <4>1, <4>2
    <3>3. CASE i = m + 1
      <4>1. g[i] = last /\ (m # 0 => g[i - 1] = f[m])
        BY <3>3
      <4>2. QED
        BY <3>3, <4>1
    <3>4. QED
      BY <3>1, <3>2, <3>3
  <2>3. g = [i \in 1 .. m + 1 |-> g[i]]
    OBVIOUS
  <2> HIDE DEF g
  <2>4. Joins(g, s, m + 1)
    BY <2>2, <2>3 DEF Joins
  <2>5. QED
    BY <2>4
<1> HIDE DEF T
<1>3. T = Nat
  BY <1>1, <1>2, AllNumbers DEF T
<1>4. QED
  BY <1>3 DEF T

LEMMA Flattened ==
    ASSUME NEW s, Len(s) \in Nat \ {0}
    PROVE  \E f : Joins(f, s, Len(s)) /\ FlattenSeq(s) = f[Len(s)]
<1> DEFINE flatten == CHOOSE f : f = [i \in 1 .. Len(s) |->
                                        IF i = 1 THEN s[i] ELSE f[i - 1] \o s[i]]
<1>1. FlattenSeq(s) = flatten[Len(s)]
  BY DEF FlattenSeq
<1>2. Joins(flatten, s, Len(s))
  BY JoinsExists DEF Joins
<1>3. QED
  BY <1>1, <1>2

-----------------------------------------------------------------------------
\* Where the words of a line begin.
Spellings(ws) == [k \in DOMAIN ws |-> IF k = 1 THEN Spelled(ws[k])
                                      ELSE <<Blank>> \o Spelled(ws[k])]
Layout(ws, off) ==
    /\ off \in [DOMAIN ws -> Nat] /\ off[1] = 0
    /\ \A k \in DOMAIN ws :
        /\ \A i \in 1 .. Len(Spelled(ws[k])) : Written(ws)[off[k] + i] = Spelled(ws[k])[i]
        /\ k < Len(ws) => /\ off[k + 1] = off[k] + Len(Spelled(ws[k])) + 1
                          /\ off[k + 1] <= Len(Written(ws))
                          /\ Written(ws)[off[k + 1]] = Blank
        /\ k = Len(ws) => Len(Written(ws)) = off[k] + Len(Spelled(ws[k]))

LEMMA Words ==
    ASSUME NEW ws \in WordLists
    PROVE  /\ Len(ws) \in Nat \ {0} /\ DOMAIN ws = 1 .. Len(ws)
           /\ \A k \in DOMAIN ws :
                /\ ws[k].text \in Seq(Letters \cup {Blank}) /\ Len(ws[k].text) \in Nat
                /\ ws[k].quoted \in BOOLEAN
                /\ ~ws[k].quoted => ws[k].text \in Seq(Letters)
<1> DEFINE W == [text : Seq(Letters \cup {Blank}), quoted : BOOLEAN]
<1>1. ws \in Seq(W) /\ ws # <<>> /\ \A k \in DOMAIN ws : ws[k].quoted \/ ws[k].text \in Seq(Letters)
  BY CommandLineAssumption
<1>2. \A k \in 1 .. Len(ws) : ws[k] \in W
  <2> HIDE DEF W
  <2>1. QED
    BY <1>1, ElementOfSeq
<1>3. Len(ws) \in Nat \ {0} /\ DOMAIN ws = 1 .. Len(ws)
  <2> HIDE DEF W
  <2>1. QED
    BY <1>1, EmptySeq, LenProperties
<1>4. QED
  BY <1>1, <1>2, <1>3, LenProperties

LEMMA SpelledFacts ==
    ASSUME NEW ws \in WordLists, NEW k \in DOMAIN ws
    PROVE  /\ Spelled(ws[k]) \in Seq(Chars)
           /\ ~ws[k].quoted => Spelled(ws[k]) = ws[k].text
           /\ ws[k].quoted =>
                /\ Len(Spelled(ws[k])) = Len(ws[k].text) + 2
                /\ Spelled(ws[k])[1] = Quote
                /\ Spelled(ws[k])[Len(ws[k].text) + 2] = Quote
                /\ \A i \in 1 .. Len(ws[k].text) : Spelled(ws[k])[i + 1] = ws[k].text[i]
<1> DEFINE t == ws[k].text
           q == <<Quote>>
<1>1. t \in Seq(Chars) /\ Len(t) \in Nat
  BY Words, SeqMonotonic DEF Chars
<1>2. q \in Seq(Chars) /\ Len(q) = 1 /\ q[1] = Quote
  BY Constants
<1>3. CASE ~ws[k].quoted
  BY <1>1, <1>3 DEF Spelled
<1>4. CASE ws[k].quoted
  <2>1. Spelled(ws[k]) = (q \o t) \o q
    BY <1>4 DEF Spelled
  <2> HIDE DEF t, q
  <2>2. /\ q \o t \in Seq(Chars) /\ Len(q \o t) = Len(t) + 1
        /\ \A i \in 1 .. Len(t) + 1 : (q \o t)[i] = IF i <= 1 THEN q[i] ELSE t[i - 1]
    <3>1. /\ q \o t \in Seq(Chars) /\ Len(q \o t) = Len(q) + Len(t)
          /\ \A i \in 1 .. Len(q) + Len(t) :
                 (q \o t)[i] = IF i <= Len(q) THEN q[i] ELSE t[i - Len(q)]
      BY <1>1, <1>2, ConcatProperties
    <3>2. Len(q) + Len(t) = Len(t) + 1
      BY <1>1, <1>2
    <3>3. QED
      BY <1>2, <3>1, <3>2
  <2> DEFINE qt == q \o t
  <2> HIDE DEF qt
  <2>3. qt \in Seq(Chars) /\ Len(qt) = Len(t) + 1
    BY <2>2 DEF qt
  <2>4. /\ qt \o q \in Seq(Chars) /\ Len(qt \o q) = Len(t) + 2
        /\ \A i \in 1 .. Len(t) + 2 :
               (qt \o q)[i] = IF i <= Len(t) + 1 THEN qt[i] ELSE q[i - (Len(t) + 1)]
    <3>1. /\ qt \o q \in Seq(Chars) /\ Len(qt \o q) = Len(qt) + Len(q)
          /\ \A i \in 1 .. Len(qt) + Len(q) :
                 (qt \o q)[i] = IF i <= Len(qt) THEN qt[i] ELSE q[i - Len(qt)]
      BY <1>2, <2>3, ConcatProperties
    <3>2. QED
      BY <1>1, <1>2, <2>3, <3>1
  <2>5. Spelled(ws[k]) = qt \o q
    BY <2>1 DEF qt
  <2>6. (qt \o q)[1] = Quote /\ (qt \o q)[Len(t) + 2] = Quote
    <3>1. (qt \o q)[1] = qt[1] /\ (qt \o q)[Len(t) + 2] = q[1]
      BY <1>1, <2>4
    <3>2. qt[1] = q[1]
      BY <1>1, <2>2 DEF qt
    <3>3. QED
      BY <1>2, <3>1, <3>2
  <2>7. ASSUME NEW i \in 1 .. Len(t) PROVE (qt \o q)[i + 1] = t[i]
    <3>1. (qt \o q)[i + 1] = qt[i + 1]
      BY <1>1, <2>4
    <3>2. qt[i + 1] = t[i]
      BY <1>1, <2>2 DEF qt
    <3>3. QED
      BY <3>1, <3>2
  <2>8. QED
    BY <1>4, <2>4, <2>5, <2>6, <2>7 DEF t
<1>5. QED
  BY <1>3, <1>4, Words
LEMMA LayoutExists == ASSUME NEW ws \in WordLists PROVE \E off : Layout(ws, off)
<1> DEFINE n == Len(ws)
           p == Spellings(ws)
<1>1. n \in Nat \ {0} /\ DOMAIN ws = 1 .. n /\ Len(p) = n /\ DOMAIN p = 1 .. n
  BY Words DEF Spellings
<1>2. \A k \in 1 .. n : Spelled(ws[k]) \in Seq(Chars) /\ Len(Spelled(ws[k])) \in Nat
  BY <1>1, SpelledFacts, LenProperties
<1>3. Written(ws) = FlattenSeq(p)
  BY DEF Written, Spellings
<1> HIDE DEF p
<1>4. PICK f : Joins(f, p, n) /\ Written(ws) = f[n]
  BY <1>1, <1>3, Flattened
<1>5. f[1] = Spelled(ws[1])
  BY <1>1, <1>4 DEF Joins, Spellings, p
<1> HIDE DEF n
<1> DEFINE w(k) == Spelled(ws[k])
           b == <<Blank>>
<1>6. \A k \in 1 .. n - 1 : f[k + 1] = f[k] \o (b \o w(k + 1))
  <2>1. SUFFICES ASSUME NEW k \in 1 .. n - 1 PROVE f[k + 1] = f[k] \o (b \o w(k + 1))
    OBVIOUS
  <2>2. k + 1 \in 1 .. n /\ k + 1 # 1 /\ (k + 1) - 1 = k
    BY <1>1
  <2>3. f[k + 1] = f[k] \o p[k + 1]
    BY <1>4, <2>2 DEF Joins
  <2>4. p[k + 1] = b \o w(k + 1)
    BY <1>1, <2>2 DEF p, Spellings
  <2>5. QED
    BY <2>3, <2>4
<1>7. b \in Seq(Chars) /\ Len(b) = 1 /\ b[1] = Blank
  BY DEF Chars
<1>8. \A k \in 1 .. n : w(k) \in Seq(Chars) /\ Len(w(k)) \in Nat
  BY <1>2
<1> HIDE DEF w, b
\* what joining one more word adds
<1>9. ASSUME NEW k \in 1 .. n - 1, f[k] \in Seq(Chars)
      PROVE  /\ f[k + 1] \in Seq(Chars)
             /\ Len(f[k + 1]) = Len(f[k]) + 1 + Len(w(k + 1))
             /\ \A i \in 1 .. Len(f[k]) : f[k + 1][i] = f[k][i]
             /\ f[k + 1][Len(f[k]) + 1] = Blank
             /\ \A i \in 1 .. Len(w(k + 1)) : f[k + 1][Len(f[k]) + 1 + i] = w(k + 1)[i]
  <2> DEFINE u == w(k + 1)
             v == b \o u
             e == f[k]
  <2>1. u \in Seq(Chars) /\ Len(u) \in Nat /\ e \in Seq(Chars) /\ Len(e) \in Nat
    BY <1>1, <1>8, <1>9, LenProperties
  <2>2. f[k + 1] = e \o v
    BY <1>6
  <2> HIDE DEF u, e
  <2>3. /\ v \in Seq(Chars) /\ Len(v) = 1 + Len(u)
        /\ \A i \in 1 .. 1 + Len(u) : v[i] = IF i <= 1 THEN b[i] ELSE u[i - 1]
    <3>1. /\ b \o u \in Seq(Chars) /\ Len(b \o u) = Len(b) + Len(u)
          /\ \A i \in 1 .. Len(b) + Len(u) :
                 (b \o u)[i] = IF i <= Len(b) THEN b[i] ELSE u[i - Len(b)]
      BY <1>7, <2>1, ConcatProperties
    <3>2. QED
      BY <1>7, <3>1
  <2> HIDE DEF v
  <2>4. /\ e \o v \in Seq(Chars) /\ Len(e \o v) = Len(e) + Len(v)
        /\ \A i \in 1 .. Len(e) + Len(v) :
               (e \o v)[i] = IF i <= Len(e) THEN e[i] ELSE v[i - Len(e)]
    BY <2>1, <2>3, ConcatProperties
  <2>5. \A i \in 1 .. Len(e) : (e \o v)[i] = e[i]
    BY <2>1, <2>3, <2>4
  <2>6. (e \o v)[Len(e) + 1] = Blank
    <3>1. (e \o v)[Len(e) + 1] = v[1]
      BY <2>1, <2>3, <2>4
    <3>2. v[1] = b[1]
      BY <2>1, <2>3
    <3>3. QED
      BY <1>7, <3>1, <3>2
  <2>7. ASSUME NEW i \in 1 .. Len(u) PROVE (e \o v)[Len(e) + 1 + i] = u[i]
    <3>1. (e \o v)[Len(e) + 1 + i] = v[1 + i]
      BY <2>1, <2>3, <2>4
    <3>2. v[1 + i] = u[i]
      BY <2>1, <2>3
    <3>3. QED
      BY <3>1, <3>2
  <2>8. Len(e \o v) = Len(e) + 1 + Len(u)
    BY <2>1, <2>3, <2>4
  <2>9. u = w(k + 1) /\ e = f[k]
    BY DEF u, e
  <2>10. QED
    BY <2>2, <2>4, <2>5, <2>6, <2>7, <2>8, <2>9
<1>10. \A k \in 1 .. n : f[k] \in Seq(Chars)
  <2> DEFINE T == {m \in Nat : m + 1 \in 1 .. n => f[m + 1] \in Seq(Chars)}
  <2>1. 0 \in T
    BY <1>1, <1>5, <1>8 DEF w
  <2>2. ASSUME NEW m \in T PROVE m + 1 \in T
    <3>1. SUFFICES ASSUME (m + 1) + 1 \in 1 .. n PROVE f[(m + 1) + 1] \in Seq(Chars)
      OBVIOUS
    <3>2. m + 1 \in 1 .. n - 1 /\ f[m + 1] \in Seq(Chars)
      BY <1>1, <3>1
    <3>3. QED
      BY <1>9, <3>2
  <2> HIDE DEF T
  <2>3. T = Nat
    BY <2>1, <2>2, AllNumbers DEF T
  <2>4. ASSUME NEW k \in 1 .. n PROVE f[k] \in Seq(Chars)
    <3>1. k - 1 \in T /\ (k - 1) + 1 = k
      BY <1>1, <2>3
    <3>2. QED
      BY <3>1 DEF T
  <2>5. QED
    BY <2>4
<1>11. \A k \in 1 .. n : Len(f[k]) \in Nat
  BY <1>10, LenProperties
\* each of the joined sequences is a beginning of the last one
<1> DEFINE Begins(k, m) == Len(f[k]) <= Len(f[m]) /\ \A i \in 1 .. Len(f[k]) : f[m][i] = f[k][i]
<1>12. \A k \in 1 .. n : Begins(k, n)
  <2> DEFINE T == {m \in Nat : m + 1 \in 1 .. n => \A k \in 1 .. m + 1 : Begins(k, m + 1)}
  <2>1. 0 \in T
    BY <1>11
  <2>2. ASSUME NEW m \in T PROVE m + 1 \in T
    <3>1. SUFFICES ASSUME (m + 1) + 1 \in 1 .. n, NEW k \in 1 .. (m + 1) + 1
                   PROVE  Begins(k, (m + 1) + 1)
      OBVIOUS
    <3>2. CASE k = (m + 1) + 1
      BY <1>11, <3>1, <3>2
    <3>3. CASE k \in 1 .. m + 1
      <4>1. m + 1 \in 1 .. n - 1 /\ m + 1 \in 1 .. n /\ k \in 1 .. n
        BY <1>1, <3>1, <3>3
      <4>2. Begins(k, m + 1)
        BY <3>3, <4>1
      <4>3. Begins(m + 1, (m + 1) + 1)
        <5>1. f[m + 1] \in Seq(Chars)
          BY <1>10, <4>1
        <5>2. /\ Len(f[(m + 1) + 1]) = Len(f[m + 1]) + 1 + Len(w((m + 1) + 1))
              /\ \A i \in 1 .. Len(f[m + 1]) : f[(m + 1) + 1][i] = f[m + 1][i]
          BY <1>9, <4>1, <5>1
        <5>3. Len(w((m + 1) + 1)) \in Nat /\ Len(f[m + 1]) \in Nat
          BY <1>8, <1>11, <3>1, <4>1
        <5>4. Len(f[m + 1]) <= Len(f[(m + 1) + 1])
          <6> DEFINE x == Len(f[m + 1])
                     y == Len(f[(m + 1) + 1])
                     z == Len(w((m + 1) + 1))
          <6>1. y = x + 1 + z /\ x \in Nat /\ z \in Nat
            BY <5>2, <5>3
          <6> HIDE DEF x, y, z
          <6>2. x <= y
            BY <6>1
          <6>3. QED
            BY <6>2 DEF x, y
        <5>5. QED
          BY <5>2, <5>4
      <4>4. Len(f[k]) \in Nat /\ Len(f[m + 1]) \in Nat /\ Len(f[(m + 1) + 1]) \in Nat
        BY <1>11, <3>1, <4>1
      <4>5. \A i \in 1 .. Len(f[k]) : i \in 1 .. Len(f[m + 1])
        BY <4>2, <4>4
      <4>6. QED
        BY <4>2, <4>3, <4>4, <4>5
    <3>4. QED
      BY <3>2, <3>3
  <2> HIDE DEF T
  <2>3. T = Nat
    BY <2>1, <2>2, AllNumbers DEF T
  <2>4. n - 1 \in T /\ (n - 1) + 1 = n
    BY <1>1, <2>3
  <2>5. QED
    BY <1>1, <2>4 DEF T
<1> DEFINE off == [k \in 1 .. n |-> IF k = 1 THEN 0 ELSE Len(f[k - 1]) + 1]
<1>13. off \in [1 .. n -> Nat] /\ off[1] = 0
  <2>1. ASSUME NEW k \in 1 .. n PROVE (IF k = 1 THEN 0 ELSE Len(f[k - 1]) + 1) \in Nat
    <3>1. CASE k = 1
      BY <3>1
    <3>2. CASE k # 1
      <4>1. k - 1 \in 1 .. n
        BY <1>1, <3>2
      <4>2. QED
        BY <1>11, <3>2, <4>1
    <3>3. QED
      BY <3>1, <3>2
  <2>2. QED
    BY <1>1, <2>1
<1>14. ASSUME NEW k \in 1 .. n
       PROVE  /\ Len(f[k]) = off[k] + Len(w(k))
              /\ \A i \in 1 .. Len(w(k)) : f[k][off[k] + i] = w(k)[i]
  <2>1. CASE k = 1
    <3>1. f[k] = w(k) /\ off[k] = 0
      BY <1>5, <1>13, <2>1 DEF w
    <3>2. Len(w(k)) \in Nat
      BY <1>8
    <3>3. QED
      BY <3>1, <3>2
  <2>2. CASE k # 1
    <3>1. k - 1 \in 1 .. n - 1 /\ k - 1 \in 1 .. n /\ (k - 1) + 1 = k
      BY <1>1, <2>2
    <3>2. f[k - 1] \in Seq(Chars)
      BY <1>10, <3>1
    <3>3. /\ Len(f[(k - 1) + 1]) = Len(f[k - 1]) + 1 + Len(w((k - 1) + 1))
          /\ \A i \in 1 .. Len(w((k - 1) + 1)) :
                 f[(k - 1) + 1][Len(f[k - 1]) + 1 + i] = w((k - 1) + 1)[i]
      BY <1>9, <3>1, <3>2
    <3>4. off[k] = Len(f[k - 1]) + 1
      BY <2>2
    <3>5. QED
      BY <3>1, <3>3, <3>4
  <2>3. QED
    BY <2>1, <2>2
<1>15. \A k \in 1 .. n - 1 : off[k + 1] = Len(f[k]) + 1
  BY <1>1
<1> HIDE DEF off
<1>16. ASSUME NEW k \in 1 .. n
       PROVE  /\ \A i \in 1 .. Len(w(k)) : f[n][off[k] + i] = w(k)[i]
              /\ k < n => /\ off[k + 1] = off[k] + Len(w(k)) + 1
                          /\ off[k + 1] <= Len(f[n])
                          /\ f[n][off[k + 1]] = Blank
              /\ k = n => Len(f[n]) = off[k] + Len(w(k))
  <2>0. Len(w(k)) \in Nat /\ off[k] \in Nat /\ Len(f[k]) \in Nat
    BY <1>8, <1>11, <1>13
  <2>1. ASSUME NEW i \in 1 .. Len(w(k)) PROVE f[n][off[k] + i] = w(k)[i]
    <3>1. off[k] + i \in 1 .. Len(f[k])
      BY <1>14, <2>0
    <3>2. f[n][off[k] + i] = f[k][off[k] + i]
      BY <1>12, <3>1
    <3>3. QED
      BY <1>14, <3>2
  <2>2. ASSUME k < n
        PROVE  /\ off[k + 1] = off[k] + Len(w(k)) + 1
               /\ off[k + 1] <= Len(f[n])
               /\ f[n][off[k + 1]] = Blank
    <3>1. k \in 1 .. n - 1 /\ k + 1 \in 1 .. n
      BY <1>1, <2>2
    <3>2. off[k + 1] = Len(f[k]) + 1
      BY <1>15, <3>1
    <3>3. /\ Len(f[k + 1]) = Len(f[k]) + 1 + Len(w(k + 1)) /\ f[k + 1][Len(f[k]) + 1] = Blank
      BY <1>9, <1>10, <3>1
    <3>40. Len(w(k + 1)) \in Nat /\ Len(f[n]) \in Nat /\ Len(f[k + 1]) \in Nat
      BY <1>1, <1>8, <1>11, <3>1
    <3>4. Begins(k + 1, n) /\ Len(w(k + 1)) \in Nat /\ Len(f[n]) \in Nat /\ Len(f[k + 1]) \in Nat
      BY <1>12, <3>1, <3>40
    <3>5. Len(f[k]) + 1 \in 1 .. Len(f[k + 1])
      <4> DEFINE x == Len(f[k])
                 y == Len(f[k + 1])
                 z == Len(w(k + 1))
      <4>1. y = x + 1 + z /\ x \in Nat /\ z \in Nat
        BY <2>0, <3>3, <3>4
      <4> HIDE DEF x, y, z
      <4>2. x + 1 \in 1 .. y
        BY <4>1
      <4>3. QED
        BY <4>2 DEF x, y
    <3>6. f[n][Len(f[k]) + 1] = Blank
      BY <3>3, <3>4, <3>5
    <3>7. Len(f[k]) = off[k] + Len(w(k))
      BY <1>14
    <3>8. off[k + 1] = off[k] + Len(w(k)) + 1 /\ f[n][off[k + 1]] = Blank
      BY <2>0, <3>2, <3>6, <3>7
    <3>9. Len(f[k]) + 1 <= Len(f[k + 1]) /\ Len(f[k + 1]) <= Len(f[n])
      BY <3>4, <3>5
    <3>10. off[k + 1] <= Len(f[n])
      BY <2>0, <3>2, <3>4, <3>9
    <3>11. QED
      BY <3>8, <3>10
  <2>3. k = n => Len(f[n]) = off[k] + Len(w(k))
    BY <1>14
  <2>4. QED
    BY <2>1, <2>2, <2>3
<1>17. Layout(ws, off)
  BY <1>1, <1>4, <1>13, <1>16 DEF Layout, w, n
<1>18. QED
  BY <1>17
-----------------------------------------------------------------------------
\* In cells of the buffer: where a word begins, where its text does, and the cell
\* behind it, of the blank or of the zero.
Place(ws) == CHOOSE off : Layout(ws, off)
Begin(ws, k) == Place(ws)[k]
TextAt(ws, k) == IF ws[k].quoted THEN Begin(ws, k) + 1 ELSE Begin(ws, k)
After(ws, k) == Begin(ws, k) + Len(Spelled(ws[k]))

\* How the k-th word lies in the line w.
WordAt(ws, k, w) ==
    LET t == ws[k].text
    IN  /\ Begin(ws, k) \in Nat /\ TextAt(ws, k) \in Nat /\ After(ws, k) \in Nat
        /\ Len(t) \in Nat /\ Len(w) \in Nat /\ After(ws, k) <= Len(w)
        /\ \A i \in 1 .. Len(t) : w[TextAt(ws, k) + i] = t[i]
        /\ ~ws[k].quoted => /\ TextAt(ws, k) = Begin(ws, k)
                            /\ After(ws, k) = TextAt(ws, k) + Len(t)
                            /\ \A i \in 1 .. Len(t) : t[i] \in Letters
        /\ ws[k].quoted => /\ TextAt(ws, k) = Begin(ws, k) + 1
                           /\ After(ws, k) = TextAt(ws, k) + Len(t) + 1
                           /\ w[Begin(ws, k) + 1] = Quote
                           /\ w[After(ws, k)] = Quote
        /\ \A i \in 1 .. Len(t) : t[i] \in Letters \cup {Blank}
        /\ k < Len(ws) => /\ After(ws, k) < Len(w) /\ w[After(ws, k) + 1] = Blank
                          /\ Begin(ws, k + 1) = After(ws, k) + 1
        /\ k = Len(ws) => After(ws, k) = Len(w)

LEMMA WordCells ==
    ASSUME NEW ws \in WordLists, NEW k \in 1 .. Len(ws)
    PROVE  WordAt(ws, k, Written(ws))
<1> DEFINE t == ws[k].text
           w == Written(ws)
           off == Place(ws)
           s == Spelled(ws[k])
<1>1. Layout(ws, off)
  BY LayoutExists DEF Place
<1>2. /\ DOMAIN ws = 1 .. Len(ws) /\ Len(ws) \in Nat
      /\ t \in Seq(Letters \cup {Blank}) /\ Len(t) \in Nat /\ ws[k].quoted \in BOOLEAN
      /\ ~ws[k].quoted => t \in Seq(Letters)
  BY Words
<1>3. /\ s \in Seq(Chars) /\ Len(s) \in Nat
      /\ ~ws[k].quoted => s = t
      /\ ws[k].quoted => /\ Len(s) = Len(t) + 2 /\ s[1] = Quote /\ s[Len(t) + 2] = Quote
                         /\ \A i \in 1 .. Len(t) : s[i + 1] = t[i]
  <2>1. k \in DOMAIN ws
    BY <1>2
  <2>2. QED
    BY <2>1, SpelledFacts, LenProperties
<1>4. /\ \A i \in 1 .. Len(t) : t[i] \in Letters \cup {Blank}
      /\ ~ws[k].quoted => \A i \in 1 .. Len(t) : t[i] \in Letters
  <2> HIDE DEF t
  <2>1. QED
    BY <1>2, ElementOfSeq
<1>5. /\ off[k] \in Nat
      /\ \A i \in 1 .. Len(s) : w[off[k] + i] = s[i]
      /\ k < Len(ws) => off[k + 1] = off[k] + Len(s) + 1 /\ off[k + 1] <= Len(w) /\ w[off[k + 1]] = Blank
      /\ k = Len(ws) => Len(w) = off[k] + Len(s)
  BY <1>1, <1>2 DEF Layout
<1>6. Len(w) \in Nat
  <2>1. Len(ws) \in 1 .. Len(ws) /\ Len(ws) \in DOMAIN ws
    BY <1>2
  <2>2. Len(w) = off[Len(ws)] + Len(Spelled(ws[Len(ws)])) /\ off[Len(ws)] \in Nat
    BY <1>1, <2>1 DEF Layout
  <2>3. Len(Spelled(ws[Len(ws)])) \in Nat
    BY <2>1, SpelledFacts, LenProperties
  <2>4. QED
    BY <2>2, <2>3
<1> HIDE DEF t, w, off, s
<1>7. Begin(ws, k) = off[k] /\ After(ws, k) = off[k] + Len(s) /\ Begin(ws, k + 1) = off[k + 1]
      /\ TextAt(ws, k) = IF ws[k].quoted THEN off[k] + 1 ELSE off[k]
  BY DEF Begin, After, TextAt, off, s
<1> DEFINE a == After(ws, k)
           l == Len(w)
<1>8. a <= l
  <2>0. a = off[k] + Len(s) /\ off[k] \in Nat /\ Len(s) \in Nat
    BY <1>3, <1>5, <1>7
  <2>1. a \in Nat /\ (k < Len(ws) => off[k + 1] = a + 1 /\ off[k + 1] <= l) /\ (k = Len(ws) => l = a)
    <3> HIDE DEF a, l
    <3>1. a \in Nat
      BY <2>0
    <3>2. k < Len(ws) => off[k + 1] = off[k] + Len(s) + 1 /\ off[k + 1] <= l
      BY <1>5 DEF l
    <3>3. k = Len(ws) => l = off[k] + Len(s)
      BY <1>5 DEF l
    <3>4. QED
      BY <2>0, <3>1, <3>2, <3>3
  <2>2. l \in Nat /\ (k < Len(ws) \/ k = Len(ws))
    BY <1>2, <1>6
  <2> HIDE DEF a, l
  <2>3. CASE k < Len(ws)
    <3>1. a + 1 <= l
      BY <2>1, <2>3
    <3>2. QED
      BY <2>1, <2>2, <3>1
  <2>4. QED
    BY <2>1, <2>2, <2>3
<1>80. off[k] \in Nat /\ Len(s) \in Nat /\ ws[k].quoted \in BOOLEAN
  BY <1>2, <1>3, <1>5
<1>81. Begin(ws, k) \in Nat /\ After(ws, k) \in Nat /\ TextAt(ws, k) \in Nat
  BY <1>7, <1>80
<1>82. /\ k < Len(ws) => /\ After(ws, k) < Len(w) /\ w[After(ws, k) + 1] = Blank
                         /\ Begin(ws, k + 1) = After(ws, k) + 1
       /\ k = Len(ws) => After(ws, k) = Len(w)
  <2>1. ASSUME k < Len(ws)
        PROVE  /\ off[k + 1] = a + 1 /\ off[k + 1] <= l /\ w[off[k + 1]] = Blank
               /\ a \in Nat /\ l \in Nat
    <3>1. off[k + 1] = off[k] + Len(s) + 1 /\ off[k + 1] <= Len(w) /\ w[off[k + 1]] = Blank
      BY <1>5, <2>1
    <3>2. QED
      BY <1>6, <1>7, <1>81, <3>1
  <2>2. ASSUME k < Len(ws) PROVE a < l
    <3>1. a + 1 <= l /\ a \in Nat /\ l \in Nat
      BY <2>1, <2>2
    <3> HIDE DEF a, l
    <3>2. QED
      BY <3>1
  <2>3. QED
    BY <1>5, <1>7, <2>1, <2>2
<1> HIDE DEF a, l
<1>9. CASE ~ws[k].quoted
  <2>1. After(ws, k) = TextAt(ws, k) + Len(t) /\ TextAt(ws, k) = Begin(ws, k)
    BY <1>3, <1>7, <1>9
  <2>2. \A i \in 1 .. Len(t) : w[TextAt(ws, k) + i] = t[i]
    BY <1>3, <1>5, <1>7, <1>9
  <2>3. QED
    BY <1>2, <1>4, <1>6, <1>8, <1>9, <1>81, <1>82, <2>1, <2>2 DEF t, w, a, l, WordAt
<1>10. CASE ws[k].quoted
  <2>1. After(ws, k) = TextAt(ws, k) + Len(t) + 1 /\ TextAt(ws, k) = Begin(ws, k) + 1
    <3> DEFINE x == Len(t)
               y == Len(s)
               o == off[k]
    <3>1. y = x + 2 /\ o \in Nat /\ x \in Nat
      BY <1>2, <1>3, <1>5, <1>10
    <3>2. After(ws, k) = o + y /\ TextAt(ws, k) = o + 1 /\ Begin(ws, k) = o
      BY <1>7, <1>10
    <3> HIDE DEF x, y, o
    <3>3. After(ws, k) = TextAt(ws, k) + x + 1 /\ TextAt(ws, k) = Begin(ws, k) + 1
      BY <3>1, <3>2
    <3>4. QED
      BY <3>3 DEF x
  <2>2. ASSUME NEW i \in 1 .. Len(t) PROVE w[TextAt(ws, k) + i] = t[i]
    <3>1. i + 1 \in 1 .. Len(s)
      BY <1>2, <1>3, <1>10
    <3>2. w[off[k] + (i + 1)] = s[i + 1] /\ s[i + 1] = t[i]
      BY <1>3, <1>5, <1>10, <3>1
    <3>3. off[k] + (i + 1) = TextAt(ws, k) + i
      <4>1. off[k] \in Nat /\ TextAt(ws, k) = off[k] + 1 /\ i \in Nat
        BY <1>7, <1>10, <1>80
      <4>2. QED
        BY <4>1
    <3>4. QED
      BY <3>2, <3>3
  <2>3. w[Begin(ws, k) + 1] = Quote /\ w[After(ws, k)] = Quote
    <3>1. 1 \in 1 .. Len(s) /\ Len(s) \in 1 .. Len(s)
      BY <1>2, <1>3, <1>10
    <3>2. w[off[k] + 1] = s[1] /\ w[off[k] + Len(s)] = s[Len(s)]
      BY <1>5, <3>1
    <3>3. QED
      BY <1>3, <1>7, <1>10, <3>2
  <2>4. QED
    BY <1>2, <1>4, <1>6, <1>8, <1>10, <1>81, <1>82, <2>1, <2>2, <2>3 DEF t, w, a, l, WordAt
<1>11. QED
  BY <1>2, <1>9, <1>10

-----------------------------------------------------------------------------
\* The tokenizer has found the words before the k-th, and is in it: before its end,
\* with nothing cut yet, or, if it is quoted, behind it, with the second quote cut.
Unread(c0) == \A c \in c0 .. Len(line) - 1 : shell_buffer[c] = line[c + 1]
Cut(ws, k) ==
    /\ \A i \in 1 .. Len(ws[k].text) : shell_buffer[TextAt(ws, k) + i - 1] = ws[k].text[i]
    /\ shell_buffer[TextAt(ws, k) + Len(ws[k].text)] = Nul
Found(ws, n) == \A k \in 1 .. n : args[k] = TextAt(ws, k) /\ Cut(ws, k)
InWord(ws, k) ==
    /\ start = Begin(ws, k) /\ str \in start .. After(ws, k)
    /\ ws[k].quoted => str = start
    /\ Unread(start)
BehindWord(ws, k) ==
    /\ ws[k].quoted /\ start = TextAt(ws, k) /\ str = After(ws, k)
    /\ Cut(ws, k) /\ Unread(str)
Reading(ws) ==
    LET k == Len(args) + 1
    IN  /\ k \in 1 .. Len(ws)
        /\ shell_buffer[Len(line)] = Nul
        /\ Found(ws, k - 1)
        /\ \A j \in 1 .. k - 1 : TextAt(ws, j) + Len(ws[j].text) < Begin(ws, k)
        /\ InWord(ws, k) \/ BehindWord(ws, k)

WordInv ==
    \A ws \in WordLists : Written(ws) = line =>
        /\ pc = "scan" => Reading(ws)
        /\ pc = "dispatch" => Len(args) = Len(ws) /\ Found(ws, Len(ws))

Inv == IInv /\ WordInv

LEMMA LineFits ==
    ASSUME IInv, NEW ws \in WordLists, Written(ws) = line
    PROVE  Len(line) \in Nat /\ Len(line) < BufferSize /\ BufferSize \in Nat
<1>1. line \in Lines \cup {<<>>}
  BY DEF IInv, TypeOK
<1>2. QED
  BY <1>1, Constants, EmptySeq

\* What is read at str: in an unquoted word a letter, behind a word a blank or the
\* line's zero, at the begin of a quoted one its quote.
LEMMA AtStr ==
    ASSUME IInv, NEW ws \in WordLists, Written(ws) = line, Reading(ws)
    PROVE  LET k == Len(args) + 1
           IN  /\ k \in 1 .. Len(ws) /\ str \in Nat /\ start \in Nat /\ Len(args) \in Nat
               /\ \/ /\ InWord(ws, k) /\ ~ws[k].quoted /\ str < After(ws, k)
                     /\ shell_buffer[str] \in Letters
                  \/ /\ InWord(ws, k) /\ ws[k].quoted /\ str = start
                     /\ shell_buffer[str] = Quote
                  \/ /\ (InWord(ws, k) /\ ~ws[k].quoted) \/ BehindWord(ws, k)
                     /\ str = After(ws, k) /\ k < Len(ws) /\ shell_buffer[str] = Blank
                  \/ /\ (InWord(ws, k) /\ ~ws[k].quoted) \/ BehindWord(ws, k)
                     /\ str = After(ws, k) /\ k = Len(ws) /\ shell_buffer[str] = Nul
<1>0. PICK k : k = Len(args) + 1
  OBVIOUS
<1> DEFINE t == ws[k].text
<1>1. str \in Nat /\ start \in Nat /\ Len(args) \in Nat /\ Len(line) \in Nat
  BY LineFits, LenProperties DEF IInv, TypeOK, Cells
<1>2. k \in 1 .. Len(ws) /\ Len(ws) \in Nat /\ ws[k].quoted \in BOOLEAN
  <2>1. k \in 1 .. Len(ws)
    BY <1>0 DEF Reading
  <2>2. QED
    BY <2>1, Words
<1>3. /\ Begin(ws, k) \in Nat /\ After(ws, k) \in Nat /\ Len(t) \in Nat
      /\ After(ws, k) <= Len(line)
      /\ \A i \in 1 .. Len(t) : line[TextAt(ws, k) + i] = t[i]
      /\ ~ws[k].quoted => /\ TextAt(ws, k) = Begin(ws, k)
                          /\ After(ws, k) = TextAt(ws, k) + Len(t)
                          /\ \A i \in 1 .. Len(t) : t[i] \in Letters
      /\ ws[k].quoted => /\ TextAt(ws, k) = Begin(ws, k) + 1
                         /\ After(ws, k) = TextAt(ws, k) + Len(t) + 1
                         /\ line[Begin(ws, k) + 1] = Quote
      /\ k < Len(ws) => After(ws, k) < Len(line) /\ line[After(ws, k) + 1] = Blank
      /\ k = Len(ws) => After(ws, k) = Len(line)
  <2>1. WordAt(ws, k, line)
    BY <1>2, WordCells
  <2>2. QED
    BY <2>1 DEF WordAt
<1>4. shell_buffer[Len(line)] = Nul /\ (InWord(ws, k) \/ BehindWord(ws, k))
  BY <1>0 DEF Reading
<1> HIDE DEF t
<1>5. ASSUME str = After(ws, k), Unread(str)
      PROVE  \/ k < Len(ws) /\ shell_buffer[str] = Blank
             \/ k = Len(ws) /\ shell_buffer[str] = Nul
  <2>1. CASE k < Len(ws)
    <3>1. str \in str .. Len(line) - 1
      BY <1>1, <1>3, <1>5, <2>1
    <3>2. QED
      BY <1>3, <1>5, <2>1, <3>1 DEF Unread
  <2>2. CASE k = Len(ws)
    BY <1>3, <1>4, <1>5, <2>2
  <2>3. QED
    BY <1>2, <2>1, <2>2
<1>6. CASE InWord(ws, k) /\ ws[k].quoted
  <2>1. str = start /\ start = Begin(ws, k) /\ Unread(start)
    BY <1>6 DEF InWord
  <2>2. start \in start .. Len(line) - 1
    <3>1. After(ws, k) = start + Len(t) + 2 /\ After(ws, k) <= Len(line) /\ Len(t) \in Nat
      <4>1. /\ TextAt(ws, k) = Begin(ws, k) + 1 /\ After(ws, k) = TextAt(ws, k) + Len(t) + 1
            /\ Begin(ws, k) \in Nat /\ After(ws, k) <= Len(line) /\ Len(t) \in Nat
        BY <1>3, <1>6
      <4>2. QED
        BY <2>1, <4>1
    <3>2. QED
      BY <1>1, <3>1
  <2>3. shell_buffer[str] = Quote
    BY <1>3, <1>6, <2>1, <2>2 DEF Unread
  <2>4. QED
    BY <1>0, <1>1, <1>2, <1>6, <2>1, <2>3
<1>7. CASE InWord(ws, k) /\ ~ws[k].quoted
  <2>1. start = Begin(ws, k) /\ str \in start .. After(ws, k) /\ Unread(start)
    BY <1>7 DEF InWord
  <2>2. CASE str < After(ws, k)
    <3>1. str \in start .. Len(line) - 1 /\ str - start + 1 \in 1 .. Len(t)
          /\ TextAt(ws, k) + (str - start + 1) = str + 1
      <4>1. /\ TextAt(ws, k) = Begin(ws, k) /\ After(ws, k) = TextAt(ws, k) + Len(t)
            /\ Begin(ws, k) \in Nat /\ After(ws, k) <= Len(line) /\ Len(t) \in Nat
        BY <1>3, <1>7
      <4>2. After(ws, k) = start + Len(t) /\ TextAt(ws, k) = start
        BY <2>1, <4>1
      <4>3. start <= str
        BY <1>1, <2>1
      <4>4. QED
        BY <1>1, <2>2, <4>1, <4>2, <4>3
    <3>2. shell_buffer[str] = line[str + 1] /\ line[str + 1] = t[str - start + 1]
      BY <1>3, <2>1, <3>1 DEF Unread
    <3>3. shell_buffer[str] \in Letters
      BY <1>3, <1>7, <3>1, <3>2
    <3>4. QED
      BY <1>0, <1>1, <1>2, <1>7, <2>2, <3>3
  <2>3. CASE str = After(ws, k)
    <3>1. Unread(str)
      <4>1. SUFFICES ASSUME NEW c \in str .. Len(line) - 1
                     PROVE  shell_buffer[c] = line[c + 1]
        BY DEF Unread
      <4>2. c \in start .. Len(line) - 1
        BY <1>1, <2>1, <4>1
      <4>3. QED
        BY <2>1, <4>2 DEF Unread
    <3>2. QED
      BY <1>0, <1>1, <1>2, <1>5, <1>7, <2>3, <3>1
  <2>4. QED
    BY <1>1, <1>3, <2>1, <2>2, <2>3
<1>8. CASE BehindWord(ws, k)
  <2>1. str = After(ws, k) /\ Unread(str)
    BY <1>8 DEF BehindWord
  <2>2. QED
    BY <1>0, <1>1, <1>2, <1>5, <1>8, <2>1
<1>9. QED
  BY <1>0, <1>2, <1>4, <1>6, <1>7, <1>8
\* The order of these places.
LEMMA WordOrder ==
    ASSUME NEW ws \in WordLists, NEW k \in 1 .. Len(ws)
    PROVE  /\ Begin(ws, k) \in Nat /\ TextAt(ws, k) \in Nat /\ After(ws, k) \in Nat
           /\ Len(ws[k].text) \in Nat
           /\ Begin(ws, k) <= TextAt(ws, k)
           /\ TextAt(ws, k) + Len(ws[k].text) <= After(ws, k)
           /\ ws[k].quoted => TextAt(ws, k) + Len(ws[k].text) < After(ws, k)
<1>1. /\ Begin(ws, k) \in Nat /\ TextAt(ws, k) \in Nat /\ After(ws, k) \in Nat
      /\ Len(ws[k].text) \in Nat
      /\ ~ws[k].quoted => /\ TextAt(ws, k) = Begin(ws, k)
                          /\ After(ws, k) = TextAt(ws, k) + Len(ws[k].text)
      /\ ws[k].quoted => /\ TextAt(ws, k) = Begin(ws, k) + 1
                         /\ After(ws, k) = TextAt(ws, k) + Len(ws[k].text) + 1
  BY WordCells DEF WordAt
<1> DEFINE b == Begin(ws, k)
           t == TextAt(ws, k)
           a == After(ws, k)
           l == Len(ws[k].text)
           q == ws[k].quoted
<1>2. /\ b \in Nat /\ t \in Nat /\ a \in Nat /\ l \in Nat
      /\ ~q => t = b /\ a = t + l
      /\ q => t = b + 1 /\ a = t + l + 1
  BY <1>1
<1> HIDE DEF b, t, a, l, q
<1>3. b <= t /\ t + l <= a /\ (q => t + l < a)
  BY <1>2
<1>4. QED
  BY <1>2, <1>3 DEF b, t, a, l, q

\* Stores at or behind the place where a word is being read leave the words found.
LEMMA FoundKept ==
    ASSUME IInv, NEW ws \in WordLists, NEW k \in 1 .. Len(ws) + 1, Found(ws, k - 1),
           NEW place \in Nat, \A j \in 1 .. k - 1 : TextAt(ws, j) + Len(ws[j].text) < place,
           \A c \in 0 .. place - 1 : c \in Cells => shell_buffer'[c] = shell_buffer[c],
           \A j \in 1 .. k - 1 : args'[j] = args[j],
           place < BufferSize
    PROVE  Found(ws, k - 1)'
<1>1. SUFFICES ASSUME NEW j \in 1 .. k - 1 PROVE args'[j] = TextAt(ws, j) /\ Cut(ws, j)'
  BY DEF Found
<1>2. j \in 1 .. Len(ws) /\ Len(ws) \in Nat
  BY Words
<1>3. TextAt(ws, j) \in Nat /\ Len(ws[j].text) \in Nat
  BY <1>2, WordCells DEF WordAt
<1>4. TextAt(ws, j) + Len(ws[j].text) < place /\ BufferSize \in Nat
  BY Constants
<1>5. Cut(ws, j) /\ args[j] = TextAt(ws, j)
  BY DEF Found
<1> DEFINE a == TextAt(ws, j)
           l == Len(ws[j].text)
<1>6. \A i \in 1 .. l + 1 : a + i - 1 \in 0 .. place - 1 /\ a + i - 1 \in 0 .. BufferSize - 1
  <2>1. a \in Nat /\ l \in Nat /\ a + l < place
    BY <1>3, <1>4
  <2> HIDE DEF a, l
  <2>2. QED
    BY <1>4, <2>1
<1>61. \A i \in 1 .. l + 1 : shell_buffer'[a + i - 1] = shell_buffer[a + i - 1]
  <2> HIDE DEF a, l
  <2>1. QED
    BY <1>6 DEF Cells
<1>7. shell_buffer'[a + l] = shell_buffer[a + l]
  <2>1. a + (l + 1) - 1 = a + l /\ l + 1 \in 1 .. l + 1
    BY <1>3
  <2> HIDE DEF a, l
  <2>2. QED
    BY <1>61, <2>1
<1>8. j \in 1 .. k - 1 /\ args'[j] = TextAt(ws, j)
  BY <1>5
<1>9. \A i \in 1 .. Len(ws[j].text) : i \in 1 .. Len(ws[j].text) + 1
  BY <1>3
<1>10. QED
  BY <1>5, <1>7, <1>8, <1>9, <1>61 DEF Cut

LEMMA TypeWords == ASSUME Inv, NEW l \in Lines, Type(l) PROVE WordInv'
<1>1. SUFFICES ASSUME NEW ws \in WordLists, Written(ws) = l PROVE Reading(ws)'
  BY DEF WordInv, Type
<1>2. line' = l /\ str' = 0 /\ start' = 0 /\ args' = <<>> /\ Len(args') = 0
  BY DEF Type
<1>3. l \in Seq(Chars) /\ Len(l) \in Nat /\ Len(l) <= BufferSize - 2 /\ BufferSize \in Nat
  BY Constants
<1>4. shell_buffer'[Len(l)] = Nul /\ \A c \in 0 .. Len(l) - 1 : shell_buffer'[c] = l[c + 1]
  BY <1>3 DEF Type, Cells
<1>5. Len(ws) \in Nat \ {0} /\ 1 \in 1 .. Len(ws)
  BY Words
<1>6. Begin(ws, 1) = 0 /\ After(ws, 1) \in Nat
  BY <1>5, WordCells, LayoutExists DEF Begin, Place, Layout, WordAt
<1>7. InWord(ws, 1)'
  BY <1>2, <1>4, <1>6 DEF InWord, Unread
<1>8. QED
  BY <1>2, <1>4, <1>5, <1>7 DEF Reading, Found

\* The end of a word: its blank or the line's zero is overwritten by a zero, or is one.
LEMMA WordEnds ==
    ASSUME IInv, NEW ws \in WordLists, Written(ws) = line, Reading(ws),
           NEW k, k = Len(args) + 1, str = After(ws, k),
           (InWord(ws, k) /\ ~ws[k].quoted) \/ BehindWord(ws, k),
           shell_buffer' = [shell_buffer EXCEPT ![str] = Nul],
           args' = Append(args, start)
    PROVE  /\ Found(ws, k)' /\ Len(args') = k /\ k \in 1 .. Len(ws)
           /\ \A j \in 1 .. k : TextAt(ws, j) + Len(ws[j].text) < str + 1
<1>1. /\ args \in Seq(Cells) /\ Len(args) \in Nat /\ start \in Cells /\ str \in Cells
      /\ shell_buffer \in [Cells -> Chars \cup {Nul}]
      /\ str \in Nat /\ start \in Nat /\ BufferSize \in Nat
  BY Constants, LenProperties DEF IInv, TypeOK, Cells
<1>2. Len(args') = k /\ args'[k] = start /\ \A j \in 1 .. k - 1 : args'[j] = args[j]
  <2> HIDE DEF Cells
  <2>1. QED
    BY <1>1, AppendProperties
<1>3. k \in 1 .. Len(ws) /\ Len(ws) \in Nat /\ Found(ws, k - 1)
      /\ \A j \in 1 .. k - 1 : TextAt(ws, j) + Len(ws[j].text) < Begin(ws, k)
  BY Words DEF Reading
<1>4. /\ Begin(ws, k) \in Nat /\ TextAt(ws, k) \in Nat /\ After(ws, k) \in Nat
      /\ Len(ws[k].text) \in Nat
      /\ \A i \in 1 .. Len(ws[k].text) : line[TextAt(ws, k) + i] = ws[k].text[i]
      /\ After(ws, k) <= Len(line)
      /\ ~ws[k].quoted => /\ TextAt(ws, k) = Begin(ws, k)
                          /\ After(ws, k) = TextAt(ws, k) + Len(ws[k].text)
      /\ ws[k].quoted => /\ TextAt(ws, k) = Begin(ws, k) + 1
                         /\ After(ws, k) = TextAt(ws, k) + Len(ws[k].text) + 1
  <2>1. WordAt(ws, k, line)
    BY <1>3, WordCells
  <2>2. QED
    BY <2>1 DEF WordAt
<1>51. /\ Begin(ws, k) \in Nat /\ TextAt(ws, k) \in Nat /\ Len(ws[k].text) \in Nat
       /\ Begin(ws, k) <= TextAt(ws, k) /\ TextAt(ws, k) + Len(ws[k].text) <= str
       /\ ws[k].quoted => TextAt(ws, k) + Len(ws[k].text) < str
  BY <1>3, WordOrder
<1> DEFINE b == Begin(ws, k)
           a == TextAt(ws, k)
           l == Len(ws[k].text)
<1>52. /\ b \in Nat /\ a \in Nat /\ l \in Nat /\ b <= a /\ a + l <= str
       /\ ws[k].quoted => a + l < str
  BY <1>51
<1>53. str < BufferSize
  BY <1>1 DEF Cells
<1>54. b <= str /\ a + l < str + 1
  <2> HIDE DEF b, a, l
  <2>1. QED
    BY <1>1, <1>52
<1>55. ws[k].quoted => \A i \in 1 .. l + 1 : a + i - 1 \in Cells /\ a + i - 1 # str
  <2> HIDE DEF b, a, l
  <2>1. QED
    BY <1>1, <1>52, <1>53 DEF Cells
<1>5. Begin(ws, k) <= str /\ ws[k].quoted \in BOOLEAN /\ str < BufferSize
  <2>1. k \in DOMAIN ws
    BY <1>3, Words
  <2>2. QED
    BY <1>53, <1>54, <2>1, Words
<1>6. TextAt(ws, k) + Len(ws[k].text) < str + 1
  BY <1>54
<1>7. start = TextAt(ws, k) /\ Cut(ws, k)'
  <2>1. CASE InWord(ws, k) /\ ~ws[k].quoted
    <3>1. start = Begin(ws, k) /\ Unread(start)
      BY <2>1 DEF InWord
    <3>2. Len(line) \in Nat
      BY LineFits
    <3>3. ASSUME NEW i \in 1 .. Len(ws[k].text)
          PROVE  shell_buffer'[TextAt(ws, k) + i - 1] = ws[k].text[i]
      <4>1. TextAt(ws, k) + i - 1 \in start .. Len(line) - 1
        <5>1. a = start /\ a + l <= Len(line)
          BY <1>4, <2>1, <3>1
        <5>2. a \in Nat /\ l \in Nat /\ i \in 1 .. l
          BY <1>51
        <5> HIDE DEF a, l
        <5>3. a + i - 1 \in start .. Len(line) - 1
          BY <3>2, <5>1, <5>2
        <5>4. QED
          BY <5>3 DEF a
      <4>2. TextAt(ws, k) + i - 1 # str /\ TextAt(ws, k) + i - 1 \in Cells
        <5>1. a \in Nat /\ l \in Nat /\ a + l <= str /\ i \in 1 .. l
          BY <1>52
        <5> HIDE DEF a, l
        <5>2. a + i - 1 # str /\ a + i - 1 \in Cells
          BY <1>1, <1>53, <5>1 DEF Cells
        <5>3. QED
          BY <5>2 DEF a
      <4>3. shell_buffer[TextAt(ws, k) + i - 1] = line[TextAt(ws, k) + i - 1 + 1]
        BY <3>1, <4>1 DEF Unread
      <4>4. TextAt(ws, k) + i - 1 + 1 = TextAt(ws, k) + i
        BY <1>4
      <4>5. QED
        BY <1>1, <1>4, <4>2, <4>3, <4>4
    <3>4. shell_buffer'[TextAt(ws, k) + Len(ws[k].text)] = Nul
      BY <1>1, <1>4, <2>1
    <3>5. QED
      BY <1>4, <2>1, <3>1, <3>3, <3>4 DEF Cut
  <2>2. CASE BehindWord(ws, k)
    <3>1. start = TextAt(ws, k) /\ Cut(ws, k) /\ ws[k].quoted
      BY <2>2 DEF BehindWord
    <3>2. ASSUME NEW i \in 1 .. Len(ws[k].text) + 1
          PROVE  shell_buffer'[TextAt(ws, k) + i - 1] = shell_buffer[TextAt(ws, k) + i - 1]
      <4>1. TextAt(ws, k) + i - 1 # str /\ TextAt(ws, k) + i - 1 \in Cells
        BY <1>55, <3>1
      <4>2. QED
        BY <1>1, <4>1
    <3>3. shell_buffer'[TextAt(ws, k) + Len(ws[k].text)]
              = shell_buffer[TextAt(ws, k) + Len(ws[k].text)]
      <4>1. l + 1 \in 1 .. l + 1 /\ a + (l + 1) - 1 = a + l
        BY <1>52
      <4>2. a + l # str /\ a + l \in Cells
        BY <1>55, <3>1, <4>1
      <4>3. QED
        BY <1>1, <4>2
    <3>4. ASSUME NEW i \in 1 .. Len(ws[k].text)
          PROVE  shell_buffer'[TextAt(ws, k) + i - 1] = ws[k].text[i]
      <4>1. i \in 1 .. Len(ws[k].text) + 1
        BY <1>52
      <4>2. shell_buffer[TextAt(ws, k) + i - 1] = ws[k].text[i]
        BY <3>1 DEF Cut
      <4>3. QED
        BY <3>2, <4>1, <4>2
    <3>5. shell_buffer[TextAt(ws, k) + Len(ws[k].text)] = Nul
      BY <3>1 DEF Cut
    <3>6. QED
      BY <3>1, <3>3, <3>4, <3>5 DEF Cut
  <2>3. QED
    BY <2>1, <2>2
<1>8. Found(ws, k - 1)'
  <2>1. \A c \in 0 .. Begin(ws, k) - 1 : c \in Cells => shell_buffer'[c] = shell_buffer[c]
    BY <1>1, <1>4, <1>5
  <2>2. k \in 1 .. Len(ws) + 1 /\ Begin(ws, k) < BufferSize
    BY <1>1, <1>3, <1>4, <1>5
  <2>3. QED
    BY <1>2, <1>3, <1>4, <2>1, <2>2, FoundKept
<1>9. Found(ws, k)'
  <2>1. \A j \in 1 .. k : j \in 1 .. k - 1 \/ j = k
    BY <1>3
  <2>2. QED
    BY <1>2, <1>7, <1>8, <2>1 DEF Found
<1>10. \A j \in 1 .. k : TextAt(ws, j) + Len(ws[j].text) < str + 1
  <2>1. SUFFICES ASSUME NEW j \in 1 .. k PROVE TextAt(ws, j) + Len(ws[j].text) < str + 1
    OBVIOUS
  <2>2. CASE j = k
    BY <1>6, <2>2
  <2>3. CASE j # k
    <3>1. j \in 1 .. k - 1 /\ j \in 1 .. Len(ws)
      BY <1>3, <2>3
    <3>2. TextAt(ws, j) \in Nat /\ Len(ws[j].text) \in Nat
      BY <3>1, WordCells DEF WordAt
    <3>3. TextAt(ws, j) + Len(ws[j].text) < Begin(ws, k)
      BY <1>3, <3>1
    <3> DEFINE u == TextAt(ws, j) + Len(ws[j].text)
    <3>4. u \in Nat /\ u < b /\ b \in Nat /\ b <= str
      BY <1>52, <1>54, <3>2, <3>3
    <3> HIDE DEF u, b
    <3>5. u < str + 1
      BY <1>1, <3>4
    <3>6. QED
      BY <3>5 DEF u
  <2>4. QED
    BY <2>2, <2>3
<1>11. QED
  BY <1>2, <1>3, <1>9, <1>10

LEMMA CharWords ==
    ASSUME IInv, ScanChar, NEW ws \in WordLists, Written(ws) = line, Reading(ws)
    PROVE  Reading(ws)'
<1> DEFINE k == Len(args) + 1
<1>1. shell_buffer[str] \in Letters
  BY DEF ScanChar
<1>2. shell_buffer[str] \notin {Blank, Quote, Nul}
  BY <1>1, Constants, CommandLineAssumption DEF Chars
<1>3. /\ InWord(ws, k) /\ ~ws[k].quoted /\ str < After(ws, k)
      /\ k \in 1 .. Len(ws) /\ str \in Nat /\ start \in Nat
  BY <1>2, AtStr
<1>4. After(ws, k) \in Nat
  <2> HIDE DEF k
  <2>1. QED
    BY <1>3, WordCells DEF WordAt
<1>5. UNCHANGED <<shell_buffer, start, args, line>> /\ str' = str + 1
  BY DEF ScanChar
<1>6. InWord(ws, k)'
  BY <1>3, <1>4, <1>5 DEF InWord, Unread
<1>7. QED
  BY <1>5, <1>6 DEF Reading, Found, Cut

LEMMA BlankWords ==
    ASSUME IInv, ScanBlank, NEW ws \in WordLists, Written(ws) = line, Reading(ws)
    PROVE  Reading(ws)'
<1>0. PICK k : k = Len(args) + 1
  OBVIOUS
<1>1. shell_buffer[str] = Blank
  BY DEF ScanBlank
<1>2. shell_buffer[str] \notin Letters \cup {Quote, Nul}
  BY <1>1, Constants, CommandLineAssumption DEF Chars
<1>3. /\ (InWord(ws, k) /\ ~ws[k].quoted) \/ BehindWord(ws, k)
      /\ str = After(ws, k) /\ k < Len(ws)
      /\ k \in 1 .. Len(ws) /\ str \in Nat /\ start \in Nat
  BY <1>0, <1>2, AtStr
<1>4. /\ shell_buffer' = [shell_buffer EXCEPT ![str] = Nul] /\ args' = Append(args, start)
      /\ start' = str + 1 /\ str' = str + 1 /\ line' = line
  BY DEF ScanBlank, AfterBlank
<1>5. /\ Found(ws, k)' /\ Len(args') = k
      /\ \A j \in 1 .. k : TextAt(ws, j) + Len(ws[j].text) < str + 1
  BY <1>0, <1>3, <1>4, WordEnds
<1>6. Len(ws) \in Nat /\ k + 1 \in 1 .. Len(ws) /\ (k + 1) - 1 = k
  BY <1>3, Words
<1>7. Begin(ws, k + 1) = str + 1 /\ After(ws, k) < Len(line)
  BY <1>3, <1>6, WordCells DEF WordAt
<1>8. After(ws, k + 1) \in Nat /\ After(ws, k + 1) >= str + 1
  <2>1. /\ Begin(ws, k + 1) \in Nat /\ After(ws, k + 1) \in Nat /\ ws[k + 1].quoted \in BOOLEAN
        /\ Len(ws[k + 1].text) \in Nat
        /\ ~ws[k + 1].quoted => /\ TextAt(ws, k + 1) = Begin(ws, k + 1)
                                /\ After(ws, k + 1) = TextAt(ws, k + 1) + Len(ws[k + 1].text)
        /\ ws[k + 1].quoted => /\ TextAt(ws, k + 1) = Begin(ws, k + 1) + 1
                               /\ After(ws, k + 1) = TextAt(ws, k + 1) + Len(ws[k + 1].text) + 1
    BY <1>6, WordCells, Words DEF WordAt
  <2>2. QED
    BY <1>7, <2>1
<1>9. /\ Unread(str) /\ Len(line) \in Nat /\ Len(line) < BufferSize /\ BufferSize \in Nat
      /\ shell_buffer[Len(line)] = Nul /\ shell_buffer \in [Cells -> Chars \cup {Nul}]
  <2>1. (Unread(start) /\ start <= str) \/ Unread(str)
    BY <1>3 DEF InWord, BehindWord
  <2>2. QED
    BY <1>3, <2>1, LineFits DEF Unread, Reading, IInv, TypeOK
<1>10. shell_buffer'[Len(line)] = Nul
  BY <1>3, <1>4, <1>9 DEF Cells
<1>11. \A c \in str + 1 .. Len(line) - 1 : shell_buffer'[c] = line[c + 1]
  <2>1. SUFFICES ASSUME NEW c \in str + 1 .. Len(line) - 1
                 PROVE  shell_buffer'[c] = line[c + 1]
    OBVIOUS
  <2>2. c \in Cells /\ c # str /\ c \in str .. Len(line) - 1
    BY <1>3, <1>9 DEF Cells
  <2>3. QED
    BY <1>4, <1>9, <2>2 DEF Unread
<1>12. InWord(ws, k + 1)'
  <2>1. start' = Begin(ws, k + 1) /\ str' \in start' .. After(ws, k + 1) /\ str' = start'
    BY <1>3, <1>4, <1>7, <1>8
  <2>2. QED
    BY <1>4, <1>11, <2>1 DEF InWord, Unread
<1>13. Reading(ws)'
  BY <1>4, <1>5, <1>6, <1>7, <1>10, <1>12 DEF Reading
<1>14. QED
  BY <1>13

LEMMA QuoteWords ==
    ASSUME IInv, ScanQuote, NEW ws \in WordLists, Written(ws) = line, Reading(ws)
    PROVE  Reading(ws)'
<1>0. PICK k : k = Len(args) + 1
  OBVIOUS
<1>1. shell_buffer[str] = Quote
  BY DEF ScanQuote
<1>2. shell_buffer[str] \notin Letters \cup {Blank, Nul}
  BY <1>1, Constants, CommandLineAssumption DEF Chars
<1>3. /\ InWord(ws, k) /\ ws[k].quoted /\ str = start
      /\ k \in 1 .. Len(ws) /\ str \in Nat /\ start \in Nat
  BY <1>0, <1>2, AtStr
<1> DEFINE t == ws[k].text
<1>4. /\ Begin(ws, k) \in Nat /\ TextAt(ws, k) \in Nat /\ After(ws, k) \in Nat /\ Len(t) \in Nat
      /\ After(ws, k) <= Len(line)
      /\ \A i \in 1 .. Len(t) : line[TextAt(ws, k) + i] = t[i]
      /\ TextAt(ws, k) = Begin(ws, k) + 1 /\ After(ws, k) = TextAt(ws, k) + Len(t) + 1
      /\ line[After(ws, k)] = Quote
      /\ \A i \in 1 .. Len(t) : t[i] \in Letters \cup {Blank}
  <2>1. WordAt(ws, k, line)
    BY <1>3, WordCells
  <2>2. QED
    BY <1>3, <2>1 DEF WordAt
<1>5. str = Begin(ws, k) /\ Unread(str)
  BY <1>3 DEF InWord
<1>6. /\ Len(line) \in Nat /\ Len(line) < BufferSize /\ BufferSize \in Nat
      /\ shell_buffer[Len(line)] = Nul /\ shell_buffer \in [Cells -> Chars \cup {Nul}]
  BY LineFits DEF Reading, IInv, TypeOK
<1> DEFINE close == StopsAt(CloseAt, str + 1)
           e == TextAt(ws, k) + Len(t)
<1>7. \A i \in 1 .. Len(t) : shell_buffer[TextAt(ws, k) + i - 1] = t[i]
  <2>1. SUFFICES ASSUME NEW i \in 1 .. Len(t)
                 PROVE  shell_buffer[TextAt(ws, k) + i - 1] = t[i]
    OBVIOUS
  <2> HIDE DEF t
  <2> DEFINE a == TextAt(ws, k)
             l == Len(t)
  <2>20. a = str + 1 /\ a + l + 1 <= Len(line)
    <3>1. a = str + 1
      BY <1>4, <1>5
    <3>2. a + l + 1 = After(ws, k) /\ After(ws, k) <= Len(line)
      BY <1>4
    <3>3. QED
      BY <3>1, <3>2
  <2>21. a \in Nat /\ l \in Nat /\ i \in 1 .. l /\ Len(line) \in Nat /\ str \in Int
    <3>1. str \in Int
      BY DEF IInv, TypeOK, Cells
    <3>2. QED
      BY <1>4, <1>6, <3>1
  <2>22. a + i - 1 \in str .. Len(line) - 1 /\ (a + i - 1) + 1 = a + i
    <3> HIDE DEF a, l
    <3>1. QED
      BY <2>20, <2>21
  <2>2. TextAt(ws, k) + i - 1 \in str .. Len(line) - 1
        /\ (TextAt(ws, k) + i - 1) + 1 = TextAt(ws, k) + i
    BY <2>22
  <2>3. shell_buffer[TextAt(ws, k) + i - 1] = line[(TextAt(ws, k) + i - 1) + 1]
    BY <1>5, <2>2 DEF Unread
  <2>4. QED
    BY <1>4, <2>2, <2>3
<1>8. shell_buffer[e] = Quote
  <2> HIDE DEF t
  <2>1. e \in str .. Len(line) - 1 /\ e + 1 = After(ws, k)
    BY <1>4, <1>5, <1>6
  <2>2. QED
    BY <1>4, <1>5, <2>1 DEF Unread
<1>9. close = e
  <2> HIDE DEF t
  <2>1. /\ str + 1 \in Nat /\ e \in Nat /\ str + 1 <= e /\ e < BufferSize
        /\ shell_buffer[e] \in CloseAt
    <3>1. e = str + 1 + Len(t) /\ After(ws, k) = e + 1
      BY <1>4, <1>5
    <3>2. str + 1 \in Nat /\ e \in Nat /\ str + 1 <= e
      <4>1. TextAt(ws, k) \in Nat /\ Len(t) \in Nat /\ str + 1 = TextAt(ws, k)
        BY <1>4, <1>5
      <4>2. e \in Nat /\ TextAt(ws, k) <= e
        BY <4>1
      <4>3. QED
        BY <4>1, <4>2
    <3>3. e < BufferSize
      BY <1>4, <1>6, <3>1, <3>2
    <3>4. QED
      BY <1>8, <3>2, <3>3 DEF CloseAt
  <2> HIDE DEF e, close
  <2>2. close \in str + 1 .. e /\ shell_buffer[close] \in CloseAt
    BY <2>1, StopsBefore DEF close
  <2>3. ASSUME close # e PROVE FALSE
    <3>1. close - TextAt(ws, k) + 1 \in 1 .. Len(t)
          /\ TextAt(ws, k) + (close - TextAt(ws, k) + 1) - 1 = close
      <4> DEFINE a == TextAt(ws, k)
                 l == Len(t)
      <4>1. a \in Nat /\ l \in Nat /\ str + 1 = a /\ e = a + l
        BY <1>3, <1>4, <1>5 DEF e
      <4> HIDE DEF a, l
      <4>2. close - a + 1 \in 1 .. l /\ a + (close - a + 1) - 1 = close
        BY <2>2, <2>3, <4>1
      <4>3. QED
        BY <4>2 DEF a, l
    <3>2. shell_buffer[close] = t[close - TextAt(ws, k) + 1]
      BY <1>7, <3>1
    <3>3. shell_buffer[close] \in Letters \cup {Blank}
      BY <1>4, <3>1, <3>2
    <3>4. QED
      BY <2>2, <3>3, Constants, CommandLineAssumption DEF CloseAt, Chars
  <2>4. QED
    BY <2>3
<1>10. /\ start' = str + 1 /\ str' = e + 1 /\ UNCHANGED <<args, line>>
       /\ shell_buffer' = [c \in Cells |-> IF c = e THEN Nul ELSE shell_buffer[c]]
  BY <1>9 DEF ScanQuote
<1> HIDE DEF close
<1>11. e \in Nat /\ e < Len(line) /\ e + 1 = After(ws, k) /\ str < e
  BY <1>3, <1>4, <1>5, <1>6
<1>12. Cut(ws, k)'
  <2>1. shell_buffer'[e] = Nul
    BY <1>6, <1>10, <1>11 DEF Cells
  <2>2. ASSUME NEW i \in 1 .. Len(t) PROVE shell_buffer'[TextAt(ws, k) + i - 1] = t[i]
    <3>1. TextAt(ws, k) + i - 1 \in Cells /\ TextAt(ws, k) + i - 1 # e
      <4> DEFINE a == TextAt(ws, k)
                 l == Len(t)
      <4>1. a \in Nat /\ l \in Nat /\ e = a + l /\ e < BufferSize /\ i \in 1 .. l
        <5>1. e < Len(line) /\ Len(line) < BufferSize /\ e \in Nat /\ Len(line) \in Nat
          BY <1>6, <1>11
        <5> HIDE DEF e
        <5>2. e < BufferSize
          BY <1>6, <5>1
        <5>3. QED
          BY <1>4, <5>2 DEF e
      <4> HIDE DEF a, l, e
      <4>2. a + i - 1 \in 0 .. BufferSize - 1 /\ a + i - 1 # e
        BY <1>6, <4>1
      <4>3. QED
        BY <4>2 DEF a, Cells
    <3>2. QED
      BY <1>7, <1>10, <3>1
  <2>3. QED
    BY <2>1, <2>2 DEF Cut
<1> HIDE DEF e, t
<1>13. Unread(e + 1)' /\ shell_buffer'[Len(line)] = Nul
  <2>1. ASSUME NEW c \in e + 1 .. Len(line) - 1 PROVE shell_buffer'[c] = line[c + 1]
    <3>1. c \in Cells /\ c # e /\ c \in str .. Len(line) - 1
      BY <1>3, <1>6, <1>11 DEF Cells
    <3>2. QED
      BY <1>5, <1>10, <3>1 DEF Unread
  <2>2. Len(line) \in Cells /\ Len(line) # e
    BY <1>6, <1>11 DEF Cells
  <2>3. QED
    BY <1>6, <1>10, <2>1, <2>2 DEF Unread
<1>14. BehindWord(ws, k)'
  BY <1>3, <1>4, <1>5, <1>10, <1>11, <1>12, <1>13 DEF BehindWord
<1>15. Found(ws, k - 1)' /\ \A j \in 1 .. k - 1 : TextAt(ws, j) + Len(ws[j].text) < Begin(ws, k)
  <2>1. Found(ws, k - 1) /\ \A j \in 1 .. k - 1 : TextAt(ws, j) + Len(ws[j].text) < Begin(ws, k)
    BY <1>0 DEF Reading
  <2>2. \A c \in 0 .. Begin(ws, k) - 1 : c \in Cells => shell_buffer'[c] = shell_buffer[c]
    BY <1>3, <1>5, <1>10, <1>11
  <2>3. Begin(ws, k) < BufferSize /\ k \in 1 .. Len(ws) + 1
    BY <1>3, <1>5, <1>6, <1>11, Words
  <2>4. QED
    BY <1>4, <1>10, <2>1, <2>2, <2>3, FoundKept
<1>16. QED
  BY <1>0, <1>3, <1>10, <1>13, <1>14, <1>15 DEF Reading

LEMMA EndWords ==
    ASSUME IInv, ScanEnd, NEW ws \in WordLists, Written(ws) = line, Reading(ws)
    PROVE  Len(args') = Len(ws) /\ Found(ws, Len(ws))'
<1>0. PICK k : k = Len(args) + 1
  OBVIOUS
<1>1. shell_buffer[str] = Nul
  BY DEF ScanEnd
<1>2. shell_buffer[str] \notin Letters \cup {Quote, Blank}
  BY <1>1, Constants DEF Chars
<1>3. /\ (InWord(ws, k) /\ ~ws[k].quoted) \/ BehindWord(ws, k)
      /\ str = After(ws, k) /\ k = Len(ws)
  BY <1>0, <1>2, AtStr
<1>4. args' = Append(args, start) /\ shell_buffer' = [shell_buffer EXCEPT ![str] = Nul]
  BY <1>1 DEF ScanEnd, IInv, TypeOK
<1>5. Found(ws, k)' /\ Len(args') = k
  BY <1>0, <1>3, <1>4, WordEnds
<1>6. QED
  BY <1>3, <1>5

LEMMA WordStep == Inv /\ [Next]_vars => Inv'
<1> SUFFICES ASSUME Inv, [Next]_vars PROVE Inv'
  OBVIOUS
<1>0. IInv /\ WordInv /\ IInv'
  BY StepInvariant DEF Inv
<1>1. ASSUME NEW l \in Lines, Type(l) PROVE WordInv'
  BY <1>1, TypeWords
<1>2. ASSUME ScanChar PROVE WordInv'
  <2>1. pc = "scan" /\ pc' = "scan" /\ line' = line
    BY <1>2 DEF ScanChar
  <2>2. \A ws \in WordLists : Written(ws) = line => Reading(ws)
    BY <1>0, <2>1 DEF WordInv
  <2>3. QED
    BY <1>0, <1>2, <2>1, <2>2, CharWords DEF WordInv
<1>3. ASSUME ScanBlank PROVE WordInv'
  <2>1. pc = "scan" /\ pc' = "scan" /\ line' = line
    BY <1>3 DEF ScanBlank
  <2>2. \A ws \in WordLists : Written(ws) = line => Reading(ws)
    BY <1>0, <2>1 DEF WordInv
  <2>3. QED
    BY <1>0, <1>3, <2>1, <2>2, BlankWords DEF WordInv
<1>4. ASSUME ScanQuote PROVE WordInv'
  <2>1. pc = "scan" /\ pc' = "scan" /\ line' = line
    BY <1>4 DEF ScanQuote
  <2>2. \A ws \in WordLists : Written(ws) = line => Reading(ws)
    BY <1>0, <2>1 DEF WordInv
  <2>3. QED
    BY <1>0, <1>4, <2>1, <2>2, QuoteWords DEF WordInv
<1>5. ASSUME ScanEnd PROVE WordInv'
  <2>1. pc = "scan" /\ pc' = "dispatch" /\ line' = line
    BY <1>5 DEF ScanEnd
  <2>2. \A ws \in WordLists : Written(ws) = line => Reading(ws)
    BY <1>0, <2>1 DEF WordInv
  <2>3. QED
    BY <1>0, <1>5, <2>1, <2>2, EndWords DEF WordInv
<1>6. ASSUME ScanPastArgs PROVE WordInv'
  BY <1>6 DEF ScanPastArgs, WordInv
<1>7. ASSUME Dispatch PROVE WordInv'
  BY <1>7 DEF Dispatch, WordInv
<1>8. ASSUME UNCHANGED vars PROVE WordInv'
  BY <1>0, <1>8 DEF vars, WordInv, Reading, Found, Cut, InWord, BehindWord, Unread
<1>9. WordInv'
  BY <1>1, <1>2, <1>3, <1>4, <1>5, <1>6, <1>7, <1>8 DEF Next
<1>10. QED
  BY <1>0, <1>9 DEF Inv

LEMMA WordInit == Init => Inv
<1> SUFFICES ASSUME Init PROVE Inv
  OBVIOUS
<1>1. WordInv
  BY DEF Init, WordInv
<1>2. QED
  BY <1>1, InitInvariant DEF Inv

\* The string that starts where a text does is the text, if a zero is behind it.
LEMMA CutIsText ==
    ASSUME IInv, NEW ws \in WordLists, Written(ws) = line, NEW k \in 1 .. Len(ws), Cut(ws, k)
    PROVE  CString(TextAt(ws, k)) = ws[k].text
<1> DEFINE t == ws[k].text
           a == TextAt(ws, k)
           e == a + Len(t)
<1>1. /\ a \in Nat /\ Len(t) \in Nat /\ After(ws, k) \in Nat /\ Begin(ws, k) \in Nat
      /\ After(ws, k) <= Len(line)
      /\ ~ws[k].quoted => After(ws, k) = a + Len(t)
      /\ ws[k].quoted => After(ws, k) = a + Len(t) + 1
      /\ \A i \in 1 .. Len(t) : t[i] \in Letters \cup {Blank}
  <2>1. WordAt(ws, k, line)
    BY WordCells
  <2>2. QED
    BY <2>1 DEF WordAt
<1>2. t = [i \in 1 .. Len(t) |-> t[i]] /\ ws[k].quoted \in BOOLEAN
  <2>1. k \in DOMAIN ws
    BY Words
  <2>2. t \in Seq(Letters \cup {Blank}) /\ ws[k].quoted \in BOOLEAN
    BY <2>1, Words
  <2> HIDE DEF t
  <2>3. QED
    BY <2>2, LenProperties
<1>3. shell_buffer[e] = Nul /\ \A i \in 1 .. Len(t) : shell_buffer[a + i - 1] = t[i]
  BY DEF Cut
<1>4. Len(line) \in Nat /\ Len(line) < BufferSize /\ BufferSize \in Nat
  BY LineFits
<1> HIDE DEF t, a
<1>5. e \in Nat /\ a <= e /\ e < BufferSize
  BY <1>1, <1>2, <1>4
<1>6. StopsAt({Nul}, a) = e
  <2> DEFINE stop == StopsAt({Nul}, a)
  <2>1. stop \in a .. e /\ shell_buffer[stop] = Nul
    BY <1>1, <1>3, <1>5, StopsBefore
  <2> HIDE DEF stop
  <2>2. ASSUME stop # e PROVE FALSE
    <3>1. stop - a + 1 \in 1 .. Len(t) /\ a + (stop - a + 1) - 1 = stop
      BY <1>1, <1>5, <2>1, <2>2
    <3>2. shell_buffer[stop] = t[stop - a + 1]
      BY <1>3, <3>1
    <3>3. shell_buffer[stop] \in Letters \cup {Blank}
      BY <1>1, <3>1, <3>2
    <3>4. QED
      BY <2>1, <3>3, Constants DEF Chars
  <2>3. QED
    BY <2>2 DEF stop
<1>7. e - a = Len(t)
  BY <1>1
<1>8. CString(a) = [c \in 1 .. Len(t) |-> shell_buffer[a + c - 1]]
  BY <1>6, <1>7 DEF CString
<1>9. QED
  BY <1>2, <1>3, <1>8 DEF t, a

LEMMA WordsFound == Inv => WordsAreArgs
<1> SUFFICES ASSUME Inv, pc = "dispatch", NEW ws \in WordLists, Written(ws) = line
             PROVE  Len(args) = Len(ws) /\ \A k \in 1 .. Len(ws) : CString(args[k]) = ws[k].text
  BY DEF WordsAreArgs
<1>1. Len(args) = Len(ws) /\ Found(ws, Len(ws)) /\ IInv
  BY DEF Inv, WordInv
<1>2. \A k \in 1 .. Len(ws) : args[k] = TextAt(ws, k) /\ Cut(ws, k)
  BY <1>1 DEF Found
<1>3. QED
  BY <1>1, <1>2, CutIsText

\* For a buffer and an args of any size, and whatever earlier lines left behind the zero:
\* a line of words, quoted ones with blanks in them too, becomes those words, unless it
\* has more than args can hold (shell.c 121-142).
THEOREM LineBecomesWords == Spec => []WordsAreArgs
<1> QED
  BY WordInit, WordStep, WordsFound, PTL DEF Spec

\* The commands' words, of which strcmp compares the lengths and the sums of the bytes,
\* differ in one of them ("read", "list", "newf", ...: shell.c 152-158).
CommandsDiffer == \A c, d \in Commands : Equal(c, d) => c = d

\* The command that is typed is the one that runs, if no two commands are equal to
\* strcmp, whatever its arguments (shell.c 152-159, string.c 25-38).
THEOREM TypedCommandRuns == ASSUME CommandsDiffer PROVE Spec => []CommandRuns
<1>1. WordsAreArgs => CommandRuns
  <2> SUFFICES ASSUME WordsAreArgs, pc = "dispatch", NEW ws \in WordLists,
                      Written(ws) = line, ws[1].text \in Commands
               PROVE  Chosen = ws[1].text
    BY DEF CommandRuns
  <2>1. CString(args[1]) = ws[1].text
    BY Words DEF WordsAreArgs
  <2> DEFINE fits == {c \in Commands : Equal(ws[1].text, c)}
  <2>2. ws[1].text \in fits
    BY DEF Equal
  <2>3. \A c \in fits : c = ws[1].text
    BY DEF CommandsDiffer
  <2>4. Chosen = IF fits = {} THEN <<>> ELSE CHOOSE c \in fits : TRUE
    BY <2>1 DEF Chosen
  <2> HIDE DEF fits
  <2>5. QED
    BY <2>2, <2>3, <2>4
<1>2. QED
  BY <1>1, LineBecomesWords, PTL

-----------------------------------------------------------------------------
\* What follows is about Listing.
LEMMA ListingSizes ==
    /\ BaseLength \in Nat /\ ExtLength \in Nat /\ LineSize \in Nat /\ SectorSize \in Nat
    /\ Base \in Nat /\ Size \in Nat /\ AtBoot \in Nat /\ AtBoot <= Size
    /\ LineSize = BaseLength + ExtLength + 1 /\ SectorSize + LineSize < Base
    /\ Limit \in Nat /\ Limit = Base + Size
    /\ Top \in Nat /\ Top = Base + Limit + SectorSize + LineSize
<1>1. {BaseLength, ExtLength, SectorSize, Base, Size, AtBoot} \subseteq Nat
  BY ListingAssumption
<1>2. AtBoot <= Size /\ LineSize = BaseLength + ExtLength + 1 /\ SectorSize + LineSize < Base
  BY ListingAssumption
<1>3. LineSize \in Nat
  BY <1>1, <1>2
<1>4. Limit \in Nat /\ Limit = Base + Size
  BY <1>1 DEF Limit
<1>5. Top \in Nat /\ Top = Base + Limit + SectorSize + LineSize
  BY <1>1, <1>3, <1>4 DEF Top
<1>6. QED
  BY <1>1, <1>2, <1>3, <1>4, <1>5

LEMMA CharFacts ==
    /\ \A c \in Char :
           /\ c \in Nat /\ c # 0
           /\ toupper(c) \in Char /\ tolower(c) \in Char
           /\ toupper(c) = Space <=> c = Space
           /\ tolower(c) = Space <=> c = Space
           /\ tolower(c) = Dot <=> c = Dot
           /\ tolower(toupper(c)) = tolower(c)
           /\ toupper(tolower(toupper(c))) = toupper(c)
    /\ \A c, d \in Char : tolower(c) = tolower(d) => toupper(c) = toupper(d)
    /\ Space \in Char /\ Dot \in Char /\ Space # Dot
    /\ toupper(Space) = Space /\ tolower(Space) = Space /\ tolower(Dot) = Dot
<1>1. ASSUME NEW c \in Char
      PROVE  /\ c \in Nat /\ c # 0
             /\ toupper(c) \in Char /\ tolower(c) \in Char
             /\ toupper(c) = Space <=> c = Space
             /\ tolower(c) = Space <=> c = Space
             /\ tolower(c) = Dot <=> c = Dot
  BY DEF Char, toupper, tolower, Space, Dot
<1>2. ASSUME NEW c \in Char PROVE tolower(toupper(c)) = tolower(c)
  BY DEF Char, toupper, tolower
<1>3. ASSUME NEW c \in Char PROVE toupper(tolower(toupper(c))) = toupper(c)
  BY DEF Char, toupper, tolower
<1>4. ASSUME NEW c \in Char, NEW d \in Char, tolower(c) = tolower(d)
      PROVE  toupper(c) = toupper(d)
  BY <1>4 DEF Char, toupper, tolower
<1>5. /\ Space \in Char /\ Dot \in Char /\ Space # Dot
      /\ toupper(Space) = Space /\ tolower(Space) = Space /\ tolower(Dot) = Dot
  BY DEF Char, toupper, tolower, Space, Dot
<1>6. QED
  BY <1>1, <1>2, <1>3, <1>4, <1>5

-----------------------------------------------------------------------------
\* Strings in memory: where the one at an address ends.
EndOf(mem, a) == CHOOSE b \in a .. Top : mem[b] = 0 /\ \A c \in a .. b - 1 : mem[c] # 0

LEMMA StringIs ==
    ASSUME NEW mem, mem[Top] = 0, NEW a \in 0 .. Top
    PROVE  /\ EndOf(mem, a) \in a .. Top /\ mem[EndOf(mem, a)] = 0
           /\ \A c \in a .. EndOf(mem, a) - 1 : mem[c] # 0
           /\ \A b \in a .. Top :
                  mem[b] = 0 /\ (\A c \in a .. b - 1 : mem[c] # 0) => b = EndOf(mem, a)
           /\ StringAt(mem, a) \in Seq({mem[b] : b \in 0 .. Top})
           /\ Len(StringAt(mem, a)) = EndOf(mem, a) - a
           /\ \A j \in 1 .. EndOf(mem, a) - a : StringAt(mem, a)[j] = mem[a + j - 1]
<1> DEFINE Ends(b) == mem[b] = 0 /\ \A c \in a .. b - 1 : mem[c] # 0
           e == EndOf(mem, a)
           bytes == [i \in 1 .. Top |-> mem[i - 1]]
           B == {mem[c] : c \in 0 .. Top}
<1>1. Top \in Nat /\ a \in Nat /\ a <= Top
  BY ListingSizes
<1>2. PICK b \in a .. Top : mem[b] = 0 /\ \A c \in a .. Top : mem[c] = 0 => b <= c
  <2> DEFINE S == {c \in a .. Top : mem[c] = 0}
  <2>1. S \in SUBSET Nat /\ Top \in S
    BY <1>1
  <2> HIDE DEF S
  <2>2. PICK b \in S : \A c \in S : b <= c
    BY <2>1, LeastExists
  <2>3. QED
    BY <2>2 DEF S
<1>3. Ends(b)
  BY <1>1, <1>2
<1>4. e \in a .. Top /\ Ends(e)
  <2> HIDE DEF Ends
  <2>1. e = CHOOSE c \in a .. Top : Ends(c)
    BY DEF EndOf, Ends
  <2>2. QED
    BY <1>2, <1>3, <2>1
<1> HIDE DEF e
<1>5. ASSUME NEW c \in a .. Top, Ends(c) PROVE c = e
  BY <1>1, <1>4, <1>5
<1>6. \A i \in a + 1 .. e : bytes[i] \in B /\ bytes[i] = mem[i - 1]
  BY <1>1, <1>4
<1>7. StringAt(mem, a) = SubSeq(bytes, a + 1, e)
  BY DEF StringAt, e, EndOf
<1> HIDE DEF bytes, B
<1>8. /\ StringAt(mem, a) \in Seq(B)
      /\ Len(StringAt(mem, a)) = IF a + 1 <= e THEN e - (a + 1) + 1 ELSE 0
      /\ \A j \in 1 .. e - (a + 1) + 1 : StringAt(mem, a)[j] = bytes[a + 1 + j - 1]
  <2>1. a + 1 \in Int /\ e \in Int /\ \A i \in a + 1 .. e : bytes[i] \in B
    BY <1>1, <1>4, <1>6
  <2>2. QED
    BY <1>7, <2>1, SubSeqProperties
<1>9. Len(StringAt(mem, a)) = e - a /\ \A j \in 1 .. e - a : StringAt(mem, a)[j] = mem[a + j - 1]
  <2>1. \A j \in 1 .. e - a : j \in 1 .. e - (a + 1) + 1 /\ a + 1 + j - 1 = a + j /\ a + j \in a + 1 .. e
    BY <1>1, <1>4
  <2>2. QED
    BY <1>1, <1>4, <1>6, <1>8, <2>1
<1>10. QED
  BY <1>4, <1>5, <1>8, <1>9 DEF e, B

\* A string is followed by the one that begins where its characters end.
LEMMA StringGoesOn ==
    ASSUME NEW mem, mem[Top] = 0, NEW a \in Nat, NEW s \in Seq(Char), a + Len(s) <= Top,
           \A j \in 1 .. Len(s) : mem[a + j - 1] = s[j]
    PROVE  /\ StringAt(mem, a) = s \o StringAt(mem, a + Len(s))
           /\ StringAt(mem, a + Len(s)) \in Seq({mem[b] : b \in 0 .. Top})
           /\ mem[a + Len(s)] = 0 => StringAt(mem, a + Len(s)) = <<>>
<1> DEFINE n == Len(s)
           e == EndOf(mem, a + n)
           B == {mem[b] : b \in 0 .. Top}
           t == StringAt(mem, a + n)
           u == StringAt(mem, a)
<1>1. Top \in Nat /\ n \in Nat /\ a + n \in 0 .. Top /\ a \in 0 .. Top
  BY ListingSizes
<1>2. /\ e \in a + n .. Top /\ mem[e] = 0 /\ t \in Seq(B) /\ Len(t) = e - (a + n)
      /\ \A c \in a + n .. e - 1 : mem[c] # 0
      /\ \A j \in 1 .. e - (a + n) : t[j] = mem[a + n + j - 1]
      /\ mem[a + n] = 0 => e = a + n
  <2> HIDE DEF n
  <2>1. /\ e \in a + n .. Top /\ mem[e] = 0 /\ t \in Seq(B) /\ Len(t) = e - (a + n)
        /\ \A c \in a + n .. e - 1 : mem[c] # 0
        /\ \A j \in 1 .. e - (a + n) : t[j] = mem[a + n + j - 1]
    BY <1>1, StringIs
  <2> HIDE DEF e, t, B
  <2>2. mem[a + n] = 0 => e = a + n
    BY <1>1, <2>1
  <2>3. QED
    BY <2>1, <2>2
<1>3. \A c \in a .. a + n - 1 : mem[c] # 0
  <2>1. TAKE c \in a .. a + n - 1
  <2>2. c - a + 1 \in 1 .. n /\ a + (c - a + 1) - 1 = c
    BY <1>1
  <2>3. s[c - a + 1] # 0
    <3>1. s[c - a + 1] \in Char
      BY <2>2, ElementOfSeq
    <3>2. QED
      BY <3>1, CharFacts
  <2>4. QED
    BY <2>2, <2>3
<1> HIDE DEF n, e, t
<1>4. e \in a .. Top /\ \A c \in a .. e - 1 : mem[c] # 0
  BY <1>1, <1>2, <1>3
<1>5. e = EndOf(mem, a)
  <2>1. \A b \in a .. Top : mem[b] = 0 /\ (\A c \in a .. b - 1 : mem[c] # 0) => b = EndOf(mem, a)
    BY <1>1, StringIs
  <2>2. QED
    BY <1>2, <1>4, <2>1
<1>6. u \in Seq(B) /\ Len(u) = e - a /\ \A j \in 1 .. e - a : u[j] = mem[a + j - 1]
  BY <1>1, <1>5, StringIs
<1> HIDE DEF u
<1>7. u = s \o t
  <2> DEFINE S == B \cup Char
  <2>1. u \in Seq(S) /\ s \in Seq(S) /\ t \in Seq(S)
    BY <1>2, <1>6, SeqMonotonic
  <2> HIDE DEF S, B
  <2>2. /\ s \o t \in Seq(S) /\ Len(s \o t) = n + Len(t)
        /\ \A i \in 1 .. n + Len(t) : (s \o t)[i] = IF i <= n THEN s[i] ELSE t[i - n]
    BY <2>1, ConcatProperties DEF n
  <2>3. Len(u) = Len(s \o t)
    BY <1>1, <1>2, <1>6, <2>2
  <2>4. ASSUME NEW i \in 1 .. Len(u) PROVE u[i] = (s \o t)[i]
    <3>1. u[i] = mem[a + i - 1] /\ i \in 1 .. n + Len(t)
      BY <1>6, <2>2, <2>3, <2>4
    <3>2. CASE i <= n
      BY <1>1, <2>2, <3>1, <3>2 DEF n
    <3>3. CASE i > n
      <4>1. i - n \in 1 .. e - (a + n) /\ a + n + (i - n) - 1 = a + i - 1
        BY <1>1, <1>2, <1>6, <2>4, <3>3
      <4>2. ~ (i <= n)
        BY <1>1, <2>4, <3>3
      <4>3. (s \o t)[i] = t[i - n]
        BY <2>2, <3>1, <4>2
      <4>4. t[i - n] = mem[a + i - 1]
        BY <1>2, <4>1
      <4>5. QED
        BY <3>1, <4>3, <4>4
    <3>4. i \in Int
      BY <2>4
    <3>5. i <= n \/ i > n
      BY <1>1, <3>4
    <3>6. QED
      BY <3>2, <3>3, <3>5
  <2>5. QED
    BY <2>1, <2>2, <2>3, <2>4, SeqEqual
<1>8. ASSUME mem[a + n] = 0 PROVE t = <<>>
  BY <1>1, <1>2, <1>8, EmptySeq
<1>9. QED
  BY <1>2, <1>7, <1>8 DEF n, t, u

LEMMA StringEnds ==
    ASSUME NEW mem, mem[Top] = 0, NEW a \in Nat, NEW s \in Seq(Char), a + Len(s) <= Top,
           \A j \in 1 .. Len(s) : mem[a + j - 1] = s[j], mem[a + Len(s)] = 0
    PROVE  StringAt(mem, a) = s
<1>1. StringAt(mem, a) = s \o <<>>
  BY StringGoesOn
<1>2. QED
  BY <1>1, ConcatEmptySeq

-----------------------------------------------------------------------------
\* The two conversions of names.
LEMMA FirstDotIs ==
    ASSUME NEW t \in Seq(Char), Dots(t) # {}
    PROVE  /\ FirstDot(t) \in 1 .. Len(t) /\ t[FirstDot(t)] = Dot
           /\ \A i \in 1 .. FirstDot(t) - 1 : t[i] # Dot
           /\ \A d \in 1 .. Len(t) : t[d] = Dot /\ (\A i \in 1 .. d - 1 : t[i] # Dot) => d = FirstDot(t)
<1>1. Len(t) \in Nat /\ DOMAIN t = 1 .. Len(t) /\ Dots(t) \in SUBSET Nat
  BY DEF Dots
<1>2. PICK m \in Dots(t) : \A n \in Dots(t) : m <= n
  BY <1>1, LeastExists
<1>3. FirstDot(t) \in Dots(t) /\ \A n \in Dots(t) : FirstDot(t) <= n
  BY <1>2 DEF FirstDot
<1>4. FirstDot(t) \in 1 .. Len(t) /\ t[FirstDot(t)] = Dot
  BY <1>1, <1>3 DEF Dots
<1>5. ASSUME NEW i \in 1 .. FirstDot(t) - 1 PROVE t[i] # Dot
  <2>1. i \in 1 .. Len(t) /\ ~ (FirstDot(t) <= i)
    BY <1>1, <1>4
  <2>2. QED
    BY <1>1, <1>3, <2>1 DEF Dots
<1>6. ASSUME NEW d \in 1 .. Len(t), t[d] = Dot, \A i \in 1 .. d - 1 : t[i] # Dot
      PROVE  d = FirstDot(t)
  <2>1. FirstDot(t) <= d
    BY <1>1, <1>3, <1>6 DEF Dots
  <2>2. ~ (FirstDot(t) < d)
    BY <1>4, <1>6
  <2>3. QED
    BY <1>4, <2>1, <2>2
<1>7. QED
  BY <1>4, <1>5, <1>6

\* The name on the disk: what is before the first dot and what follows it, cut to
\* size or filled up, in upper case.
LEMMA NameIs ==
    ASSUME NEW t \in Seq(Char), Dots(t) # {}
    PROVE  /\ FilenameTo83(t) \in Seq(Char) /\ Len(FilenameTo83(t)) = BaseLength + ExtLength
           /\ \A i \in 1 .. BaseLength :
                 FilenameTo83(t)[i] = IF i < FirstDot(t) THEN toupper(t[i]) ELSE Space
           /\ \A k \in 1 .. ExtLength :
                 FilenameTo83(t)[BaseLength + k] =
                     IF FirstDot(t) + k <= Len(t) THEN toupper(t[FirstDot(t) + k]) ELSE Space
<1> DEFINE d == FirstDot(t)
           stem == SubSeq(t, 1, d - 1)
           f == Field(stem, 0, BaseLength)
           g == Field(t, d, ExtLength)
<1>1. d \in 1 .. Len(t) /\ d \in Nat /\ Len(t) \in Nat /\ DOMAIN t = 1 .. Len(t)
  BY FirstDotIs
<1> HIDE DEF d
<1>2. /\ stem \in Seq(Char) /\ Len(stem) = d - 1 /\ DOMAIN stem = 1 .. d - 1
      /\ \A i \in 1 .. d - 1 : stem[i] = t[i]
  <2>1. \A i \in 1 .. d - 1 : t[i] \in Char
    BY <1>1, ElementOfSeq
  <2>2. /\ stem \in Seq(Char) /\ Len(stem) = IF 1 <= d - 1 THEN (d - 1) - 1 + 1 ELSE 0
        /\ \A i \in 1 .. (d - 1) - 1 + 1 : stem[i] = t[1 + i - 1]
    BY <1>1, <2>1, SubSeqProperties
  <2> HIDE DEF stem
  <2>3. Len(stem) = d - 1 /\ \A i \in 1 .. d - 1 : stem[i] = t[i]
    BY <1>1, <2>2
  <2>4. QED
    BY <2>2, <2>3
<1>3. /\ f \in Seq(Char) /\ Len(f) = BaseLength
      /\ \A i \in 1 .. BaseLength : f[i] = IF i < d THEN toupper(t[i]) ELSE Space
  <2> HIDE DEF stem
  <2>1. f = [i \in 1 .. BaseLength |-> IF 0 + i \in DOMAIN stem THEN toupper(stem[0 + i]) ELSE Space]
    BY DEF Field
  <2> HIDE DEF f
  <2>2. \A i \in 1 .. BaseLength : f[i] = IF i < d THEN toupper(t[i]) ELSE Space
    <3>1. TAKE i \in 1 .. BaseLength
    <3>2. f[i] = IF 0 + i \in DOMAIN stem THEN toupper(stem[0 + i]) ELSE Space
      BY <2>1
    <3>3. 0 + i = i /\ (i \in DOMAIN stem <=> i < d)
      BY <1>1, <1>2, ListingSizes
    <3>4. i < d => stem[i] = t[i]
      BY <1>2, <3>3
    <3>5. QED
      BY <3>2, <3>3, <3>4
  <2>3. \A i \in 1 .. BaseLength : f[i] \in Char
    <3>1. TAKE i \in 1 .. BaseLength
    <3>2. CASE i < d
      <4>1. i \in 1 .. Len(t)
        BY <1>1, <3>2, ListingSizes
      <4>2. t[i] \in Char
        BY <4>1, ElementOfSeq
      <4>3. QED
        BY <2>2, <3>2, <4>2, CharFacts
    <3>3. CASE ~ (i < d)
      BY <2>2, <3>3, CharFacts
    <3>4. QED
      BY <3>2, <3>3
  <2>4. f \in [1 .. BaseLength -> Char]
    BY <2>1, <2>3
  <2>5. QED
    BY <2>2, <2>4, ListingSizes
<1>4. /\ g \in Seq(Char) /\ Len(g) = ExtLength
      /\ \A k \in 1 .. ExtLength : g[k] = IF d + k <= Len(t) THEN toupper(t[d + k]) ELSE Space
  <2>1. g = [k \in 1 .. ExtLength |-> IF d + k \in DOMAIN t THEN toupper(t[d + k]) ELSE Space]
    BY DEF Field
  <2>2. \A k \in 1 .. ExtLength : g[k] = IF d + k <= Len(t) THEN toupper(t[d + k]) ELSE Space
    BY <1>1, <2>1, ListingSizes
  <2>3. \A k \in 1 .. ExtLength : g[k] \in Char
    <3>1. TAKE k \in 1 .. ExtLength
    <3>2. CASE d + k <= Len(t)
      <4>1. d + k \in 1 .. Len(t)
        BY <1>1, <3>2, ListingSizes
      <4>2. t[d + k] \in Char
        BY <4>1, ElementOfSeq
      <4>3. QED
        BY <2>2, <3>2, <4>2, CharFacts
    <3>3. CASE ~ (d + k <= Len(t))
      BY <2>2, <3>3, CharFacts
    <3>4. QED
      BY <3>2, <3>3
  <2>4. g \in [1 .. ExtLength -> Char]
    BY <2>1, <2>3
  <2>5. QED
    BY <2>2, <2>4, ListingSizes
<1>5. FilenameTo83(t) = f \o g
  BY DEF FilenameTo83, d
<1> HIDE DEF f, g
<1>6. /\ f \o g \in Seq(Char) /\ Len(f \o g) = BaseLength + ExtLength
      /\ \A i \in 1 .. BaseLength + ExtLength :
            (f \o g)[i] = IF i <= BaseLength THEN f[i] ELSE g[i - BaseLength]
  BY <1>3, <1>4, ConcatProperties
<1>7. \A i \in 1 .. BaseLength : (f \o g)[i] = f[i]
  BY <1>6, ListingSizes
<1>8. \A k \in 1 .. ExtLength : (f \o g)[BaseLength + k] = g[k]
  <2>1. TAKE k \in 1 .. ExtLength
  <2>2. BaseLength + k \in 1 .. BaseLength + ExtLength /\ ~ (BaseLength + k <= BaseLength)
        /\ BaseLength + k - BaseLength = k
    BY ListingSizes
  <2>3. PICK j \in 1 .. BaseLength + ExtLength : j = BaseLength + k
    BY <2>2
  <2>4. ~ (j <= BaseLength) /\ j - BaseLength = k
    BY <2>2, <2>3, ListingSizes
  <2>5. (f \o g)[j] = g[k]
    BY <1>6, <2>4
  <2>6. QED
    BY <2>3, <2>5
<1>9. \A i \in 1 .. BaseLength : (f \o g)[i] = IF i < d THEN toupper(t[i]) ELSE Space
  BY <1>3, <1>7
<1>10. \A k \in 1 .. ExtLength :
          (f \o g)[BaseLength + k] = IF d + k <= Len(t) THEN toupper(t[d + k]) ELSE Space
  BY <1>4, <1>8
<1>11. QED
  BY <1>5, <1>6, <1>9, <1>10 DEF d

\* The name that is listed: what is before the first space, a dot, and the extension,
\* in lower case.
LEMMA LineIs ==
    ASSUME NEW n \in Seq(Char), Len(n) = BaseLength + ExtLength
    PROVE  \E m \in 0 .. BaseLength :
              /\ \A i \in 1 .. m : n[i] # Space /\ ToFilename(n)[i] = tolower(n[i])
              /\ m < BaseLength => n[m + 1] = Space
              /\ ToFilename(n) \in Seq(Char) /\ Len(ToFilename(n)) = m + 1 + ExtLength
              /\ ToFilename(n)[m + 1] = Dot
              /\ \A k \in 1 .. ExtLength : ToFilename(n)[m + 1 + k] = tolower(n[BaseLength + k])
<1> DEFINE ext == SubSeq(n, BaseLength + 1, BaseLength + ExtLength)
           all == Stem(n) \o <<Dot>> \o ext
           l == ToFilename(n)
<1>1. BaseLength \in Nat /\ ExtLength \in Nat
  BY ListingSizes
<1>2. \A i \in 1 .. BaseLength + ExtLength : n[i] \in Char
  BY <1>1, ElementOfSeq
<1>3. \E m \in 0 .. BaseLength :
         /\ Stem(n) = SubSeq(n, 1, m) /\ \A i \in 1 .. m : n[i] # Space
         /\ m < BaseLength => n[m + 1] = Space
  <2>1. CASE Blanks(n) = {}
    <3>1. \A i \in 1 .. BaseLength : n[i] # Space
      BY <2>1 DEF Blanks
    <3>2. Stem(n) = SubSeq(n, 1, BaseLength)
      BY <2>1 DEF Stem
    <3>3. BaseLength \in 0 .. BaseLength /\ ~ (BaseLength < BaseLength)
      BY <1>1
    <3>4. QED
      BY <3>1, <3>2, <3>3
  <2>2. CASE Blanks(n) # {}
    <3> DEFINE p == CHOOSE i \in Blanks(n) : \A j \in Blanks(n) : i <= j
    <3>1. Blanks(n) \in SUBSET Nat
      BY <1>1 DEF Blanks
    <3>2. PICK q \in Blanks(n) : \A j \in Blanks(n) : q <= j
      BY <2>2, <3>1, LeastExists
    <3>3. p \in Blanks(n) /\ \A j \in Blanks(n) : p <= j
      BY <3>2
    <3>4. Stem(n) = SubSeq(n, 1, p - 1)
      BY <2>2 DEF Stem
    <3> HIDE DEF p
    <3>5. p \in 1 .. BaseLength /\ n[p] = Space
      BY <3>3 DEF Blanks
    <3>6. \A i \in 1 .. p - 1 : n[i] # Space
      <4>1. TAKE i \in 1 .. p - 1
      <4>2. i \in 1 .. BaseLength /\ ~ (p <= i)
        BY <1>1, <3>5
      <4>3. QED
        BY <3>3, <4>2 DEF Blanks
    <3>7. p - 1 \in 0 .. BaseLength /\ p - 1 + 1 = p
      BY <1>1, <3>5
    <3>8. QED
      BY <3>4, <3>5, <3>6, <3>7
  <2>3. QED
    BY <2>1, <2>2
<1>4. PICK m \in 0 .. BaseLength :
         /\ Stem(n) = SubSeq(n, 1, m) /\ \A i \in 1 .. m : n[i] # Space
         /\ m < BaseLength => n[m + 1] = Space
  BY <1>3
<1>5. /\ Stem(n) \in Seq(Char) /\ Len(Stem(n)) = m /\ m \in Nat
      /\ \A i \in 1 .. m : Stem(n)[i] = n[i]
  <2>1. m \in Nat /\ 1 \in Int /\ m \in Int /\ \A i \in 1 .. m : n[i] \in Char
    BY <1>1, <1>2
  <2>2. /\ Stem(n) \in Seq(Char) /\ Len(Stem(n)) = IF 1 <= m THEN m - 1 + 1 ELSE 0
        /\ \A i \in 1 .. m - 1 + 1 : Stem(n)[i] = n[1 + i - 1]
    BY <1>4, <2>1, SubSeqProperties
  <2>3. QED
    BY <2>1, <2>2
<1>6. /\ ext \in Seq(Char) /\ Len(ext) = ExtLength
      /\ \A k \in 1 .. ExtLength : ext[k] = n[BaseLength + k]
  <2> DEFINE u == BaseLength + 1
             v == BaseLength + ExtLength
  <2>1. u \in Int /\ v \in Int /\ \A i \in u .. v : n[i] \in Char
    BY <1>1, <1>2
  <2>2. /\ ext \in Seq(Char) /\ Len(ext) = IF u <= v THEN v - u + 1 ELSE 0
        /\ \A i \in 1 .. v - u + 1 : ext[i] = n[u + i - 1]
    <3>1. ext = SubSeq(n, u, v)
      OBVIOUS
    <3> HIDE DEF u, v, ext
    <3>2. QED
      BY <2>1, <3>1, SubSeqProperties
  <2> HIDE DEF ext
  <2>3. v - u + 1 = ExtLength
    BY <1>1
  <2>4. \A i \in 1 .. ExtLength : u + i - 1 = BaseLength + i
    BY <1>1
  <2>5. Len(ext) = ExtLength
    BY <1>1, <2>2
  <2>6. QED
    BY <2>2, <2>3, <2>4, <2>5
<1> HIDE DEF ext
<1>7. /\ all \in Seq(Char) /\ Len(all) = m + 1 + ExtLength
      /\ \A i \in 1 .. m : all[i] = n[i]
      /\ all[m + 1] = Dot
      /\ \A k \in 1 .. ExtLength : all[m + 1 + k] = n[BaseLength + k]
  <2> DEFINE s == Stem(n) \o <<Dot>>
  <2>1. <<Dot>> \in Seq(Char) /\ Len(<<Dot>>) = 1 /\ <<Dot>>[1] = Dot
    BY CharFacts
  <2>2. /\ s \in Seq(Char) /\ Len(s) = m + 1
        /\ \A i \in 1 .. m + 1 : s[i] = IF i <= m THEN Stem(n)[i] ELSE <<Dot>>[i - m]
    BY <1>5, <2>1, ConcatProperties
  <2> HIDE DEF s
  <2>3. /\ all \in Seq(Char) /\ Len(all) = m + 1 + ExtLength
        /\ \A i \in 1 .. m + 1 + ExtLength : all[i] = IF i <= m + 1 THEN s[i] ELSE ext[i - (m + 1)]
    <3>1. all = s \o ext
      BY DEF s
    <3> HIDE DEF all
    <3>2. QED
      BY <1>6, <2>2, <3>1, ConcatProperties
  <2> HIDE DEF all
  <2>4. \A i \in 1 .. m : all[i] = n[i]
    BY <1>1, <1>5, <2>2, <2>3
  <2>5. all[m + 1] = Dot
    <3>1. m + 1 \in 1 .. m + 1 + ExtLength /\ m + 1 <= m + 1 /\ ~ (m + 1 <= m) /\ m + 1 - m = 1
          /\ m + 1 \in 1 .. m + 1
      BY <1>1, <1>5
    <3>2. QED
      BY <2>1, <2>2, <2>3, <3>1
  <2>6. \A k \in 1 .. ExtLength : all[m + 1 + k] = n[BaseLength + k]
    <3>1. TAKE k \in 1 .. ExtLength
    <3>2. /\ m + 1 + k \in 1 .. m + 1 + ExtLength /\ ~ (m + 1 + k <= m + 1)
          /\ m + 1 + k - (m + 1) = k
      BY <1>1, <1>5
    <3>3. all[m + 1 + k] = ext[m + 1 + k - (m + 1)]
      BY <2>3, <3>2
    <3>4. QED
      BY <1>6, <3>2, <3>3
  <2>7. QED
    BY <2>3, <2>4, <2>5, <2>6
<1>8. /\ l = [i \in 1 .. Len(all) |-> tolower(all[i])]
      /\ l \in Seq(Char) /\ Len(l) = Len(all)
      /\ \A i \in 1 .. Len(all) : l[i] = tolower(all[i])
  <2>1. l = [i \in DOMAIN all |-> tolower(all[i])]
    BY DEF ToFilename, ext
  <2> HIDE DEF all, l
  <2>2. DOMAIN all = 1 .. Len(all) /\ Len(all) \in Nat /\ \A i \in 1 .. Len(all) : all[i] \in Char
    BY <1>7, ElementOfSeq
  <2>3. l \in [1 .. Len(all) -> Char] /\ \A i \in 1 .. Len(all) : l[i] = tolower(all[i])
    BY <2>1, <2>2, CharFacts
  <2>4. QED
    BY <2>1, <2>2, <2>3
<1> HIDE DEF all, l
<1>9. \A i \in 1 .. m : n[i] # Space /\ l[i] = tolower(n[i])
  BY <1>1, <1>4, <1>5, <1>7, <1>8
<1>10. l[m + 1] = Dot
  <2>1. m + 1 \in 1 .. Len(all)
    BY <1>1, <1>5, <1>7
  <2>2. QED
    BY <1>7, <1>8, <2>1, CharFacts
<1>11. \A k \in 1 .. ExtLength : l[m + 1 + k] = tolower(n[BaseLength + k])
  <2>1. TAKE k \in 1 .. ExtLength
  <2>2. m + 1 + k \in 1 .. Len(all)
    BY <1>1, <1>5, <1>7
  <2>3. QED
    BY <1>7, <1>8, <2>2
<1>12. QED
  BY <1>4, <1>7, <1>8, <1>9, <1>10, <1>11 DEF l

LEMMA FirstWordIs ==
    ASSUME NEW l \in Seq(Char)
    PROVE  \E w \in 0 .. Len(l) :
              /\ FirstWord(l) \in Seq(Char) /\ Len(FirstWord(l)) = w
              /\ \A i \in 1 .. w : FirstWord(l)[i] = l[i] /\ l[i] # Space
              /\ w < Len(l) => l[w + 1] = Space
<1> DEFINE blank == {j \in DOMAIN l : l[j] = Space}
           p == CHOOSE j \in blank : \A k \in blank : j <= k
<1>1. Len(l) \in Nat /\ DOMAIN l = 1 .. Len(l) /\ blank \in SUBSET Nat
      /\ \A i \in 1 .. Len(l) : l[i] \in Char
  BY ElementOfSeq
<1>2. FirstWord(l) = IF blank = {} THEN l ELSE SubSeq(l, 1, p - 1)
  BY DEF FirstWord
<1>3. CASE blank = {}
  <2>1. \A i \in 1 .. Len(l) : l[i] # Space
    BY <1>1, <1>3
  <2>2. FirstWord(l) = l /\ Len(l) \in 0 .. Len(l) /\ ~ (Len(l) < Len(l))
    BY <1>1, <1>2, <1>3
  <2>3. QED
    BY <2>1, <2>2
<1>4. CASE blank # {}
  <2> HIDE DEF blank
  <2>1. PICK q \in blank : \A k \in blank : q <= k
    BY <1>1, <1>4, LeastExists
  <2>2. p \in blank /\ \A k \in blank : p <= k
    BY <2>1
  <2>3. FirstWord(l) = SubSeq(l, 1, p - 1)
    BY <1>2, <1>4
  <2> HIDE DEF p
  <2>4. p \in 1 .. Len(l) /\ l[p] = Space
    BY <1>1, <2>2 DEF blank
  <2> DEFINE w == p - 1
  <2>5. w \in 0 .. Len(l) /\ w \in Nat /\ w + 1 = p
    BY <1>1, <2>4
  <2>6. FirstWord(l) = SubSeq(l, 1, w)
    BY <2>3
  <2> HIDE DEF w
  <2>7. \A i \in 1 .. w : l[i] # Space /\ l[i] \in Char
    <3>1. TAKE i \in 1 .. w
    <3>2. i \in 1 .. Len(l) /\ ~ (p <= i)
      BY <1>1, <2>4, <2>5
    <3>3. QED
      BY <1>1, <2>2, <3>2 DEF blank
  <2>8. /\ FirstWord(l) \in Seq(Char) /\ Len(FirstWord(l)) = IF 1 <= w THEN w - 1 + 1 ELSE 0
        /\ \A i \in 1 .. w - 1 + 1 : FirstWord(l)[i] = l[1 + i - 1]
    <3>1. 1 \in Int /\ w \in Int
      BY <2>5
    <3>2. QED
      BY <2>6, <2>7, <3>1, SubSeqProperties
  <2>9. Len(FirstWord(l)) = w /\ \A i \in 1 .. w : FirstWord(l)[i] = l[i]
    BY <2>5, <2>8
  <2>10. QED
    BY <2>4, <2>5, <2>7, <2>8, <2>9
<1>5. QED
  BY <1>3, <1>4

\* A name that fits the entry is listed as it was typed, in lower case, and blanks.
LEMMA ListedAsTyped ==
    ASSUME NEW t \in Seq(Char), Fits(t)
    PROVE  /\ IsPrefix(Lower(t), ToFilename(FilenameTo83(t)))
           /\ \A j \in Len(t) + 1 .. Len(ToFilename(FilenameTo83(t))) :
                 ToFilename(FilenameTo83(t))[j] = Space
<1> DEFINE n == FilenameTo83(t)
           l == ToFilename(n)
           d == FirstDot(t)
<1>1. BaseLength \in Nat /\ ExtLength \in Nat /\ Len(t) \in Nat /\ DOMAIN t = 1 .. Len(t)
      /\ \A i \in 1 .. Len(t) : t[i] \in Char /\ t[i] # Space
  <2>1. \A i \in 1 .. Len(t) : t[i] \in Char
    BY ElementOfSeq
  <2>2. \A i \in 1 .. Len(t) : t[i] # Space
    BY DEF Fits, IsWord, Range
  <2>3. QED
    BY <2>1, <2>2, ListingSizes
<1>2. Dots(t) # {} /\ d \in 1 .. BaseLength + 1 /\ d \in 1 .. Len(t) /\ Len(t) - d \in 0 .. ExtLength
      /\ t[d] = Dot
  <2>1. PICK e \in 1 .. BaseLength + 1 : Dots(t) = {e} /\ Len(t) - e \in 0 .. ExtLength
    BY DEF Fits
  <2>2. d \in Dots(t)
    BY <1>1, <2>1, FirstDotIs DEF Dots
  <2>3. QED
    BY <2>1, <2>2, FirstDotIs
<1>3. /\ n \in Seq(Char) /\ Len(n) = BaseLength + ExtLength
      /\ \A i \in 1 .. BaseLength : n[i] = IF i < d THEN toupper(t[i]) ELSE Space
      /\ \A k \in 1 .. ExtLength :
            n[BaseLength + k] = IF d + k <= Len(t) THEN toupper(t[d + k]) ELSE Space
  BY <1>2, NameIs
<1> HIDE DEF n, d
<1>4. PICK m \in 0 .. BaseLength :
         /\ \A i \in 1 .. m : n[i] # Space /\ l[i] = tolower(n[i])
         /\ m < BaseLength => n[m + 1] = Space
         /\ l \in Seq(Char) /\ Len(l) = m + 1 + ExtLength /\ l[m + 1] = Dot
         /\ \A k \in 1 .. ExtLength : l[m + 1 + k] = tolower(n[BaseLength + k])
  BY <1>3, LineIs
<1> HIDE DEF l
<1>5. m = d - 1
  <2>1. m <= d - 1
    <3>1. ASSUME m > d - 1 PROVE FALSE
      <4>1. d \in 1 .. m /\ d \in 1 .. BaseLength /\ ~ (d < d)
        BY <1>1, <1>2, <3>1
      <4>2. QED
        BY <1>3, <1>4, <4>1
    <3>2. QED
      BY <1>1, <1>2, <3>1
  <2>2. m >= d - 1
    <3>1. ASSUME m < d - 1 PROVE FALSE
      <4>1. m < BaseLength /\ m + 1 \in 1 .. BaseLength /\ m + 1 < d /\ m + 1 \in 1 .. Len(t)
        BY <1>1, <1>2, <3>1
      <4>2. n[m + 1] = toupper(t[m + 1]) /\ n[m + 1] = Space
        BY <1>3, <1>4, <4>1
      <4>3. QED
        BY <1>1, <4>1, <4>2, CharFacts
    <3>2. QED
      BY <1>1, <1>2, <3>1
  <2>3. QED
    BY <1>1, <1>2, <2>1, <2>2
<1>6. \A i \in 1 .. Len(t) : l[i] = tolower(t[i])
  <2>1. TAKE i \in 1 .. Len(t)
  <2>2. CASE i < d
    <3>1. i \in 1 .. m /\ i \in 1 .. BaseLength
      BY <1>1, <1>2, <1>5, <2>2
    <3>2. l[i] = tolower(toupper(t[i]))
      BY <1>3, <1>4, <2>2, <3>1
    <3>3. QED
      BY <1>1, <3>2, CharFacts
  <2>3. CASE i = d
    <3>1. i = m + 1
      BY <1>1, <1>2, <1>5, <2>3
    <3>2. QED
      BY <1>2, <1>4, <2>3, <3>1, CharFacts
  <2>4. CASE i > d
    <3>1. PICK k \in 1 .. ExtLength : i = d + k
      <4>1. i - d \in 1 .. ExtLength /\ i = d + (i - d)
        BY <1>1, <1>2, <2>1, <2>4
      <4>2. QED
        BY <4>1
    <3>2. i = m + 1 + k /\ d + k <= Len(t)
      BY <1>1, <1>2, <1>5, <2>1, <3>1
    <3>3. l[i] = tolower(toupper(t[i]))
      BY <1>3, <1>4, <3>1, <3>2
    <3>4. QED
      BY <1>1, <3>3, CharFacts
  <2>5. QED
    BY <1>1, <1>2, <2>2, <2>3, <2>4
<1>7. \A j \in Len(t) + 1 .. Len(l) : l[j] = Space
  <2>1. TAKE j \in Len(t) + 1 .. Len(l)
  <2>2. PICK k \in 1 .. ExtLength : j = m + 1 + k
    <3>1. j - m - 1 \in 1 .. ExtLength /\ j = m + 1 + (j - m - 1)
      BY <1>1, <1>2, <1>4, <1>5, <2>1
    <3>2. QED
      BY <3>1
  <2>3. ~ (d + k <= Len(t))
    BY <1>1, <1>2, <1>5, <2>1, <2>2
  <2>4. QED
    BY <1>3, <1>4, <2>2, <2>3, CharFacts
<1>8. Len(t) <= Len(l)
  BY <1>1, <1>2, <1>4, <1>5
<1>9. IsPrefix(Lower(t), l)
  <2> DEFINE s == Lower(t)
  <2>1. s \in Seq(Char) /\ Len(s) = Len(t) /\ \A i \in 1 .. Len(t) : s[i] = tolower(t[i])
    <3>1. s = [i \in 1 .. Len(t) |-> tolower(t[i])]
      BY <1>1 DEF Lower
    <3> HIDE DEF s
    <3>2. s \in [1 .. Len(t) -> Char] /\ \A i \in 1 .. Len(t) : s[i] = tolower(t[i])
      BY <1>1, <3>1, CharFacts
    <3>3. QED
      BY <1>1, <3>1, <3>2
  <2> HIDE DEF s
  <2> DEFINE L == Len(t)
             u == SubSeq(s, 1, L)
             v == SubSeq(l, 1, L)
  <2>2. L \in Nat /\ L \in Int /\ 1 \in Int /\ \A i \in 1 .. L : s[i] \in Char /\ l[i] \in Char
    <3>1. \A i \in 1 .. Len(t) : s[i] \in Char /\ l[i] = s[i]
      BY <1>6, <2>1, ElementOfSeq
    <3>2. QED
      BY <1>1, <3>1
  <2> HIDE DEF L
  <2>3. /\ u \in Seq(Char) /\ Len(u) = IF 1 <= L THEN L - 1 + 1 ELSE 0
        /\ \A i \in 1 .. L - 1 + 1 : u[i] = s[1 + i - 1]
    BY <2>2, SubSeqProperties
  <2>4. /\ v \in Seq(Char) /\ Len(v) = IF 1 <= L THEN L - 1 + 1 ELSE 0
        /\ \A i \in 1 .. L - 1 + 1 : v[i] = l[1 + i - 1]
    BY <2>2, SubSeqProperties
  <2> HIDE DEF u, v
  <2>5. Len(u) = L /\ Len(v) = L /\ \A i \in 1 .. L : u[i] = s[i] /\ v[i] = l[i]
    BY <2>2, <2>3, <2>4
  <2>6. \A i \in 1 .. L : u[i] = v[i]
    BY <1>6, <2>1, <2>5 DEF L
  <2>7. u = v
    BY <2>3, <2>4, <2>5, <2>6, SeqEqual
  <2>8. QED
    BY <1>8, <2>1, <2>7 DEF IsPrefix, u, v, L, s
<1>10. QED
  BY <1>7, <1>9 DEF l, n

\* A listed name, up to its first blank, is found where it was listed from.
LEMMA ListedIsFound ==
    ASSUME NEW t \in Seq(Char), Dots(t) # {}, IsWord(t)
    PROVE  NameToFind(FirstWord(ToFilename(FilenameTo83(t)))) = FilenameTo83(t)
<1> DEFINE n == FilenameTo83(t)
           l == ToFilename(n)
           d == FirstDot(t)
           w == FirstWord(l)
           f == FilenameTo83(w)
<1>1. BaseLength \in Nat /\ ExtLength \in Nat /\ Len(t) \in Nat
      /\ \A i \in 1 .. Len(t) : t[i] \in Char /\ t[i] # Space
  <2>1. \A i \in 1 .. Len(t) : t[i] \in Char
    BY ElementOfSeq
  <2>2. \A i \in 1 .. Len(t) : t[i] # Space
    BY DEF IsWord, Range
  <2>3. QED
    BY <2>1, <2>2, ListingSizes
<1>2. d \in 1 .. Len(t) /\ \A i \in 1 .. d - 1 : t[i] # Dot
  BY FirstDotIs
<1>3. /\ n \in Seq(Char) /\ Len(n) = BaseLength + ExtLength
      /\ \A i \in 1 .. BaseLength : n[i] = IF i < d THEN toupper(t[i]) ELSE Space
      /\ \A k \in 1 .. ExtLength :
            n[BaseLength + k] = IF d + k <= Len(t) THEN toupper(t[d + k]) ELSE Space
  BY NameIs
<1> HIDE DEF n, d
<1>4. PICK m \in 0 .. BaseLength :
         /\ \A i \in 1 .. m : n[i] # Space /\ l[i] = tolower(n[i])
         /\ m < BaseLength => n[m + 1] = Space
         /\ l \in Seq(Char) /\ Len(l) = m + 1 + ExtLength /\ l[m + 1] = Dot
         /\ \A k \in 1 .. ExtLength : l[m + 1 + k] = tolower(n[BaseLength + k])
  BY <1>3, LineIs
<1> HIDE DEF l
<1>5. PICK e \in 0 .. Len(l) :
         /\ w \in Seq(Char) /\ Len(w) = e
         /\ \A i \in 1 .. e : w[i] = l[i] /\ l[i] # Space
         /\ e < Len(l) => l[e + 1] = Space
  BY <1>4, FirstWordIs
<1> HIDE DEF w
<1>6. \A i \in 1 .. BaseLength + ExtLength : n[i] \in Char
  BY <1>3, ElementOfSeq
<1>7. \A i \in 1 .. m : i < d
  <2>1. TAKE i \in 1 .. m
  <2>2. i \in 1 .. BaseLength
    BY <1>1, <2>1
  <2>3. QED
    BY <1>3, <1>4, <2>1, <2>2
<1>8. \A i \in m + 1 .. BaseLength : i >= d
  <2>1. TAKE i \in m + 1 .. BaseLength
  <2>2. m + 1 >= d
    <3>1. ASSUME m + 1 < d PROVE FALSE
      <4>1. m < BaseLength /\ m + 1 \in 1 .. BaseLength /\ m + 1 \in 1 .. Len(t)
        BY <1>1, <1>2, <2>1, <3>1
      <4>2. n[m + 1] = Space /\ n[m + 1] = toupper(t[m + 1])
        BY <1>3, <1>4, <3>1, <4>1
      <4>3. QED
        BY <1>1, <4>1, <4>2, CharFacts
    <3>2. QED
      BY <1>1, <1>2, <3>1
  <2>3. QED
    BY <1>1, <1>2, <2>1, <2>2
<1>9. \A i \in 1 .. m : w[i] = tolower(n[i]) /\ w[i] # Dot
  <2>1. TAKE i \in 1 .. m
  <2>2. /\ i \in 1 .. BaseLength /\ i \in 1 .. BaseLength + ExtLength /\ i < d
        /\ i \in 1 .. Len(t) /\ i \in 1 .. d - 1
    BY <1>1, <1>2, <1>7, <2>1
  <2>3. n[i] = toupper(t[i]) /\ t[i] \in Char /\ t[i] # Dot /\ n[i] \in Char
    BY <1>1, <1>2, <1>3, <1>6, <2>2
  <2>4. i <= e
    <3>1. ASSUME e < i PROVE FALSE
      <4>1. e < Len(l) /\ e + 1 \in 1 .. m
        BY <1>1, <1>4, <1>5, <2>1, <3>1
      <4>2. l[e + 1] = Space /\ l[e + 1] = tolower(n[e + 1]) /\ n[e + 1] # Space
        BY <1>4, <1>5, <4>1
      <4>3. n[e + 1] \in Char
        BY <1>1, <1>6, <4>1
      <4>4. QED
        BY <4>2, <4>3, CharFacts
    <3>2. QED
      BY <1>1, <1>4, <1>5, <2>1, <3>1
  <2>5. w[i] = l[i] /\ l[i] = tolower(n[i])
    BY <1>4, <1>5, <2>1, <2>4
  <2>6. QED
    BY <2>3, <2>5, CharFacts
<1>10. e >= m + 1
  <2>1. ASSUME e < m + 1 PROVE FALSE
    <3>1. e < Len(l) /\ (e + 1 \in 1 .. m \/ e + 1 = m + 1)
      BY <1>1, <1>4, <1>5, <2>1
    <3>2. l[e + 1] = Space
      BY <1>5, <3>1
    <3>3. e + 1 # m + 1
      BY <1>4, <3>2, CharFacts
    <3>4. e + 1 \in 1 .. m /\ e + 1 \in 1 .. BaseLength + ExtLength
      BY <1>1, <3>1, <3>3
    <3>5. l[e + 1] = tolower(n[e + 1]) /\ n[e + 1] # Space /\ n[e + 1] \in Char
      BY <1>4, <1>6, <3>4
    <3>6. QED
      BY <3>2, <3>5, CharFacts
  <2>2. QED
    BY <1>1, <1>4, <1>5, <2>1
<1>11. w[m + 1] = Dot /\ m + 1 \in 1 .. Len(w)
  BY <1>1, <1>4, <1>5, <1>10
<1>12. Dots(w) # {} /\ FirstDot(w) = m + 1
  <2>1. DOMAIN w = 1 .. Len(w)
    BY <1>5
  <2>2. Dots(w) # {}
    BY <1>11, <2>1 DEF Dots
  <2>3. \A i \in 1 .. m + 1 - 1 : w[i] # Dot
    BY <1>1, <1>9
  <2>4. QED
    BY <1>5, <1>11, <2>2, <2>3, FirstDotIs
<1>13. NameToFind(w) = f
  BY <1>12 DEF NameToFind
<1>14. /\ f \in Seq(Char) /\ Len(f) = BaseLength + ExtLength
       /\ \A i \in 1 .. BaseLength : f[i] = IF i < m + 1 THEN toupper(w[i]) ELSE Space
       /\ \A k \in 1 .. ExtLength :
             f[BaseLength + k] = IF m + 1 + k <= Len(w) THEN toupper(w[m + 1 + k]) ELSE Space
  BY <1>5, <1>12, NameIs
<1> HIDE DEF f
<1>15. \A i \in 1 .. BaseLength : f[i] = n[i]
  <2>1. TAKE i \in 1 .. BaseLength
  <2>2. CASE i < m + 1
    <3>1. i \in 1 .. m /\ i < d /\ i \in 1 .. Len(t)
      BY <1>1, <1>2, <1>4, <1>7, <2>2
    <3>2. f[i] = toupper(tolower(n[i])) /\ n[i] = toupper(t[i])
      BY <1>3, <1>9, <1>14, <2>2, <3>1
    <3>3. QED
      BY <1>1, <3>1, <3>2, CharFacts
  <2>3. CASE ~ (i < m + 1)
    <3>1. i \in m + 1 .. BaseLength
      BY <1>1, <1>4, <2>3
    <3>2. i >= d
      BY <1>8, <3>1
    <3>3. i \in Int /\ d \in Int
      BY <1>2, <2>1
    <3>4. ~ (i < d)
      BY <3>2, <3>3
    <3>5. QED
      BY <1>3, <1>14, <2>3, <3>4
  <2>4. QED
    BY <2>2, <2>3
<1>16. \A k \in 1 .. ExtLength : f[BaseLength + k] = n[BaseLength + k]
  <2>1. TAKE k \in 1 .. ExtLength
  <2>2. BaseLength + k \in 1 .. BaseLength + ExtLength /\ n[BaseLength + k] \in Char
    BY <1>1, <1>6
  <2>3. CASE m + 1 + k <= e
    <3>1. m + 1 + k \in 1 .. e
      BY <1>1, <1>4, <2>1, <2>3
    <3>2. f[BaseLength + k] = toupper(tolower(n[BaseLength + k]))
      BY <1>4, <1>5, <1>14, <2>1, <2>3, <3>1
    <3>3. CASE d + k <= Len(t)
      <4>1. d + k \in 1 .. Len(t)
        BY <1>1, <1>2, <2>1, <3>3
      <4>2. n[BaseLength + k] = toupper(t[d + k]) /\ t[d + k] \in Char
        BY <1>1, <1>3, <3>3, <4>1
      <4>3. QED
        BY <3>2, <4>2, CharFacts
    <3>4. CASE ~ (d + k <= Len(t))
      BY <1>3, <3>2, <3>4, CharFacts
    <3>5. QED
      BY <3>3, <3>4
  <2>4. CASE ~ (m + 1 + k <= e)
    <3>1. PICK j \in 1 .. ExtLength : e + 1 = m + 1 + j /\ j <= k
      <4>1. e - m \in 1 .. ExtLength /\ e + 1 = m + 1 + (e - m) /\ e - m <= k
        <5>1. m \in Nat /\ e \in Nat /\ k \in Nat /\ k <= ExtLength /\ k >= 1
          BY <1>1, <1>4, <1>5, <2>1
        <5>2. e < m + 1 + k
          BY <2>4, <5>1
        <5>3. QED
          BY <1>1, <1>10, <5>1, <5>2
      <4>2. QED
        BY <4>1
    <3>2. e < Len(l)
      BY <1>1, <1>4, <1>5, <2>1, <2>4
    <3>3. tolower(n[BaseLength + j]) = Space
      BY <1>4, <1>5, <3>1, <3>2
    <3>4. n[BaseLength + j] \in Char
      <4>1. BaseLength + j \in 1 .. BaseLength + ExtLength
        BY <1>1, <3>1
      <4>2. QED
        BY <1>1, <1>6, <4>1
    <3>5. n[BaseLength + j] = Space
      BY <3>3, <3>4, CharFacts
    <3>6. ~ (d + j <= Len(t))
      <4>1. ASSUME d + j <= Len(t) PROVE FALSE
        <5>1. d + j \in 1 .. Len(t) /\ n[BaseLength + j] = toupper(t[d + j])
          BY <1>1, <1>2, <1>3, <3>1, <4>1
        <5>2. QED
          BY <1>1, <3>5, <5>1, CharFacts
      <4>2. QED
        BY <4>1
    <3>7. ~ (d + k <= Len(t))
      BY <1>1, <1>2, <2>1, <3>1, <3>6
    <3>8. n[BaseLength + k] = Space /\ f[BaseLength + k] = Space
      BY <1>3, <1>5, <1>14, <2>1, <2>4, <3>7
    <3>9. QED
      BY <3>8
  <2>5. QED
    BY <2>3, <2>4
<1>17. f = n
  <2>1. \A i \in 1 .. Len(f) : f[i] = n[i]
    <3>1. TAKE i \in 1 .. Len(f)
    <3>2. CASE i <= BaseLength
      BY <1>1, <1>14, <1>15, <3>1, <3>2
    <3>3. CASE ~ (i <= BaseLength)
      <4>1. PICK k \in 1 .. ExtLength : i = BaseLength + k
        <5>1. i - BaseLength \in 1 .. ExtLength /\ i = BaseLength + (i - BaseLength)
          BY <1>1, <1>14, <3>1, <3>3
        <5>2. QED
          BY <5>1
      <4>2. QED
        BY <1>16, <4>1
    <3>4. QED
      BY <3>2, <3>3
  <2>2. QED
    BY <1>3, <1>14, <2>1, SeqEqual
<1>18. QED
  BY <1>13, <1>17 DEF f, w, l, n

\* A name with other capitals is the same name on the disk.
LEMMA SameName ==
    ASSUME NEW t \in Seq(Char), NEW u \in Seq(Char), Dots(t) # {}, Lower(t) = Lower(u)
    PROVE  NameToFind(u) = FilenameTo83(t)
<1>1. Len(t) \in Nat /\ Len(u) \in Nat /\ DOMAIN t = 1 .. Len(t) /\ DOMAIN u = 1 .. Len(u)
      /\ (\A i \in 1 .. Len(t) : t[i] \in Char) /\ \A i \in 1 .. Len(u) : u[i] \in Char
  BY ElementOfSeq
<1>2. Len(t) = Len(u) /\ \A i \in 1 .. Len(t) : tolower(t[i]) = tolower(u[i])
  <2> DEFINE s == [i \in 1 .. Len(t) |-> tolower(t[i])]
             v == [i \in 1 .. Len(u) |-> tolower(u[i])]
  <2>1. s = v
    BY <1>1 DEF Lower
  <2>2. 1 .. Len(t) = 1 .. Len(u)
    BY <2>1
  <2>3. Len(t) = Len(u)
    <3>1. Len(t) < Len(u) => Len(u) \in 1 .. Len(u) /\ Len(u) \notin 1 .. Len(t)
      BY <1>1
    <3>2. Len(u) < Len(t) => Len(t) \in 1 .. Len(t) /\ Len(t) \notin 1 .. Len(u)
      BY <1>1
    <3>3. ~ (Len(t) < Len(u)) /\ ~ (Len(u) < Len(t))
      BY <2>2, <3>1, <3>2, Zenon
    <3>4. \A a, b \in Nat : ~ (a < b) /\ ~ (b < a) => a = b
      OBVIOUS
    <3>5. Len(t) \in Nat /\ Len(u) \in Nat
      BY <1>1
    <3>6. QED
      BY <3>3, <3>4, <3>5, Zenon
  <2>4. \A i \in 1 .. Len(t) : s[i] = tolower(t[i]) /\ v[i] = tolower(u[i])
    BY <2>3
  <2>5. QED
    BY <2>1, <2>3, <2>4
<1> DEFINE d == FirstDot(t)
<1>3. d \in 1 .. Len(t) /\ t[d] = Dot /\ \A i \in 1 .. d - 1 : t[i] # Dot
  BY FirstDotIs
<1> HIDE DEF d
<1>4. d \in 1 .. Len(u) /\ u[d] = Dot /\ \A i \in 1 .. d - 1 : u[i] # Dot
  <2>1. \A i \in 1 .. Len(t) : t[i] = Dot <=> u[i] = Dot
    BY <1>1, <1>2, CharFacts
  <2>2. \A i \in 1 .. d - 1 : i \in 1 .. Len(t)
    BY <1>1, <1>3
  <2>3. QED
    BY <1>2, <1>3, <2>1, <2>2
<1>5. Dots(u) # {}
  BY <1>1, <1>4 DEF Dots
<1>6. FirstDot(u) = d
  BY <1>4, <1>5, FirstDotIs
<1>7. \A i \in 1 .. Len(t) : toupper(t[i]) = toupper(u[i])
  BY <1>1, <1>2, CharFacts
<1> DEFINE f == FilenameTo83(t)
           g == FilenameTo83(u)
<1>8. /\ f \in Seq(Char) /\ Len(f) = BaseLength + ExtLength
      /\ \A i \in 1 .. BaseLength : f[i] = IF i < d THEN toupper(t[i]) ELSE Space
      /\ \A k \in 1 .. ExtLength :
            f[BaseLength + k] = IF d + k <= Len(t) THEN toupper(t[d + k]) ELSE Space
  BY NameIs DEF d
<1>9. /\ g \in Seq(Char) /\ Len(g) = BaseLength + ExtLength
      /\ \A i \in 1 .. BaseLength : g[i] = IF i < d THEN toupper(u[i]) ELSE Space
      /\ \A k \in 1 .. ExtLength :
            g[BaseLength + k] = IF d + k <= Len(u) THEN toupper(u[d + k]) ELSE Space
  BY <1>5, <1>6, NameIs
<1> HIDE DEF f, g
<1>10. BaseLength \in Nat /\ ExtLength \in Nat
  BY ListingSizes
<1>11. \A i \in 1 .. BaseLength : f[i] = g[i]
  <2>1. TAKE i \in 1 .. BaseLength
  <2>2. i < d => i \in 1 .. Len(t)
    BY <1>1, <1>3, <1>10
  <2>3. QED
    BY <1>7, <1>8, <1>9, <2>2
<1>12. \A k \in 1 .. ExtLength : f[BaseLength + k] = g[BaseLength + k]
  <2>1. TAKE k \in 1 .. ExtLength
  <2>2. d + k <= Len(t) => d + k \in 1 .. Len(t)
    BY <1>1, <1>3, <1>10
  <2>3. QED
    BY <1>2, <1>7, <1>8, <1>9, <2>2
<1>13. \A i \in 1 .. Len(f) : f[i] = g[i]
  <2>1. TAKE i \in 1 .. Len(f)
  <2>2. CASE i <= BaseLength
    BY <1>8, <1>10, <1>11, <2>1, <2>2
  <2>3. CASE ~ (i <= BaseLength)
    <3>1. PICK k \in 1 .. ExtLength : i = BaseLength + k
      <4>1. i - BaseLength \in 1 .. ExtLength /\ i = BaseLength + (i - BaseLength)
        BY <1>8, <1>10, <2>1, <2>3
      <4>2. QED
        BY <4>1
    <3>2. QED
      BY <1>12, <3>1
  <2>4. QED
    BY <2>2, <2>3
<1>14. f = g
  BY <1>8, <1>9, <1>13, SeqEqual
<1>15. QED
  BY <1>5, <1>14 DEF NameToFind, f, g

-----------------------------------------------------------------------------
\* What the i-th line of the list is.
ListedAs(i) == ToFilename(root[i].name)

RootIs ==
    /\ Len(root) \in Nat /\ DOMAIN root = 1 .. Len(root)
    /\ \A i \in DOMAIN root :
           /\ root[i].typed \in Typed /\ Dots(root[i].typed) # {} /\ root[i].text \in Texts
           /\ root[i].name = FilenameTo83(root[i].typed)
    /\ \A i, j \in DOMAIN root : root[i].name = root[j].name => i = j

NoneRefused == ~ (\E i \in DOMAIN results : results[i] = NULL)

\* The names listed so far lie one behind the other at the end of what the arena has
\* given, each as long as it is, and followed by a zero unless the next one begins there.
Laid ==
    \A i \in DOMAIN results :
        /\ results[i] + LineSize <= Base + used
        /\ i = Len(results) => results[i] + LineSize = Base + used
        /\ \A k \in DOMAIN results : i < k => results[i] + LineSize <= results[k]
        /\ i + 1 \in DOMAIN results => results[i + 1] = results[i] + LineSize
        /\ \A j \in 1 .. Len(ListedAs(i)) : memory[results[i] + j - 1] = ListedAs(i)[j]
        /\ i = Len(results) \/ Len(ListedAs(i)) < LineSize =>
               memory[results[i] + Len(ListedAs(i))] = 0

ListingInv ==
    /\ RootIs
    /\ memory[Top] = 0
    /\ used \in 0 .. Limit
    /\ results \in Seq(Nat) /\ Len(results) <= Len(root)
    /\ command \in [op : {"none", "listing", "list", "read", "not found"}, name : Typed \cup {<<>>}]
    /\ command.op = "listing" /\ NoneRefused => Laid
    /\ ListShowsTheNames /\ ListedNamesFind /\ ReadShowsTheFile

LEMMA ListedIs ==
    ASSUME RootIs, NEW i \in DOMAIN root
    PROVE  /\ ListedAs(i) \in Seq(Char) /\ Len(ListedAs(i)) \in Nat /\ Len(ListedAs(i)) <= LineSize
           /\ root[i].typed \in Seq(Char) /\ root[i].text \in Seq(Char)
           /\ Len(root[i].text) \in Nat /\ Len(root[i].text) <= SectorSize
           /\ Fits(root[i].typed) =>
                 /\ IsPrefix(Lower(root[i].typed), ListedAs(i))
                 /\ \A j \in Len(root[i].typed) + 1 .. Len(ListedAs(i)) : ListedAs(i)[j] = Space
           /\ IsWord(root[i].typed) => NameToFind(FirstWord(ListedAs(i))) = root[i].name
<1> DEFINE t == root[i].typed
           n == FilenameTo83(t)
<1>1. t \in Seq(Char) /\ Dots(t) # {} /\ root[i].name = n /\ root[i].text \in Texts
  BY ListingAssumption DEF RootIs
<1>2. ListedAs(i) = ToFilename(n)
  BY <1>1 DEF ListedAs
<1>3. n \in Seq(Char) /\ Len(n) = BaseLength + ExtLength
  BY <1>1, NameIs
<1>4. ToFilename(n) \in Seq(Char) /\ Len(ToFilename(n)) <= LineSize
  <2> HIDE DEF n
  <2>1. PICK m \in 0 .. BaseLength :
           ToFilename(n) \in Seq(Char) /\ Len(ToFilename(n)) = m + 1 + ExtLength
    BY <1>3, LineIs
  <2>2. QED
    BY <2>1, ListingSizes
<1>5. root[i].text \in Seq(Char) /\ Len(root[i].text) <= SectorSize
  BY <1>1, ListingAssumption
<1> HIDE DEF t
<1>6. Fits(t) => /\ IsPrefix(Lower(t), ToFilename(n))
                 /\ \A j \in Len(t) + 1 .. Len(ToFilename(n)) : ToFilename(n)[j] = Space
  BY <1>1, ListedAsTyped
<1>7. IsWord(t) => NameToFind(FirstWord(ToFilename(n))) = n
  BY <1>1, ListedIsFound
<1> HIDE DEF n
<1>8. QED
  BY <1>1, <1>2, <1>4, <1>5, <1>6, <1>7 DEF t

LEMMA StoredIs ==
    ASSUME NEW mem, NEW a \in Nat, NEW bytes, NEW n \in Nat, DOMAIN bytes = 1 .. n, a + n <= Top
    PROVE  /\ \A j \in 1 .. n : Stored(mem, a, bytes)[a + j - 1] = bytes[j]
           /\ \A b \in 0 .. Top : b < a \/ b >= a + n => Stored(mem, a, bytes)[b] = mem[b]
<1>1. Top \in Nat
  BY ListingSizes
<1>2. \A b \in 0 .. Top :
         Stored(mem, a, bytes)[b] = IF b - a + 1 \in 1 .. n THEN bytes[b - a + 1] ELSE mem[b]
  BY DEF Stored
<1>3. ASSUME NEW j \in 1 .. n PROVE Stored(mem, a, bytes)[a + j - 1] = bytes[j]
  <2>1. PICK b \in 0 .. Top : b = a + j - 1
    <3>1. a + j - 1 \in 0 .. Top
      BY <1>1
    <3>2. QED
      BY <3>1
  <2>2. b - a + 1 = j
    BY <2>1
  <2>3. Stored(mem, a, bytes)[b] = bytes[j]
    BY <1>2, <2>2
  <2>4. QED
    BY <2>1, <2>3
<1>4. ASSUME NEW b \in 0 .. Top, b < a \/ b >= a + n PROVE Stored(mem, a, bytes)[b] = mem[b]
  <2>1. b - a + 1 \notin 1 .. n
    BY <1>1, <1>4
  <2>2. QED
    BY <1>2, <2>1
<1>5. QED
  BY <1>3, <1>4

LEMMA ListingInitial == ListingInit => ListingInv
<1> SUFFICES ASSUME ListingInit PROVE ListingInv
  OBVIOUS
<1>1. PICK d \in Directories :
         root = [i \in DOMAIN d |-> [name |-> FilenameTo83(d[i].typed),
                                     text |-> d[i].text, typed |-> d[i].typed]]
  BY DEF ListingInit
<1> DEFINE files == {[typed |-> t, text |-> x] : t \in {u \in Typed : Dots(u) # {}}, x \in Texts}
<1>2. PICK n \in 0 .. MaxFiles : d \in [1 .. n -> files]
  <2> HIDE DEF files
  <2>1. d \in UNION {[1 .. n -> files] : n \in 0 .. MaxFiles}
    <3> DEFINE made == UNION {[1 .. n -> files] : n \in 0 .. MaxFiles}
    <3>1. Directories = {e \in made : \A i, j \in DOMAIN e :
                             FilenameTo83(e[i].typed) = FilenameTo83(e[j].typed) => i = j}
      BY DEF Directories, files
    <3> HIDE DEF made
    <3>2. d \in made
      BY <1>1, <3>1
    <3>3. QED
      BY <3>2 DEF made
  <2>2. PICK F \in {[1 .. n -> files] : n \in 0 .. MaxFiles} : d \in F
    BY <2>1
  <2>3. QED
    BY <2>2
<1>3. n \in Nat /\ DOMAIN d = 1 .. n
  BY <1>2, ListingAssumption
<1>4. \A i, j \in DOMAIN d : FilenameTo83(d[i].typed) = FilenameTo83(d[j].typed) => i = j
  BY <1>1 DEF Directories
<1>5. \A i \in 1 .. n : d[i].typed \in Typed /\ Dots(d[i].typed) # {} /\ d[i].text \in Texts
  <2>1. TAKE i \in 1 .. n
  <2>2. d[i] \in files
    BY <1>2
  <2>3. PICK t \in Typed, x \in Texts : Dots(t) # {} /\ d[i] = [typed |-> t, text |-> x]
    BY <2>2
  <2>4. QED
    BY <2>3
<1>6. \A i \in 1 .. n : /\ root[i].name = FilenameTo83(d[i].typed)
                        /\ root[i].text = d[i].text /\ root[i].typed = d[i].typed
  BY <1>1, <1>3
<1>7. Len(root) = n /\ DOMAIN root = 1 .. n
  BY <1>1, <1>3
<1>8. RootIs
  <2>1. \A i \in DOMAIN root :
           /\ root[i].typed \in Typed /\ Dots(root[i].typed) # {} /\ root[i].text \in Texts
           /\ root[i].name = FilenameTo83(root[i].typed)
    BY <1>5, <1>6, <1>7
  <2>2. \A i, j \in DOMAIN root : root[i].name = root[j].name => i = j
    BY <1>3, <1>4, <1>6, <1>7
  <2>3. QED
    BY <1>3, <1>7, <2>1, <2>2 DEF RootIs
<1>9. memory[Top] = 0
  BY ListingSizes DEF ListingInit
<1>10. /\ used = AtBoot /\ results = <<>> /\ command = [op |-> "none", name |-> <<>>]
  BY DEF ListingInit
<1>11. used \in 0 .. Limit /\ results \in Seq(Nat) /\ Len(results) <= Len(root)
  BY <1>3, <1>7, <1>10, ListingSizes
<1>12. ListShowsTheNames /\ ListedNamesFind /\ ReadShowsTheFile
  BY <1>10 DEF ListShowsTheNames, ListedNamesFind, ReadShowsTheFile
<1>13. QED
  BY <1>8, <1>9, <1>10, <1>11, <1>12 DEF ListingInv

\* Steps after which no command is to be shown.
LEMMA NothingToShow ==
    ASSUME command'.op \notin {"list", "read", "not found"}
    PROVE  ListShowsTheNames' /\ ListedNamesFind' /\ ReadShowsTheFile'
BY DEF ListShowsTheNames, ListedNamesFind, ReadShowsTheFile

LEMMA ListBeginsKeeps == ASSUME ListingInv, ListBegins PROVE ListingInv'
<1>1. RootIs' /\ (memory[Top] = 0)' /\ (used \in 0 .. Limit)'
  BY DEF ListBegins, ListingInv, RootIs
<1>2. results' = <<>> /\ command' = [op |-> "listing", name |-> <<>>] /\ root' = root
  BY DEF ListBegins
<1>3. results' \in Seq(Nat) /\ Len(results') <= Len(root')
  <2>1. Len(root) \in Nat
    BY DEF ListingInv, RootIs
  <2>2. <<>> \in Seq(Nat) /\ Len(<<>>) = 0
    BY EmptySeq
  <2>3. QED
    BY <1>2, <2>1, <2>2
<1>4. Laid'
  BY <1>2 DEF Laid
<1>5. ListShowsTheNames' /\ ListedNamesFind' /\ ReadShowsTheFile'
  BY <1>2, NothingToShow
<1>6. QED
  BY <1>1, <1>2, <1>3, <1>4, <1>5 DEF ListingInv

LEMMA ListEntryKeeps == ASSUME ListingInv, ListEntry PROVE ListingInv'
<1> DEFINE n == Len(results)
           s == ToFilename(root[n + 1].name)
           a == arena_alloc(LineSize)
           bytes == s \o <<0>>
<1>1. /\ command.op = "listing" /\ n < Len(root) /\ results' = Append(results, a)
      /\ memory' = Stored(memory, a, bytes) /\ used' = Taken(LineSize)
      /\ root' = root /\ command' = command
  BY DEF ListEntry
<1>2. RootIs /\ memory[Top] = 0 /\ used \in Nat /\ used <= Limit /\ (NoneRefused => Laid)
  <2>1. RootIs /\ memory[Top] = 0 /\ used \in 0 .. Limit
    BY DEF ListingInv
  <2>2. NoneRefused => Laid
    BY <1>1 DEF ListingInv
  <2>3. QED
    BY <2>1, <2>2, ListingSizes
<1>3. n \in Nat /\ DOMAIN results = 1 .. n /\ Len(root) \in Nat /\ n + 1 \in DOMAIN root
      /\ \A i \in 1 .. n : i \in DOMAIN root /\ results[i] \in Nat
  <2>1. results \in Seq(Nat) /\ Len(root) \in Nat /\ DOMAIN root = 1 .. Len(root)
    BY DEF ListingInv, RootIs
  <2>2. n \in Nat /\ DOMAIN results = 1 .. n /\ \A i \in 1 .. n : results[i] \in Nat
    BY <2>1, ElementOfSeq
  <2>3. QED
    BY <1>1, <2>1, <2>2
<1>4. s \in Seq(Char) /\ Len(s) \in Nat /\ Len(s) <= LineSize /\ s = ListedAs(n + 1)
  BY <1>2, <1>3, ListedIs DEF ListedAs
<1> HIDE DEF s
<1>5. /\ DOMAIN bytes = 1 .. Len(s) + 1 /\ bytes[Len(s) + 1] = 0
      /\ \A j \in 1 .. Len(s) : bytes[j] = s[j]
  <2>1. s \in Seq(Nat) /\ <<0>> \in Seq(Nat) /\ Len(<<0>>) = 1 /\ <<0>>[1] = 0
    BY <1>4, SeqMonotonic, CharFacts
  <2>2. /\ bytes \in Seq(Nat) /\ Len(bytes) = Len(s) + 1
        /\ \A j \in 1 .. Len(s) + 1 : bytes[j] = IF j <= Len(s) THEN s[j] ELSE <<0>>[j - Len(s)]
    BY <2>1, ConcatProperties
  <2> HIDE DEF bytes
  <2>3. bytes[Len(s) + 1] = 0
    <3>1. Len(s) + 1 \in 1 .. Len(s) + 1 /\ ~ (Len(s) + 1 <= Len(s)) /\ Len(s) + 1 - Len(s) = 1
      BY <1>4
    <3>2. QED
      BY <2>1, <2>2, <3>1
  <2>4. QED
    BY <1>4, <2>2, <2>3
<1> HIDE DEF bytes
<1>6. /\ a \in Nat /\ a + LineSize < Top /\ used' \in 0 .. Limit
      /\ ~ Refused(LineSize) => a = Base + used /\ used' = used + LineSize
      /\ Refused(LineSize) => a = NULL
  <2>1. CASE Refused(LineSize)
    <3>1. a = 0 /\ used' = used
      BY <1>1, <2>1 DEF arena_alloc, Taken, NULL
    <3>2. QED
      BY <1>2, <2>1, <3>1, ListingSizes DEF NULL
  <2>2. CASE ~ Refused(LineSize)
    <3>1. a = Base + used /\ used' = used + LineSize /\ used + LineSize <= Limit
      BY <1>1, <1>2, <2>2, ListingSizes DEF arena_alloc, Taken, Refused
    <3>2. QED
      BY <1>2, <2>2, <3>1, ListingSizes
  <2>3. QED
    BY <2>1, <2>2
<1> HIDE DEF a
<1>7. /\ \A j \in 1 .. Len(s) : memory'[a + j - 1] = s[j]
      /\ memory'[a + Len(s)] = 0
      /\ \A b \in 0 .. Top : b < a \/ b > a + LineSize => memory'[b] = memory[b]
  <2> DEFINE k == Len(s) + 1
  <2>1. k \in Nat /\ a + k <= Top
    BY <1>4, <1>6, ListingSizes
  <2>2. /\ \A j \in 1 .. k : memory'[a + j - 1] = bytes[j]
        /\ \A b \in 0 .. Top : b < a \/ b >= a + k => memory'[b] = memory[b]
    <3>1. /\ \A j \in 1 .. k : Stored(memory, a, bytes)[a + j - 1] = bytes[j]
          /\ \A b \in 0 .. Top : b < a \/ b >= a + k => Stored(memory, a, bytes)[b] = memory[b]
      <4> HIDE DEF k
      <4>1. DOMAIN bytes = 1 .. k
        BY <1>5 DEF k
      <4>2. a \in Nat
        BY <1>6
      <4>3. \A j \in 1 .. k : Stored(memory, a, bytes)[a + j - 1] = bytes[j]
        <5>1. TAKE j \in 1 .. k
        <5>2. PICK b \in 0 .. Top : b = a + j - 1
          <6>1. a + j - 1 \in 0 .. Top
            BY <1>6, <2>1, ListingSizes
          <6>2. QED
            BY <6>1
        <5>3. b - a + 1 = j
          BY <2>1, <4>2, <5>2
        <5>4. Stored(memory, a, bytes)[b] = bytes[j]
          BY <4>1, <5>3 DEF Stored
        <5>5. QED
          BY <5>2, <5>4
      <4>4. \A b \in 0 .. Top : b < a \/ b >= a + k => Stored(memory, a, bytes)[b] = memory[b]
        BY <2>1, <4>1, <4>2, StoredIs
      <4>5. QED
        BY <4>3, <4>4
    <3>2. QED
      BY <1>1, <3>1
  <2>3. memory'[a + Len(s)] = 0
    <3>1. k \in 1 .. k /\ a + k - 1 = a + Len(s)
      BY <1>4, <1>6
    <3>2. QED
      BY <1>5, <2>2, <3>1
  <2>4. \A j \in 1 .. Len(s) : memory'[a + j - 1] = s[j]
    <3>1. TAKE j \in 1 .. Len(s)
    <3>2. j \in 1 .. k
      BY <1>4
    <3>3. QED
      BY <1>5, <2>2, <3>2
  <2>5. \A b \in 0 .. Top : b > a + LineSize => b >= a + k
    BY <1>4, <1>6, ListingSizes
  <2>6. QED
    BY <2>2, <2>3, <2>4, <2>5
<1>8. memory'[Top] = 0
  <2>1. Top \in 0 .. Top /\ Top > a + LineSize
    BY <1>6, ListingSizes
  <2>2. QED
    BY <1>2, <1>7, <2>1
<1>9. /\ results' \in Seq(Nat) /\ Len(results') = n + 1 /\ DOMAIN results' = 1 .. n + 1
      /\ results'[n + 1] = a /\ \A i \in 1 .. n : results'[i] = results[i]
  <2>1. results \in Seq(Nat) /\ a \in Nat
    BY <1>6 DEF ListingInv
  <2>2. QED
    BY <1>1, <1>3, <2>1, AppendProperties
<1>10. RootIs' /\ \A i \in DOMAIN root : ListedAs(i)' = ListedAs(i)
  BY <1>1, <1>2 DEF RootIs, ListedAs
<1>11. ASSUME NoneRefused' PROVE Laid'
  <2>1. NoneRefused /\ a # NULL
    <3>1. \A i \in 1 .. n + 1 : results'[i] # NULL
      BY <1>9, <1>11 DEF NoneRefused
    <3>2. \A i \in 1 .. n : i \in 1 .. n + 1
      BY <1>3
    <3>3. n + 1 \in 1 .. n + 1
      BY <1>3
    <3>4. QED
      BY <1>3, <1>9, <3>1, <3>2, <3>3 DEF NoneRefused
  <2>2. Laid /\ a = Base + used /\ used' = used + LineSize
    BY <1>2, <1>6, <2>1
  <2>3. used \in Nat /\ LineSize \in Nat /\ LineSize > 0 /\ Base \in Nat
    BY <1>2, ListingSizes
  <2> DEFINE B == Base + used
             L(i) == Len(ListedAs(i))
  <2>4. ASSUME NEW i \in 1 .. n
        PROVE  /\ results[i] \in Nat /\ results[i] + LineSize <= B
               /\ i = n => results[i] + LineSize = B
               /\ \A k \in 1 .. n : i < k => results[i] + LineSize <= results[k]
               /\ i + 1 \in 1 .. n => results[i + 1] = results[i] + LineSize
               /\ \A j \in 1 .. L(i) : memory[results[i] + j - 1] = ListedAs(i)[j]
               /\ i = n \/ L(i) < LineSize => memory[results[i] + L(i)] = 0
               /\ L(i) \in Nat /\ L(i) <= LineSize /\ ListedAs(i)' = ListedAs(i)
    BY <1>2, <1>3, <1>10, <2>2, ListedIs DEF Laid
  <2>5. B \in Nat /\ a = B /\ Base + used' = B + LineSize /\ B < Top /\ Top \in Nat
    BY <1>6, <2>2, <2>3, ListingSizes
  <2> HIDE DEF B
  <2>6. ASSUME NEW i \in 1 .. n
        PROVE  /\ \A j \in 1 .. L(i) : memory'[results[i] + j - 1] = ListedAs(i)[j]
               /\ L(i) < LineSize => memory'[results[i] + L(i)] = 0
    <3>1. \A j \in 1 .. L(i) : memory'[results[i] + j - 1] = ListedAs(i)[j]
      <4>1. TAKE j \in 1 .. L(i)
      <4>2. results[i] + j - 1 \in 0 .. Top /\ results[i] + j - 1 < a
        BY <2>3, <2>4, <2>5
      <4>3. QED
        BY <1>7, <2>4, <4>2
    <3>2. ASSUME L(i) < LineSize PROVE memory'[results[i] + L(i)] = 0
      <4>1. results[i] + L(i) \in 0 .. Top /\ results[i] + L(i) < a
        BY <2>3, <2>4, <2>5, <3>2
      <4>2. QED
        BY <1>7, <2>4, <3>2, <4>1
    <3>3. QED
      BY <3>1, <3>2
  <2>7. ASSUME NEW i, i = n + 1 PROVE ListedAs(i)' = s
    BY <1>3, <1>4, <1>10, <2>7
  <2>8. ASSUME NEW i \in 1 .. n + 1
        PROVE  /\ results'[i] + LineSize <= B + LineSize
               /\ i = n + 1 => results'[i] + LineSize = B + LineSize
               /\ \A k \in 1 .. n + 1 : i < k => results'[i] + LineSize <= results'[k]
               /\ i + 1 \in 1 .. n + 1 => results'[i + 1] = results'[i] + LineSize
               /\ \A j \in 1 .. Len(ListedAs(i)') : memory'[results'[i] + j - 1] = ListedAs(i)'[j]
               /\ i = n + 1 \/ Len(ListedAs(i)') < LineSize =>
                      memory'[results'[i] + Len(ListedAs(i)')] = 0
    <3>1. CASE i = n + 1
      <4>1. results'[i] = B
        BY <1>9, <2>5, <3>1
      <4>2. \A k \in 1 .. n + 1 : ~ (i < k)
        BY <1>3, <3>1
      <4>3. i + 1 \notin 1 .. n + 1
        BY <1>3, <3>1
      <4>4. ListedAs(i)' = s
        BY <2>7, <3>1
      <4>5. results'[i] + LineSize = B + LineSize /\ results'[i] + LineSize <= B + LineSize
        BY <2>3, <2>5, <4>1
      <4>6. QED
        BY <1>7, <2>5, <4>1, <4>2, <4>3, <4>4, <4>5
    <3>2. CASE i \in 1 .. n
      <4>1. results'[i] = results[i] /\ results[i] \in Nat
        BY <1>9, <2>4, <3>2
      <4>2. i # n + 1
        BY <1>3, <3>2
      <4>3. results'[i] + LineSize <= B + LineSize
        BY <2>3, <2>4, <2>5, <3>2, <4>1
      <4>4. ASSUME NEW k \in 1 .. n + 1, i < k PROVE results'[i] + LineSize <= results'[k]
        <5>1. CASE k = n + 1
          BY <1>9, <2>4, <2>5, <3>2, <4>1, <5>1
        <5>2. CASE k \in 1 .. n
          BY <1>9, <2>4, <3>2, <4>1, <4>4, <5>2
        <5>3. QED
          BY <1>3, <5>1, <5>2
      <4>5. results'[i + 1] = results'[i] + LineSize
        <5>1. CASE i = n
          BY <1>9, <2>4, <2>5, <3>2, <4>1, <5>1
        <5>2. CASE i + 1 \in 1 .. n
          BY <1>9, <2>4, <3>2, <4>1, <5>2
        <5>3. i = n \/ i + 1 \in 1 .. n
          <6>1. n \in Nat
            BY <1>3
          <6>2. QED
            BY <3>2, <6>1
        <5>4. QED
          BY <5>1, <5>2, <5>3
      <4>6. /\ \A j \in 1 .. L(i) : memory'[results'[i] + j - 1] = ListedAs(i)[j]
            /\ L(i) < LineSize => memory'[results'[i] + L(i)] = 0
        BY <2>6, <3>2, <4>1
      <4>7. ListedAs(i)' = ListedAs(i)
        BY <2>4, <3>2
      <4>8. QED
        BY <4>2, <4>3, <4>4, <4>5, <4>6, <4>7
    <3>3. QED
      BY <1>3, <3>1, <3>2
  <2>9. QED
    BY <1>9, <2>5, <2>8 DEF Laid
<1>12. ListShowsTheNames' /\ ListedNamesFind' /\ ReadShowsTheFile'
  BY <1>1, NothingToShow
<1>13. Len(results') <= Len(root')
  BY <1>1, <1>3, <1>9
<1>14. QED
  BY <1>1, <1>6, <1>8, <1>9, <1>10, <1>11, <1>12, <1>13 DEF ListingInv

LEMMA BeginsWith ==
    ASSUME NEW s \in Seq(Char), NEW B, NEW u \in Seq(B)
    PROVE  /\ SubSeq(s \o u, 1, Len(s)) = s
           /\ Len(s) <= Len(s \o u) /\ IsPrefix(s, s \o u)
<1> DEFINE S == B \cup Char
<1>1. s \in Seq(S) /\ u \in Seq(S)
  BY SeqMonotonic
<1> HIDE DEF S
<1>2. /\ s \o u \in Seq(S) /\ Len(s \o u) = Len(s) + Len(u) /\ Len(u) \in Nat /\ Len(s) \in Nat
      /\ \A i \in 1 .. Len(s) + Len(u) : (s \o u)[i] = IF i <= Len(s) THEN s[i] ELSE u[i - Len(s)]
  BY <1>1, ConcatProperties
<1>3. \A i \in 1 .. Len(s) : (s \o u)[i] = s[i] /\ s[i] \in S
  BY <1>1, <1>2, ElementOfSeq
<1> DEFINE v == SubSeq(s \o u, 1, Len(s))
           n == Len(s)
<1>4. n \in Int /\ 1 \in Int /\ \A i \in 1 .. n : (s \o u)[i] \in S
  BY <1>2, <1>3
<1>5. /\ v \in Seq(S) /\ Len(v) = IF 1 <= n THEN n - 1 + 1 ELSE 0
      /\ \A i \in 1 .. n - 1 + 1 : v[i] = (s \o u)[1 + i - 1]
  <2> HIDE DEF n
  <2>1. v = SubSeq(s \o u, 1, n)
    BY DEF n
  <2>2. QED
    BY <1>4, <2>1, SubSeqProperties
<1> HIDE DEF v
<1>6. Len(v) = Len(s) /\ \A i \in 1 .. Len(v) : v[i] = s[i]
  BY <1>2, <1>3, <1>5
<1>7. v = s
  BY <1>1, <1>5, <1>6, SeqEqual
<1>8. SubSeq(s, 1, Len(s)) = s
  BY SubSeqFull
<1>9. Len(s) <= Len(s \o u)
  BY <1>2
<1>10. QED
  BY <1>7, <1>8, <1>9 DEF v, IsPrefix

LEMMA ListShowsKeeps == ASSUME ListingInv, ListShows PROVE ListingInv'
<1> DEFINE n == Len(results)
           L(i) == Len(ListedAs(i))
<1>1. /\ command.op = "listing" /\ Len(root) = n
      /\ shown' = [i \in DOMAIN results |-> StringAt(memory, results[i])]
      /\ command' = [command EXCEPT !.op = "list"]
      /\ root' = root /\ memory' = memory /\ used' = used /\ results' = results
  BY DEF ListShows
<1>2. results \in Seq(Nat) /\ RootIs /\ memory[Top] = 0
  BY DEF ListingInv
<1>3. /\ command' \in [op : {"none", "listing", "list", "read", "not found"}, name : Typed \cup {<<>>}]
      /\ command'.op = "list"
  BY <1>1 DEF ListingInv
<1>4. n \in Nat /\ DOMAIN results = 1 .. n /\ DOMAIN root = 1 .. n
      /\ \A i \in 1 .. n : results[i] \in Nat
  <2>1. n \in Nat /\ DOMAIN results = 1 .. n /\ \A i \in 1 .. n : results[i] \in Nat
    BY <1>2, ElementOfSeq
  <2>2. DOMAIN root = 1 .. n
    BY <1>1, <1>2 DEF RootIs
  <2>3. QED
    BY <2>1, <2>2
<1>5. ASSUME NoneRefused, NEW i \in 1 .. n
      PROVE  /\ SubSeq(shown'[i], 1, L(i)) = ListedAs(i)
             /\ i = n \/ L(i) # LineSize => shown'[i] = ListedAs(i)
             /\ i < n /\ L(i) = LineSize => shown'[i] = ListedAs(i) \o shown'[i + 1]
  <2> DEFINE s == ListedAs(i)
             a == results[i]
             t == StringAt(memory, a + Len(s))
  <2>1. Laid
    BY <1>1, <1>5 DEF ListingInv
  <2>2. /\ a + LineSize <= Base + used /\ a \in Nat
        /\ i + 1 \in 1 .. n => results[i + 1] = a + LineSize
        /\ \A j \in 1 .. Len(s) : memory[a + j - 1] = s[j]
        /\ i = n \/ Len(s) < LineSize => memory[a + Len(s)] = 0
    BY <1>4, <2>1 DEF Laid
  <2>3. s \in Seq(Char) /\ Len(s) \in Nat /\ Len(s) <= LineSize
    BY <1>2, <1>4, ListedIs
  <2>4. used \in 0 .. Limit
    BY DEF ListingInv
  <2>5. a + Len(s) <= Top
    BY <2>2, <2>3, <2>4, ListingSizes
  <2>6. shown'[i] = StringAt(memory, a) /\ \A k \in 1 .. n : shown'[k] = StringAt(memory, results[k])
    BY <1>1, <1>4
  <2> HIDE DEF s, a, t
  <2>7. /\ StringAt(memory, a) = s \o t /\ t \in Seq({memory[b] : b \in 0 .. Top})
        /\ memory[a + Len(s)] = 0 => t = <<>>
    BY <1>2, <2>2, <2>3, <2>5, StringGoesOn DEF t
  <2>8. SubSeq(shown'[i], 1, Len(s)) = s
    BY <2>3, <2>6, <2>7, BeginsWith
  <2>9. ASSUME i = n \/ Len(s) # LineSize PROVE shown'[i] = s
    <3>1. Len(s) < LineSize \/ i = n
      BY <2>3, <2>9, ListingSizes
    <3>2. t = <<>>
      BY <2>2, <2>7, <3>1
    <3>3. QED
      BY <2>3, <2>6, <2>7, <3>2, ConcatEmptySeq
  <2>10. ASSUME i < n, Len(s) = LineSize PROVE shown'[i] = s \o shown'[i + 1]
    <3>1. i + 1 \in 1 .. n
      BY <1>4, <2>10
    <3>2. results[i + 1] = a + Len(s)
      BY <2>2, <2>10, <3>1
    <3>3. shown'[i + 1] = t
      BY <2>6, <3>1, <3>2 DEF t
    <3>4. QED
      BY <2>6, <2>7, <3>3
  <2>11. QED
    BY <2>8, <2>9, <2>10 DEF s
<1>6. DOMAIN shown' = 1 .. n /\ Len(shown') = n
  BY <1>1, <1>4
<1> HIDE DEF n
<1>7. ListShowsTheNames'
  <2>1. SUFFICES ASSUME NoneRefused'
                 PROVE  /\ Len(shown') = Len(root')
                        /\ \A i \in DOMAIN root' : Fits(root'[i].typed) =>
                             LET follows == i < Len(root') /\ Len(ToFilename(root'[i].name)) = LineSize
                                 listed == IF follows THEN SubSeq(shown'[i], 1, LineSize) ELSE shown'[i]
                             IN  /\ IsPrefix(Lower(root'[i].typed), listed)
                                 /\ \A j \in Len(root'[i].typed) + 1 .. Len(listed) : listed[j] = Space
                                 /\ follows => shown'[i] = listed \o shown'[i + 1]
    BY DEF ListShowsTheNames, NoneRefused
  <2>0. NoneRefused
    BY <1>1, <2>1 DEF NoneRefused
  <2>2. ASSUME NEW i \in DOMAIN root', Fits(root'[i].typed)
        PROVE  LET follows == i < Len(root') /\ Len(ToFilename(root'[i].name)) = LineSize
                   listed == IF follows THEN SubSeq(shown'[i], 1, LineSize) ELSE shown'[i]
               IN  /\ IsPrefix(Lower(root'[i].typed), listed)
                   /\ \A j \in Len(root'[i].typed) + 1 .. Len(listed) : listed[j] = Space
                   /\ follows => shown'[i] = listed \o shown'[i + 1]
    <3> DEFINE follows == i < Len(root') /\ Len(ToFilename(root'[i].name)) = LineSize
               listed == IF follows THEN SubSeq(shown'[i], 1, LineSize) ELSE shown'[i]
    <3>1. i \in 1 .. n /\ i \in DOMAIN root /\ Fits(root[i].typed)
      BY <1>1, <1>4, <2>2
    <3>0. follows <=> i < n /\ L(i) = LineSize
      BY <1>1 DEF ListedAs
    <3>2. listed = ListedAs(i)
      <4>1. CASE follows
        BY <1>5, <2>0, <3>0, <3>1, <4>1
      <4>2. CASE ~ follows
        <5>1. i = n \/ L(i) # LineSize
          BY <1>4, <3>0, <3>1, <4>2
        <5>2. QED
          BY <1>5, <2>0, <3>1, <4>2, <5>1
      <4>3. QED
        BY <4>1, <4>2
    <3>3. follows => shown'[i] = ListedAs(i) \o shown'[i + 1]
      BY <1>5, <2>0, <3>0, <3>1
    <3> HIDE DEF follows, listed
    <3>4. /\ IsPrefix(Lower(root[i].typed), listed)
          /\ \A j \in Len(root[i].typed) + 1 .. Len(listed) : listed[j] = Space
      BY <1>2, <3>1, <3>2, ListedIs
    <3>5. /\ IsPrefix(Lower(root'[i].typed), listed)
          /\ \A j \in Len(root'[i].typed) + 1 .. Len(listed) : listed[j] = Space
          /\ follows => shown'[i] = listed \o shown'[i + 1]
      BY <1>1, <3>2, <3>3, <3>4
    <3>6. QED
      BY <3>5 DEF follows, listed
  <2>3. QED
    BY <1>1, <1>6, <2>2
<1>8. ListedNamesFind'
  <2>1. SUFFICES ASSUME NoneRefused, NEW i \in DOMAIN root, IsWord(root[i].typed)
                 PROVE  NameToFind(FirstWord(SubSeq(shown'[i], 1, Len(ListedAs(i))))) = root[i].name
    BY <1>1 DEF ListedNamesFind, NoneRefused, ListedAs
  <2>2. SubSeq(shown'[i], 1, Len(ListedAs(i))) = ListedAs(i)
    BY <1>4, <1>5, <2>1
  <2>3. QED
    BY <1>2, <2>1, <2>2, ListedIs
<1>9. ReadShowsTheFile'
  BY <1>3 DEF ReadShowsTheFile
<1>10. RootIs' /\ (used \in 0 .. Limit)' /\ (memory[Top] = 0)' /\ results' \in Seq(Nat)
       /\ Len(results') <= Len(root')
  BY <1>1 DEF ListingInv, RootIs
<1>11. QED
  BY <1>3, <1>7, <1>8, <1>9, <1>10 DEF ListingInv

LEMMA ReadFileKeeps == ASSUME ListingInv, NEW name \in Typed, ReadFile(name) PROVE ListingInv'
<1>1. PICK i \in Holds(name) :
         /\ memory' = Stored(memory, arena_alloc(Len(root[i].text)), SectorOf(root[i].text))
         /\ used' = Taken(Len(root[i].text))
         /\ shown' = <<StringAt(memory', arena_alloc(Len(root[i].text)))>>
  BY DEF ReadFile
<1>2. /\ command' = [op |-> "read", name |-> name]
      /\ root' = root /\ results' = results
  BY DEF ReadFile
<1> DEFINE s == root[i].text
           a == arena_alloc(Len(s))
           t == StringAt(memory', a + Len(s))
<1>3. RootIs /\ memory[Top] = 0 /\ used \in Nat /\ used <= Limit
  <2>1. RootIs /\ memory[Top] = 0 /\ used \in 0 .. Limit
    BY DEF ListingInv
  <2>2. QED
    BY <2>1, ListingSizes
<1>4. i \in DOMAIN root /\ root[i].name = NameToFind(name)
  BY DEF Holds
<1>5. s \in Seq(Char) /\ Len(s) \in Nat /\ Len(s) <= SectorSize
  BY <1>3, <1>4, ListedIs
<1> HIDE DEF s
<1>6. a \in Nat /\ a + SectorSize < Top /\ used' \in 0 .. Limit
  <2>1. CASE Refused(Len(s))
    <3>1. a = 0 /\ used' = used
      BY <1>1, <2>1 DEF arena_alloc, Taken, NULL, s
    <3>2. QED
      BY <1>3, <3>1, ListingSizes
  <2>2. CASE ~ Refused(Len(s))
    <3>1. a = Base + used /\ used' = used + Len(s)
      BY <1>1, <2>2 DEF arena_alloc, Taken, s
    <3>2. used + Len(s) <= Limit
      BY <1>3, <1>5, <2>2, ListingSizes DEF Refused
    <3>3. QED
      BY <1>3, <1>5, <3>1, <3>2, ListingSizes
  <2>3. QED
    BY <2>1, <2>2
<1> HIDE DEF a
<1>7. memory' = Stored(memory, a, SectorOf(s)) /\ shown' = <<StringAt(memory', a)>>
  BY <1>1 DEF a, s
<1>8. \A b \in 0 .. Top :
         memory'[b] = IF b - a + 1 \in 1 .. SectorSize
                      THEN IF b - a + 1 \in 1 .. Len(s) THEN s[b - a + 1] ELSE 0
                      ELSE memory[b]
  BY <1>5, <1>7 DEF Stored, SectorOf
<1>9. memory'[Top] = 0
  <2>1. Top \in 0 .. Top /\ Top - a + 1 \notin 1 .. SectorSize
    BY <1>6, ListingSizes
  <2>2. QED
    BY <1>3, <1>8, <2>1
<1>10. \A j \in 1 .. Len(s) : memory'[a + j - 1] = s[j]
  <2>1. TAKE j \in 1 .. Len(s)
  <2>2. PICK b \in 0 .. Top : b = a + j - 1
    <3>1. a + j - 1 \in 0 .. Top
      BY <1>5, <1>6, <2>1, ListingSizes
    <3>2. QED
      BY <3>1
  <2>3. b - a + 1 = j /\ j \in 1 .. SectorSize
    BY <1>5, <1>6, <2>1, <2>2, ListingSizes
  <2>4. memory'[b] = s[j]
    BY <1>8, <2>1, <2>3
  <2>5. QED
    BY <2>2, <2>4
<1>11. ASSUME Len(s) < SectorSize PROVE memory'[a + Len(s)] = 0
  <2>1. PICK b \in 0 .. Top : b = a + Len(s)
    <3>1. a + Len(s) \in 0 .. Top
      BY <1>5, <1>6, ListingSizes
    <3>2. QED
      BY <3>1
  <2>2. b - a + 1 \in 1 .. SectorSize /\ b - a + 1 \notin 1 .. Len(s)
    BY <1>5, <1>6, <1>11, <2>1, ListingSizes
  <2>3. memory'[b] = 0
    BY <1>8, <2>2
  <2>4. QED
    BY <2>1, <2>3
<1>12. a + Len(s) <= Top
  BY <1>5, <1>6, ListingSizes
<1>13. /\ StringAt(memory', a) = s \o t /\ t \in Seq({memory'[b] : b \in 0 .. Top})
       /\ memory'[a + Len(s)] = 0 => t = <<>>
  BY <1>5, <1>6, <1>9, <1>10, <1>12, StringGoesOn
<1> HIDE DEF t
<1>14. shown'[1] = s \o t
  BY <1>7, <1>13
<1>15. IsPrefix(s, shown'[1])
  BY <1>5, <1>13, <1>14, BeginsWith
<1>16. Len(s) < SectorSize => shown'[1] = s
  BY <1>5, <1>11, <1>13, <1>14, ConcatEmptySeq
<1>17. \A j \in DOMAIN root : Lower(root[j].typed) = Lower(name) => Holds(name) = {j}
  <2>1. TAKE j \in DOMAIN root
  <2>2. ASSUME Lower(root[j].typed) = Lower(name) PROVE Holds(name) = {j}
    <3>1. root[j].typed \in Seq(Char) /\ name \in Seq(Char) /\ Dots(root[j].typed) # {}
      BY <1>3, ListingAssumption DEF RootIs
    <3>2. root[j].name = NameToFind(name)
      BY <1>3, <2>2, <3>1, SameName DEF RootIs
    <3>3. QED
      BY <1>3, <3>2 DEF RootIs, Holds
  <2>3. QED
    BY <2>2
<1>18. ReadShowsTheFile'
  <2>1. Holds(name)' = Holds(name)
    BY <1>2 DEF Holds
  <2>2. command'.op = "read" /\ command'.name = name
    BY <1>2
  <2>3. \E k \in Holds(name) : /\ IsPrefix(root[k].text, shown'[1])
                               /\ Len(root[k].text) < SectorSize => shown'[1] = root[k].text
    BY <1>1, <1>15, <1>16 DEF s
  <2>4. QED
    BY <1>2, <1>17, <2>1, <2>2, <2>3 DEF ReadShowsTheFile
<1>19. ListShowsTheNames' /\ ListedNamesFind'
  BY <1>2 DEF ListShowsTheNames, ListedNamesFind
<1>20. RootIs' /\ results' \in Seq(Nat) /\ Len(results') <= Len(root')
  BY <1>2 DEF ListingInv, RootIs
<1>21. QED
  BY <1>2, <1>6, <1>9, <1>18, <1>19, <1>20 DEF ListingInv

LEMMA ReadNotFoundKeeps ==
    ASSUME ListingInv, NEW name \in Typed, ReadNotFound(name) PROVE ListingInv'
<1>1. /\ Holds(name) = {} /\ command' = [op |-> "not found", name |-> name]
      /\ root' = root /\ memory' = memory /\ used' = used /\ results' = results
  BY DEF ReadNotFound
<1>2. RootIs
  BY DEF ListingInv
<1>3. \A j \in DOMAIN root : Lower(root[j].typed) # Lower(name)
  <2>1. SUFFICES ASSUME NEW j \in DOMAIN root, Lower(root[j].typed) = Lower(name) PROVE FALSE
    OBVIOUS
  <2>2. root[j].typed \in Seq(Char) /\ name \in Seq(Char) /\ Dots(root[j].typed) # {}
    BY <1>2, ListingAssumption DEF RootIs
  <2>3. root[j].name = NameToFind(name)
    BY <1>2, <2>1, <2>2, SameName DEF RootIs
  <2>4. QED
    BY <1>1, <2>3 DEF Holds
<1>4. ReadShowsTheFile'
  BY <1>1, <1>3 DEF ReadShowsTheFile
<1>5. ListShowsTheNames' /\ ListedNamesFind'
  BY <1>1 DEF ListShowsTheNames, ListedNamesFind
<1>6. RootIs' /\ results' \in Seq(Nat) /\ Len(results') <= Len(root')
      /\ (memory[Top] = 0)' /\ (used \in 0 .. Limit)'
  BY <1>1 DEF ListingInv, RootIs
<1>7. QED
  BY <1>1, <1>4, <1>5, <1>6 DEF ListingInv

LEMMA ListingInvariant == ListingSpec => []ListingInv
<1>1. ListingInit => ListingInv
  BY ListingInitial
<1>2. ListingInv /\ [ListingNext]_listingVars => ListingInv'
  <2> SUFFICES ASSUME ListingInv, [ListingNext]_listingVars PROVE ListingInv'
    OBVIOUS
  <2>1. CASE ListBegins
    BY <2>1, ListBeginsKeeps
  <2>2. CASE ListEntry
    BY <2>2, ListEntryKeeps
  <2>3. CASE ListShows
    BY <2>3, ListShowsKeeps
  <2>4. ASSUME NEW name \in Typed, ReadFile(name) PROVE ListingInv'
    BY <2>4, ReadFileKeeps
  <2>5. ASSUME NEW name \in Typed, ReadNotFound(name) PROVE ListingInv'
    BY <2>5, ReadNotFoundKeeps
  <2>6. CASE UNCHANGED listingVars
    <3>1. root' = root /\ memory' = memory /\ used' = used /\ results' = results
          /\ command' = command /\ shown' = shown
      BY <2>6 DEF listingVars
    <3>2. (ListShowsTheNames /\ ListedNamesFind /\ ReadShowsTheFile)'
      <4>1. ListShowsTheNames'
        BY <3>1 DEF ListingInv, ListShowsTheNames
      <4>2. ListedNamesFind'
        BY <3>1 DEF ListingInv, ListedNamesFind
      <4>3. ReadShowsTheFile'
        BY <3>1 DEF ListingInv, ReadShowsTheFile, Holds
      <4>4. QED
        BY <4>1, <4>2, <4>3
    <3>3. (command.op = "listing" /\ NoneRefused => Laid)'
      BY <3>1 DEF ListingInv, NoneRefused, Laid, ListedAs
    <3>4. QED
      BY <3>1, <3>2, <3>3 DEF ListingInv, RootIs
  <2>7. QED
    BY <2>1, <2>2, <2>3, <2>4, <2>5, <2>6 DEF ListingNext
<1>3. QED
  BY <1>1, <1>2, PTL DEF ListingSpec

\* list (shell.c 196-213) shows each file under the name it was created with, for any
\* sizes, names and memory, until the arena refuses.
THEOREM ListIsReadable == ListingSpec => []ListShowsTheNames
<1>1. ListingInv => ListShowsTheNames
  BY DEF ListingInv
<1>2. QED
  BY <1>1, ListingInvariant, PTL

\* A name as list shows it, typed after read, is found (fat_drive.c 87-122).
THEOREM ListedNamesCanBeRead == ListingSpec => []ListedNamesFind
<1>1. ListingInv => ListedNamesFind
  BY DEF ListingInv
<1>2. QED
  BY <1>1, ListingInvariant, PTL

\* read (shell.c 164-194) finds the file in upper and lower case and shows its text,
\* also where the arena gave it NULL.
THEOREM ReadsShowTheText == ListingSpec => []ReadShowsTheFile
<1>1. ListingInv => ReadShowsTheFile
  BY DEF ListingInv
<1>2. QED
  BY <1>1, ListingInvariant, PTL
=============================================================================
