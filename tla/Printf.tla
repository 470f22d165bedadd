-------------------------------- MODULE Printf --------------------------------
(***************************************************************************)
(* k_vsprintf (printf.c): the text it writes for a format and arguments.   *)
(* A text is a sequence of one-character strings; "NUL" stands for the zero *)
(* that ends a C string.  Arguments are integers, characters and texts.    *)
(***************************************************************************)
EXTENDS Integers, SequencesExt

CONSTANT BeforeBaseChars    \* the bytes before the string base_chars, by their distance

base_chars ==
    <<"0", "1", "2", "3", "4", "5", "6", "7", "8", "9", "a", "b", "c", "d", "e", "f">>
UpperChars ==
    <<"0", "1", "2", "3", "4", "5", "6", "7", "8", "9", "A", "B", "C", "D", "E", "F">>
Decimal == ToSet(SubSeq(base_chars, 1, 10))
FlagChars == {"-", "+", "0", " ", "#"}
LengthChars == {"h", "l", "L"}
SpecifierChars == {"d", "i", "u", "o", "x", "X", "c", "s", "p", "%"}

CharAt(s, i) == IF i \in DOMAIN s THEN s[i] ELSE "NUL"
Times(n, c) == IF n <= 0 THEN <<>> ELSE [i \in 1 .. n |-> c]

\* the first place from i on whose character is not in the set
Skip(s, i, set) ==
    CHOOSE j \in i .. Len(s) + 1 :
        /\ CharAt(s, j) \notin set
        /\ \A k \in i .. j - 1 : s[k] \in set

\* parse_int: the value of a run of digits
DigitOf(c) == CHOOSE d \in 0 .. 9 : base_chars[d + 1] = c
parse_int(digits) ==
    LET value[n \in 0 .. Len(digits)] ==
            IF n = 0 THEN 0 ELSE (10 * value[n - 1]) + DigitOf(digits[n])
    IN  value[Len(digits)]

\* a width or a precision at place i: "*" is -1, none is 0; and where it ends
NumberOneDigit(s, i) ==
    IF CharAt(s, i) = "*" THEN <<-1, i + 1>>
    ELSE IF CharAt(s, i) \in Decimal THEN <<parse_int(<<s[i]>>), i + 1>> ELSE <<0, i>>
Number(s, i) ==
    LET end == Skip(s, i, Decimal)
    IN  IF CharAt(s, i) = "*" THEN <<-1, i + 1>> ELSE <<parse_int(SubSeq(s, i, end - 1)), end>>

\* fmt_spec_parse, at the "%" in place i
fmt_spec_parse(s, i) ==
    LET afterFlags == Skip(s, i + 1, FlagChars)
        width == Number(s, afterFlags)
        precision == IF CharAt(s, width[2]) = "." THEN Number(s, width[2] + 1)
                                                  ELSE <<0, width[2]>>
        at == IF CharAt(s, precision[2]) \in LengthChars THEN precision[2] + 1
                                                         ELSE precision[2]
        known == CharAt(s, at) \in SpecifierChars
    IN  [zero |-> "0" \in ToSet(SubSeq(s, i + 1, afterFlags - 1)),
         width |-> width[1], precision |-> precision[1],
         specifier |-> IF known THEN s[at] ELSE "NUL",
         next |-> IF known THEN at + 1 ELSE at]

\* stringify_base: digits by repeated division; the remainders of a negative
\* number are negative, and index what lies before base_chars (its case is kept).
\* This is what it gives when nothing formats a number meanwhile (see Overwritten).
stringify_base(value, base, uppercase) ==
    LET digit(v) == IF value < 0 /\ v > 0 THEN BeforeBaseChars[v]
                    ELSE IF uppercase THEN UpperChars[v + 1] ELSE base_chars[v + 1]
        size == IF value >= 0 THEN value ELSE -value
        digits[v \in 0 .. size] ==
            IF v < base THEN <<digit(v)>> ELSE Append(digits[v \div base], digit(v % base))
    IN  digits[size]

PadLeft(c, n, text) == Times(n - Len(text), c) \o text

\* The conversions, given the width and the argument.  With a width, %s cuts
\* what is longer; %p takes two places off its width for the 0x.
Convert(spec, width, arg) ==
    CASE spec.specifier = "c" -> PadLeft(" ", width, <<arg>>)
      [] spec.specifier = "s" ->
            IF width = 0 /\ spec.precision = 0 THEN arg
            ELSE LET to_print == IF width < Len(arg) THEN width ELSE Len(arg)
                 IN  PadLeft(" ", width, SubSeq(arg, 1, to_print))
      [] spec.specifier \in {"d", "i"} -> PadLeft(" ", width, stringify_base(arg, 10, FALSE))
      [] spec.specifier \in {"x", "X"} ->
            PadLeft(IF spec.zero THEN "0" ELSE " ", width,
                    stringify_base(arg, 16, spec.specifier = "X"))
      [] spec.specifier = "p" ->
            LET number == stringify_base(arg, 16, FALSE)
            IN  Times(width - Len(number) - 2, " ") \o <<"0", "x">> \o number

\* A turn of k_vsprintf's loop, as far as it is done: the place in the format, the
\* arguments that va_arg took, the text.  A specifier that is parsed but has no
\* conversion takes no argument.
Converted(spec, list, done) ==
    LET precise == spec.precision = -1 /\ spec.specifier # "c"
        stars == (IF spec.width = -1 THEN 1 ELSE 0) + (IF precise THEN 1 ELSE 0)
        width == IF spec.width = -1 THEN list[done.taken + 1] ELSE spec.width
        precision == IF precise THEN list[done.taken + stars] ELSE spec.precision
    IN  CASE spec.specifier = "%" ->
                [done EXCEPT !.at = spec.next, !.text = Append(@, "%")]
          [] spec.specifier \in {"NUL", "u", "o"} -> [done EXCEPT !.at = spec.next]
          [] OTHER ->
                [at |-> spec.next, taken |-> done.taken + stars + 1,
                 text |-> done.text \o Convert([spec EXCEPT !.precision = precision], width,
                                               list[done.taken + stars + 1])]

Turn(s, list, done) ==
    IF done.at > Len(s) THEN done
    ELSE IF s[done.at] # "%" THEN [done EXCEPT !.at = @ + 1, !.text = Append(@, s[done.at])]
    ELSE Converted(fmt_spec_parse(s, done.at), list, done)

Turns(s, list) ==
    LET after[n \in 0 .. Len(s)] ==
            IF n = 0 THEN [at |-> 1, taken |-> 0, text |-> <<>>]
            ELSE Turn(s, list, after[n - 1])
    IN  after

k_vsprintf(s, list) == Turns(s, list)[Len(s)].text

\* the digits of the number that the n-th turn converts, none if it is no number;
\* "after" is what Turns gives
DigitsOf(s, list, after, n) ==
    LET spec == fmt_spec_parse(s, after[n - 1].at)
    IN  IF CharAt(s, after[n - 1].at) = "%" /\ spec.specifier \in {"d", "i", "x", "X", "p"}
        THEN stringify_base(list[after[n].taken], IF spec.specifier \in {"d", "i"} THEN 10 ELSE 16,
                            spec.specifier = "X")
        ELSE <<>>

\* stringify_base keeps the digits, the last one first, in a static internal_buf:
\* what a call leaves at its beginning, each number over the one before
LeftInside(s, list) ==
    LET after == Turns(s, list)
        left[n \in 0 .. Len(s)] ==
            IF n = 0 THEN <<>>
            ELSE LET new == Reverse(DigitsOf(s, list, after, n))
                 IN  new \o SubSeq(left[n - 1], Len(new) + 1, Len(left[n - 1]))
    IN  left[Len(s)]

\* A handler that formats numbers while k digits of this one are in internal_buf,
\* stored and not yet copied or about to be, replaces the last k of them by what it
\* leaves there; "last" is the place of the last digit in the text.
Overwritten(text, last, k, left) ==
    [p \in DOMAIN text |-> IF last - p \in 0 .. k - 1 /\ last - p < Len(left)
                            THEN left[last - p + 1] ELSE text[p]]

-----------------------------------------------------------------------------
(***************************************************************************)
(* What the C standard says of the same calls.  A call is a sequence of    *)
(* plain characters and of conversions; its format is their text.          *)
(***************************************************************************)
Plain(c) == [plain |-> c]
Conversion(zero, width, star, specifier, value) ==
    [zero |-> zero, width |-> width, star |-> star, specifier |-> specifier, value |-> value]
IsPlain(p) == "plain" \in DOMAIN p

\* digits of n in a base, most significant first, by the powers of the base
Numeral(n, base, chars) ==
    LET power[k \in 0 .. n + 1] == IF k = 0 THEN 1 ELSE base * power[k - 1]
        count == CHOOSE k \in 1 .. n + 1 : n < power[k] /\ (k = 1 \/ power[k - 1] <= n)
    IN  [i \in 1 .. count |-> chars[((n \div power[count - i]) % base) + 1]]

Written(p) ==
    IF IsPlain(p) THEN IF p.plain = "%" THEN <<"%", "%">> ELSE <<p.plain>>
    ELSE <<"%">> \o (IF p.zero THEN <<"0">> ELSE <<>>)
            \o (IF p.star THEN <<"*">>
                ELSE IF p.width = 0 THEN <<>> ELSE Numeral(p.width, 10, base_chars))
            \o <<p.specifier>>
Passed(p) == IF IsPlain(p) THEN <<>> ELSE (IF p.star THEN <<p.width>> ELSE <<>>) \o <<p.value>>

\* the pieces of a call over an alphabet, and texts made of them
IsPiece(p, chars) ==
    IF IsPlain(p) THEN p.plain \in chars
    ELSE /\ p.zero \in BOOLEAN /\ p.star \in BOOLEAN /\ p.width \in Nat
         /\ \/ p.specifier = "c" /\ p.value \in chars
            \/ p.specifier = "s" /\ p.value \in Seq(chars)
            \/ p.specifier \in {"d", "i", "u", "x", "X", "p", "b"} /\ p.value \in Int
IsCall(call, chars) ==
    /\ Len(call) \in Nat /\ DOMAIN call = 1 .. Len(call)
    /\ \A i \in DOMAIN call : IsPiece(call[i], chars)

FormatOf(call) == FlattenSeq([i \in DOMAIN call |-> Written(call[i])])
ArgumentsOf(call) == FlattenSeq([i \in DOMAIN call |-> Passed(call[i])])
Formatted(call) == k_vsprintf(FormatOf(call), ArgumentsOf(call))
LeftBehind(call) == LeftInside(FormatOf(call), ArgumentsOf(call))

\* The texts that a call can give when a handler interrupts the conversion of a
\* number: of the one that begins right after the first "done" characters, or of any.
Garbled(call, text, begins, left) ==
    LET s == FormatOf(call)
        list == ArgumentsOf(call)
        after == Turns(s, list)
    IN  UNION { { Overwritten(text, Len(after[n].text), k, left) :
                    k \in 1 .. Len(DigitsOf(s, list, after, n)) } :
                n \in { m \in 1 .. Len(s) : Len(after[m - 1].text) \in begins } }

CBody(p) ==
    CASE p.specifier = "c" -> <<p.value>>
      [] p.specifier = "s" -> p.value
      [] p.specifier \in {"d", "i"} -> Numeral(p.value, 10, base_chars)
      [] p.specifier = "x" -> Numeral(p.value, 16, base_chars)
      [] p.specifier = "X" -> Numeral(p.value, 16, UpperChars)
      [] p.specifier = "p" -> <<"0", "x">> \o Numeral(p.value, 16, base_chars)
CText(p) ==
    IF IsPlain(p) THEN <<p.plain>>
    ELSE Times(p.width - Len(CBody(p)), IF p.zero THEN "0" ELSE " ") \o CBody(p)

\* the calls for which k_vsprintf is meant: numbers that are not negative, the
\* zero flag with %x only, strings that a width does not cut; not %u and %b
Supported(p) ==
    \/ IsPlain(p)
    \/ /\ p.specifier \notin {"u", "b"}
       /\ p.specifier \in {"d", "i", "x", "X", "p"} => p.value >= 0
       /\ p.zero => p.specifier \in {"x", "X"}
       /\ p.specifier = "s" => p.width = 0 \/ p.width >= Len(p.value)

TextOf(call) == FlattenSeq([i \in DOMAIN call |-> CText(call[i])])

AllSupported(call) == \A i \in DOMAIN call : Supported(call[i])
=============================================================================
