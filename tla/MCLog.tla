-------------------------------- MODULE MCLog --------------------------------
\* Calls of every kind, up to three after one another, with up to two interrupts; texts of
\* handlers shorter and longer than those of the kernel, texts that do not fit the buffer
\* of their call, and groups so many that a line has no place for its text.
EXTENDS Log

Call(k, c, t) == [kind |-> k, cat |-> c, text |-> t]
Filling(n) == [k \in 1 .. n |-> Plain("=")]
MCCalls ==
    { Call("info", <<"K">>, <<Plain("="), Conversion(TRUE, 2, FALSE, "x", 10)>>),
      Call("group_begin", <<>>, <<Plain("g")>>), Call("group_end", <<>>, <<Plain("g")>>),
      Call("line_begin", <<>>, <<Plain("b")>>), Call("line_end", <<>>, <<Plain("b")>>),
      Call("line", <<>>, <<Conversion(FALSE, 0, FALSE, "d", 10)>>),
      Call("line", <<>>, <<Conversion(FALSE, 0, FALSE, "x", -25), Conversion(FALSE, 2, FALSE, "b", 3)>>),
      Call("info", <<"K">>, Filling(7)), Call("line_begin", <<>>, Filling(6)) }
MCHandlerCalls ==
    { [cat |-> <<"M">>, text |-> <<Plain(":"), Conversion(FALSE, 0, FALSE, "d", -70)>>],
      [cat |-> <<>>, text |-> <<Plain("T"), Plain("a"), Plain("b"), Plain(".")>>],
      [cat |-> <<>>, text |-> Filling(5) \o <<Conversion(FALSE, 0, FALSE, "x", 165)>>] }
MCAlphabet ==
    {"K", "=", "g", "b", "M", ":", "T", "a", ".", "[", "%", "0", "1", "3", "5", "c", "?"}
\* what the digits 7 and 9 of a negative number find is another string's zero
MCBeforeBaseChars == [k \in 1 .. 15 |-> IF k \in {7, 9} THEN "NUL" ELSE "?"]

\* Every conversion with every kind of width, alone and two in a row with plain
\* characters around them.
Numbers(values) ==
    { Conversion(zero, width, star, specifier, value) :
        zero \in BOOLEAN, width \in {0, 1, 3, 12}, star \in BOOLEAN,
        specifier \in {"d", "i", "x", "X", "p"}, value \in values }
Texts == { Conversion(FALSE, width, star, "s", value) :
        width \in {0, 1, 2, 12}, star \in BOOLEAN, value \in {<<>>, <<"a">>, <<"a", "b">>} }
Characters == { Conversion(FALSE, width, star, "c", "c") : width \in {0, 1, 3}, star \in BOOLEAN }
MCFormatCases ==
    << { <<c>> : c \in Numbers({0, 9, 10, 15, 16, 171, 255, 4095, 65535}) },
       { <<c>> : c \in Texts }, { <<c>> : c \in Characters },
       { <<Plain("["), c, Plain("%"), d, Plain("0")>> : c \in Texts, d \in Numbers({10}) },
       { <<c, d>> : c \in Numbers({16}), d \in Texts } >>
=============================================================================
