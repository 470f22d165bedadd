------------------------------ MODULE MCListing ------------------------------
\* Names of up to two and one characters: short and full ones, in both cases, with
\* an empty part, with two dots, with a blank, without a dot, and too long in either part.
EXTENDS Listing

a == 97
b == 98
A == 65
MCTyped ==
    { <<a, Dot, a>>, <<A, Dot, A>>, <<a, b, Dot, a>>, <<b, a, Dot, b>>, <<b, a, Dot>>,
      <<Dot, a>>, <<a, Dot, Dot>>, <<a, b, a, Dot, a>>, <<b, Dot, a, b>>, <<Dot>>, <<Space, b, Dot>>, <<a>>, <<>> }
MCTexts == {<<b>>, <<a, b, a>>}
=============================================================================
