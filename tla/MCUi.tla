-------------------------------- MODULE MCUi --------------------------------
(***************************************************************************)
(* Five boxes as kernel_main has them, edge to edge, on a small screen.    *)
(***************************************************************************)
EXTENDS Ui

\* Splash, Info, Shell, Tips and Files
MCBoxes ==
    <<[x |-> 0, y |-> 0, w |-> 3, h |-> 3], [x |-> 4, y |-> 0, w |-> 3, h |-> 3],
      [x |-> 0, y |-> 4, w |-> 7, h |-> 7], [x |-> 8, y |-> 0, w |-> 3, h |-> 3],
      [x |-> 8, y |-> 4, w |-> 3, h |-> 7]>>

MCTexts == <<[box |-> 1, x |-> 2, y |-> 1, length |-> 2],
             [box |-> 4, x |-> 1, y |-> 0, length |-> 3],
             [box |-> 5, x |-> 1, y |-> 0, length |-> 1]>>

\* nothing, a file's text in three rows, and three names, one of them empty and one
\* that goes on in the next row
MCAnswers == {<<>>, <<12>>, <<2, 0, 5>>}

\* bound: commands after a line that left its row
FewAfterWrapping == wrapped => commands < 2
=============================================================================
