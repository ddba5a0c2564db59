-------------------------- MODULE MCStructuredEdit --------------------------
(* Constants for the TLC runs of StructuredEdit.                           *)
EXTENDS StructuredEdit

CONSTANTS a, b, dd, pp, pt

\* Up to three lines of one word, all with one kind of line end, the last one
\* with or without it, one file with both kinds, and some with a line that
\* begins with two dashes.
Ended(words, newline) ==
  FlattenSeq([k \in DOMAIN words |-> <<words[k], newline>>])
MCFiles ==
  LET rows == BoundedSeq({a, b}, 3) \ {<< >>}
  IN {Ended(w, LF) : w \in rows} \cup {Front(Ended(w, LF)) : w \in rows} \cup
     {Ended(w, CRLF) : w \in rows} \cup {<<a, LF, b, CRLF, a, LF>>} \cup
     {<<dd, LF, a, LF>>, <<a, LF, dd, LF>>, <<a, LF, dd, LF, b, LF>>}

\* Edits within a line, of whole lines, across lines and of line ends, and ones
\* that add a line that begins with two plus signs.
MCOldTexts == {<<a>>, <<b>>, <<LF>>, <<a, LF>>, <<a, b>>, <<LF, b>>, <<b, LF, a>>, <<dd>>}
MCNewTexts == {<< >>, <<a>>, <<b>>, <<LF>>, <<a, b>>, <<b, LF>>, <<a, LF, b>>,
                <<pp>>, <<pt>>}

\* Hunks that name lines 0, 1, 2 or 4: one line, or a kept or deleted line
\* and what follows it.
Line(tag, word) == [tag |-> tag, text |-> <<word>>]
MCHunks ==
  [start : {0, 1, 2, 4},
   lines : {<<Line(t, w)>> : t \in {" ", "-", "+"}, w \in {a, b}} \cup
           {<<Line(t[1], w), Line(t[2], v)>> :
              t \in {<<" ", "-">>, <<" ", "+">>, <<"-", "+">>}, w, v \in {a, b}}]
=============================================================================
