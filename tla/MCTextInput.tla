---------------------------- MODULE MCTextInput ----------------------------
\* One character of one byte, one of two, the newline; boxes of two or four glyphs.
EXTENDS TextInput
CONSTANTS a, e, n
MCChars == {a, e, n}
MCBytes == [c \in MCChars |-> IF c = e THEN 2 ELSE 1]
MCTexts == {<< >>, <<a>>, <<e, a>>, <<a, a>>, <<a, n, e>>, <<e, e, a, e>>}
=============================================================================
