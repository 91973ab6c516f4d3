----------------------------- MODULE TextEditor -----------------------------
(***************************************************************************)
(* What a one line editor promises: the text is a sequence of characters   *)
(* and every edit happens at the position between two of them.  TextInput, *)
(* which edits bytes and remembers a count, is shown to implement it.      *)
(***************************************************************************)
EXTENDS Integers, Sequences

CONSTANT Chars
VARIABLES text, pos

\* A character is typed where the cursor is, and the cursor moves behind it.
Type(c) == /\ text' = SubSeq(text, 1, pos) \o <<c>> \o SubSeq(text, pos + 1, Len(text))
           /\ pos' = pos + 1

\* The character in front of the cursor goes; at the start nothing happens.
Backspace == /\ pos > 0
             /\ text' = SubSeq(text, 1, pos - 1) \o SubSeq(text, pos + 1, Len(text))
             /\ pos' = pos - 1

\* The character behind the cursor goes.
Delete == /\ pos < Len(text)
          /\ text' = SubSeq(text, 1, pos) \o SubSeq(text, pos + 2, Len(text))
          /\ pos' = pos

\* The cursor moves, and stays in the text.
Move == /\ text' = text
        /\ pos' \in {0, Len(text)} \cup ({pos - 1, pos + 1} \cap 0 .. Len(text))

\* The application replaces the text; the cursor goes to its end.
Replace == /\ text' \in Seq(Chars)
           /\ pos' = Len(text')

Init == text = << >> /\ pos = 0
Next == (\E c \in Chars : Type(c)) \/ Backspace \/ Delete \/ Move \/ Replace
=============================================================================
