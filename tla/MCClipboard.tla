------------------------------ MODULE MCClipboard ------------------------------
EXTENDS Clipboard

CONSTANTS a, b, c

Sizes == [t \in {a, b, c} |-> IF t = c THEN 9 ELSE 1]
===============================================================================
