------------------------------ MODULE MCTreeEdit ------------------------------
EXTENDS TreeEdit

CONSTANTS win, bay, box, knob

\* Two elements that are no surfaces are alike.
Alike == Permutations({box, knob})
===============================================================================
