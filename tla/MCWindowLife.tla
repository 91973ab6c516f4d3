------------------------------ MODULE MCWindowLife ------------------------------
EXTENDS WindowLife

CONSTANTS b1, b2, wheel, other

===============================================================================
