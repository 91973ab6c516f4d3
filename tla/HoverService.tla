----------------------------- MODULE HoverService ------------------------------
(***************************************************************************)
(* What an element may rely on when it counts the RTB_MOUSE_ENTER and      *)
(* RTB_MOUSE_LEAVE events it gets: they alternate, an element is entered   *)
(* after the one around it and left before it (element.c: these events are *)
(* dispatched "up and down the tree").                                     *)
(***************************************************************************)
EXTENDS Integers

CONSTANTS
  Elem,   \* the elements the promise is made to
  Around  \* Around[e]: the element around e, if it is one of Elem

VARIABLE
  balance \* balance[e]: ENTER events minus LEAVE events

Init == balance = [e \in Elem |-> 0]

Enter(e) ==
  /\ balance[e] = 0
  /\ Around[e] \in Elem => balance[Around[e]] = 1
  /\ balance' = [balance EXCEPT ![e] = 1]

Leave(e) ==
  /\ balance[e] = 1
  /\ \A c \in Elem : Around[c] = e => balance[c] = 0
  /\ balance' = [balance EXCEPT ![e] = 0]

Next == \E e \in Elem : Enter(e) \/ Leave(e)

Spec == Init /\ [][Next]_balance
===============================================================================
