---------------------------- MODULE MouseProofs -----------------------------
(***************************************************************************)
(* Proofs about Mouse, for every tree, every number of buttons and         *)
(* everything the points of the screen may lie on.                         *)
(***************************************************************************)
EXTENDS Mouse, FiniteSetTheorems, SequenceTheorems, WellFoundedInduction, TLAPS

-------------------------------------------------------------------------------
(***************************************************************************)
(* What is left to do of a motion: an ENTER or LEAVE that is on its way    *)
(* comes before what goes on with the walk through the tree, and that      *)
(* before the drag it gives rise to, or the entry of the window and the    *)
(* motion.                                                                 *)
(***************************************************************************)
Call == [op : OpName, e : Elem \cup {None}, f : Elem \cup {None},
         arg : EventType \cup Point \cup {"none"}, b : Button]

Hovers(c) == c.op \in {"dispatch", "dispatched"} /\ c.arg \in {"ENTER", "LEAVE"}

Rank(c) == IF Hovers(c) THEN 1
           ELSE IF c.op \in {"rise", "descend", "clear", "exit"} THEN 2
           ELSE IF c.op \in {"enter", "drag"} THEN 3
           ELSE IF c.op = "motion" THEN 4 ELSE 0

Ranked(s) == \A i \in 1 .. Len(s) : \A j \in i + 1 .. Len(s) :
               Rank(s[i]) > 0 /\ Rank(s[j]) > 0 => Rank(s[i]) < Rank(s[j])

\* The elements the pointer is in when it is in e, but for the roots.
Line(e) == IF e = None THEN {} ELSE ({e} \cup Above[e]) \ Roots

\* Is the pointer in x? During a walk that is where the walk has come to.
On(s, u, x) ==
  \/ \E c \in ToSet(s) : Rank(c) = 2 /\ (x \in Line(c.e) \/ x \in Line(c.f))
  \/ (\A c \in ToSet(s) : Rank(c) # 2) /\ x \in Line(u)

Pending(s, type, e) == \E c \in ToSet(s) : Hovers(c) /\ c.arg = type /\ c.e = e

\* The walk whose last step an ENTER or LEAVE tells of.
Leads(s, c) ==
  \E w \in ToSet(s) :
    /\ Rank(w) = 2
    /\ c.arg = "ENTER" => w.op = "descend" /\ w.e = c.e
    /\ c.arg = "LEAVE" => w.op # "descend" /\ w.e = Parent[c.e]

\* mouse_in_overlay tells which root what is underneath hangs from.
Under(u, o) == u \in {None, Win} \/ (u # Overlay /\ (o <=> RootOf(u) = Overlay))

WalkOK(c, o) ==
  /\ c.op \in {"rise", "exit"} => c.f = None
  /\ c.op = "rise" => (RootOf(c.e) = Overlay => o) /\ (o => c.e = Win \/ RootOf(c.e) = Overlay)
  /\ c.op = "descend" /\ c.f = None => c.e # Overlay /\ (o <=> RootOf(c.e) = Overlay)
  /\ c.op = "descend" /\ c.f # None => ~o /\ RootOf(c.e) = Overlay /\ RootOf(c.f) = Win
  /\ c.op = "clear" => ~o /\ RootOf(c.e) = Win /\ RootOf(c.f) = Overlay /\ c.f \notin {None, Overlay}

WalkInv ==
  /\ Ranked(calls)
  /\ \A c \in ToSet(calls) : Rank(c) = 2 => WalkOK(c, mouse_in_overlay)
  /\ (\A c \in ToSet(calls) : c.op \notin {"rise", "descend", "clear"}) =>
        Under(element_underneath, mouse_in_overlay)
  /\ \A c \in ToSet(calls) : Hovers(c) /\ c.e \notin Roots => Leads(calls, c)

\* mouse_in and the events sent, in the midst of a walk.
FlagInv ==
  \A x \in Elem \ Roots :
    /\ x \in mouse_in <=> On(calls, element_underneath, x) \/ x \in strayed
    /\ On(calls, element_underneath, x) => x \notin strayed
    /\ balance[x] = IF \/ Pending(calls, "LEAVE", x)
                       \/ On(calls, element_underneath, x) /\ ~Pending(calls, "ENTER", x)
                    THEN 1 ELSE 0

Dispatched(c, type) == c.op \in {"dispatch", "dispatched"} /\ c.arg = type

\* A press that is on its way up goes to elements the pointer is in.
DownInv ==
  \A c \in ToSet(calls) : Dispatched(c, "DOWN") =>
    c.e \in Line(element_underneath) \cup Roots /\ \A d \in ToSet(calls) : Rank(d) = 0

\* An element that the pointer has left looks it, or is about to be told.
LookInv ==
  /\ Pending(calls, "ENTER", Win) => Win \in mouse_in
  /\ \A c \in ToSet(calls) : c.op = "exit" /\ c.e = None => Win \notin mouse_in
  /\ \A e \in Elem \ (DuringDrag \cup {Overlay}) :
       \/ e \in mouse_in \/ state[e].look = "NORMAL"
       \/ e = Win /\ state[e].look = "ACTIVE"
       \/ Pending(calls, "LEAVE", e)

\* A button that is down becomes a drag before the pointer is anywhere else than
\* where it was pressed, or out.
DragsAt(s, b) == \E c \in ToSet(s) : c.op = "drag" /\ c.b <= b

ClickInv ==
  /\ \A b \in Button : button[b].state # "UP" => button[b].target \in Elem
  /\ \A b \in Button : button[b].state = "DOWN" =>
       /\ pressed[b] = button[b].target
       /\ DragsAt(calls, b) \/ Underneath \in {button[b].target, Win}
  /\ \A c \in ToSet(calls) :
       /\ c.op \in {"rise", "descend", "clear"} => \E d \in ToSet(calls) : d.op = "drag" /\ d.b = 0
       /\ c.op = "release" => button[c.b].state = "UP"
       /\ Dispatched(c, "DRAG_START") => button[c.b].state # "DOWN"

\* What the calls are about, and the events some of them send.
CallOK(c) ==
  /\ c.op \notin {"drag", "release", "exit"} => c.e \in Elem
  /\ c.op = "cross" => c.arg \in {"DRAG_ENTER", "DRAG_LEAVE"}
  /\ c.op \in {"deliver", "delivered"} => c.arg \in {"FOCUS", "UNFOCUS", "KEY"}

CallInv == \A c \in ToSet(calls) : CallOK(c)

MouseInv == TypeOK /\ CallInv /\ WalkInv /\ FlagInv /\ DownInv /\ LookInv /\ ClickInv

-------------------------------------------------------------------------------
(***************************************************************************)
(* Sequences of calls                                                      *)
(***************************************************************************)
LEMMA Members ==
  ASSUME NEW T, NEW s \in Seq(T)
  PROVE  /\ \A c : c \in ToSet(s) <=> \E i \in 1 .. Len(s) : s[i] = c
         /\ \A c \in ToSet(s) : c \in T
         /\ s = <<>> => \A c : c \notin ToSet(s)
<1>1. DOMAIN s = 1 .. Len(s) /\ Len(s) \in Nat /\ \A i \in 1 .. Len(s) : s[i] \in T
  BY ElementOfSeq, LenProperties
<1>. QED  BY <1>1 DEF ToSet

LEMMA Joined ==
  ASSUME NEW a \in Seq(Call), NEW s \in Seq(Call), NEW t, t = a \o s
  PROVE  /\ t \in Seq(Call)
         /\ \A c : c \in ToSet(t) <=> c \in ToSet(a) \/ c \in ToSet(s)
         /\ Ranked(t) <=> /\ Ranked(a) /\ Ranked(s)
                          /\ \A c \in ToSet(a) : \A d \in ToSet(s) :
                               Rank(c) > 0 /\ Rank(d) > 0 => Rank(c) < Rank(d)
<1>. DEFINE m == Len(a)
            n == Len(s)
<1>1. /\ t \in Seq(Call) /\ m \in Nat /\ n \in Nat /\ Len(t) = m + n
      /\ \A k \in 1 .. m + n : t[k] = IF k <= m THEN a[k] ELSE s[k - m]
  BY ConcatProperties, LenProperties
<1>2. /\ \A c : c \in ToSet(a) <=> \E i \in 1 .. m : a[i] = c
      /\ \A c : c \in ToSet(s) <=> \E i \in 1 .. n : s[i] = c
      /\ \A c : c \in ToSet(t) <=> \E i \in 1 .. Len(t) : t[i] = c
  BY <1>1, Members
<1>. HIDE DEF m, n
<1>3. /\ \A k \in 1 .. m : k \in 1 .. m + n /\ t[k] = a[k]
      /\ \A k \in 1 .. n : m + k \in 1 .. m + n /\ t[m + k] = s[k]
  <2>1. ASSUME NEW k \in 1 .. n PROVE m + k \in 1 .. m + n /\ t[m + k] = s[k]
    <3>1. m + k \in 1 .. m + n /\ ~(m + k <= m) /\ (m + k) - m = k
      BY <1>1
    <3>. QED  BY <1>1, <3>1
  <2>. QED  BY <1>1, <2>1
<1>4. \A k \in 1 .. m + n : k \in 1 .. m \/ (k - m \in 1 .. n /\ k = m + (k - m))
  BY <1>1
<1>5. ASSUME NEW c PROVE c \in ToSet(t) <=> c \in ToSet(a) \/ c \in ToSet(s)
  <2>1. ASSUME NEW k \in 1 .. m + n, t[k] = c PROVE c \in ToSet(a) \/ c \in ToSet(s)
    <3>1. CASE k \in 1 .. m
      <4>1. a[k] = c
        BY <1>3, <2>1, <3>1
      <4>. QED  BY <1>2, <3>1, <4>1
    <3>2. ASSUME NEW i \in 1 .. n, k = m + i PROVE c \in ToSet(s)
      <4>1. s[i] = c
        BY <1>3, <2>1, <3>2
      <4>. QED  BY <1>2, <4>1
    <3>. QED  BY <1>4, <3>1, <3>2
  <2>2. ASSUME NEW k \in 1 .. m, a[k] = c PROVE \E i \in 1 .. m + n : t[i] = c
    BY <1>3, <2>2
  <2>3. ASSUME NEW k \in 1 .. n, s[k] = c PROVE \E i \in 1 .. m + n : t[i] = c
    BY <1>3, <2>3
  <2>4. /\ c \in ToSet(t) <=> \E i \in 1 .. m + n : t[i] = c
        /\ c \in ToSet(a) <=> \E i \in 1 .. m : a[i] = c
        /\ c \in ToSet(s) <=> \E i \in 1 .. n : s[i] = c
    BY <1>1, <1>2
  <2>. QED  BY <2>1, <2>2, <2>3, <2>4
<1>6. ASSUME Ranked(t) PROVE Ranked(a) /\ Ranked(s)
  <2>1. \A i \in 1 .. m : \A j \in i + 1 .. m :
          i \in 1 .. m + n /\ j \in i + 1 .. m + n /\ t[i] = a[i] /\ t[j] = a[j]
    BY <1>1, <1>3
  <2>2. \A i \in 1 .. n : \A j \in i + 1 .. n :
          m + i \in 1 .. m + n /\ m + j \in (m + i) + 1 .. m + n /\ t[m + i] = s[i] /\ t[m + j] = s[j]
    BY <1>1, <1>3
  <2>3. Ranked(a)
    <3>. SUFFICES ASSUME NEW i \in 1 .. m, NEW j \in i + 1 .. m, Rank(a[i]) > 0, Rank(a[j]) > 0
                  PROVE  Rank(a[i]) < Rank(a[j])
      BY DEF Ranked, m
    <3>. QED  BY <1>1, <1>6, <2>1 DEF Ranked
  <2>4. Ranked(s)
    <3>. SUFFICES ASSUME NEW i \in 1 .. n, NEW j \in i + 1 .. n, Rank(s[i]) > 0, Rank(s[j]) > 0
                  PROVE  Rank(s[i]) < Rank(s[j])
      BY DEF Ranked, n
    <3>1. /\ m + i \in 1 .. Len(t) /\ m + j \in (m + i) + 1 .. Len(t)
          /\ t[m + i] = s[i] /\ t[m + j] = s[j]
      BY <1>1, <2>2
    <3>2. \A p \in 1 .. Len(t) : \A q \in p + 1 .. Len(t) :
            Rank(t[p]) > 0 /\ Rank(t[q]) > 0 => Rank(t[p]) < Rank(t[q])
      BY <1>6 DEF Ranked
    <3>. QED  BY <3>1, <3>2
  <2>. QED  BY <2>3, <2>4
<1>7. ASSUME Ranked(t), NEW c \in ToSet(a), NEW d \in ToSet(s), Rank(c) > 0, Rank(d) > 0
      PROVE  Rank(c) < Rank(d)
  <2>1. PICK i \in 1 .. m : a[i] = c
    BY <1>2
  <2>2. PICK j \in 1 .. n : s[j] = d
    BY <1>2
  <2>3. i \in 1 .. m + n /\ m + j \in i + 1 .. m + n /\ t[i] = c /\ t[m + j] = d
    BY <1>1, <1>3, <2>1, <2>2
  <2>. QED  BY <1>1, <1>7, <2>3 DEF Ranked
<1>8. ASSUME Ranked(a), Ranked(s),
             \A c \in ToSet(a) : \A d \in ToSet(s) : Rank(c) > 0 /\ Rank(d) > 0 => Rank(c) < Rank(d)
      PROVE  Ranked(t)
  <2>. SUFFICES ASSUME NEW i \in 1 .. m + n, NEW j \in i + 1 .. m + n, Rank(t[i]) > 0, Rank(t[j]) > 0
                PROVE  Rank(t[i]) < Rank(t[j])
    BY <1>1 DEF Ranked
  <2>0. j \in 1 .. m + n /\ i \in Int /\ j \in Int /\ i < j
    BY <1>1
  <2>1. CASE j \in 1 .. m
    <3>1. i \in 1 .. m /\ j \in i + 1 .. m /\ t[i] = a[i] /\ t[j] = a[j]
      BY <1>1, <1>3, <2>0, <2>1
    <3>. QED  BY <1>8, <3>1 DEF Ranked, m
  <2>2. CASE i \in 1 .. m /\ j \notin 1 .. m
    <3>1. j - m \in 1 .. n /\ j = m + (j - m)
      BY <1>4, <2>0, <2>2
    <3>2. t[i] = a[i] /\ t[j] = s[j - m]
      BY <1>3, <2>2, <3>1
    <3>3. t[i] \in ToSet(a) /\ t[j] \in ToSet(s)
      BY <1>2, <2>2, <3>1, <3>2
    <3>. QED  BY <1>8, <3>3
  <2>3. CASE i \notin 1 .. m /\ j \notin 1 .. m
    <3>1. i - m \in 1 .. n /\ i = m + (i - m) /\ j - m \in 1 .. n /\ j = m + (j - m)
      BY <1>4, <2>0, <2>3
    <3>2. t[i] = s[i - m] /\ t[j] = s[j - m]
      BY <1>3, <3>1
    <3>3. j - m \in (i - m) + 1 .. n
      BY <1>1, <2>0, <3>1
    <3>. QED  BY <1>8, <3>1, <3>2, <3>3 DEF Ranked, n
  <2>. QED  BY <2>1, <2>2, <2>3
<1>. QED  BY <1>1, <1>5, <1>6, <1>7, <1>8

\* A call before others, and the first of some.
LEMMA Put ==
  ASSUME NEW x \in Call, NEW s \in Seq(Call), NEW t, t = <<x>> \o s
  PROVE  /\ t \in Seq(Call) /\ t # <<>> /\ Head(t) = x /\ Tail(t) = s
         /\ \A c : c \in ToSet(t) <=> c = x \/ c \in ToSet(s)
         /\ Ranked(t) <=> /\ Ranked(s)
                          /\ \A d \in ToSet(s) : Rank(x) > 0 /\ Rank(d) > 0 => Rank(x) < Rank(d)
<1>1. <<x>> \in Seq(Call) /\ Len(<<x>>) = 1 /\ <<x>>[1] = x
  OBVIOUS
<1>2. \A c : c \in ToSet(<<x>>) <=> c = x
  <2>1. \A c : c \in ToSet(<<x>>) <=> \E i \in 1 .. Len(<<x>>) : <<x>>[i] = c
    BY <1>1, Members
  <2>. QED  BY <1>1, <2>1
<1>3. Ranked(<<x>>)
  BY <1>1 DEF Ranked
<1>4. /\ t \in Seq(Call)
      /\ \A c : c \in ToSet(t) <=> c \in ToSet(<<x>>) \/ c \in ToSet(s)
      /\ Ranked(t) <=> /\ Ranked(<<x>>) /\ Ranked(s)
                       /\ \A c \in ToSet(<<x>>) : \A d \in ToSet(s) :
                            Rank(c) > 0 /\ Rank(d) > 0 => Rank(c) < Rank(d)
  BY <1>1, Joined
<1>5. t # <<>> /\ Head(t) = x /\ Tail(t) = s
  BY ConcatProperties
<1>. QED  BY <1>2, <1>3, <1>4, <1>5

LEMMA Couple ==
  ASSUME NEW x \in Call, NEW y \in Call, NEW a, a = <<x, y>>
  PROVE  /\ a \in Seq(Call) /\ Len(a) = 2 /\ a[1] = x /\ a[2] = y
         /\ \A c : c \in ToSet(a) <=> c = x \/ c = y
         /\ Ranked(a) <=> (Rank(x) > 0 /\ Rank(y) > 0 => Rank(x) < Rank(y))
<1>1. a \in Seq(Call) /\ Len(a) = 2 /\ a[1] = x /\ a[2] = y
  OBVIOUS
<1>4. \A c : c \in ToSet(a) <=> c = x \/ c = y
  <2>1. \A c : c \in ToSet(a) <=> \E i \in 1 .. Len(a) : a[i] = c
    BY <1>1, Members
  <2>2. \A i : i \in 1 .. Len(a) <=> i \in {1, 2}
    BY <1>1
  <2>. QED  BY <1>1, <2>1, <2>2
<1>5. Ranked(a) <=> (Rank(x) > 0 /\ Rank(y) > 0 => Rank(x) < Rank(y))
  <2>1. \A i \in 1 .. Len(a) : \A j \in i + 1 .. Len(a) : i = 1 /\ j = 2
    BY <1>1
  <2>2. 1 \in 1 .. Len(a) /\ 2 \in 1 + 1 .. Len(a)
    BY <1>1
  <2>. QED  BY <1>1, <2>1, <2>2 DEF Ranked
<1>. QED  BY <1>1, <1>4, <1>5

LEMMA Taken ==
  ASSUME NEW s \in Seq(Call), s # <<>>
  PROVE  /\ Head(s) \in Call /\ Head(s) \in ToSet(s) /\ Tail(s) \in Seq(Call)
         /\ \A c : c \in ToSet(s) <=> c = Head(s) \/ c \in ToSet(Tail(s))
         /\ Ranked(s) <=> /\ Ranked(Tail(s))
                          /\ \A d \in ToSet(Tail(s)) :
                               Rank(Head(s)) > 0 /\ Rank(d) > 0 => Rank(Head(s)) < Rank(d)
<1>. DEFINE x == Head(s)
            r == Tail(s)
<1>1. x \in Call /\ r \in Seq(Call) /\ s = <<x>> \o r
  <2>1. x \in Call /\ r \in Seq(Call)
    BY HeadTailProperties
  <2>2. <<x>> \o r = s
    BY HeadTailProperties, <2>1
  <2>. QED  BY <2>1, <2>2
<1>. HIDE DEF x, r
<1>2. /\ \A c : c \in ToSet(s) <=> c = x \/ c \in ToSet(r)
      /\ Ranked(s) <=> Ranked(r) /\ \A d \in ToSet(r) : Rank(x) > 0 /\ Rank(d) > 0 => Rank(x) < Rank(d)
  BY <1>1, Put
<1>. QED  BY <1>1, <1>2 DEF x, r

-------------------------------------------------------------------------------
(***************************************************************************)
(* The tree                                                                *)
(***************************************************************************)
LEMMA NatMin ==
  ASSUME NEW T \in SUBSET Nat, T # {}
  PROVE  \E x \in T : \A y \in T : x <= y
<1>. DEFINE R == OpToRel(<, Nat)
<1>1. IsWellFoundedOn(R, Nat)
  BY NatLessThanWellFounded
<1>2. \A x, y \in Nat : x < y => << x, y >> \in R
  BY DEF OpToRel
<1>. HIDE DEF R
<1>3. PICK x \in T : \A y \in T : ~(<< y, x >> \in R)
  BY <1>1, WFMin
<1>4. \A y \in T : x \in Nat /\ y \in Nat /\ ~(y < x)
  BY <1>2, <1>3
<1>5. \A y \in T : x <= y
  BY <1>4
<1>. QED  BY <1>5

\* Of any elements there is one with as few elements around it as any.
LEMMA Outermost ==
  ASSUME NEW S \in SUBSET Elem, S # {}
  PROVE  \E e \in S : \A a \in S : a \notin Above[e]
<1>. DEFINE C(e) == Cardinality(Above[e])
            N == {C(e) : e \in S}
<1>1. \A e \in Elem : IsFiniteSet(Above[e]) /\ C(e) \in Nat /\ Above[e] \subseteq Elem /\ e \notin Above[e]
  <2>. SUFFICES ASSUME NEW e \in Elem
                PROVE  IsFiniteSet(Above[e]) /\ C(e) \in Nat /\ Above[e] \subseteq Elem /\ e \notin Above[e]
    OBVIOUS
  <2>1. Above[e] \subseteq Elem /\ IsFiniteSet(Elem) /\ e \notin Above[e]
    BY TreeAssumption
  <2>. QED  BY <2>1, FS_Subset, FS_CardinalityType
<1>2. N \in SUBSET Nat /\ N # {}
  BY <1>1
<1>3. PICK n \in N : \A k \in N : n <= k
  <2>. HIDE DEF N
  <2>. QED  BY <1>2, NatMin
<1>4. PICK e \in S : n = C(e)
  BY <1>3
<1>5. ASSUME NEW a \in S, a \in Above[e] PROVE FALSE
  <2>1. Above[a] \subseteq Above[e] /\ a \notin Above[a]
    BY <1>1, <1>5, TreeAssumption
  <2>2. C(a) <= C(e) /\ (C(a) = C(e) => Above[a] = Above[e])
    BY <1>1, <2>1, FS_Subset
  <2>3. C(a) < C(e)
    BY <1>1, <1>5, <2>1, <2>2
  <2>. QED  BY <1>1, <1>3, <1>4, <2>3
<1>. QED  BY <1>5

\* What is around an element hangs from the same root as the element.
LEMMA SameRoot ==
  ASSUME NEW e \in Elem, NEW x \in Above[e]
  PROVE  x \in Elem /\ RootOf(x) = RootOf(e)
<1>. DEFINE Odd(d) == Overlay \in Above[d] /\ \E y \in Above[d] : Overlay \notin {y} \cup Above[y]
            S == {d \in Elem : Odd(d)}
<1>1. x \in Elem /\ \A d \in Elem : Above[d] \subseteq Elem
  BY TreeAssumption
<1>2. S = {}
  <2>. SUFFICES ASSUME S # {} PROVE FALSE
    OBVIOUS
  <2>1. PICK d \in S : \A a \in S : a \notin Above[d]
    BY Outermost
  <2>2. PICK y \in Above[d] : Overlay \notin {y} \cup Above[y]
    BY <2>1
  <2>3. d \in Elem \ Roots /\ Overlay \in Above[d]
    BY <2>1, TreeAssumption
  <2>4. DEFINE p == Parent[d]
  <2>5. p \in Elem /\ Above[d] = {p} \cup Above[p]
    BY <2>3, TreeAssumption
  <2>6. y # p
    BY <2>2, <2>3, <2>5
  <2>7. y \in Above[p] /\ p # Overlay
    BY <2>5, <2>6, TreeAssumption DEF Roots
  <2>8. Overlay \in Above[p]
    BY <2>3, <2>5, <2>7
  <2>9. p \in S
    BY <2>2, <2>5, <2>7, <2>8
  <2>. QED  BY <2>1, <2>5, <2>9
<1>3. Above[x] \subseteq Above[e]
  BY TreeAssumption
<1>4. ASSUME Overlay \in Above[e] PROVE Overlay \in {x} \cup Above[x]
  BY <1>2, <1>4
<1>5. e # Overlay
  BY TreeAssumption DEF Roots
<1>. QED  BY <1>1, <1>3, <1>4, <1>5 DEF RootOf

LEMMA Ends ==
  /\ Win \in Elem /\ Overlay \in Elem /\ Win # Overlay /\ None \notin Elem
  /\ Line(None) = {} /\ Line(Win) = {} /\ Line(Overlay) = {}
  /\ RootOf(Win) = Win /\ RootOf(Overlay) = Overlay
  /\ Up(Win) = None /\ Up(Overlay) = Win
BY TreeAssumption, PointerAssumption DEF Line, RootOf, Up, Roots

\* An element and what is around it.
LEMMA Around ==
  ASSUME NEW e \in Elem \ Roots
  PROVE  /\ e \in Elem /\ e # None /\ Parent[e] \in Elem /\ Up(e) = Parent[e]
         /\ RootOf(Parent[e]) = RootOf(e)
         /\ e \in Line(e) /\ e \notin Line(Parent[e])
         /\ \A x : x \in Line(e) <=> x = e \/ x \in Line(Parent[e])
<1>1. e \in Elem /\ e # None /\ Parent[e] \in Elem /\ Parent[e] # None /\ Parent[e] \in Above[e]
  BY TreeAssumption, PointerAssumption
<1>2. Up(e) = Parent[e]
  BY DEF Up, Roots
<1>3. RootOf(Parent[e]) = RootOf(e)
  BY <1>1, SameRoot
<1>4. Above[e] = {Parent[e]} \cup Above[Parent[e]] /\ e \notin Above[e]
  BY TreeAssumption
<1>. QED  BY <1>1, <1>2, <1>3, <1>4 DEF Line

LEMMA OnLine ==
  ASSUME NEW e \in Elem, NEW x \in Line(e)
  PROVE  x \in Elem \ Roots /\ RootOf(x) = RootOf(e)
<1>1. e # None /\ (x = e \/ x \in Above[e]) /\ x \notin Roots
  BY PointerAssumption DEF Line
<1>. QED  BY <1>1, SameRoot

-------------------------------------------------------------------------------
(***************************************************************************)
(* What is left to do, and the walk in it                                  *)
(***************************************************************************)
LEMMA RankType == \A c : Rank(c) \in 0 .. 4 /\ (Rank(c) = 1 <=> Hovers(c))
BY DEF Rank

LEMMA Alone ==
  ASSUME NEW s \in Seq(Call), Ranked(s), NEW c \in ToSet(s), NEW d \in ToSet(s),
         Rank(c) > 0, Rank(c) = Rank(d)
  PROVE  c = d
<1>1. PICK i \in 1 .. Len(s) : s[i] = c
  BY Members
<1>2. PICK j \in 1 .. Len(s) : s[j] = d
  BY Members
<1>3. Len(s) \in Nat /\ Rank(c) \in Int /\ Rank(d) \in Int
  BY LenProperties, RankType
<1>4. ~(i < j)
  <2>. SUFFICES ASSUME i < j PROVE FALSE
    OBVIOUS
  <2>1. j \in i + 1 .. Len(s)
    BY <1>3
  <2>. QED  BY <1>1, <1>2, <1>3, <2>1 DEF Ranked
<1>5. ~(j < i)
  <2>. SUFFICES ASSUME j < i PROVE FALSE
    OBVIOUS
  <2>1. i \in j + 1 .. Len(s)
    BY <1>3
  <2>. QED  BY <1>1, <1>2, <1>3, <2>1 DEF Ranked
<1>6. i = j
  BY <1>3, <1>4, <1>5
<1>. QED  BY <1>1, <1>2, <1>6

\* Calls take the place of the one that makes them.
LEMMA Replaced ==
  ASSUME NEW s \in Seq(Call), s # <<>>, Ranked(s),
         NEW a \in Seq(Call), Ranked(a), \A c \in ToSet(a) : Rank(c) <= Rank(Head(s)),
         NEW t, t = a \o Tail(s)
  PROVE  /\ t \in Seq(Call) /\ Ranked(t)
         /\ \A c : c \in ToSet(t) <=> c \in ToSet(a) \/ c \in ToSet(Tail(s))
<1>. DEFINE x == Head(s)
            r == Tail(s)
<1>1. r \in Seq(Call) /\ Ranked(r) /\ \A d \in ToSet(r) : Rank(x) > 0 /\ Rank(d) > 0 => Rank(x) < Rank(d)
  BY Taken
<1>. HIDE DEF x, r
<1>2. \A v : v = a \o r => /\ v \in Seq(Call)
                           /\ \A c : c \in ToSet(v) <=> c \in ToSet(a) \/ c \in ToSet(r)
  BY <1>1, Joined
<1>3. \A v : v = a \o r => (Ranked(v) <=> /\ Ranked(a) /\ Ranked(r)
                                          /\ \A c \in ToSet(a) : \A d \in ToSet(r) :
                                               Rank(c) > 0 /\ Rank(d) > 0 => Rank(c) < Rank(d))
  BY <1>1, Joined
<1>4. ASSUME NEW c \in ToSet(a), NEW d \in ToSet(r), Rank(c) > 0, Rank(d) > 0
      PROVE  Rank(c) < Rank(d)
  <2>1. Rank(c) <= Rank(x)
    BY DEF x
  <2>2. Rank(c) \in Int /\ Rank(d) \in Int /\ Rank(x) \in Int
    BY RankType
  <2>3. Rank(x) > 0
    BY <1>4, <2>1, <2>2
  <2>. QED  BY <1>1, <1>4, <2>1, <2>2, <2>3
<1>5. t = a \o r
  BY DEF r
<1>6. t \in Seq(Call) /\ \A c : c \in ToSet(t) <=> c \in ToSet(a) \/ c \in ToSet(r)
  BY <1>2, <1>5
<1>7. Ranked(t)
  BY <1>1, <1>3, <1>4, <1>5
<1>. QED  BY <1>6, <1>7 DEF r

\* What a walk has come to, and what is to be told of it.
LEMMA OnWalk ==
  ASSUME NEW t, NEW w, Rank(w) = 2, \A c : c \in ToSet(t) /\ Rank(c) = 2 <=> c = w
  PROVE  \A u, x : On(t, u, x) <=> x \in Line(w.e) \/ x \in Line(w.f)
BY DEF On

LEMMA OffWalk ==
  ASSUME NEW t, \A c : c \in ToSet(t) => Rank(c) # 2
  PROVE  \A u, x : On(t, u, x) <=> x \in Line(u)
BY DEF On

LEMMA Untold ==
  ASSUME NEW t, \A c : c \in ToSet(t) => Rank(c) # 1
  PROVE  \A type, e : ~Pending(t, type, e)
BY RankType DEF Pending

LEMMA Told ==
  ASSUME NEW t, NEW h, \A c : c \in ToSet(t) /\ Rank(c) = 1 <=> c = h
  PROVE  \A type, e : Pending(t, type, e) <=> h.arg = type /\ h.e = e
BY RankType DEF Pending

\* In the midst of a walk.
LEMMA Walking ==
  ASSUME calls \in Seq(Call), calls # <<>>, Ranked(calls), Rank(Top) = 2
  PROVE  /\ Rest \in Seq(Call) /\ Ranked(Rest) /\ Top \in Call /\ Top \in ToSet(calls)
         /\ \A c : c \in ToSet(calls) <=> c = Top \/ c \in ToSet(Rest)
         /\ \A c : c \in ToSet(Rest) => Rank(c) = 0 \/ Rank(c) > 2
         /\ \A u, x : On(calls, u, x) <=> x \in Line(Top.e) \/ x \in Line(Top.f)
         /\ \A type, e : ~Pending(calls, type, e)
<1>1. /\ Rest \in Seq(Call) /\ Ranked(Rest) /\ Top \in Call /\ Top \in ToSet(calls)
      /\ \A c : c \in ToSet(calls) <=> c = Top \/ c \in ToSet(Rest)
      /\ \A c \in ToSet(Rest) : Rank(c) > 0 => Rank(Top) < Rank(c)
  BY Taken DEF Top, Rest
<1>2. \A c : c \in ToSet(Rest) => Rank(c) = 0 \/ Rank(c) > 2
  BY <1>1, RankType
<1>3. \A c : c \in ToSet(calls) /\ Rank(c) = 2 <=> c = Top
  BY <1>1, <1>2
<1>4. \A c : c \in ToSet(calls) => Rank(c) # 1
  BY <1>1, <1>2
<1>. QED  BY <1>1, <1>2, <1>3, <1>4, OnWalk, Untold

LEMMA OpType ==
  ASSUME NEW op \in OpName, NEW e \in Elem \cup {None}, NEW f \in Elem \cup {None},
         NEW arg \in EventType \cup Point \cup {"none"}, NEW b \in Button
  PROVE  Op(op, e, f, arg, b) \in Call
BY DEF Call, Op

LEMMA LeaveType ==
  ASSUME NEW e \in Elem
  PROVE  \E h, k \in Call :
           /\ LeaveCalls(e) = <<h, k>> /\ Hovers(h) /\ h.op = "dispatch" /\ h.arg = "LEAVE" /\ h.e = e
           /\ Rank(h) = 1 /\ Rank(k) = 0 /\ k.op = "cross" /\ k.arg = "DRAG_LEAVE" /\ k.e = e
<1>. DEFINE h == Dispatch(e, "LEAVE", 0)
            k == Op("cross", e, None, "DRAG_LEAVE", 0)
<1>1. 0 \in Button
  BY PointerAssumption DEF Button
<1>2. h \in Call /\ k \in Call
  BY <1>1 DEF Dispatch, OpType, Call, Op, OpName, EventType
<1>3. LeaveCalls(e) = <<h, k>>
  BY DEF LeaveCalls
<1>4. Hovers(h) /\ h.op = "dispatch" /\ h.arg = "LEAVE" /\ h.e = e /\ Rank(h) = 1
  BY DEF Dispatch, Op, Hovers, Rank
<1>5. Rank(k) = 0 /\ k.op = "cross" /\ k.arg = "DRAG_LEAVE" /\ k.e = e
  BY DEF Op, Rank, Hovers
<1>. QED  BY <1>2, <1>3, <1>4, <1>5

LEMMA EnterType ==
  ASSUME NEW e \in Elem
  PROVE  \E h, k \in Call :
           /\ EnterCalls(e) = <<h, k>> /\ Hovers(h) /\ h.op = "dispatch" /\ h.arg = "ENTER" /\ h.e = e
           /\ Rank(h) = 1 /\ Rank(k) = 0 /\ k.op = "cross" /\ k.arg = "DRAG_ENTER" /\ k.e = e
<1>. DEFINE h == Dispatch(e, "ENTER", 0)
            k == Op("cross", e, None, "DRAG_ENTER", 0)
<1>1. 0 \in Button
  BY PointerAssumption DEF Button
<1>2. h \in Call /\ k \in Call
  BY <1>1 DEF Dispatch, OpType, Call, Op, OpName, EventType
<1>3. EnterCalls(e) = <<h, k>>
  BY DEF EnterCalls
<1>4. Hovers(h) /\ h.op = "dispatch" /\ h.arg = "ENTER" /\ h.e = e /\ Rank(h) = 1
  BY DEF Dispatch, Op, Hovers, Rank
<1>5. Rank(k) = 0 /\ k.op = "cross" /\ k.arg = "DRAG_ENTER" /\ k.e = e
  BY DEF Op, Rank, Hovers
<1>. QED  BY <1>2, <1>3, <1>4, <1>5

Ahead(h, k, w, r, t) == t = <<h, k>> \o <<w>> \o r

\* An event is sent and the walk goes on.
LEMMA InFront ==
  ASSUME NEW r \in Seq(Call), Ranked(r), \A c : c \in ToSet(r) => Rank(c) = 0 \/ Rank(c) > 2,
         NEW h \in Call, NEW k \in Call, NEW w \in Call,
         Rank(h) = 1, Rank(k) = 0, Rank(w) = 2, NEW t, Ahead(h, k, w, r, t)
  PROVE  /\ t \in Seq(Call) /\ t # <<>> /\ Head(t) = h /\ Ranked(t)
         /\ \A c : c \in ToSet(t) <=> c = h \/ c = k \/ c = w \/ c \in ToSet(r)
         /\ \A c : c \in ToSet(t) /\ Rank(c) = 2 <=> c = w
         /\ \A c : c \in ToSet(t) /\ Rank(c) = 1 <=> c = h
<1>. DEFINE u == <<w>> \o r
            a == <<h, k>>
<1>1. /\ u \in Seq(Call)
      /\ \A c : c \in ToSet(u) <=> c = w \/ c \in ToSet(r)
      /\ Ranked(u) <=> Ranked(r) /\ \A d \in ToSet(r) : Rank(w) > 0 /\ Rank(d) > 0 => Rank(w) < Rank(d)
  BY Put
<1>2. a \in Seq(Call) /\ <<w>> \in Seq(Call) /\ t = a \o u
  <2>1. a \in Seq(Call) /\ <<w>> \in Seq(Call)
    OBVIOUS
  <2>. QED  BY <2>1, ConcatAssociative DEF Ahead
<1>. HIDE DEF u
<1>3. /\ \A c : c \in ToSet(a) <=> c = h \/ c = k
      /\ Ranked(a) <=> (Rank(h) > 0 /\ Rank(k) > 0 => Rank(h) < Rank(k))
  BY Couple
<1>10. Len(a) = 2 /\ a[1] = h
  BY Couple
<1>. HIDE DEF a
<1>4. /\ t \in Seq(Call)
      /\ \A c : c \in ToSet(t) <=> c \in ToSet(a) \/ c \in ToSet(u)
      /\ Ranked(t) <=> /\ Ranked(a) /\ Ranked(u)
                       /\ \A c \in ToSet(a) : \A d \in ToSet(u) :
                            Rank(c) > 0 /\ Rank(d) > 0 => Rank(c) < Rank(d)
  <2>1. \A v : v = a \o u => v \in Seq(Call)
    BY <1>1, <1>2, Joined
  <2>2. \A v : v = a \o u => \A c : c \in ToSet(v) <=> c \in ToSet(a) \/ c \in ToSet(u)
    BY <1>1, <1>2, Joined
  <2>3. \A v : v = a \o u =>
          (Ranked(v) <=> /\ Ranked(a) /\ Ranked(u)
                         /\ \A c \in ToSet(a) : \A d \in ToSet(u) :
                              Rank(c) > 0 /\ Rank(d) > 0 => Rank(c) < Rank(d))
    BY <1>1, <1>2, Joined
  <2>. QED  BY <1>2, <2>1, <2>2, <2>3
<1>5. \A c : c \in ToSet(t) <=> c = h \/ c = k \/ c = w \/ c \in ToSet(r)
  BY <1>1, <1>3, <1>4
<1>6. \A d \in ToSet(r) : Rank(d) > 0 => 1 < Rank(d) /\ 2 < Rank(d)
  BY RankType
<1>7. Ranked(u)
  BY <1>1, <1>6
<1>8. \A d \in ToSet(u) : Rank(d) > 0 => 1 < Rank(d)
  BY <1>1, <1>6
<1>9. Ranked(t)
  BY <1>3, <1>4, <1>7, <1>8
<1>11. t # <<>> /\ Head(t) = h
  BY <1>1, <1>2, <1>10, ConcatProperties
<1>12. \A c : c \in ToSet(t) /\ Rank(c) = 2 <=> c = w
  BY <1>5, RankType
<1>13. \A c : c \in ToSet(t) /\ Rank(c) = 1 <=> c = h
  <2>1. \A c : c \in ToSet(r) => Rank(c) # 1
    OBVIOUS
  <2>2. h \in ToSet(t)
    BY <1>5
  <2>3. ASSUME NEW c, c \in ToSet(t), Rank(c) = 1 PROVE c = h
    BY <1>5, <2>1, <2>3
  <2>. QED  BY <2>2, <2>3
<1>. QED  BY <1>4, <1>5, <1>9, <1>11, <1>12, <1>13

\* The members of calls', once a walk has been left to go on after an event.
Sent(h, k, w) ==
  /\ calls' \in Seq(Call) /\ calls' # <<>> /\ Head(calls') = h /\ Ranked(calls')
  /\ \A c : c \in ToSet(calls') <=> c = h \/ c = k \/ c = w \/ c \in ToSet(Rest)
  /\ \A c : c \in ToSet(calls') /\ Rank(c) = 2 <=> c = w
  /\ \A c : c \in ToSet(calls') /\ Rank(c) = 1 <=> c = h

\* The walk leaves an element.
LEMMA Forgets ==
  ASSUME TypeOK, WalkInv, FlagInv, calls # <<>>, Rank(Top) = 2, Top.op # "descend", Top.e \in Elem,
         NEW w \in Call, Rank(w) = 2, w.op = Top.op, w.e = Up(Top.e), w.f = Top.f,
         WalkOK(w, mouse_in_overlay),
         mouse_in' = mouse_in \ {Top.e}, calls' = LeaveCalls(Top.e) \o <<w>> \o Rest,
         element_underneath' = element_underneath, mouse_in_overlay' = mouse_in_overlay,
         strayed' = strayed, balance' = balance
  PROVE  /\ WalkInv' /\ FlagInv'
         /\ \E h, k \in Call :
              /\ Sent(h, k, w) /\ Rank(h) = 1 /\ Rank(k) = 0
              /\ h.op = "dispatch" /\ h.arg = "LEAVE" /\ h.e = Top.e
              /\ k.op = "cross" /\ k.arg = "DRAG_LEAVE" /\ k.e = Top.e
<1>. DEFINE e == Top.e
<1>1. calls \in Seq(Call) /\ Ranked(calls)
  BY DEF TypeOK, WalkInv, Call
<1>2. /\ Rest \in Seq(Call) /\ Ranked(Rest) /\ Top \in Call /\ Top \in ToSet(calls)
      /\ \A c : c \in ToSet(Rest) => Rank(c) = 0 \/ Rank(c) > 2
      /\ \A u, x : On(calls, u, x) <=> x \in Line(Top.e) \/ x \in Line(Top.f)
      /\ \A type, x : ~Pending(calls, type, x)
      /\ \A c : c \in ToSet(calls) <=> c = Top \/ c \in ToSet(Rest)
  BY <1>1, Walking
<1>3. WalkOK(Top, mouse_in_overlay)
  BY <1>2 DEF WalkInv
<1>4. PICK h \in Call, k \in Call :
        /\ LeaveCalls(e) = <<h, k>> /\ Hovers(h) /\ h.op = "dispatch" /\ h.arg = "LEAVE" /\ h.e = e
        /\ Rank(h) = 1 /\ Rank(k) = 0 /\ k.op = "cross" /\ k.arg = "DRAG_LEAVE" /\ k.e = e
  BY LeaveType
<1>5. Sent(h, k, w)
  <2>. DEFINE r == Rest
              t == calls'
  <2>1. /\ r \in Seq(Call) /\ Ranked(r) /\ \A c : c \in ToSet(r) => Rank(c) = 0 \/ Rank(c) > 2
        /\ Ahead(h, k, w, r, t)
    BY <1>2, <1>4 DEF Ahead
  <2>2. SUFFICES /\ t \in Seq(Call) /\ t # <<>> /\ Head(t) = h /\ Ranked(t)
                 /\ \A c : c \in ToSet(t) <=> c = h \/ c = k \/ c = w \/ c \in ToSet(r)
                 /\ \A c : c \in ToSet(t) /\ Rank(c) = 2 <=> c = w
                 /\ \A c : c \in ToSet(t) /\ Rank(c) = 1 <=> c = h
    BY DEF Sent
  <2>. HIDE DEF r, t
  <2>. QED  BY <1>4, <2>1, InFront
<1>6. /\ \A u, x : On(calls', u, x) <=> x \in Line(w.e) \/ x \in Line(w.f)
      /\ \A type, x : Pending(calls', type, x) <=> type = "LEAVE" /\ x = e
  <2>. DEFINE t == calls'
  <2>1. /\ \A c : c \in ToSet(t) /\ Rank(c) = 2 <=> c = w
        /\ \A c : c \in ToSet(t) /\ Rank(c) = 1 <=> c = h
    BY <1>5 DEF Sent
  <2>. HIDE DEF t
  <2>2. \A u, x : On(t, u, x) <=> x \in Line(w.e) \/ x \in Line(w.f)
    BY <2>1, OnWalk
  <2>3. \A type, x : Pending(t, type, x) <=> h.arg = type /\ h.e = x
    BY <2>1, Told
  <2>. QED  BY <1>4, <2>2, <2>3 DEF t
<1>7. Top.op \in {"rise", "clear", "exit"} /\ \A c : Rank(c) = 2 <=> c.op \in {"rise", "descend", "clear", "exit"}
  BY DEF Rank, Hovers
<1>8. e \notin Line(Top.f)
  <2>1. CASE Top.op = "clear"
    <3>1. Top.f \in Elem \cup {None}
      BY <1>2 DEF Call
    <3>. QED  BY <1>3, <2>1, <3>1, Ends, OnLine DEF WalkOK
  <2>2. CASE Top.op # "clear"
    BY <1>3, <1>7, <2>2, Ends DEF WalkOK
  <2>. QED  BY <2>1, <2>2
<1>9. /\ \A x \in Elem \ Roots : x \in Line(e) <=> x = e \/ x \in Line(Up(e))
      /\ e \notin Line(Up(e))
  <2>1. CASE e \in Roots
    BY <2>1, Ends DEF Roots
  <2>2. CASE e \notin Roots
    BY <2>2, Around
  <2>. QED  BY <2>1, <2>2
<1>10. WalkInv'
  <2>1. Ranked(calls') /\ \A c \in ToSet(calls') : Rank(c) = 2 => WalkOK(c, mouse_in_overlay')
    BY <1>5 DEF Sent
  <2>2. (\A c \in ToSet(calls') : c.op \notin {"rise", "descend", "clear"}) =>
          Under(element_underneath', mouse_in_overlay')
    <3>1. SUFFICES ASSUME \A c \in ToSet(calls') : c.op \notin {"rise", "descend", "clear"}
                   PROVE  Under(element_underneath, mouse_in_overlay)
      OBVIOUS
    <3>2. w \in ToSet(calls') /\ \A c \in ToSet(Rest) : c \in ToSet(calls')
      BY <1>5 DEF Sent
    <3>3. \A c \in ToSet(calls) : c.op \notin {"rise", "descend", "clear"}
      BY <1>2, <3>1, <3>2
    <3>. QED  BY <3>3 DEF WalkInv
  <2>3. ASSUME NEW c \in ToSet(calls'), Hovers(c), c.e \notin Roots PROVE Leads(calls', c)
    <3>1. c = h /\ w \in ToSet(calls')
      BY <1>5, <2>3, RankType DEF Sent
    <3>2. w.e = Parent[h.e]
      BY <1>4, <2>3, <3>1, Around
    <3>. QED  BY <1>4, <3>1, <3>2 DEF Leads
  <2>. QED  BY <2>1, <2>2, <2>3 DEF WalkInv
<1>11. FlagInv'
  <2>. SUFFICES ASSUME NEW x \in Elem \ Roots
                PROVE  /\ x \in mouse_in' <=> On(calls', element_underneath', x) \/ x \in strayed'
                       /\ On(calls', element_underneath', x) => x \notin strayed'
                       /\ balance'[x] = IF \/ Pending(calls', "LEAVE", x)
                                            \/ /\ On(calls', element_underneath', x)
                                               /\ ~Pending(calls', "ENTER", x)
                                         THEN 1 ELSE 0
    BY DEF FlagInv
  <2>1. /\ On(calls, element_underneath, x) <=> x \in Line(e) \/ x \in Line(Top.f)
        /\ On(calls', element_underneath', x) <=> x \in Line(Up(e)) \/ x \in Line(Top.f)
        /\ Pending(calls', "LEAVE", x) <=> x = e
        /\ ~Pending(calls', "ENTER", x) /\ ~Pending(calls, "ENTER", x) /\ ~Pending(calls, "LEAVE", x)
    BY <1>2, <1>6
  <2>2. /\ x \in mouse_in <=> On(calls, element_underneath, x) \/ x \in strayed
        /\ On(calls, element_underneath, x) => x \notin strayed
        /\ balance[x] = IF On(calls, element_underneath, x) THEN 1 ELSE 0
    BY <2>1 DEF FlagInv
  <2>3. x \in mouse_in' <=> x \in mouse_in /\ x # e
    OBVIOUS
  <2>. QED  BY <1>8, <1>9, <2>1, <2>2, <2>3
<1>. QED  BY <1>4, <1>5, <1>10, <1>11

-------------------------------------------------------------------------------
(***************************************************************************)
(* Steps that leave the walk alone, and what a step leaves of the rest     *)
(***************************************************************************)
\* The calls of the set new take the place of the one that is made.
Among(new) ==
  /\ calls' \in Seq(Call) /\ Ranked(calls')
  /\ \A c : c \in ToSet(calls') <=> c \in new \/ (calls # <<>> /\ c \in ToSet(Rest))

LEMMA Has ==
  ASSUME calls \in Seq(Call)
  PROVE  \A c : c \in ToSet(calls) <=> calls # <<>> /\ (c = Top \/ c \in ToSet(Rest))
<1>1. CASE calls = <<>>
  BY <1>1, Members
<1>2. CASE calls # <<>>
  BY <1>2, Taken DEF Top, Rest
<1>. QED  BY <1>1, <1>2

LEMMA SameWalk ==
  ASSUME WalkInv, FlagInv, Ranked(calls'),
         \A c : Rank(c) = 2 => (c \in ToSet(calls') <=> c \in ToSet(calls)),
         \A type, e : Pending(calls', type, e) <=> Pending(calls, type, e),
         UNCHANGED pointer, UNCHANGED balance
  PROVE  WalkInv' /\ FlagInv'
<1>1. /\ mouse_in' = mouse_in /\ element_underneath' = element_underneath
      /\ mouse_in_overlay' = mouse_in_overlay /\ strayed' = strayed /\ balance' = balance
  BY DEF pointer
<1>2. \A c : c.op \in {"rise", "descend", "clear"} /\ ~Hovers(c) => Rank(c) = 2
  BY DEF Rank
<1>3. \A c : Hovers(c) => c.op \notin {"rise", "descend", "clear"}
  BY DEF Hovers
<1>4. WalkInv'
  <2>1. \A c \in ToSet(calls') : Rank(c) = 2 => WalkOK(c, mouse_in_overlay')
    BY <1>1 DEF WalkInv
  <2>2. ASSUME \A c \in ToSet(calls') : c.op \notin {"rise", "descend", "clear"}
        PROVE  Under(element_underneath', mouse_in_overlay')
    <3>1. \A c \in ToSet(calls) : c.op \notin {"rise", "descend", "clear"}
      BY <1>2, <1>3, <2>2
    <3>. QED  BY <1>1, <3>1 DEF WalkInv
  <2>3. ASSUME NEW c \in ToSet(calls'), Hovers(c), c.e \notin Roots PROVE Leads(calls', c)
    <3>1. Pending(calls', c.arg, c.e)
      BY <2>3 DEF Pending
    <3>2. PICK d \in ToSet(calls) : Hovers(d) /\ d.arg = c.arg /\ d.e = c.e
      BY <3>1 DEF Pending
    <3>3. Leads(calls, d)
      BY <2>3, <3>2 DEF WalkInv
    <3>. QED  BY <3>2, <3>3 DEF Leads
  <2>. QED  BY <2>1, <2>2, <2>3 DEF WalkInv
<1>5. \A u, x : On(calls', u, x) <=> On(calls, u, x)
  BY DEF On
<1>6. FlagInv'
  BY <1>1, <1>5 DEF FlagInv
<1>. QED  BY <1>4, <1>6

LEMMA Aside ==
  ASSUME calls \in Seq(Call), WalkInv, FlagInv, UNCHANGED pointer, UNCHANGED balance,
         NEW new, Among(new), \A c \in new : Rank(c) \notin {1, 2},
         calls # <<>> => Rank(Top) \notin {1, 2}
  PROVE  WalkInv' /\ FlagInv'
<1>1. \A c : c \in ToSet(calls) <=> calls # <<>> /\ (c = Top \/ c \in ToSet(Rest))
  BY Has
<1>2. \A c : Rank(c) = 1 \/ Rank(c) = 2 => (c \in ToSet(calls') <=> c \in ToSet(calls))
  BY <1>1 DEF Among
<1>3. \A type, e : Pending(calls', type, e) <=> Pending(calls, type, e)
  BY <1>2, RankType DEF Pending
<1>. QED  BY <1>2, <1>3, SameWalk DEF Among

LEMMA CallFrame ==
  ASSUME calls \in Seq(Call), CallInv, NEW new, Among(new), \A c \in new : CallOK(c)
  PROVE  CallInv'
<1>1. \A c : c \in ToSet(calls) <=> calls # <<>> /\ (c = Top \/ c \in ToSet(Rest))
  BY Has
<1>. QED  BY <1>1 DEF CallInv, Among

LEMMA DownFrame ==
  ASSUME calls \in Seq(Call), DownInv, NEW new, Among(new), \A c \in new : ~Dispatched(c, "DOWN"),
         calls # <<>> /\ Rank(Top) = 0 =>
           element_underneath' = element_underneath /\ \A c \in new : Rank(c) = 0
  PROVE  DownInv'
<1>1. \A c : c \in ToSet(calls) <=> calls # <<>> /\ (c = Top \/ c \in ToSet(Rest))
  BY Has
<1>2. ASSUME NEW c \in ToSet(calls'), Dispatched(c, "DOWN")
      PROVE  /\ c.e \in Line(element_underneath') \cup Roots
             /\ \A d \in ToSet(calls') : Rank(d) = 0
  <2>1. c \in ToSet(calls) /\ calls # <<>>
    BY <1>1, <1>2 DEF Among
  <2>2. c.e \in Line(element_underneath) \cup Roots /\ \A d \in ToSet(calls) : Rank(d) = 0
    BY <1>2, <2>1 DEF DownInv
  <2>3. Rank(Top) = 0
    BY <1>1, <2>1, <2>2
  <2>. QED  BY <1>1, <2>1, <2>2, <2>3 DEF Among
<1>. QED  BY <1>2 DEF DownInv

LEMMA LookFrame ==
  ASSUME calls \in Seq(Call), LookInv, NEW new, Among(new), mouse_in' = mouse_in, state' = state,
         calls # <<>> => Rank(Top) # 1,
         \A c \in new : Rank(c) # 1 /\ ~(c.op = "exit" /\ c.e = None)
  PROVE  LookInv'
<1>1. \A c : c \in ToSet(calls) <=> calls # <<>> /\ (c = Top \/ c \in ToSet(Rest))
  BY Has
<1>2. \A c : Rank(c) = 1 => (c \in ToSet(calls') <=> c \in ToSet(calls))
  BY <1>1 DEF Among
<1>3. \A type, e : Pending(calls', type, e) <=> Pending(calls, type, e)
  BY <1>2, RankType DEF Pending
<1>4. \A c \in ToSet(calls') : c.op = "exit" /\ c.e = None => c \in ToSet(calls)
  BY <1>1 DEF Among
<1>. QED  BY <1>3, <1>4 DEF LookInv

LEMMA ClickFrame ==
  ASSUME calls \in Seq(Call), ClickInv, NEW new, Among(new),
         button' = button, pressed' = pressed, element_underneath' = element_underneath,
         calls # <<>> => Top.op # "drag",
         \A c \in new : /\ c.op \in {"rise", "descend", "clear"} =>
                             \/ calls # <<>> /\ Top.op \in {"rise", "descend", "clear"}
                             \/ \E d \in new : d.op = "drag" /\ d.b = 0
                        /\ c.op # "release" /\ ~Dispatched(c, "DRAG_START")
  PROVE  ClickInv'
<1>1. \A c : c \in ToSet(calls) <=> calls # <<>> /\ (c = Top \/ c \in ToSet(Rest))
  BY Has
<1>2. \A c : c \in ToSet(calls) /\ c.op = "drag" => c \in ToSet(calls')
  BY <1>1 DEF Among
<1>3. \A b \in Button : DragsAt(calls, b) => DragsAt(calls', b)
  BY <1>2 DEF DragsAt
<1>4. Underneath' = Underneath
  BY DEF Underneath
<1>5. ASSUME NEW c \in ToSet(calls')
      PROVE  /\ c.op \in {"rise", "descend", "clear"} => \E d \in ToSet(calls') : d.op = "drag" /\ d.b = 0
             /\ c.op = "release" => button[c.b].state = "UP"
             /\ Dispatched(c, "DRAG_START") => button[c.b].state # "DOWN"
  <2>1. CASE c \in ToSet(calls)
    BY <1>2, <2>1 DEF ClickInv
  <2>2. CASE c \in new
    <3>1. c.op # "release" /\ ~Dispatched(c, "DRAG_START")
      BY <2>2
    <3>2. ASSUME calls # <<>>, Top.op \in {"rise", "descend", "clear"}
          PROVE  \E d \in ToSet(calls') : d.op = "drag" /\ d.b = 0
      BY <1>1, <1>2, <3>2 DEF ClickInv
    <3>3. ASSUME \E d \in new : d.op = "drag" /\ d.b = 0
          PROVE  \E d \in ToSet(calls') : d.op = "drag" /\ d.b = 0
      BY <3>3 DEF Among
    <3>. QED  BY <2>2, <3>1, <3>2, <3>3
  <2>. QED  BY <1>1, <1>5, <2>1, <2>2 DEF Among
<1>. QED  BY <1>3, <1>4, <1>5 DEF ClickInv

\* The sequence a takes the place of the call that is made.
Goes(a) == calls' = IF calls = <<>> THEN a ELSE a \o Rest

LEMMA Going ==
  ASSUME calls \in Seq(Call), Ranked(calls), NEW a \in Seq(Call), Goes(a), Ranked(a),
         calls # <<>> => \A c \in ToSet(a) : Rank(c) <= Rank(Top)
  PROVE  Among(ToSet(a))
<1>1. CASE calls = <<>>
  BY <1>1 DEF Goes, Among
<1>2. CASE calls # <<>>
  <2>. DEFINE s == calls
              t == calls'
  <2>1. /\ s \in Seq(Call) /\ s # <<>> /\ Ranked(s) /\ t = a \o Tail(s)
        /\ \A c \in ToSet(a) : Rank(c) <= Rank(Head(s))
    BY <1>2 DEF Goes, Rest, Top
  <2>2. SUFFICES /\ t \in Seq(Call) /\ Ranked(t)
                 /\ \A c : c \in ToSet(t) <=> c \in ToSet(a) \/ c \in ToSet(Tail(s))
    BY <1>2 DEF Among, Rest
  <2>. HIDE DEF s, t
  <2>. QED  BY <2>1, Replaced
<1>. QED  BY <1>1, <1>2

LEMMA MakesNothing ==
  ASSUME calls \in Seq(Call), Ranked(calls), calls # <<>>, calls' = Rest
  PROVE  Among({})
<1>1. Rest \in Seq(Call) /\ Ranked(Rest)
  BY Taken DEF Rest
<1>. QED  BY <1>1 DEF Among

LEMMA MakesOne ==
  ASSUME calls \in Seq(Call), Ranked(calls), NEW x \in Call, Goes(<<x>>),
         calls # <<>> => Rank(x) <= Rank(Top)
  PROVE  Among({x})
<1>. DEFINE a == <<x>>
<1>1. a \in Seq(Call) /\ Len(a) = 1 /\ a[1] = x
  OBVIOUS
<1>. HIDE DEF a
<1>2. \A c : c \in ToSet(a) <=> c = x
  BY <1>1, Members
<1>3. Ranked(a)
  BY <1>1 DEF Ranked
<1>4. Among(ToSet(a))
  BY <1>1, <1>2, <1>3, Going DEF a
<1>. QED  BY <1>2, <1>4 DEF Among

LEMMA MakesTwo ==
  ASSUME calls \in Seq(Call), Ranked(calls), NEW x \in Call, NEW y \in Call, Goes(<<x, y>>),
         Rank(x) > 0 /\ Rank(y) > 0 => Rank(x) < Rank(y),
         calls # <<>> => Rank(x) <= Rank(Top) /\ Rank(y) <= Rank(Top)
  PROVE  Among({x, y})
<1>. DEFINE a == <<x, y>>
<1>1. /\ a \in Seq(Call)
      /\ \A c : c \in ToSet(a) <=> c = x \/ c = y
      /\ Ranked(a)
  BY Couple
<1>2. Goes(a)
  OBVIOUS
<1>. HIDE DEF a
<1>3. Among(ToSet(a))
  BY <1>1, <1>2, Going
<1>. QED  BY <1>1, <1>3 DEF Among

-------------------------------------------------------------------------------
(***************************************************************************)
(* The steps that leave the walk alone                                     *)
(***************************************************************************)
LEMMA Types ==
  ASSUME MouseInv
  PROVE  /\ calls \in Seq(Call) /\ Ranked(calls)
         /\ mouse_in \subseteq Elem /\ element_underneath \in Elem \cup {None} /\ Underneath \in Elem
         /\ calls # <<>> => Top \in Call /\ Top \in ToSet(calls) /\ CallOK(Top)
         /\ 0 \in Button /\ Button \subseteq Nat
<1>1. calls \in Seq(Call) /\ Ranked(calls) /\ CallInv
  BY DEF MouseInv, TypeOK, WalkInv, Call
<1>2. calls # <<>> => Top \in Call /\ Top \in ToSet(calls)
  BY <1>1, Taken DEF Top
<1>3. mouse_in \subseteq Elem /\ element_underneath \in Elem \cup {None} /\ Underneath \in Elem
  BY Ends DEF MouseInv, TypeOK, Underneath
<1>. QED  BY <1>1, <1>2, <1>3, PointerAssumption DEF CallInv, Button

LEMMA Plain ==
  ASSUME MouseInv, UNCHANGED <<pointer, button, state, history>>, focus' \in Elem \cup {None},
         NEW new, Among(new),
         calls # <<>> => Top.op # "drag" /\ Rank(Top) \notin {1, 2},
         \A c \in new : /\ CallOK(c) /\ Rank(c) \notin {1, 2} /\ c.op # "release"
                        /\ ~Dispatched(c, "DOWN") /\ ~Dispatched(c, "DRAG_START"),
         calls # <<>> /\ Rank(Top) = 0 => \A c \in new : Rank(c) = 0
  PROVE  MouseInv'
<1>1. calls \in Seq(Call) /\ calls' \in Seq(Call)
  BY Types DEF Among
<1>2. /\ mouse_in' = mouse_in /\ element_underneath' = element_underneath
      /\ mouse_in_overlay' = mouse_in_overlay /\ strayed' = strayed /\ balance' = balance
      /\ pressed' = pressed /\ button' = button /\ state' = state
  BY DEF pointer, history
<1>3. \A c \in new : c.op \notin {"rise", "descend", "clear", "exit"}
  BY DEF Rank, Hovers
<1>4. TypeOK'
  BY <1>1, <1>2 DEF MouseInv, TypeOK, Call
<1>5. WalkInv' /\ FlagInv'
  BY <1>1, Aside DEF MouseInv, history
<1>6. CallInv'
  BY <1>1, CallFrame DEF MouseInv
<1>7. DownInv'
  BY <1>1, <1>2, DownFrame DEF MouseInv
<1>8. LookInv'
  BY <1>1, <1>2, <1>3, LookFrame DEF MouseInv
<1>9. ClickInv'
  BY <1>1, <1>2, <1>3, ClickFrame DEF MouseInv
<1>. QED  BY <1>4, <1>5, <1>6, <1>7, <1>8, <1>9 DEF MouseInv

LEMMA DispatchFacts ==
  ASSUME NEW e \in Elem, NEW type \in EventType, NEW b \in Button, NEW x, x = Dispatch(e, type, b)
  PROVE  /\ x \in Call /\ x.op = "dispatch" /\ x.e = e /\ x.arg = type /\ x.b = b /\ CallOK(x)
         /\ Rank(x) = IF type \in {"ENTER", "LEAVE"} THEN 1 ELSE 0
         /\ \A t : Dispatched(x, t) <=> t = type
<1>1. /\ x \in Call /\ x.op = "dispatch" /\ x.e = e /\ x.arg = type /\ x.b = b
  BY DEF Dispatch, Op, Call, OpName
<1>. QED  BY <1>1 DEF CallOK, Rank, Hovers, Dispatched

LEMMA DeliverFacts ==
  ASSUME NEW e \in Elem, NEW type \in {"FOCUS", "UNFOCUS", "KEY"}, NEW x, x = Deliver(e, type)
  PROVE  /\ x \in Call /\ x.op = "deliver" /\ x.e = e /\ x.arg = type /\ CallOK(x)
         /\ Rank(x) = 0 /\ \A t : ~Dispatched(x, t)
<1>1. /\ x \in Call /\ x.op = "deliver" /\ x.e = e /\ x.arg = type
  BY PointerAssumption DEF Deliver, Op, Call, OpName, EventType, Button
<1>. QED  BY <1>1 DEF CallOK, Rank, Hovers, Dispatched

LEMMA DoFacts ==
  ASSUME NEW e \in Elem \cup {None}, NEW op \in {"focus", "unfocus", "setfocus", "enter", "exit", "drag"},
         e \in Elem \/ op \in {"exit", "drag"}, NEW x, x = Do(op, e)
  PROVE  /\ x \in Call /\ x.op = op /\ x.e = e /\ x.f = None /\ x.b = 0 /\ CallOK(x)
         /\ Rank(x) = (CASE op = "exit" -> 2 [] op \in {"enter", "drag"} -> 3 [] OTHER -> 0)
         /\ \A t : ~Dispatched(x, t)
<1>1. /\ x \in Call /\ x.op = op /\ x.e = e /\ x.f = None /\ x.b = 0
  BY PointerAssumption DEF Do, Op, Call, OpName, EventType, Button
<1>. QED  BY <1>1 DEF CallOK, Rank, Hovers, Dispatched

LEMMA AtFacts ==
  ASSUME NEW e \in Elem, NEW op \in {"motion", "rise", "descend"},
         NEW p \in EventType \cup Point \cup {"none"}, NEW x, x = At(op, e, p)
  PROVE  /\ x \in Call /\ x.op = op /\ x.e = e /\ x.f = None /\ CallOK(x)
         /\ Rank(x) = (IF op = "motion" THEN 4 ELSE 2)
         /\ \A t : ~Dispatched(x, t)
<1>1. /\ x \in Call /\ x.op = op /\ x.e = e /\ x.f = None
  BY PointerAssumption DEF At, Op, Call, OpName, Button
<1>. QED  BY <1>1 DEF CallOK, Rank, Hovers, Dispatched

LEMMA MotionStep ==
  ASSUME MouseInv, NEW p \in Point, Motion(p) PROVE MouseInv'
<1>. DEFINE x == At("motion", Win, p)
<1>1. x \in Call /\ x.op = "motion" /\ CallOK(x) /\ Rank(x) = 4 /\ \A t : ~Dispatched(x, t)
  BY Ends, AtFacts
<1>2. calls = <<>> /\ Goes(<<x>>) /\ UNCHANGED <<pointer, button, focus, state, history>>
  BY DEF Motion, Idle, Goes
<1>. HIDE DEF x
<1>3. Among({x})
  BY <1>1, <1>2, Types, MakesOne
<1>4. focus' \in Elem \cup {None}
  BY <1>2 DEF MouseInv, TypeOK
<1>. QED  BY <1>1, <1>2, <1>3, <1>4, Plain

LEMMA WheelStep ==
  ASSUME MouseInv, Wheel PROVE MouseInv'
<1>. DEFINE x == Dispatch(Underneath, "WHEEL", 0)
<1>1. /\ x \in Call /\ x.op = "dispatch" /\ CallOK(x) /\ Rank(x) = 0
      /\ \A t : Dispatched(x, t) <=> t = "WHEEL"
  BY Types, DispatchFacts DEF EventType
<1>2. calls = <<>> /\ Goes(<<x>>) /\ UNCHANGED <<pointer, button, focus, state, history>>
  BY DEF Wheel, Idle, Goes
<1>. HIDE DEF x
<1>3. Among({x})
  BY <1>1, <1>2, Types, MakesOne
<1>4. focus' \in Elem \cup {None}
  BY <1>2 DEF MouseInv, TypeOK
<1>. QED  BY <1>1, <1>2, <1>3, <1>4, Plain

LEMMA AppFocusStep ==
  ASSUME MouseInv, NEW e \in Focusable, AppFocus(e) PROVE MouseInv'
<1>. DEFINE x == Do("focus", e)
<1>1. /\ x \in Call /\ x.op = "focus" /\ CallOK(x) /\ Rank(x) = 0 /\ \A t : ~Dispatched(x, t)
  BY PointerAssumption, DoFacts
<1>2. calls = <<>> /\ Goes(<<x>>) /\ UNCHANGED <<pointer, button, focus, state, history>>
  BY DEF AppFocus, Idle, Goes
<1>. HIDE DEF x
<1>3. Among({x})
  BY <1>1, <1>2, Types, MakesOne
<1>4. focus' \in Elem \cup {None}
  BY <1>2 DEF MouseInv, TypeOK
<1>. QED  BY <1>1, <1>2, <1>3, <1>4, Plain

LEMMA KeyStep ==
  ASSUME MouseInv, Key PROVE MouseInv'
<1>. DEFINE x == Deliver(focus, "KEY")
            y == Deliver(Win, "KEY")
<1>1. /\ y \in Call /\ y.op = "deliver" /\ CallOK(y) /\ Rank(y) = 0 /\ \A t : ~Dispatched(y, t)
  BY Ends, DeliverFacts
<1>2. focus \in Elem \cup {None} /\ calls \in Seq(Call) /\ Ranked(calls)
  BY Types DEF MouseInv, TypeOK
<1>3. /\ calls = <<>> /\ UNCHANGED <<pointer, button, focus, state, history>>
      /\ calls' = <<y, y>> \/ (focus # None /\ (calls' = <<x, y>> \/ calls' = <<x, y, y>>))
  BY DEF Key, Idle
<1>4. focus # None => /\ x \in Call /\ x.op = "deliver" /\ CallOK(x) /\ Rank(x) = 0
                      /\ \A t : ~Dispatched(x, t)
  BY <1>2, DeliverFacts
<1>. HIDE DEF x, y
<1>5. CASE calls' = <<y, y>>
  <2>1. Among({y, y})
    BY <1>1, <1>2, <1>3, <1>5, MakesTwo DEF Goes
  <2>. QED  BY <1>1, <1>2, <1>3, <2>1, Plain
<1>6. CASE focus # None /\ calls' = <<x, y>>
  <2>1. Among({x, y})
    BY <1>1, <1>2, <1>3, <1>4, <1>6, MakesTwo DEF Goes
  <2>. QED  BY <1>1, <1>2, <1>3, <1>4, <1>6, <2>1, Plain
<1>7. CASE focus # None /\ calls' = <<x, y, y>>
  <2>1. /\ calls' \in Seq(Call) /\ Len(calls') = 3
        /\ calls'[1] = x /\ calls'[2] = y /\ calls'[3] = y
    BY <1>1, <1>4, <1>7
  <2>2. \A c : c \in ToSet(calls') <=> \E i \in 1 .. Len(calls') : calls'[i] = c
    BY <2>1, Members
  <2>3. \A i : i \in 1 .. Len(calls') <=> i \in {1, 2, 3}
    BY <2>1
  <2>4. \A c : c \in ToSet(calls') <=> c \in {x, y}
    BY <2>1, <2>2, <2>3
  <2>5. Ranked(calls')
    BY <1>1, <1>4, <1>7, <2>1, <2>3 DEF Ranked
  <2>6. Among({x, y})
    BY <1>3, <2>1, <2>4, <2>5 DEF Among
  <2>. QED  BY <1>1, <1>2, <1>3, <1>4, <1>7, <2>6, Plain
<1>. QED  BY <1>3, <1>5, <1>6, <1>7

LEMMA CrossStep ==
  ASSUME MouseInv, Cross PROVE MouseInv'
<1>. DEFINE S == {b \in Button : button[b].state = "DRAG"}
            n == Cardinality(S)
            d == SetToSeq(S)
            a == [i \in DOMAIN d |-> Dispatch(Top.e, Top.arg, d[i])]
<1>1. /\ calls # <<>> /\ Top.op = "cross" /\ calls' = a \o Rest
      /\ UNCHANGED <<pointer, button, focus, state, history>>
  BY DEF Cross, Running
<1>2. /\ calls \in Seq(Call) /\ Ranked(calls) /\ Top \in Call /\ Top.e \in Elem
      /\ Top.arg \in {"DRAG_ENTER", "DRAG_LEAVE"} /\ Rank(Top) = 0
  BY <1>1, Types DEF CallOK, Rank, Hovers
<1>3. d \in Seq(S)
  <2>1. IsFiniteSet(S)
    <3>1. IsFiniteSet(Button)
      BY PointerAssumption, FS_Interval DEF Button
    <3>. QED  BY <3>1, FS_Subset
  <2>2. PICK m \in Nat : ExistsBijection(1 .. m, S)
    BY <2>1, FS_NatBijection
  <2>3. m = n
    BY <2>1, <2>2, FS_CountingElements
  <2>4. \E f \in [1 .. n -> S] : IsInjective(f)
    <3>1. PICK f \in Bijection(1 .. m, S) : TRUE
      BY <2>2 DEF ExistsBijection
    <3>. QED  BY <2>3, <3>1 DEF Bijection, Injection, IsInjective
  <2>5. d \in [1 .. n -> S]
    BY <2>4 DEF SetToSeq
  <2>. QED  BY <2>2, <2>3, <2>5
<1>4. DOMAIN d = 1 .. Len(d) /\ Len(d) \in Nat /\ \A i \in DOMAIN d : d[i] \in Button
  BY <1>3, LenProperties, ElementOfSeq
<1>. HIDE DEF d
<1>5. ASSUME NEW i \in DOMAIN d
      PROVE  LET x == a[i] IN
             /\ x \in Call /\ x.op = "dispatch" /\ CallOK(x) /\ Rank(x) = 0
             /\ ~Dispatched(x, "DOWN") /\ ~Dispatched(x, "DRAG_START")
  <2>. DEFINE x == Dispatch(Top.e, Top.arg, d[i])
  <2>1. /\ x \in Call /\ x.op = "dispatch" /\ CallOK(x) /\ Rank(x) = 0
        /\ \A t : Dispatched(x, t) <=> t = Top.arg
    BY <1>2, <1>4, DispatchFacts DEF EventType
  <2>2. a[i] = x
    OBVIOUS
  <2>. QED  BY <1>2, <2>1, <2>2
<1>6. DOMAIN a = 1 .. Len(d) /\ a \in Seq(Call)
  BY <1>4, <1>5
<1>7. Len(a) \in Nat /\ DOMAIN a = 1 .. Len(a)
  BY <1>6, LenProperties
<1>. HIDE DEF a
<1>8. \A c : c \in ToSet(a) => /\ c.op = "dispatch" /\ CallOK(c) /\ Rank(c) = 0
                              /\ ~Dispatched(c, "DOWN") /\ ~Dispatched(c, "DRAG_START")
  <2>1. \A c : c \in ToSet(a) <=> \E i \in 1 .. Len(a) : a[i] = c
    BY <1>6, Members
  <2>. QED  BY <1>4, <1>5, <1>6, <1>7, <2>1
<1>9. Ranked(a)
  BY <1>4, <1>5, <1>6, <1>7 DEF Ranked
<1>10. Among(ToSet(a))
  BY <1>1, <1>2, <1>6, <1>8, <1>9, Going DEF Goes
<1>11. focus' \in Elem \cup {None}
  BY <1>1 DEF MouseInv, TypeOK
<1>. QED  BY <1>1, <1>2, <1>8, <1>10, <1>11, Plain

LEMMA FocusElementStep ==
  ASSUME MouseInv, FocusElement PROVE MouseInv'
<1>. DEFINE x == Deliver(Top.e, "FOCUS")
            y == Do("unfocus", Top.e)
<1>1. /\ calls # <<>> /\ Top.op = "focus" /\ UNCHANGED <<pointer, button, focus, state, history>>
      /\ calls' = <<>> \o Rest \/ calls' = <<x, y>> \o Rest
  BY DEF FocusElement, Running
<1>2. /\ calls \in Seq(Call) /\ Ranked(calls) /\ Top \in Call /\ Top.e \in Elem /\ Rank(Top) = 0
      /\ focus \in Elem \cup {None} /\ Rest \in Seq(Call)
  BY <1>1, Types, Taken DEF CallOK, Rank, Hovers, MouseInv, TypeOK, Rest
<1>3. /\ x \in Call /\ x.op = "deliver" /\ CallOK(x) /\ Rank(x) = 0 /\ \A t : ~Dispatched(x, t)
      /\ y \in Call /\ y.op = "unfocus" /\ CallOK(y) /\ Rank(y) = 0 /\ \A t : ~Dispatched(y, t)
  BY <1>2, DeliverFacts, DoFacts
<1>. HIDE DEF x, y
<1>4. CASE calls' = <<>> \o Rest
  <2>1. calls' = Rest
    BY <1>2, <1>4
  <2>2. Among({})
    BY <1>1, <1>2, <2>1, MakesNothing
  <2>. QED  BY <1>1, <1>2, <2>2, Plain
<1>5. CASE calls' = <<x, y>> \o Rest
  <2>1. Among({x, y})
    BY <1>1, <1>2, <1>3, <1>5, MakesTwo DEF Goes
  <2>. QED  BY <1>1, <1>2, <1>3, <2>1, Plain
<1>. QED  BY <1>1, <1>4, <1>5

LEMMA UnfocusStep ==
  ASSUME MouseInv, Unfocus PROVE MouseInv'
<1>. DEFINE x == Deliver(focus, "UNFOCUS")
            y == [Top EXCEPT !.op = "setfocus"]
<1>1. /\ calls # <<>> /\ Top.op = "unfocus" /\ UNCHANGED <<pointer, button, focus, state, history>>
      /\ \/ calls' = <<>> \o <<y>> \o Rest
         \/ focus # None /\ calls' = <<x>> \o <<y>> \o Rest
  BY DEF Unfocus, Running
<1>2. /\ calls \in Seq(Call) /\ Ranked(calls) /\ Top \in Call /\ Top.e \in Elem /\ Rank(Top) = 0
      /\ focus \in Elem \cup {None} /\ Rest \in Seq(Call)
  BY <1>1, Types, Taken DEF CallOK, Rank, Hovers, MouseInv, TypeOK, Rest
<1>3. focus # None => /\ x \in Call /\ x.op = "deliver" /\ CallOK(x) /\ Rank(x) = 0
                      /\ \A t : ~Dispatched(x, t)
  BY <1>2, DeliverFacts
<1>4. /\ y \in Call /\ y.op = "setfocus" /\ CallOK(y) /\ Rank(y) = 0 /\ \A t : ~Dispatched(y, t)
  <2>1. y \in Call /\ y.op = "setfocus" /\ y.e \in Elem
    BY <1>2 DEF Call, OpName
  <2>. QED  BY <2>1 DEF CallOK, Rank, Hovers, Dispatched
<1>. HIDE DEF x, y
<1>5. CASE calls' = <<>> \o <<y>> \o Rest
  <2>1. <<>> \o <<y>> = <<y>>
    BY <1>4
  <2>2. Goes(<<y>>)
    BY <1>1, <1>5, <2>1 DEF Goes
  <2>3. Among({y})
    BY <1>1, <1>2, <1>4, <2>2, MakesOne
  <2>. QED  BY <1>1, <1>2, <1>4, <2>3, Plain
<1>6. CASE focus # None /\ calls' = <<x>> \o <<y>> \o Rest
  <2>0. x \in Call /\ Rank(x) = 0
    BY <1>3, <1>6
  <2>1. <<x>> \o <<y>> = <<x, y>>
    <3>1. /\ <<x>> \in Seq(Call) /\ Len(<<x>>) = 1 /\ <<x>>[1] = x
          /\ <<y>> \in Seq(Call) /\ Len(<<y>>) = 1 /\ <<y>>[1] = y
          /\ <<x, y>> \in Seq(Call) /\ Len(<<x, y>>) = 2 /\ <<x, y>>[1] = x /\ <<x, y>>[2] = y
      BY <1>4, <2>0
    <3>. DEFINE a == <<x>>
                b == <<y>>
                c == <<x, y>>
                d == a \o b
    <3>. HIDE DEF a, b, c
    <3>2. d \in Seq(Call) /\ Len(d) = 2 /\ d[1] = x /\ d[2] = y
      BY <3>1, ConcatProperties DEF a, b
    <3>. HIDE DEF d
    <3>3. c \in Seq(Call) /\ Len(c) = 2 /\ c[1] = x /\ c[2] = y
      BY <3>1 DEF c
    <3>4. \A i \in 1 .. 2 : c[i] = d[i]
      BY <3>2, <3>3
    <3>5. c = d
      BY <3>2, <3>3, <3>4, SeqEqual
    <3>. QED  BY <3>5 DEF a, b, c, d
  <2>2. Goes(<<x, y>>)
    BY <1>1, <1>6, <2>1 DEF Goes
  <2>3. Among({x, y})
    BY <1>1, <1>2, <1>4, <2>0, <2>2, MakesTwo
  <2>. QED  BY <1>1, <1>2, <1>3, <1>4, <1>6, <2>3, Plain
<1>. QED  BY <1>1, <1>5, <1>6

LEMMA SetFocusStep ==
  ASSUME MouseInv, SetFocus PROVE MouseInv'
<1>1. /\ calls # <<>> /\ Top.op = "setfocus" /\ UNCHANGED <<pointer, button, state, history>>
      /\ calls' = Rest /\ focus' = Top.e
  BY DEF SetFocus, Running
<1>2. /\ calls \in Seq(Call) /\ Ranked(calls) /\ Top \in Call /\ Top.e \in Elem /\ Rank(Top) = 0
  BY <1>1, Types DEF CallOK, Rank, Hovers
<1>3. Among({})
  BY <1>1, <1>2, MakesNothing
<1>. QED  BY <1>1, <1>2, <1>3, Plain

-------------------------------------------------------------------------------
(***************************************************************************)
(* The walk begins                                                         *)
(***************************************************************************)
LEMMA Calm ==
  ASSUME calls \in Seq(Call), Ranked(calls), calls # <<>> => Rank(Top) > 2
  PROVE  /\ \A c : c \in ToSet(calls) => Rank(c) # 1 /\ Rank(c) # 2
         /\ \A u, x : On(calls, u, x) <=> x \in Line(u)
         /\ \A type, e : ~Pending(calls, type, e)
<1>1. \A c : c \in ToSet(calls) => Rank(c) # 1 /\ Rank(c) # 2
  <2>1. CASE calls = <<>>
    BY <2>1, Has
  <2>2. CASE calls # <<>>
    <3>1. /\ \A c : c \in ToSet(calls) => c = Top \/ c \in ToSet(Rest)
          /\ \A c \in ToSet(Rest) : Rank(c) > 0 => Rank(Top) < Rank(c)
      BY <2>2, Taken, RankType DEF Top, Rest
    <3>2. \A c : Rank(c) \in Int
      BY RankType
    <3>. QED  BY <2>2, <3>1, <3>2
  <2>. QED  BY <2>1, <2>2
<1>2. \A u, x : On(calls, u, x) <=> x \in Line(u)
  BY <1>1, OffWalk
<1>3. \A type, e : ~Pending(calls, type, e)
  BY <1>1, Untold
<1>. QED  BY <1>1, <1>2, <1>3

LEMMA Starts ==
  ASSUME calls \in Seq(Call), WalkInv, FlagInv, UNCHANGED pointer, UNCHANGED balance,
         calls # <<>> => Rank(Top) > 2,
         NEW new, Among(new), NEW w \in new, Rank(w) = 2, \A c \in new : Rank(c) \in {1, 2} => c = w,
         WalkOK(w, mouse_in_overlay),
         \A x : x \in Line(w.e) \/ x \in Line(w.f) <=> x \in Line(element_underneath)
  PROVE  WalkInv' /\ FlagInv'
<1>1. /\ \A c : c \in ToSet(calls) => Rank(c) # 1 /\ Rank(c) # 2
      /\ \A u, x : On(calls, u, x) <=> x \in Line(u)
      /\ \A type, e : ~Pending(calls, type, e)
  BY Calm DEF WalkInv
<1>2. \A c : c \in ToSet(calls) <=> calls # <<>> /\ (c = Top \/ c \in ToSet(Rest))
  BY Has
<1>3. /\ mouse_in' = mouse_in /\ element_underneath' = element_underneath
      /\ mouse_in_overlay' = mouse_in_overlay /\ strayed' = strayed /\ balance' = balance
  BY DEF pointer
<1>4. \A c : c \in ToSet(calls') <=> c \in new \/ (calls # <<>> /\ c \in ToSet(Rest))
  BY DEF Among
<1>5. \A c : c \in ToSet(calls') => Rank(c) # 1
  BY <1>1, <1>2, <1>4
<1>6. \A c : c \in ToSet(calls') /\ Rank(c) = 2 <=> c = w
  BY <1>1, <1>2, <1>4
<1>7. /\ \A u, x : On(calls', u, x) <=> x \in Line(w.e) \/ x \in Line(w.f)
      /\ \A type, x : ~Pending(calls', type, x)
  <2>. DEFINE t == calls'
  <2>1. /\ \A c : c \in ToSet(t) /\ Rank(c) = 2 <=> c = w
        /\ \A c : c \in ToSet(t) => Rank(c) # 1
    BY <1>5, <1>6
  <2>. HIDE DEF t
  <2>2. \A u, x : On(t, u, x) <=> x \in Line(w.e) \/ x \in Line(w.f)
    BY <2>1, OnWalk
  <2>3. \A type, x : ~Pending(t, type, x)
    BY <2>1, Untold
  <2>. QED  BY <2>2, <2>3 DEF t
<1>8. WalkInv'
  <2>1. Ranked(calls') /\ \A c \in ToSet(calls') : Rank(c) = 2 => WalkOK(c, mouse_in_overlay')
    BY <1>3, <1>6 DEF Among
  <2>2. Under(element_underneath, mouse_in_overlay)
    <3>1. \A c \in ToSet(calls) : c.op \notin {"rise", "descend", "clear"}
      BY <1>1 DEF Rank, Hovers
    <3>. QED  BY <3>1 DEF WalkInv
  <2>3. \A c \in ToSet(calls') : ~Hovers(c)
    BY <1>5, RankType
  <2>. QED  BY <1>3, <2>1, <2>2, <2>3 DEF WalkInv
<1>9. FlagInv'
  BY <1>1, <1>3, <1>7 DEF FlagInv
<1>. QED  BY <1>8, <1>9

LEMMA Beneath ==
  ASSUME MouseInv, \A c \in ToSet(calls) : c.op \notin {"rise", "descend", "clear"}
  PROVE  /\ Under(element_underneath, mouse_in_overlay)
         /\ RootOf(Underneath) = Overlay <=> mouse_in_overlay /\ Underneath # Win
         /\ mouse_in_overlay => Underneath = Win \/ RootOf(Underneath) = Overlay
         /\ \A x : x \in Line(Underneath) <=> x \in Line(element_underneath)
<1>1. Under(element_underneath, mouse_in_overlay)
  BY DEF MouseInv, WalkInv
<1>. QED  BY <1>1, Ends DEF Under, Underneath

LEMMA MotionBodyStep ==
  ASSUME MouseInv, MotionBody PROVE MouseInv'
<1>. DEFINE x == At("rise", Underneath, Top.arg)
            y == Do("drag", None)
            z == Do("enter", Win)
<1>1. /\ calls # <<>> /\ Top.op = "motion" /\ UNCHANGED <<pointer, button, focus, state, history>>
      /\ \/ calls' = <<x, y>> \o Rest
         \/ calls' = <<z, Top>> \o Rest
         \/ calls' = Rest
  BY DEF MotionBody, Running
<1>2. /\ calls \in Seq(Call) /\ Ranked(calls) /\ Top \in Call /\ CallOK(Top) /\ Rank(Top) = 4
      /\ Underneath \in Elem /\ ~Hovers(Top) /\ \A t : ~Dispatched(Top, t)
  BY <1>1, Types DEF CallOK, Rank, Hovers, Dispatched
<1>3. /\ x \in Call /\ x.op = "rise" /\ x.e = Underneath /\ x.f = None /\ CallOK(x)
      /\ Rank(x) = 2 /\ \A t : ~Dispatched(x, t)
  BY <1>2, AtFacts DEF Call
<1>4. /\ y \in Call /\ y.op = "drag" /\ y.b = 0 /\ CallOK(y) /\ Rank(y) = 3 /\ \A t : ~Dispatched(y, t)
  BY DoFacts
<1>5. /\ z \in Call /\ z.op = "enter" /\ CallOK(z) /\ Rank(z) = 3 /\ \A t : ~Dispatched(z, t)
  BY Ends, DoFacts
<1>6. focus' \in Elem \cup {None}
  BY <1>1 DEF MouseInv, TypeOK
<1>. HIDE DEF x, y, z
<1>7. CASE calls' = Rest
  <2>1. Among({})
    BY <1>1, <1>2, <1>7, MakesNothing
  <2>. QED  BY <1>1, <1>2, <1>6, <2>1, Plain
<1>8. CASE calls' = <<z, Top>> \o Rest
  <2>1. Among({z, Top})
    BY <1>1, <1>2, <1>5, <1>8, MakesTwo DEF Goes
  <2>. QED  BY <1>1, <1>2, <1>5, <1>6, <2>1, Plain
<1>9. CASE calls' = <<x, y>> \o Rest
  <2>. DEFINE new == {x, y}
  <2>1. Among(new)
    BY <1>1, <1>2, <1>3, <1>4, <1>9, MakesTwo DEF Goes
  <2>2. /\ \A c \in new : /\ CallOK(c) /\ Rank(c) # 1 /\ c.op \notin {"release", "exit"}
                          /\ ~Dispatched(c, "DOWN") /\ ~Dispatched(c, "DRAG_START")
        /\ x \in new /\ \A c \in new : Rank(c) \in {1, 2} => c = x
        /\ \E d \in new : d.op = "drag" /\ d.b = 0
    BY <1>3, <1>4
  <2>. HIDE DEF new
  <2>3. /\ mouse_in' = mouse_in /\ element_underneath' = element_underneath
        /\ mouse_in_overlay' = mouse_in_overlay /\ strayed' = strayed /\ balance' = balance
        /\ pressed' = pressed /\ button' = button /\ state' = state /\ focus' = focus
    BY <1>1 DEF pointer, history
  <2>4. \A c \in ToSet(calls) : c.op \notin {"rise", "descend", "clear"}
    BY <1>1, <1>2, Calm DEF Rank, Hovers
  <2>5. WalkOK(x, mouse_in_overlay) /\ \A e : e \in Line(x.e) \/ e \in Line(x.f) <=> e \in Line(element_underneath)
    BY <1>3, <2>4, Beneath, Ends DEF WalkOK
  <2>6. WalkInv' /\ FlagInv'
    BY <1>1, <1>2, <1>3, <2>1, <2>2, <2>3, <2>5, Starts DEF MouseInv
  <2>7. TypeOK'
    BY <2>1, <2>3 DEF MouseInv, TypeOK, Call, Among
  <2>8. CallInv'
    BY <1>2, <2>1, <2>2, CallFrame DEF MouseInv
  <2>9. DownInv'
    BY <1>2, <2>1, <2>2, DownFrame DEF MouseInv
  <2>10. LookInv'
    BY <1>2, <2>1, <2>2, <2>3, LookFrame DEF MouseInv
  <2>11. ClickInv'
    BY <1>1, <1>2, <2>1, <2>2, <2>3, ClickFrame DEF MouseInv
  <2>. QED  BY <2>6, <2>7, <2>8, <2>9, <2>10, <2>11 DEF MouseInv
<1>. QED  BY <1>1, <1>7, <1>8, <1>9

\* The walk of a leave_window, between events.
LEMMA ExitStarts ==
  ASSUME MouseInv, calls = <<>>, UNCHANGED <<pointer, button, focus, state, history>>,
         NEW x, x = Do("exit", Underneath), NEW new, Among(new), x \in new,
         \A c \in new : c = x \/ (CallOK(c) /\ Rank(c) > 2)
  PROVE  MouseInv'
<1>1. /\ calls \in Seq(Call) /\ Underneath \in Elem /\ Underneath # None
  BY Types, Ends
<1>2. /\ x \in Call /\ x.op = "exit" /\ x.e = Underneath /\ x.f = None /\ CallOK(x)
      /\ Rank(x) = 2 /\ \A t : ~Dispatched(x, t)
  BY <1>1, DoFacts
<1>3. /\ \A c \in new : /\ CallOK(c) /\ Rank(c) # 1 /\ ~(c.op = "exit" /\ c.e = None)
                        /\ c.op \notin {"rise", "descend", "clear", "release"}
                        /\ ~Dispatched(c, "DOWN") /\ ~Dispatched(c, "DRAG_START")
  <2>. SUFFICES ASSUME NEW c \in new
                PROVE  /\ CallOK(c) /\ Rank(c) # 1 /\ ~(c.op = "exit" /\ c.e = None)
                       /\ c.op \notin {"rise", "descend", "clear", "release"}
                       /\ ~Dispatched(c, "DOWN") /\ ~Dispatched(c, "DRAG_START")
    OBVIOUS
  <2>1. CASE c = x
    BY <1>1, <1>2, <2>1
  <2>2. CASE CallOK(c) /\ Rank(c) > 2
    BY <2>2 DEF Rank, Hovers, Dispatched
  <2>. QED  BY <2>1, <2>2
<1>4. x \in new /\ \A c \in new : Rank(c) \in {1, 2} => c = x
  BY RankType
<1>5. /\ mouse_in' = mouse_in /\ element_underneath' = element_underneath
      /\ mouse_in_overlay' = mouse_in_overlay /\ strayed' = strayed /\ balance' = balance
      /\ pressed' = pressed /\ button' = button /\ state' = state /\ focus' = focus
  BY DEF pointer, history
<1>6. \A c \in ToSet(calls) : c.op \notin {"rise", "descend", "clear"}
  BY <1>1, Has
<1>7. WalkOK(x, mouse_in_overlay) /\ \A e : e \in Line(x.e) \/ e \in Line(x.f) <=> e \in Line(element_underneath)
  BY <1>2, <1>6, Beneath, Ends DEF WalkOK
<1>8. WalkInv' /\ FlagInv'
  BY <1>1, <1>2, <1>4, <1>7, Starts DEF MouseInv, history
<1>9. TypeOK'
  BY <1>5 DEF MouseInv, TypeOK, Call, Among
<1>10. CallInv'
  BY <1>1, <1>3, CallFrame DEF MouseInv
<1>11. DownInv'
  BY <1>1, <1>3, DownFrame DEF MouseInv
<1>12. LookInv'
  BY <1>1, <1>3, <1>5, LookFrame DEF MouseInv
<1>13. ClickInv'
  BY <1>1, <1>3, <1>5, ClickFrame DEF MouseInv
<1>. QED  BY <1>8, <1>9, <1>10, <1>11, <1>12, <1>13 DEF MouseInv

LEMMA LeaveWindowStep ==
  ASSUME MouseInv, LeaveWindow PROVE MouseInv'
<1>. DEFINE x == Do("exit", Underneath)
<1>1. calls = <<>> /\ Goes(<<x>>) /\ UNCHANGED <<pointer, button, focus, state, history>>
  BY DEF LeaveWindow, Idle, Goes
<1>2. x \in Call
  BY Types, DoFacts
<1>3. Among({x})
  BY <1>1, <1>2, Types, MakesOne
<1>. HIDE DEF x
<1>4. x = Do("exit", Underneath)
  BY DEF x
<1>. QED  BY <1>1, <1>3, <1>4, ExitStarts

LEMMA EnterWindowStep ==
  ASSUME MouseInv, NEW p \in Point, EnterWindow(p) PROVE MouseInv'
<1>. DEFINE x == Do("exit", Underneath)
            y == Do("enter", Win)
            z == At("motion", Win, p)
            s == <<y, z>>
            a == <<x>>
<1>1. /\ calls = <<>> /\ UNCHANGED <<pointer, button, focus, state, history>>
      /\ calls' = a \o s \/ calls' = <<>> \o s
  BY DEF EnterWindow, Idle
<1>2. /\ x \in Call /\ x.op = "exit" /\ CallOK(x) /\ Rank(x) = 2
      /\ y \in Call /\ y.op = "enter" /\ CallOK(y) /\ Rank(y) = 3 /\ \A t : ~Dispatched(y, t)
      /\ z \in Call /\ z.op = "motion" /\ CallOK(z) /\ Rank(z) = 4 /\ \A t : ~Dispatched(z, t)
  BY Types, Ends, DoFacts, AtFacts
<1>3. focus' \in Elem \cup {None}
  BY <1>1 DEF MouseInv, TypeOK
<1>4. x = Do("exit", Underneath)
  OBVIOUS
<1>. HIDE DEF x, y, z
<1>5. /\ s \in Seq(Call) /\ (\A c : c \in ToSet(s) <=> c = y \/ c = z) /\ Ranked(s)
  BY <1>2, Couple
<1>6. CASE calls' = <<>> \o s
  <2>1. calls' = s
    BY <1>2, <1>6
  <2>2. Among({y, z})
    BY <1>1, <1>5, <2>1 DEF Among
  <2>. QED  BY <1>1, <1>2, <1>3, <2>2, Plain
<1>7. CASE calls' = a \o s
  <2>. DEFINE t == calls'
  <2>1. t = <<x>> \o s
    BY <1>7
  <2>. HIDE DEF s, t
  <2>2. /\ t \in Seq(Call)
        /\ \A c : c \in ToSet(t) <=> c = x \/ c \in ToSet(s)
        /\ Ranked(t) <=> Ranked(s) /\ \A d \in ToSet(s) : Rank(x) > 0 /\ Rank(d) > 0 => Rank(x) < Rank(d)
    BY <1>2, <1>5, <2>1, Put
  <2>3. Ranked(t)
    BY <1>2, <1>5, <2>2
  <2>4. Among({x, y, z})
    BY <1>1, <1>5, <2>2, <2>3 DEF Among, t
  <2>. QED  BY <1>1, <1>2, <1>4, <2>4, ExitStarts
<1>. QED  BY <1>1, <1>6, <1>7

-------------------------------------------------------------------------------
(***************************************************************************)
(* The buttons                                                             *)
(***************************************************************************)
LEMMA PressStep ==
  ASSUME MouseInv, NEW b \in Button, Press(b) PROVE MouseInv'
<1>. DEFINE x == Dispatch(Underneath, "DOWN", b)
<1>1. /\ calls = <<>> /\ Goes(<<x>>) /\ UNCHANGED <<pointer, focus, state, balance>>
      /\ button' = [button EXCEPT ![b] = [state |-> "DOWN", target |-> Underneath]]
      /\ pressed' = [pressed EXCEPT ![b] = Underneath]
  BY DEF Press, Idle, Goes
<1>2. calls \in Seq(Call) /\ Ranked(calls) /\ Underneath \in Elem
  BY Types
<1>3. /\ x \in Call /\ x.op = "dispatch" /\ x.e = Underneath /\ CallOK(x) /\ Rank(x) = 0
      /\ \A t : Dispatched(x, t) <=> t = "DOWN"
  BY <1>2, DispatchFacts DEF EventType
<1>. HIDE DEF x
<1>4. Among({x})
  BY <1>1, <1>2, <1>3, MakesOne
<1>5. /\ mouse_in' = mouse_in /\ element_underneath' = element_underneath
      /\ mouse_in_overlay' = mouse_in_overlay /\ strayed' = strayed /\ balance' = balance
      /\ state' = state /\ focus' = focus
  BY <1>1 DEF pointer
<1>6. TypeOK'
  BY <1>1, <1>2, <1>4, <1>5 DEF MouseInv, TypeOK, Call, Among
<1>7. WalkInv' /\ FlagInv'
  BY <1>1, <1>2, <1>3, <1>4, Aside DEF MouseInv
<1>8. CallInv'
  BY <1>2, <1>3, <1>4, CallFrame DEF MouseInv
<1>9. \A c : c \in ToSet(calls') <=> c = x
  BY <1>1, <1>4 DEF Among
<1>10. DownInv'
  <2>1. Underneath \in Line(element_underneath) \cup Roots
    BY <1>2, Ends DEF Underneath, Line, Roots
  <2>. QED  BY <1>3, <1>5, <1>9, <2>1 DEF DownInv
<1>11. LookInv'
  BY <1>1, <1>2, <1>3, <1>4, <1>5, LookFrame DEF MouseInv
<1>12. ClickInv'
  <2>1. Underneath' = Underneath
    BY <1>5 DEF Underneath
  <2>2. \A n : ~DragsAt(calls, n)
    BY <1>1, <1>2, Has DEF DragsAt
  <2>3. ASSUME NEW n \in Button
        PROVE  /\ button'[n].state # "UP" => button'[n].target \in Elem
               /\ button'[n].state = "DOWN" => /\ pressed'[n] = button'[n].target
                                               /\ Underneath \in {button'[n].target, Win}
    <3>1. CASE n = b
      BY <1>1, <1>2, <3>1 DEF MouseInv, TypeOK
    <3>2. CASE n # b
      BY <1>1, <2>2, <3>2 DEF MouseInv, TypeOK, ClickInv
    <3>. QED  BY <3>1, <3>2
  <2>. QED  BY <1>3, <1>9, <2>1, <2>3 DEF ClickInv
<1>. QED  BY <1>6, <1>7, <1>8, <1>10, <1>11, <1>12 DEF MouseInv

LEMMA ReleaseStep ==
  ASSUME MouseInv, NEW b \in Button, Release(b) PROVE MouseInv'
<1>. DEFINE target == IF button[b].state = "UP" THEN Underneath ELSE button[b].target
            x == Dispatch(Underneath, "CLICK", b)
            y == Dispatch(Underneath, "DRAG_DROP", b)
            z == Dispatch(target, "DRAG_DROP", b)
            v == Op("release", None, None, "none", b)
            w == Dispatch(Underneath, "UP", b)
            s == <<v, w>>
            S == ToSet(calls')
<1>1. /\ calls = <<>> /\ UNCHANGED <<pointer, focus, state, history>>
      /\ button' = [button EXCEPT ![b].state = "UP"]
      /\ calls' = <<x>> \o s \/ calls' = <<y, z>> \o s \/ calls' = <<>> \o s
  BY DEF Release, Idle
<1>2. /\ calls \in Seq(Call) /\ Ranked(calls) /\ Underneath \in Elem /\ target \in Elem
      /\ button \in [Button -> [state : {"UP", "DOWN", "DRAG"}, target : Elem \cup {None}]]
  BY <1>1, Types DEF MouseInv, ClickInv, TypeOK
<1>3. /\ \A c \in {x, y, z, w} : c \in Call /\ c.op = "dispatch" /\ CallOK(c) /\ Rank(c) = 0
      /\ \A c \in {x, y, z, w} : ~Dispatched(c, "DOWN") /\ ~Dispatched(c, "DRAG_START")
  BY <1>2, DispatchFacts DEF EventType
<1>4. /\ v \in Call /\ v.op = "release" /\ v.b = b /\ CallOK(v) /\ Rank(v) = 0
      /\ \A t : ~Dispatched(v, t)
  BY DEF Op, Call, OpName, CallOK, Rank, Hovers, Dispatched
<1>. HIDE DEF x, y, z, v, w
<1>5. /\ s \in Seq(Call) /\ (\A c : c \in ToSet(s) <=> c = v \/ c = w) /\ Ranked(s)
  BY <1>3, <1>4, Couple
<1>. HIDE DEF s
<1>6. calls' \in Seq(Call) /\ Ranked(calls') /\ \A c \in S : c \in {x, y, z, v, w}
  <2>. DEFINE u == calls'
  <2>1. CASE u = <<x>> \o s
    <3>. HIDE DEF u
    <3>1. /\ u \in Seq(Call) /\ \A c : c \in ToSet(u) <=> c = x \/ c \in ToSet(s)
          /\ Ranked(u) <=> Ranked(s) /\ \A d \in ToSet(s) : Rank(x) > 0 /\ Rank(d) > 0 => Rank(x) < Rank(d)
      BY <1>3, <1>5, <2>1, Put
    <3>2. Ranked(u)
      BY <1>3, <1>5, <3>1
    <3>. QED  BY <1>5, <3>1, <3>2 DEF u
  <2>2. CASE u = <<y, z>> \o s
    <3>. DEFINE a == <<y, z>>
    <3>1. u = a \o s
      BY <2>2
    <3>2. /\ a \in Seq(Call) /\ (\A c : c \in ToSet(a) <=> c = y \/ c = z) /\ Ranked(a)
      BY <1>3, Couple
    <3>. HIDE DEF a, u
    <3>3. /\ u \in Seq(Call)
          /\ \A c : c \in ToSet(u) <=> c \in ToSet(a) \/ c \in ToSet(s)
          /\ Ranked(u) <=> /\ Ranked(a) /\ Ranked(s)
                           /\ \A c \in ToSet(a) : \A d \in ToSet(s) :
                                Rank(c) > 0 /\ Rank(d) > 0 => Rank(c) < Rank(d)
      BY <1>5, <3>1, <3>2, Joined
    <3>4. Ranked(u)
      BY <1>3, <1>5, <3>2, <3>3
    <3>. QED  BY <1>5, <3>2, <3>3, <3>4 DEF u
  <2>3. CASE u = <<>> \o s
    <3>1. u = s
      BY <1>5, <2>3
    <3>. QED  BY <1>5, <3>1
  <2>. QED  BY <1>1, <2>1, <2>2, <2>3
<1>7. /\ Among(S)
      /\ \A c \in S : /\ CallOK(c) /\ Rank(c) = 0 /\ c.op \in {"dispatch", "release"}
                      /\ ~Dispatched(c, "DOWN") /\ ~Dispatched(c, "DRAG_START")
                      /\ c.op = "release" => c.b = b
  BY <1>1, <1>3, <1>4, <1>6 DEF Among
<1>. HIDE DEF S
<1>8. /\ mouse_in' = mouse_in /\ element_underneath' = element_underneath
      /\ mouse_in_overlay' = mouse_in_overlay /\ strayed' = strayed /\ balance' = balance
      /\ pressed' = pressed /\ state' = state /\ focus' = focus
  BY <1>1 DEF pointer, history
<1>9. TypeOK'
  <2>1. button' \in [Button -> [state : {"UP", "DOWN", "DRAG"}, target : Elem \cup {None}]]
    BY <1>1, <1>2
  <2>. QED  BY <1>6, <1>8, <2>1 DEF MouseInv, TypeOK, Call
<1>10. WalkInv' /\ FlagInv'
  BY <1>1, <1>2, <1>7, <1>8, Aside DEF MouseInv
<1>11. CallInv'
  BY <1>2, <1>7, CallFrame DEF MouseInv
<1>12. DownInv'
  BY <1>1, <1>2, <1>7, DownFrame DEF MouseInv
<1>13. LookInv'
  BY <1>1, <1>2, <1>7, <1>8, LookFrame DEF MouseInv
<1>14. ClickInv'
  <2>1. Underneath' = Underneath
    BY <1>8 DEF Underneath
  <2>2. \A n : ~DragsAt(calls, n)
    BY <1>1, <1>2, Has DEF DragsAt
  <2>3. ASSUME NEW n \in Button
        PROVE  /\ button'[n].state # "UP" => button[n].state # "UP"
               /\ button'[n].state = "DOWN" => button[n].state = "DOWN"
               /\ button'[n].target = button[n].target
    BY <1>1, <1>2
  <2>4. button'[b].state = "UP"
    BY <1>1, <1>2
  <2>5. \A c : c \in ToSet(calls') => c \in S
    BY DEF S
  <2>. QED  BY <1>7, <1>8, <2>1, <2>2, <2>3, <2>4, <2>5 DEF MouseInv, ClickInv
<1>. QED  BY <1>9, <1>10, <1>11, <1>12, <1>13, <1>14 DEF MouseInv

LEMMA ReleaseBodyStep ==
  ASSUME MouseInv, ReleaseBody PROVE MouseInv'
<1>. DEFINE b == Top.b
<1>1. /\ calls # <<>> /\ Top.op = "release" /\ UNCHANGED <<pointer, focus, state, balance>>
      /\ button' = [button EXCEPT ![b].target = None]
      /\ pressed' = [pressed EXCEPT ![b] = None] /\ calls' = Rest
  BY DEF ReleaseBody, Running
<1>2. /\ calls \in Seq(Call) /\ Ranked(calls) /\ Top \in ToSet(calls) /\ Rank(Top) = 0 /\ b \in Button
      /\ button \in [Button -> [state : {"UP", "DOWN", "DRAG"}, target : Elem \cup {None}]]
  BY <1>1, Types DEF Rank, Hovers, MouseInv, TypeOK, Call
<1>3. Among({})
  BY <1>1, <1>2, MakesNothing
<1>4. button[b].state = "UP"
  BY <1>1, <1>2 DEF MouseInv, ClickInv
<1>5. /\ mouse_in' = mouse_in /\ element_underneath' = element_underneath
      /\ mouse_in_overlay' = mouse_in_overlay /\ strayed' = strayed /\ balance' = balance
      /\ state' = state /\ focus' = focus
  BY <1>1 DEF pointer
<1>6. TypeOK'
  <2>1. button' \in [Button -> [state : {"UP", "DOWN", "DRAG"}, target : Elem \cup {None}]]
    BY <1>1, <1>2
  <2>2. pressed' \in [Button -> Elem \cup {None}]
    BY <1>1, <1>2 DEF MouseInv, TypeOK
  <2>. QED  BY <1>3, <1>5, <2>1, <2>2 DEF MouseInv, TypeOK, Call, Among
<1>7. WalkInv' /\ FlagInv'
  BY <1>1, <1>2, <1>3, Aside DEF MouseInv
<1>8. CallInv'
  BY <1>2, <1>3, CallFrame DEF MouseInv
<1>9. DownInv'
  BY <1>1, <1>2, <1>3, <1>5, DownFrame DEF MouseInv
<1>10. LookInv'
  BY <1>1, <1>2, <1>3, <1>5, LookFrame DEF MouseInv
<1>11. ClickInv'
  <2>1. Underneath' = Underneath
    BY <1>5 DEF Underneath
  <2>2. \A c : c \in ToSet(calls) <=> c = Top \/ c \in ToSet(calls')
    BY <1>1, <1>2, Has
  <2>3. \A n : DragsAt(calls, n) => DragsAt(calls', n)
    BY <1>1, <2>2 DEF DragsAt
  <2>4. \A n \in Button : /\ button'[n].state = button[n].state
                          /\ n # b => button'[n].target = button[n].target /\ pressed'[n] = pressed[n]
    BY <1>1, <1>2 DEF MouseInv, TypeOK
  <2>5. \A c \in ToSet(calls') : c.b \in Button
    <3>1. \A c \in ToSet(calls') : c \in Call
      BY <1>3, Members DEF Among
    <3>. QED  BY <3>1 DEF Call
  <2>6. \A c \in ToSet(calls') :
          /\ c.op \in {"rise", "descend", "clear"} => \E d \in ToSet(calls') : d.op = "drag" /\ d.b = 0
          /\ c.op = "release" => button[c.b].state = "UP"
          /\ Dispatched(c, "DRAG_START") => button[c.b].state # "DOWN"
    BY <1>1, <2>2 DEF MouseInv, ClickInv
  <2>7. \A n \in Button :
          /\ button'[n].state # "UP" => button'[n].target \in Elem
          /\ button'[n].state = "DOWN" => /\ pressed'[n] = button'[n].target
                                          /\ DragsAt(calls', n) \/ Underneath \in {button'[n].target, Win}
    BY <1>4, <2>3, <2>4 DEF MouseInv, ClickInv
  <2>. QED  BY <2>1, <2>4, <2>5, <2>6, <2>7 DEF ClickInv
<1>. QED  BY <1>6, <1>7, <1>8, <1>9, <1>10, <1>11 DEF MouseInv

LEMMA DragStep ==
  ASSUME MouseInv, Drag PROVE MouseInv'
<1>. DEFINE b == Top.b
            x == Dispatch(button[b].target, "DRAG_START", b)
            y == Dispatch(button[b].target, "DRAG_MOTION", b)
            z == [Top EXCEPT !.b = b + 1]
            next == IF b < LastButton THEN <<z>> ELSE <<>>
            S == ToSet(calls')
<1>1. /\ calls # <<>> /\ Top.op = "drag" /\ UNCHANGED <<pointer, focus, state, history>>
      /\ button' = IF button[b].state = "DOWN" THEN [button EXCEPT ![b].state = "DRAG"] ELSE button
  BY DEF Drag, Running
<1>2. /\ calls \in Seq(Call) /\ Ranked(calls) /\ Top \in Call /\ Top \in ToSet(calls) /\ b \in Button
      /\ Rank(Top) = 3 /\ button \in [Button -> [state : {"UP", "DOWN", "DRAG"}, target : Elem \cup {None}]]
  BY <1>1, Types DEF MouseInv, TypeOK, Call, Rank, Hovers
<1>3. \/ button[b].state = "UP" /\ calls' = <<>> \o next \o Rest
      \/ button[b].state = "DOWN" /\ calls' = <<x>> \o next \o Rest
      \/ button[b].state = "DRAG" /\ calls' = <<y>> \o next \o Rest
  <2>1. button[b].state \in {"UP", "DOWN", "DRAG"}
    BY <1>2
  <2>. QED  BY <2>1 DEF Drag
<1>4. button[b].state # "UP" =>
        /\ \A c \in {x, y} : c \in Call /\ c.op = "dispatch" /\ CallOK(c) /\ Rank(c) = 0 /\ c.b = b
        /\ ~Dispatched(x, "DOWN") /\ ~Dispatched(y, "DOWN") /\ ~Dispatched(y, "DRAG_START")
  <2>1. ASSUME button[b].state # "UP" PROVE button[b].target \in Elem
    BY <1>2, <2>1 DEF MouseInv, ClickInv
  <2>. QED  BY <1>2, <2>1, DispatchFacts DEF EventType
<1>5. b < LastButton => /\ z \in Call /\ z.op = "drag" /\ z.b = b + 1 /\ CallOK(z) /\ Rank(z) = 3
                        /\ \A t : ~Dispatched(z, t)
  <2>1. ASSUME b < LastButton PROVE b + 1 \in Button
    BY <1>2, <2>1, PointerAssumption DEF LastButton, Button
  <2>2. ASSUME b < LastButton PROVE z \in Call /\ z.op = "drag" /\ z.b = b + 1
    BY <1>1, <1>2, <2>1, <2>2 DEF Call
  <2>. QED  BY <2>2 DEF CallOK, Rank, Hovers, Dispatched
<1>. HIDE DEF x, y, z
<1>6. /\ next \in Seq(Call) /\ Ranked(next)
      /\ \A c : c \in ToSet(next) <=> b < LastButton /\ c = z
  <2>1. CASE b < LastButton
    <3>. DEFINE a == <<z>>
    <3>1. a \in Seq(Call) /\ Len(a) = 1 /\ a[1] = z
      BY <1>5, <2>1
    <3>2. next = a
      BY <2>1
    <3>. HIDE DEF a, next
    <3>3. \A c : c \in ToSet(a) <=> \E i \in 1 .. Len(a) : a[i] = c
      BY <3>1, Members
    <3>4. Ranked(a)
      BY <3>1 DEF Ranked
    <3>. QED  BY <2>1, <3>1, <3>2, <3>3, <3>4
  <2>2. CASE ~(b < LastButton)
    <3>1. next = <<>>
      BY <2>2
    <3>2. next \in Seq(Call) /\ Len(next) = 0
      BY <3>1
    <3>3. Ranked(next)
      BY <3>2 DEF Ranked
    <3>. QED  BY <2>2, <3>1, <3>2, <3>3, Members
  <2>. QED  BY <2>1, <2>2
<1>. HIDE DEF next
<1>7. ASSUME NEW a \in Seq(Call), Ranked(a), \A c \in ToSet(a) : Rank(c) = 0,
             calls' = a \o next \o Rest
      PROVE  \E new : /\ Among(new)
                      /\ \A c : c \in new <=> c \in ToSet(a) \/ (b < LastButton /\ c = z)
  <2>. DEFINE t == a \o next
  <2>1. /\ t \in Seq(Call)
        /\ \A c : c \in ToSet(t) <=> c \in ToSet(a) \/ c \in ToSet(next)
        /\ Ranked(t) <=> /\ Ranked(a) /\ Ranked(next)
                         /\ \A c \in ToSet(a) : \A d \in ToSet(next) :
                              Rank(c) > 0 /\ Rank(d) > 0 => Rank(c) < Rank(d)
    BY <1>6, <1>7, Joined
  <2>2. Ranked(t)
    BY <1>6, <1>7, <2>1
  <2>3. Goes(t)
    BY <1>1, <1>7 DEF Goes
  <2>4. \A c \in ToSet(t) : Rank(c) <= Rank(Top)
    BY <1>2, <1>5, <1>6, <1>7, <2>1
  <2>. HIDE DEF t
  <2>5. Among(ToSet(t))
    BY <1>1, <1>2, <2>1, <2>2, <2>3, <2>4, Going
  <2>. QED  BY <1>6, <2>1, <2>5
<1>8. PICK new :
        /\ Among(new)
        /\ \A c \in new : /\ CallOK(c) /\ Rank(c) \in {0, 3} /\ c.op \in {"dispatch", "drag"}
                          /\ ~Dispatched(c, "DOWN")
                          /\ Dispatched(c, "DRAG_START") => c.b = b /\ button[b].state = "DOWN"
        /\ b < LastButton => \E d \in new : d.op = "drag" /\ d.b = b + 1
  <2>1. CASE button[b].state = "UP" /\ calls' = <<>> \o next \o Rest
    <3>1. <<>> \in Seq(Call) /\ Ranked(<<>>) /\ \A c : c \notin ToSet(<<>>)
      <4>1. <<>> \in Seq(Call) /\ Len(<<>>) = 0
        OBVIOUS
      <4>2. Ranked(<<>>)
        BY <4>1 DEF Ranked
      <4>3. \A s \in Seq(Call) : s = <<>> => \A c : c \notin ToSet(s)
        BY Members
      <4>. QED  BY <4>1, <4>2, <4>3
    <3>2. PICK new : /\ Among(new)
                     /\ \A c : c \in new <=> c \in ToSet(<<>>) \/ (b < LastButton /\ c = z)
      BY <1>7, <2>1, <3>1
    <3>. QED  BY <1>5, <3>1, <3>2
  <2>2. ASSUME NEW d \in {x, y}, button[b].state # "UP", calls' = <<d>> \o next \o Rest
        PROVE  \E new : /\ Among(new)
                        /\ \A c : c \in new <=> c = d \/ (b < LastButton /\ c = z)
    <3>. DEFINE a == <<d>>
    <3>1. d \in Call /\ Rank(d) = 0
      BY <1>4, <2>2
    <3>2. a \in Seq(Call) /\ Len(a) = 1 /\ a[1] = d
      BY <3>1
    <3>3. calls' = a \o next \o Rest
      BY <2>2
    <3>. HIDE DEF a
    <3>4. \A c : c \in ToSet(a) <=> c = d
      <4>1. \A c : c \in ToSet(a) <=> \E i \in 1 .. Len(a) : a[i] = c
        BY <3>2, Members
      <4>. QED  BY <3>2, <4>1
    <3>5. Ranked(a)
      BY <3>2 DEF Ranked
    <3>6. PICK new : /\ Among(new)
                     /\ \A c : c \in new <=> c \in ToSet(a) \/ (b < LastButton /\ c = z)
      BY <1>7, <3>1, <3>2, <3>3, <3>4, <3>5
    <3>. QED  BY <3>4, <3>6
  <2>3. CASE button[b].state = "DOWN" /\ calls' = <<x>> \o next \o Rest
    <3>1. PICK new : Among(new) /\ \A c : c \in new <=> c = x \/ (b < LastButton /\ c = z)
      BY <2>2, <2>3
    <3>. QED  BY <1>4, <1>5, <2>3, <3>1
  <2>4. CASE button[b].state = "DRAG" /\ calls' = <<y>> \o next \o Rest
    <3>1. PICK new : Among(new) /\ \A c : c \in new <=> c = y \/ (b < LastButton /\ c = z)
      BY <2>2, <2>4
    <3>. QED  BY <1>4, <1>5, <2>4, <3>1
  <2>. QED  BY <1>3, <2>1, <2>3, <2>4
<1>9. /\ mouse_in' = mouse_in /\ element_underneath' = element_underneath
      /\ mouse_in_overlay' = mouse_in_overlay /\ strayed' = strayed /\ balance' = balance
      /\ pressed' = pressed /\ state' = state /\ focus' = focus
  BY <1>1 DEF pointer, history
<1>10. TypeOK'
  <2>1. button' \in [Button -> [state : {"UP", "DOWN", "DRAG"}, target : Elem \cup {None}]]
    BY <1>1, <1>2
  <2>. QED  BY <1>8, <1>9, <2>1 DEF MouseInv, TypeOK, Call, Among
<1>11. WalkInv' /\ FlagInv'
  BY <1>1, <1>2, <1>8, <1>9, Aside DEF MouseInv
<1>12. CallInv'
  BY <1>2, <1>8, CallFrame DEF MouseInv
<1>13. DownInv'
  BY <1>1, <1>2, <1>8, DownFrame DEF MouseInv
<1>14. LookInv'
  BY <1>1, <1>2, <1>8, <1>9, LookFrame DEF MouseInv
<1>15. ClickInv'
  <2>1. Underneath' = Underneath
    BY <1>9 DEF Underneath
  <2>2. /\ \A c : c \in ToSet(calls) <=> c = Top \/ c \in ToSet(Rest)
        /\ \A c : c \in ToSet(calls') <=> c \in new \/ c \in ToSet(Rest)
    BY <1>1, <1>2, <1>8, Has DEF Among
  <2>3. \A n \in Button : /\ button'[n].target = button[n].target
                          /\ button'[n].state = "UP" <=> button[n].state = "UP"
                          /\ button'[n].state = "DOWN" <=> button[n].state = "DOWN" /\ n # b
    BY <1>1, <1>2
  <2>4. ASSUME NEW n \in Button, n # b, DragsAt(calls, n) PROVE DragsAt(calls', n)
    <3>1. PICK c \in ToSet(calls) : c.op = "drag" /\ c.b <= n
      BY <2>4 DEF DragsAt
    <3>2. CASE c = Top
      <4>1. b < LastButton /\ b + 1 <= n
        BY <1>2, <2>4, <3>1, <3>2, PointerAssumption DEF Button, LastButton
      <4>. QED  BY <1>8, <2>2, <4>1 DEF DragsAt
    <3>. QED  BY <2>2, <3>1, <3>2 DEF DragsAt
  <2>5. \A n \in Button :
          /\ button'[n].state # "UP" => button'[n].target \in Elem
          /\ button'[n].state = "DOWN" => /\ pressed'[n] = button'[n].target
                                          /\ DragsAt(calls', n) \/ Underneath \in {button'[n].target, Win}
    BY <1>9, <2>3, <2>4 DEF MouseInv, ClickInv
  <2>6. ASSUME NEW c \in ToSet(calls')
        PROVE  /\ c.op \notin {"rise", "descend", "clear"}
               /\ c.op = "release" => button'[c.b].state = "UP"
               /\ Dispatched(c, "DRAG_START") => button'[c.b].state # "DOWN"
    <3>1. CASE c \in new
      BY <1>2, <1>8, <2>3, <3>1
    <3>2. CASE c \in ToSet(calls)
      <4>1. Rank(c) # 2
        BY <1>2, <3>2, Calm
      <4>2. c.op \notin {"rise", "descend", "clear"}
        BY <4>1 DEF Rank, Hovers
      <4>3. c.b \in Button
        <5>1. c \in Call
          BY <1>2, <3>2, Members
        <5>. QED  BY <5>1 DEF Call
      <4>. QED  BY <2>3, <3>2, <4>2, <4>3 DEF MouseInv, ClickInv
    <3>. QED  BY <2>2, <3>1, <3>2
  <2>. QED  BY <2>1, <2>5, <2>6 DEF ClickInv
<1>. QED  BY <1>10, <1>11, <1>12, <1>13, <1>14, <1>15 DEF MouseInv

-------------------------------------------------------------------------------
(***************************************************************************)
(* Deliveries                                                              *)
(***************************************************************************)
LEMMA HandlerFocusStep ==
  ASSUME MouseInv, NEW g \in Elem, HandlerFocus(g) PROVE MouseInv'
<1>. DEFINE x == Do("focus", g)
            y == [Top EXCEPT !.op = IF @ = "deliver" THEN "delivered" ELSE "dispatched"]
<1>1. /\ calls # <<>> /\ Top.op \in {"deliver", "dispatch"}
      /\ UNCHANGED <<pointer, button, focus, state, history>>
      /\ calls' = <<x, y>> \o Rest
  BY DEF HandlerFocus
<1>2. /\ calls \in Seq(Call) /\ Ranked(calls) /\ Top \in Call /\ Top \in ToSet(calls) /\ CallOK(Top)
  BY <1>1, Types
<1>3. /\ x \in Call /\ x.op = "focus" /\ CallOK(x) /\ Rank(x) = 0 /\ \A t : ~Dispatched(x, t)
  BY DoFacts
<1>4. /\ y \in Call /\ y.e = Top.e /\ y.f = Top.f /\ y.arg = Top.arg /\ y.b = Top.b
      /\ \/ Top.op = "deliver" /\ y.op = "delivered"
         \/ Top.op = "dispatch" /\ y.op = "dispatched"
  BY <1>1, <1>2 DEF Call, OpName
<1>. HIDE DEF x, y
<1>5. /\ CallOK(y) /\ Rank(y) = Rank(Top) /\ Rank(y) \in {0, 1} /\ (Hovers(y) <=> Hovers(Top))
      /\ \A t : Dispatched(y, t) <=> Dispatched(Top, t)
      /\ y.op \notin {"release", "exit", "drag", "rise", "descend", "clear"}
  BY <1>2, <1>4 DEF CallOK, Rank, Hovers, Dispatched
<1>6. Among({x, y})
  <2>1. Goes(<<x, y>>)
    BY <1>1 DEF Goes
  <2>2. Rank(x) <= Rank(Top) /\ Rank(y) <= Rank(Top)
    BY <1>3, <1>5
  <2>. QED  BY <1>2, <1>3, <1>4, <2>1, <2>2, MakesTwo
<1>7. /\ mouse_in' = mouse_in /\ element_underneath' = element_underneath
      /\ mouse_in_overlay' = mouse_in_overlay /\ strayed' = strayed /\ balance' = balance
      /\ pressed' = pressed /\ state' = state /\ focus' = focus /\ button' = button
  BY <1>1 DEF pointer, history
<1>8. /\ \A c : c \in ToSet(calls) <=> c = Top \/ c \in ToSet(Rest)
      /\ \A c : c \in ToSet(calls') <=> c = x \/ c = y \/ c \in ToSet(Rest)
  BY <1>1, <1>2, <1>6, Has DEF Among
<1>9. ASSUME NEW type, NEW e PROVE Pending(calls', type, e) <=> Pending(calls, type, e)
  <2>1. ASSUME Pending(calls, type, e) PROVE Pending(calls', type, e)
    BY <1>4, <1>5, <1>8, <2>1 DEF Pending
  <2>2. ASSUME Pending(calls', type, e) PROVE Pending(calls, type, e)
    <3>1. ~Hovers(x)
      BY <1>3 DEF Hovers
    <3>. QED  BY <1>4, <1>5, <1>8, <2>2, <3>1 DEF Pending
  <2>. QED  BY <2>1, <2>2
<1>10. TypeOK'
  BY <1>6, <1>7 DEF MouseInv, TypeOK, Call, Among
<1>11. WalkInv' /\ FlagInv'
  <2>1. \A c : Rank(c) = 2 => (c \in ToSet(calls') <=> c \in ToSet(calls))
    BY <1>3, <1>5, <1>8
  <2>. QED  BY <1>1, <1>6, <1>9, <2>1, SameWalk DEF MouseInv, Among, history
<1>12. CallInv'
  BY <1>2, <1>3, <1>5, <1>6, CallFrame DEF MouseInv
<1>13. DownInv'
  <2>1. ASSUME NEW c \in ToSet(calls'), Dispatched(c, "DOWN")
        PROVE  /\ c.e \in Line(element_underneath) \cup Roots
               /\ \A d \in ToSet(calls') : Rank(d) = 0
    <3>1. PICK d \in ToSet(calls) : Dispatched(d, "DOWN") /\ d.e = c.e
      BY <1>2, <1>3, <1>4, <1>5, <1>8, <2>1
    <3>2. c.e \in Line(element_underneath) \cup Roots /\ \A k \in ToSet(calls) : Rank(k) = 0
      BY <3>1 DEF MouseInv, DownInv
    <3>. QED  BY <1>2, <1>3, <1>5, <1>8, <3>2
  <2>. QED  BY <1>7, <2>1 DEF DownInv
<1>14. LookInv'
  <2>1. \A c \in ToSet(calls') : c.op = "exit" => c \in ToSet(calls)
    BY <1>3, <1>5, <1>8
  <2>. QED  BY <1>7, <1>9, <2>1 DEF MouseInv, LookInv
<1>15. ClickInv'
  <2>1. Underneath' = Underneath
    BY <1>7 DEF Underneath
  <2>2. \A c : c.op = "drag" => (c \in ToSet(calls') <=> c \in ToSet(calls))
    BY <1>1, <1>3, <1>5, <1>8
  <2>3. \A n \in Button : DragsAt(calls, n) => DragsAt(calls', n)
    BY <2>2 DEF DragsAt
  <2>4. ASSUME NEW c \in ToSet(calls')
        PROVE  /\ c.op \in {"rise", "descend", "clear"} => \E d \in ToSet(calls') : d.op = "drag" /\ d.b = 0
               /\ c.op = "release" => button[c.b].state = "UP"
               /\ Dispatched(c, "DRAG_START") => button[c.b].state # "DOWN"
    <3>1. CASE c \in ToSet(calls)
      BY <2>2, <3>1 DEF MouseInv, ClickInv
    <3>2. CASE c = x
      BY <1>3, <3>2
    <3>3. CASE c = y
      BY <1>2, <1>4, <1>5, <3>3 DEF MouseInv, ClickInv
    <3>. QED  BY <1>8, <2>4, <3>1, <3>2, <3>3
  <2>. QED  BY <1>7, <2>1, <2>3, <2>4 DEF MouseInv, ClickInv
<1>. QED  BY <1>10, <1>11, <1>12, <1>13, <1>14, <1>15 DEF MouseInv

\* An ENTER or LEAVE is about to be handled: where the walk is by then.
LEMMA Telling ==
  ASSUME MouseInv, calls # <<>>, Rank(Top) = 1
  PROVE  /\ Top \in ToSet(calls) /\ Top.op \in {"dispatch", "dispatched"} /\ Top.arg \in {"ENTER", "LEAVE"}
         /\ \A c : c \in ToSet(calls) <=> c = Top \/ c \in ToSet(Rest)
         /\ \A c : c \in ToSet(Rest) => Rank(c) # 1
         /\ \A type, x : Pending(calls, type, x) <=> Top.arg = type /\ Top.e = x
         /\ \A type, x : ~Pending(Rest, type, x)
         /\ \A u, x : On(Rest, u, x) <=> On(calls, u, x)
<1>1. calls \in Seq(Call) /\ Ranked(calls)
  BY Types
<1>2. /\ Top \in ToSet(calls) /\ Hovers(Top)
      /\ \A c : c \in ToSet(calls) <=> c = Top \/ c \in ToSet(Rest)
      /\ \A c \in ToSet(Rest) : Rank(c) > 0 => Rank(Top) < Rank(c)
  BY <1>1, Taken, RankType DEF Top, Rest
<1>3. \A c : c \in ToSet(Rest) => Rank(c) # 1
  BY <1>2
<1>4. \A c : c \in ToSet(calls) /\ Rank(c) = 1 <=> c = Top
  BY <1>2, <1>3
<1>5. \A type, x : Pending(calls, type, x) <=> Top.arg = type /\ Top.e = x
  BY <1>4, Told
<1>6. \A type, x : ~Pending(Rest, type, x)
  BY <1>3, Untold
<1>7. \A c : Rank(c) = 2 => (c \in ToSet(Rest) <=> c \in ToSet(calls))
  BY <1>2
<1>8. \A u, x : On(Rest, u, x) <=> On(calls, u, x)
  BY <1>7 DEF On
<1>. QED  BY <1>2, <1>3, <1>5, <1>6, <1>8 DEF Hovers

LEMMA TellingOf ==
  ASSUME MouseInv, calls # <<>>, Rank(Top) = 1, NEW e \in Elem \ Roots, e = Top.e
  PROVE  /\ Top.arg = "ENTER" => /\ On(calls, element_underneath, e)
                                 /\ Parent[e] \notin Roots => On(calls, element_underneath, Parent[e])
         /\ Top.arg = "LEAVE" => /\ ~On(calls, element_underneath, e)
                                 /\ \A c \in Elem \ Roots : Parent[c] = e => ~On(calls, element_underneath, c)
<1>1. calls \in Seq(Call) /\ Ranked(calls) /\ Top \in ToSet(calls) /\ Hovers(Top)
  BY Types, RankType
<1>2. Leads(calls, Top)
  BY <1>1 DEF MouseInv, WalkInv
<1>3. PICK w \in ToSet(calls) :
        /\ Rank(w) = 2
        /\ Top.arg = "ENTER" => w.op = "descend" /\ w.e = e
        /\ Top.arg = "LEAVE" => w.op # "descend" /\ w.e = Parent[e]
  BY <1>2 DEF Leads
<1>4. w \in Call /\ WalkOK(w, mouse_in_overlay)
  BY <1>1, <1>3, Members DEF MouseInv, WalkInv
<1>5. \A c : c \in ToSet(calls) /\ Rank(c) = 2 <=> c = w
  BY <1>1, <1>3, Alone
<1>6. \A u, x : On(calls, u, x) <=> x \in Line(w.e) \/ x \in Line(w.f)
  <2>. DEFINE t == calls
  <2>1. \A c : c \in ToSet(t) /\ Rank(c) = 2 <=> c = w
    BY <1>5
  <2>. HIDE DEF t
  <2>2. \A u, x : On(t, u, x) <=> x \in Line(w.e) \/ x \in Line(w.f)
    BY <1>3, <2>1, OnWalk
  <2>. QED  BY <2>2 DEF t
<1>7. /\ e \in Elem /\ Parent[e] \in Elem /\ RootOf(Parent[e]) = RootOf(e)
      /\ e \in Line(e) /\ e \notin Line(Parent[e])
      /\ \A x : x \in Line(e) <=> x = e \/ x \in Line(Parent[e])
  BY Around
<1>8. ASSUME Top.arg = "ENTER"
      PROVE  /\ On(calls, element_underneath, e)
             /\ Parent[e] \notin Roots => On(calls, element_underneath, Parent[e])
  <2>1. Parent[e] \notin Roots => Parent[e] \in Line(Parent[e])
    BY <1>7, Around
  <2>. QED  BY <1>3, <1>6, <1>7, <1>8, <2>1
<1>9. ASSUME Top.arg = "LEAVE", NEW c \in Elem \ Roots, c = e \/ Parent[c] = e
      PROVE  ~On(calls, element_underneath, c)
  <2>1. w.op \in {"rise", "clear", "exit"} /\ w.e = Parent[e]
    BY <1>3, <1>9 DEF Rank, Hovers
  <2>2. RootOf(c) = RootOf(e)
    BY <1>9, Around
  <2>3. c \notin Line(w.f)
    <3>1. CASE w.op = "clear"
      <4>1. w.f \in Elem \cup {None}
        BY <1>4 DEF Call
      <4>. QED  BY <1>4, <1>7, <2>1, <2>2, <3>1, <4>1, Ends, OnLine DEF WalkOK
    <3>2. CASE w.op # "clear"
      BY <1>4, <2>1, <3>2, Ends DEF WalkOK
    <3>. QED  BY <3>1, <3>2
  <2>4. c \notin Line(Parent[e])
    <3>1. CASE c = e
      BY <1>7, <3>1
    <3>2. CASE Parent[c] = e
      <4>1. e \in Above[c] /\ e \notin Above[e] /\ Above[e] = {Parent[e]} \cup Above[Parent[e]]
        BY <3>2, TreeAssumption
      <4>2. c \notin Above[e]
        BY <4>1, TreeAssumption
      <4>3. Parent[e] # None
        BY <1>7, Ends
      <4>. QED  BY <4>1, <4>2, <4>3 DEF Line
    <3>. QED  BY <1>9, <3>1, <3>2
  <2>. QED  BY <1>6, <2>1, <2>3, <2>4
<1>. QED  BY <1>8, <1>9

LEMMA TransitionType ==
  ASSUME MouseInv, NEW e \in Elem, NEW type, NEW b
  PROVE  Transition(e, type, b) \in Shown
<1>1. state[e] \in Shown
  BY DEF MouseInv, TypeOK
<1>2. \A l \in {"NORMAL", "HOVER", "ACTIVE"} : Look(e, l) \in Shown
  BY DEF Look, Shown
<1>3. TransitionEnter(e) \in Shown
  BY <1>1, <1>2 DEF TransitionEnter
<1>4. TransitionUp(e) \in Shown
  BY <1>2, <1>3 DEF TransitionUp
<1>5. /\ [focus |-> TRUE, look |-> IF state[e].focus THEN "NORMAL" ELSE state[e].look] \in Shown
      /\ [focus |-> FALSE, look |-> IF state[e].focus THEN state[e].look ELSE "NORMAL"] \in Shown
  BY <1>1 DEF Shown
<1>. QED  BY <1>1, <1>2, <1>3, <1>4, <1>5 DEF Transition

\* What becomes of the look of an element that is told something.
LEMMA Looks ==
  ASSUME MouseInv, calls # <<>>, Top.op \in {"deliver", "delivered", "dispatch", "dispatched"},
         NEW e, e = Top.e, e \notin DuringDrag \cup {Overlay},
         NEW t, t = Transition(e, Top.arg, Top.b)
  PROVE  \/ e \in mouse_in \/ t.look = "NORMAL" \/ (e = Win /\ t.look = "ACTIVE")
         \/ Top.arg # "LEAVE" /\ t.look = state[e].look
<1>1. Top \in ToSet(calls) /\ CallOK(Top) /\ e \in Elem
  BY Types DEF CallOK
<1>2. CASE Top.arg = "ENTER"
  <2>1. Rank(Top) = 1
    BY <1>1, <1>2 DEF CallOK, Rank, Hovers
  <2>2. e \in Roots => e \in mouse_in
    <3>1. Pending(calls, "ENTER", e)
      BY <1>1, <1>2, <2>1, RankType DEF Pending
    <3>. QED  BY <3>1 DEF MouseInv, LookInv, Roots
  <2>3. e \notin Roots => e \in mouse_in
    <3>1. e \notin Roots => On(calls, element_underneath, e)
      BY <1>1, <1>2, <2>1, TellingOf
    <3>. QED  BY <1>1, <3>1 DEF MouseInv, FlagInv
  <2>. QED  BY <2>2, <2>3
<1>3. CASE Top.arg = "LEAVE"
  BY <1>3 DEF Transition, Look
<1>4. CASE Top.arg = "DOWN"
  <2>1. Dispatched(Top, "DOWN")
    BY <1>1, <1>4 DEF CallOK, Dispatched
  <2>2. e \in Line(element_underneath) \cup Roots /\ \A d \in ToSet(calls) : Rank(d) = 0
    BY <1>1, <2>1 DEF MouseInv, DownInv
  <2>3. e \in Line(element_underneath) => e \in mouse_in
    <3>1. e \in Line(element_underneath) => e \in Elem \ Roots
      BY Types, Ends, OnLine
    <3>2. e \in Line(element_underneath) => On(calls, element_underneath, e)
      BY <2>2, OffWalk
    <3>. QED  BY <3>1, <3>2 DEF MouseInv, FlagInv
  <2>. QED  BY <1>4, <2>2, <2>3 DEF Transition, Look, Roots
<1>5. CASE Top.arg \in {"UP", "DRAG_DROP"}
  <2>1. t = TransitionUp(e)
    BY <1>5 DEF Transition
  <2>. QED  BY <2>1 DEF TransitionUp, Look
<1>6. CASE Top.arg \in {"FOCUS", "UNFOCUS"}
  BY <1>6 DEF Transition
<1>7. CASE Top.arg \notin {"ENTER", "LEAVE", "DOWN", "UP", "DRAG_DROP", "FOCUS", "UNFOCUS"}
  BY <1>7 DEF Transition
<1>. QED  BY <1>2, <1>3, <1>4, <1>5, <1>6, <1>7

LEMMA AboveLine ==
  ASSUME NEW u \in Elem \cup {None}, NEW e \in Elem, e \in Line(u) \cup Roots, Up(e) # None
  PROVE  Up(e) \in Elem /\ Up(e) \in Line(u) \cup Roots
<1>1. CASE e \in Roots
  BY <1>1, Ends DEF Roots
<1>2. CASE e \notin Roots
  <2>1. Up(e) = Parent[e] /\ Parent[e] \in Elem /\ Parent[e] \in Above[e]
    BY <1>2, Around, TreeAssumption
  <2>2. u # None /\ (e = u \/ e \in Above[u])
    BY <1>2 DEF Line
  <2>3. Parent[e] \in Above[u]
    BY <2>1, <2>2, TreeAssumption
  <2>. QED  BY <2>1, <2>2, <2>3 DEF Line
<1>. QED  BY <1>1, <1>2

\* The event counted, if it is one of the two.
Counted ==
  balance' = IF Top.e \in Roots THEN balance
             ELSE CASE Top.arg = "ENTER" -> [balance EXCEPT ![Top.e] = @ + 1]
                    [] Top.arg = "LEAVE" -> [balance EXCEPT ![Top.e] = @ - 1]
                    [] OTHER             -> balance

LEMMA TellingStep ==
  ASSUME MouseInv, calls # <<>>, Rank(Top) = 1, Top.e \in Elem, calls' = Rest, UNCHANGED pointer, Counted
  PROVE  WalkInv' /\ FlagInv'
<1>1. calls \in Seq(Call) /\ Ranked(calls)
  BY Types
<1>2. Rest \in Seq(Call) /\ Ranked(Rest)
  BY <1>1, Taken DEF Rest
<1>3. /\ Top \in ToSet(calls) /\ Top.arg \in {"ENTER", "LEAVE"}
      /\ \A c : c \in ToSet(calls) <=> c = Top \/ c \in ToSet(Rest)
      /\ \A c : c \in ToSet(Rest) => Rank(c) # 1
      /\ \A type, x : Pending(calls, type, x) <=> Top.arg = type /\ Top.e = x
      /\ \A type, x : ~Pending(Rest, type, x)
      /\ \A u, x : On(Rest, u, x) <=> On(calls, u, x)
  BY Telling
<1>4. /\ mouse_in' = mouse_in /\ element_underneath' = element_underneath
      /\ mouse_in_overlay' = mouse_in_overlay /\ strayed' = strayed
  BY DEF pointer
<1>5. WalkInv'
  <2>1. \A c \in ToSet(Rest) : Rank(c) = 2 => WalkOK(c, mouse_in_overlay)
    BY <1>3 DEF MouseInv, WalkInv
  <2>2. ASSUME \A c \in ToSet(Rest) : c.op \notin {"rise", "descend", "clear"}
        PROVE  Under(element_underneath, mouse_in_overlay)
    <3>1. Top.op \notin {"rise", "descend", "clear"}
      BY Telling
    <3>2. \A c \in ToSet(calls) : c.op \notin {"rise", "descend", "clear"}
      BY <1>3, <2>2, <3>1
    <3>. QED  BY <3>2 DEF MouseInv, WalkInv
  <2>3. \A c \in ToSet(Rest) : ~Hovers(c)
    BY <1>3, RankType
  <2>. QED  BY <1>2, <1>4, <2>1, <2>2, <2>3 DEF WalkInv
<1>6. FlagInv'
  <2>. SUFFICES ASSUME NEW x \in Elem \ Roots
                PROVE  /\ x \in mouse_in <=> On(Rest, element_underneath, x) \/ x \in strayed
                       /\ On(Rest, element_underneath, x) => x \notin strayed
                       /\ balance'[x] = IF On(Rest, element_underneath, x) THEN 1 ELSE 0
    BY <1>3, <1>4 DEF FlagInv
  <2>1. /\ x \in mouse_in <=> On(calls, element_underneath, x) \/ x \in strayed
        /\ On(calls, element_underneath, x) => x \notin strayed
        /\ balance[x] = IF \/ Pending(calls, "LEAVE", x)
                           \/ On(calls, element_underneath, x) /\ ~Pending(calls, "ENTER", x)
                        THEN 1 ELSE 0
    BY DEF MouseInv, FlagInv
  <2>2. balance'[x] = IF On(calls, element_underneath, x) THEN 1 ELSE 0
    <3>1. CASE x # Top.e
      <4>1. balance'[x] = balance[x]
        BY <3>1 DEF Counted, MouseInv, TypeOK
      <4>. QED  BY <1>3, <2>1, <3>1, <4>1
    <3>2. CASE x = Top.e /\ Top.arg = "ENTER"
      <4>1. On(calls, element_underneath, x)
        BY <3>2, TellingOf
      <4>2. balance'[x] = balance[x] + 1
        BY <3>2 DEF Counted, MouseInv, TypeOK
      <4>. QED  BY <1>3, <2>1, <3>2, <4>1, <4>2
    <3>3. CASE x = Top.e /\ Top.arg = "LEAVE"
      <4>1. ~On(calls, element_underneath, x)
        BY <3>3, TellingOf
      <4>2. balance'[x] = balance[x] - 1
        BY <3>3 DEF Counted, MouseInv, TypeOK
      <4>. QED  BY <1>3, <2>1, <3>3, <4>1, <4>2
    <3>. QED  BY <1>3, <3>1, <3>2, <3>3
  <2>. QED  BY <1>3, <2>1, <2>2
<1>. QED  BY <1>5, <1>6

LEMMA ConcludeStep ==
  ASSUME MouseInv, Conclude PROVE MouseInv'
<1>. DEFINE e == Top.e
            x == Do("focus", e)
            y == Dispatch(Up(e), Top.arg, Top.b)
<1>1. /\ calls # <<>> /\ Top.op \in {"deliver", "delivered", "dispatch", "dispatched"}
      /\ UNCHANGED pointer /\ focus' = focus /\ pressed' = pressed /\ Counted
      /\ state' = [state EXCEPT ![e] = Transition(e, Top.arg, Top.b)]
      /\ \/ button' = button
         \/ Dispatched(Top, "DRAG_START") /\ button' = [button EXCEPT ![Top.b].target = e]
      /\ \/ calls' = Rest
         \/ Top.arg = "DOWN" /\ calls' = <<x>> \o Rest
         \/ /\ Top.op \in {"dispatch", "dispatched"} /\ Top.arg \notin Eaten /\ Up(e) # None
            /\ calls' = <<y>> \o Rest
  <2>1. /\ calls # <<>> /\ Top.op \in {"deliver", "delivered", "dispatch", "dispatched"}
        /\ UNCHANGED pointer /\ focus' = focus /\ pressed' = pressed /\ Counted
        /\ state' = [state EXCEPT ![e] = Transition(e, Top.arg, Top.b)]
    BY DEF Conclude, Counted
  <2>2. <<>> \o Rest = Rest
    BY <2>1, Types, Taken DEF Rest
  <2>. QED  BY <2>1, <2>2 DEF Conclude, Returned, Dispatched
<1>2. /\ calls \in Seq(Call) /\ Ranked(calls) /\ Top \in Call /\ Top \in ToSet(calls) /\ CallOK(Top)
      /\ e \in Elem /\ element_underneath \in Elem \cup {None}
  BY <1>1, Types DEF CallOK
<1>3. Rank(Top) \in {0, 1} /\ (Top.arg \notin {"ENTER", "LEAVE"} => Rank(Top) = 0)
  BY <1>1 DEF Rank, Hovers
<1>4. /\ x \in Call /\ x.op = "focus" /\ CallOK(x) /\ Rank(x) = 0 /\ \A t : ~Dispatched(x, t)
  BY <1>2, DoFacts
<1>5. Top.arg \notin Eaten /\ Up(e) # None =>
        /\ y \in Call /\ y.op = "dispatch" /\ y.e = Up(e) /\ y.arg = Top.arg /\ y.b = Top.b
        /\ CallOK(y) /\ Rank(y) = 0
        /\ \A t : Dispatched(y, t) <=> Top.arg = t
  <2>. SUFFICES ASSUME Top.arg \notin Eaten, Up(e) # None
                PROVE  /\ y \in Call /\ y.op = "dispatch" /\ y.e = Up(e) /\ y.arg = Top.arg /\ y.b = Top.b
                       /\ CallOK(y) /\ Rank(y) = 0
                       /\ \A t : Dispatched(y, t) <=> Top.arg = t
    OBVIOUS
  <2>1. Up(e) \in Elem
    <3>1. CASE e \in Roots
      BY <3>1, Ends DEF Roots
    <3>2. CASE e \notin Roots
      BY <1>2, <3>2, Around
    <3>. QED  BY <3>1, <3>2
  <2>2. y \in Call /\ y.op = "dispatch" /\ y.e = Up(e) /\ y.arg = Top.arg /\ y.b = Top.b
    BY <1>2, <2>1 DEF Dispatch, Op, Call, OpName
  <2>. QED  BY <2>1, <2>2 DEF CallOK, Rank, Hovers, Dispatched, Eaten
<1>. HIDE DEF x, y
<1>6. PICK new :
        /\ Among(new)
        /\ \A c \in new :
             /\ CallOK(c) /\ Rank(c) = 0
             /\ c.op \notin {"rise", "descend", "clear", "exit", "release", "drag"}
             /\ Dispatched(c, "DOWN") => Dispatched(Top, "DOWN") /\ Up(e) # None /\ c.e = Up(e)
             /\ Dispatched(c, "DRAG_START") => Dispatched(Top, "DRAG_START") /\ c.b = Top.b
        /\ Rank(Top) = 1 => calls' = Rest
  <2>1. CASE calls' = Rest
    <3>1. Among({})
      BY <1>1, <1>2, <2>1, MakesNothing
    <3>. QED  BY <2>1, <3>1
  <2>2. CASE Top.arg = "DOWN" /\ calls' = <<x>> \o Rest
    <3>1. Goes(<<x>>) /\ Rank(x) <= Rank(Top)
      BY <1>1, <1>3, <1>4, <2>2 DEF Goes
    <3>2. Among({x})
      BY <1>2, <1>4, <3>1, MakesOne
    <3>. QED  BY <1>3, <1>4, <2>2, <3>2
  <2>3. CASE /\ Top.op \in {"dispatch", "dispatched"} /\ Top.arg \notin Eaten /\ Up(e) # None
             /\ calls' = <<y>> \o Rest
    <3>1. Goes(<<y>>) /\ Rank(y) <= Rank(Top)
      BY <1>1, <1>3, <1>5, <2>3 DEF Goes
    <3>2. Among({y})
      BY <1>2, <1>5, <2>3, <3>1, MakesOne
    <3>3. Rank(Top) = 0
      BY <1>3, <2>3 DEF Eaten
    <3>. QED  BY <1>5, <2>3, <3>2, <3>3 DEF Dispatched
  <2>. QED  BY <1>1, <2>1, <2>2, <2>3
<1>7. /\ mouse_in' = mouse_in /\ element_underneath' = element_underneath
      /\ mouse_in_overlay' = mouse_in_overlay /\ strayed' = strayed
  BY <1>1 DEF pointer
<1>8. /\ \A c : c \in ToSet(calls) <=> c = Top \/ c \in ToSet(Rest)
      /\ \A c : c \in ToSet(calls') <=> c \in new \/ c \in ToSet(Rest)
  BY <1>1, <1>2, <1>6, Has DEF Among
<1>9. TypeOK'
  <2>1. state' \in [Elem -> Shown]
    BY <1>1, <1>2, TransitionType DEF MouseInv, TypeOK
  <2>2. balance' \in [Elem \ Roots -> Int]
    BY <1>1, <1>2 DEF Counted, MouseInv, TypeOK
  <2>3. button' \in [Button -> [state : {"UP", "DOWN", "DRAG"}, target : Elem \cup {None}]]
    <3>1. button' = button \/ button' = [button EXCEPT ![Top.b].target = e]
      BY <1>1
    <3>2. button \in [Button -> [state : {"UP", "DOWN", "DRAG"}, target : Elem \cup {None}]]
      BY DEF MouseInv, TypeOK
    <3>3. CASE button' = [button EXCEPT ![Top.b].target = e]
      BY <1>2, <3>2, <3>3
    <3>. QED  BY <3>1, <3>2, <3>3
  <2>. QED  BY <1>1, <1>6, <1>7, <2>1, <2>2, <2>3 DEF MouseInv, TypeOK, Call, Among
<1>10. WalkInv' /\ FlagInv'
  <2>1. CASE Rank(Top) = 1
    BY <1>1, <1>2, <1>6, <2>1, TellingStep
  <2>2. CASE Rank(Top) = 0
    <3>1. ~(Top.arg \in {"ENTER", "LEAVE"})
      BY <1>1, <1>2, <2>2 DEF Rank, Hovers, CallOK
    <3>2. UNCHANGED balance
      BY <1>1, <3>1 DEF Counted
    <3>3. \A c \in new : Rank(c) \notin {1, 2}
      BY <1>6
    <3>. QED  BY <1>1, <1>2, <1>6, <2>2, <3>2, <3>3, Aside DEF MouseInv
  <2>. QED  BY <1>3, <2>1, <2>2
<1>11. CallInv'
  BY <1>2, <1>6, CallFrame DEF MouseInv
<1>12. DownInv'
  <2>1. ASSUME NEW c \in ToSet(calls'), Dispatched(c, "DOWN")
        PROVE  /\ c.e \in Line(element_underneath) \cup Roots
               /\ \A d \in ToSet(calls') : Rank(d) = 0
    <3>1. CASE c \in ToSet(Rest)
      BY <1>6, <1>8, <2>1, <3>1 DEF MouseInv, DownInv
    <3>2. CASE c \in new
      <4>1. Dispatched(Top, "DOWN") /\ Up(e) # None /\ c.e = Up(e)
        BY <1>6, <2>1, <3>2
      <4>2. e \in Line(element_underneath) \cup Roots /\ \A d \in ToSet(calls) : Rank(d) = 0
        BY <1>2, <4>1 DEF MouseInv, DownInv
      <4>3. Up(e) \in Line(element_underneath) \cup Roots
        BY <1>2, <4>1, <4>2, AboveLine
      <4>. QED  BY <1>6, <1>8, <4>1, <4>2, <4>3
    <3>. QED  BY <1>8, <2>1, <3>1, <3>2
  <2>. QED  BY <1>7, <2>1 DEF DownInv
<1>13. LookInv'
  <2>1. \A c \in new : ~Hovers(c)
    BY <1>6, RankType
  <2>2. \A type, n : Pending(calls', type, n) => Pending(calls, type, n)
    BY <1>8, <2>1 DEF Pending
  <2>3. \A n : n # e \/ Top.arg # "LEAVE" => (Pending(calls, "LEAVE", n) => Pending(calls', "LEAVE", n))
    BY <1>8 DEF Pending
  <2>4. \A c \in ToSet(calls') : c.op = "exit" => c \in ToSet(calls)
    BY <1>6, <1>8
  <2>5. ASSUME NEW n \in Elem \ (DuringDrag \cup {Overlay})
        PROVE  \/ n \in mouse_in \/ state'[n].look = "NORMAL"
               \/ n = Win /\ state'[n].look = "ACTIVE"
               \/ Pending(calls', "LEAVE", n)
    <3>1. \/ n \in mouse_in \/ state[n].look = "NORMAL"
          \/ n = Win /\ state[n].look = "ACTIVE"
          \/ Pending(calls, "LEAVE", n)
      BY DEF MouseInv, LookInv
    <3>2. CASE n # e
      <4>1. state'[n] = state[n]
        BY <1>1, <3>2 DEF MouseInv, TypeOK
      <4>. QED  BY <2>3, <3>1, <3>2, <4>1
    <3>3. CASE n = e
      <4>. DEFINE t == Transition(e, Top.arg, Top.b)
      <4>1. state'[n] = t
        BY <1>1, <3>3 DEF MouseInv, TypeOK
      <4>. HIDE DEF t
      <4>2. \/ e \in mouse_in \/ t.look = "NORMAL" \/ (e = Win /\ t.look = "ACTIVE")
            \/ Top.arg # "LEAVE" /\ t.look = state[e].look
        BY <1>1, <3>3, Looks DEF t
      <4>. QED  BY <2>3, <3>1, <3>3, <4>1, <4>2
    <3>. QED  BY <3>2, <3>3
  <2>. QED  BY <1>7, <2>2, <2>4, <2>5 DEF MouseInv, LookInv
<1>14. ClickInv'
  <2>1. Underneath' = Underneath
    BY <1>7 DEF Underneath
  <2>2. \A c : c.op = "drag" /\ c \in ToSet(calls) => c \in ToSet(calls')
    BY <1>1, <1>8
  <2>3. \A n \in Button : DragsAt(calls, n) => DragsAt(calls', n)
    BY <2>2 DEF DragsAt
  <2>4. ASSUME NEW n \in Button
        PROVE  /\ button'[n].state = button[n].state
               /\ button'[n].target = button[n].target \/ (button[n].state # "DOWN" /\ button'[n].target = e)
    <3>1. CASE button' = button
      BY <3>1
    <3>2. CASE Dispatched(Top, "DRAG_START") /\ button' = [button EXCEPT ![Top.b].target = e]
      <4>1. button[Top.b].state # "DOWN"
        BY <1>2, <3>2 DEF MouseInv, ClickInv
      <4>. QED  BY <3>2, <4>1 DEF MouseInv, TypeOK
    <3>. QED  BY <1>1, <3>1, <3>2
  <2>5. ASSUME NEW c \in ToSet(calls')
        PROVE  /\ c.b \in Button
               /\ c.op \in {"rise", "descend", "clear"} => \E d \in ToSet(calls') : d.op = "drag" /\ d.b = 0
               /\ c.op = "release" => button[c.b].state = "UP"
               /\ Dispatched(c, "DRAG_START") => button[c.b].state # "DOWN"
    <3>1. c \in Call
      BY <1>6, Members DEF Among
    <3>2. CASE c \in ToSet(calls)
      BY <2>2, <3>1, <3>2 DEF MouseInv, ClickInv, Call
    <3>3. CASE c \in new
      BY <1>2, <1>6, <3>1, <3>3 DEF MouseInv, ClickInv, Call
    <3>. QED  BY <1>8, <2>5, <3>2, <3>3
  <2>6. \A n \in Button :
          /\ button'[n].state # "UP" => button'[n].target \in Elem
          /\ button'[n].state = "DOWN" => /\ pressed'[n] = button'[n].target
                                          /\ DragsAt(calls', n) \/ Underneath \in {button'[n].target, Win}
    BY <1>1, <1>2, <2>3, <2>4 DEF MouseInv, ClickInv
  <2>. QED  BY <2>1, <2>4, <2>5, <2>6 DEF ClickInv
<1>. QED  BY <1>9, <1>10, <1>11, <1>12, <1>13, <1>14 DEF MouseInv

-------------------------------------------------------------------------------
(***************************************************************************)
(* The walk                                                                *)
(***************************************************************************)
LEMMA UpFacts ==
  ASSUME NEW e \in Elem
  PROVE  /\ Up(e) \in Elem \cup {None} /\ (Up(e) = None <=> e = Win)
         /\ e \notin Roots => Up(e) = Parent[e] /\ RootOf(Up(e)) = RootOf(e)
<1>1. CASE e \in Roots
  BY <1>1, Ends DEF Roots
<1>2. CASE e \notin Roots
  BY <1>2, Around, Ends DEF Roots
<1>. QED  BY <1>1, <1>2

LEMMA ForgetStep ==
  ASSUME MouseInv, calls # <<>>, Rank(Top) = 2, Top.op # "descend", Top.e \in Elem,
         NEW w \in Call, w.op = Top.op, w.e = Up(Top.e), w.f = Top.f,
         WalkOK(w, mouse_in_overlay), w.op = "exit" \/ w.e # None,
         mouse_in' = mouse_in \ {Top.e}, calls' = LeaveCalls(Top.e) \o <<w>> \o Rest,
         UNCHANGED <<element_underneath, mouse_in_overlay, strayed, button, focus, state, history>>
  PROVE  MouseInv'
<1>. DEFINE e == Top.e
<1>1. /\ calls \in Seq(Call) /\ Ranked(calls) /\ Rank(w) = 2 /\ ~Hovers(w)
      /\ w.op \in {"rise", "clear", "exit"} /\ \A t : ~Dispatched(w, t)
  <2>1. Top.op \in {"rise", "clear", "exit"}
    BY DEF Rank, Hovers
  <2>. QED  BY <2>1, Types DEF Rank, Hovers, Dispatched
<1>2. /\ element_underneath' = element_underneath /\ mouse_in_overlay' = mouse_in_overlay
      /\ strayed' = strayed /\ balance' = balance /\ pressed' = pressed /\ button' = button
      /\ state' = state /\ focus' = focus
  BY DEF history
<1>3. WalkInv' /\ FlagInv' /\ \E h, k \in Call :
              /\ Sent(h, k, w) /\ Rank(h) = 1 /\ Rank(k) = 0
              /\ h.op = "dispatch" /\ h.arg = "LEAVE" /\ h.e = Top.e
              /\ k.op = "cross" /\ k.arg = "DRAG_LEAVE" /\ k.e = Top.e
  BY <1>1, <1>2, Forgets DEF MouseInv
<1>4. PICK h \in Call, k \in Call :
        /\ Sent(h, k, w) /\ Rank(h) = 1 /\ Rank(k) = 0
        /\ h.op = "dispatch" /\ h.arg = "LEAVE" /\ h.e = e
        /\ k.op = "cross" /\ k.arg = "DRAG_LEAVE" /\ k.e = e
  BY <1>3
<1>5. Among({h, k, w})
  BY <1>4 DEF Sent, Among
<1>6. \A c \in {h, k, w} : /\ CallOK(c) /\ ~Dispatched(c, "DOWN") /\ ~Dispatched(c, "DRAG_START")
                           /\ c.op \notin {"release", "drag"}
                           /\ c.op \in {"rise", "descend", "clear", "exit"} => c = w
  <2>1. CallOK(h) /\ CallOK(k) /\ CallOK(w)
    BY <1>1, <1>4, UpFacts DEF CallOK
  <2>. QED  BY <1>1, <1>4, <2>1 DEF Dispatched
<1>7. /\ \A c : c \in ToSet(calls) <=> c = Top \/ c \in ToSet(Rest)
      /\ \A c : c \in ToSet(Rest) => Rank(c) = 0 \/ Rank(c) > 2
      /\ \A type, x : ~Pending(calls, type, x)
  BY <1>1, Walking
<1>8. TypeOK'
  BY <1>2, <1>5 DEF MouseInv, TypeOK, Call, Among
<1>9. CallInv'
  BY <1>1, <1>5, <1>6, CallFrame DEF MouseInv
<1>10. DownInv'
  <2>1. \A c \in {h, k, w} : ~Dispatched(c, "DOWN")
    BY <1>6
  <2>. QED  BY <1>1, <1>5, <2>1, DownFrame DEF MouseInv
<1>11. \A type, x : Pending(calls', type, x) <=> type = "LEAVE" /\ x = e
  <2>1. \A c : c \in ToSet(calls') /\ Rank(c) = 1 <=> c = h
    BY <1>4 DEF Sent
  <2>2. \A type, x : Pending(calls', type, x) <=> h.arg = type /\ h.e = x
    <3>. DEFINE t == calls'
    <3>1. \A c : c \in ToSet(t) /\ Rank(c) = 1 <=> c = h
      BY <2>1
    <3>. HIDE DEF t
    <3>2. \A type, x : Pending(t, type, x) <=> h.arg = type /\ h.e = x
      BY <3>1, Told
    <3>. QED  BY <3>2 DEF t
  <2>. QED  BY <1>4, <2>2
<1>12. LookInv'
  <2>1. ASSUME NEW c \in ToSet(calls'), c.op = "exit", c.e = None PROVE Win \notin mouse_in'
    <3>1. Rank(c) = 2
      BY <2>1 DEF Rank, Hovers
    <3>2. c = w
      BY <1>4, <2>1, <3>1 DEF Sent
    <3>3. e = Win
      BY <2>1, <3>2, UpFacts
    <3>. QED  BY <3>3
  <2>. QED  BY <1>2, <1>7, <1>11, <2>1 DEF MouseInv, LookInv
<1>13. ClickInv'
  <2>1. Top.op # "drag"
    BY <1>1
  <2>2. \A c \in {h, k, w} : /\ c.op \in {"rise", "descend", "clear"} =>
                                  calls # <<>> /\ Top.op \in {"rise", "descend", "clear"}
                             /\ c.op # "release" /\ ~Dispatched(c, "DRAG_START")
    BY <1>1, <1>6
  <2>. QED  BY <1>1, <1>2, <1>5, <2>1, <2>2, ClickFrame DEF MouseInv
<1>. QED  BY <1>3, <1>8, <1>9, <1>10, <1>12, <1>13 DEF MouseInv

\* The walk is over, and the pointer is in u.
LEMMA Arrives ==
  ASSUME MouseInv, calls # <<>>, Rank(Top) = 2, calls' = Rest,
         mouse_in' = mouse_in \/ mouse_in' = mouse_in \ {Win},
         Win \in mouse_in \ mouse_in' => element_underneath' = None /\ Top.op = "exit" /\ Top.e = None,
         element_underneath' \in Elem \cup {None}, mouse_in_overlay' \in BOOLEAN,
         Under(element_underneath', mouse_in_overlay'),
         element_underneath' = None \/ Top.op \in {"descend", "clear"},
         \A x : x \in Line(Top.e) \/ x \in Line(Top.f) <=> x \in Line(element_underneath'),
         UNCHANGED <<strayed, button, focus, state, history>>
  PROVE  MouseInv'
<1>1. calls \in Seq(Call) /\ Ranked(calls) /\ Top \in ToSet(calls)
  BY Types
<1>2. /\ Rest \in Seq(Call) /\ Ranked(Rest)
      /\ \A c : c \in ToSet(calls) <=> c = Top \/ c \in ToSet(Rest)
      /\ \A c : c \in ToSet(Rest) => Rank(c) = 0 \/ Rank(c) > 2
      /\ \A u, x : On(calls, u, x) <=> x \in Line(Top.e) \/ x \in Line(Top.f)
      /\ \A type, x : ~Pending(calls, type, x)
  BY <1>1, Walking
<1>3. /\ strayed' = strayed /\ balance' = balance /\ pressed' = pressed /\ button' = button
      /\ state' = state /\ focus' = focus
  BY DEF history
<1>4. Among({})
  BY <1>1, MakesNothing
<1>5. /\ \A u, x : On(Rest, u, x) <=> x \in Line(u)
      /\ \A type, x : ~Pending(Rest, type, x)
  <2>1. \A c : c \in ToSet(Rest) => Rank(c) # 2 /\ Rank(c) # 1
    BY <1>2
  <2>. QED  BY <2>1, OffWalk, Untold
<1>6. TypeOK'
  <2>1. mouse_in' \in SUBSET Elem
    BY DEF MouseInv, TypeOK
  <2>. QED  BY <1>3, <1>4, <2>1 DEF MouseInv, TypeOK, Call, Among
<1>7. WalkInv'
  <2>1. \A c \in ToSet(Rest) : Rank(c) # 2 /\ ~Hovers(c)
    BY <1>2, RankType
  <2>. QED  BY <1>2, <2>1 DEF WalkInv
<1>8. FlagInv'
  <2>1. \A x \in Elem \ Roots : x \in mouse_in' <=> x \in mouse_in
    BY DEF Roots
  <2>. QED  BY <1>2, <1>3, <1>5, <2>1 DEF MouseInv, FlagInv
<1>9. CallInv'
  BY <1>1, <1>4, CallFrame DEF MouseInv
<1>10. DownInv'
  BY <1>1, <1>4, DownFrame DEF MouseInv
<1>11. LookInv'
  <2>1. \A c \in ToSet(Rest) : c.op # "exit"
    BY <1>2 DEF Rank, Hovers
  <2>2. \A x \in mouse_in : x \in mouse_in'
    BY <1>1 DEF MouseInv, LookInv
  <2>. QED  BY <1>2, <1>3, <1>5, <2>1, <2>2 DEF MouseInv, LookInv
<1>12. ClickInv'
  <2>1. Top.op # "drag"
    BY DEF Rank, Hovers
  <2>2. \A c : c.op = "drag" /\ c \in ToSet(calls) => c \in ToSet(Rest)
    BY <1>2, <2>1
  <2>3. \A n \in Button : DragsAt(calls, n) => DragsAt(Rest, n)
    BY <2>2 DEF DragsAt
  <2>4. \A c \in ToSet(Rest) :
          /\ c.op \in {"rise", "descend", "clear"} => \E d \in ToSet(Rest) : d.op = "drag" /\ d.b = 0
          /\ c.op = "release" => button[c.b].state = "UP"
          /\ Dispatched(c, "DRAG_START") => button[c.b].state # "DOWN"
    BY <1>2, <2>2 DEF MouseInv, ClickInv
  <2>5. \A n \in Button : DragsAt(Rest, n) \/ Underneath' = Win
    <3>1. CASE element_underneath' = None
      BY <3>1 DEF Underneath
    <3>2. CASE Top.op \in {"descend", "clear"}
      <4>1. PICK d \in ToSet(calls) : d.op = "drag" /\ d.b = 0
        BY <1>1, <3>2 DEF MouseInv, ClickInv
      <4>2. d \in ToSet(Rest) /\ \A n \in Button : d.b <= n
        BY <2>2, <4>1, PointerAssumption DEF Button
      <4>. QED  BY <4>1, <4>2 DEF DragsAt
    <3>. QED  BY <3>1, <3>2
  <2>. QED  BY <1>3, <2>3, <2>4, <2>5 DEF MouseInv, ClickInv
<1>. QED  BY <1>6, <1>7, <1>8, <1>9, <1>10, <1>11, <1>12 DEF MouseInv

\* The walk goes on from somewhere else, and nothing is to be told.
LEMMA GoesOn ==
  ASSUME MouseInv, calls # <<>>, Rank(Top) = 2, Top.op \in {"rise", "descend"},
         NEW w \in Call, w.op \in {"descend", "clear"}, w.e \in Elem, calls' = <<w>> \o Rest,
         mouse_in_overlay' \in BOOLEAN, WalkOK(w, mouse_in_overlay'),
         \A x : x \in Line(Top.e) \/ x \in Line(Top.f) <=> x \in Line(w.e) \/ x \in Line(w.f),
         UNCHANGED <<mouse_in, element_underneath, strayed, button, focus, state, history>>
  PROVE  MouseInv'
<1>1. /\ calls \in Seq(Call) /\ Ranked(calls)
      /\ Rank(w) = 2 /\ CallOK(w) /\ \A t : ~Dispatched(w, t)
  BY Types DEF Rank, Hovers, CallOK, Dispatched
<1>2. /\ \A c : c \in ToSet(calls) <=> c = Top \/ c \in ToSet(Rest)
      /\ \A c : c \in ToSet(Rest) => Rank(c) = 0 \/ Rank(c) > 2
      /\ \A u, x : On(calls, u, x) <=> x \in Line(Top.e) \/ x \in Line(Top.f)
      /\ \A type, x : ~Pending(calls, type, x)
  BY <1>1, Walking
<1>3. /\ mouse_in' = mouse_in /\ element_underneath' = element_underneath
      /\ strayed' = strayed /\ balance' = balance /\ pressed' = pressed /\ button' = button
      /\ state' = state /\ focus' = focus
  BY DEF history
<1>4. Among({w})
  BY <1>1, MakesOne DEF Goes
<1>5. \A c : c \in ToSet(calls') <=> c = w \/ c \in ToSet(Rest)
  BY <1>4 DEF Among
<1>6. /\ \A c : c \in ToSet(calls') => Rank(c) # 1
      /\ \A c : c \in ToSet(calls') /\ Rank(c) = 2 <=> c = w
  <2>1. \A c : c \in ToSet(Rest) => Rank(c) # 1 /\ Rank(c) # 2
    BY <1>2
  <2>2. \A c : c \in ToSet(calls') => Rank(c) # 1
    BY <1>1, <1>5, <2>1
  <2>3. \A c : c \in ToSet(calls') /\ Rank(c) = 2 <=> c = w
    BY <1>1, <1>5, <2>1
  <2>. QED  BY <2>2, <2>3
<1>7. /\ \A u, x : On(calls', u, x) <=> x \in Line(w.e) \/ x \in Line(w.f)
      /\ \A type, x : ~Pending(calls', type, x)
  <2>. DEFINE t == calls'
  <2>1. /\ \A c : c \in ToSet(t) /\ Rank(c) = 2 <=> c = w
        /\ \A c : c \in ToSet(t) => Rank(c) # 1
    BY <1>6
  <2>. HIDE DEF t
  <2>2. \A u, x : On(t, u, x) <=> x \in Line(w.e) \/ x \in Line(w.f)
    BY <1>1, <2>1, OnWalk
  <2>3. \A type, x : ~Pending(t, type, x)
    BY <2>1, Untold
  <2>. QED  BY <2>2, <2>3 DEF t
<1>8. TypeOK'
  BY <1>3, <1>4 DEF MouseInv, TypeOK, Call, Among
<1>9. WalkInv'
  <2>1. Ranked(calls') /\ \A c \in ToSet(calls') : Rank(c) = 2 => WalkOK(c, mouse_in_overlay')
    BY <1>4, <1>6 DEF Among
  <2>2. w \in ToSet(calls') /\ w.op \in {"rise", "descend", "clear"}
    BY <1>5
  <2>3. \A c \in ToSet(calls') : ~Hovers(c)
    BY <1>6, RankType
  <2>. QED  BY <2>1, <2>2, <2>3 DEF WalkInv
<1>10. FlagInv'
  BY <1>2, <1>3, <1>7 DEF MouseInv, FlagInv
<1>11. CallInv'
  BY <1>1, <1>4, CallFrame DEF MouseInv
<1>12. DownInv'
  BY <1>1, <1>4, DownFrame DEF MouseInv
<1>13. LookInv'
  <2>1. Rank(Top) # 1 /\ Rank(w) # 1 /\ w.op # "exit"
    BY <1>1
  <2>. QED  BY <1>1, <1>3, <1>4, <2>1, LookFrame DEF MouseInv
<1>14. ClickInv'
  <2>1. Top.op # "drag" /\ Top.op \in {"rise", "descend", "clear"} /\ w.op # "release"
    OBVIOUS
  <2>. QED  BY <1>1, <1>3, <1>4, <2>1, ClickFrame DEF MouseInv
<1>. QED  BY <1>8, <1>9, <1>10, <1>11, <1>12, <1>13, <1>14 DEF MouseInv

LEMMA WalkTop ==
  ASSUME MouseInv, calls # <<>>, Top.op \in {"rise", "descend", "clear", "exit"}
  PROVE  /\ Rank(Top) = 2 /\ Top \in Call /\ WalkOK(Top, mouse_in_overlay) /\ mouse_in_overlay \in BOOLEAN
         /\ Top.e \in Elem \cup {None} /\ Top.f \in Elem \cup {None}
         /\ Top.op # "exit" => Top.e \in Elem
         /\ Rest \in Seq(Call)
<1>1. Top \in ToSet(calls) /\ Top \in Call /\ CallOK(Top) /\ calls \in Seq(Call)
  BY Types
<1>2. Rank(Top) = 2
  BY DEF Rank, Hovers
<1>3. Rest \in Seq(Call)
  BY <1>1, Taken DEF Rest
<1>. QED  BY <1>1, <1>2, <1>3 DEF MouseInv, WalkInv, TypeOK, Call, CallOK

LEMMA ExitBodyStep ==
  ASSUME MouseInv, ExitBody PROVE MouseInv'
<1>1. calls # <<>> /\ Top.op = "exit"
  BY DEF ExitBody, Running
<1>2. /\ Rank(Top) = 2 /\ Top \in Call /\ WalkOK(Top, mouse_in_overlay) /\ Rest \in Seq(Call)
      /\ Top.e \in Elem \cup {None} /\ mouse_in_overlay \in BOOLEAN /\ Top.f = None
  BY <1>1, WalkTop DEF WalkOK
<1>3. CASE Top.e = None
  <2>1. /\ element_underneath' = None /\ mouse_in' = mouse_in \ {Win} /\ calls' = Rest
        /\ mouse_in_overlay' = mouse_in_overlay
        /\ UNCHANGED <<strayed, button, focus, state, history>>
    BY <1>3 DEF ExitBody
  <2>2. Under(element_underneath', mouse_in_overlay')
    BY <2>1 DEF Under
  <2>. QED  BY <1>1, <1>2, <1>3, <2>1, <2>2, Arrives
<1>4. CASE Top.e # None
  <2>. DEFINE w == Do("exit", Up(Top.e))
  <2>1. /\ mouse_in' = mouse_in \ {Top.e} /\ calls' = LeaveCalls(Top.e) \o <<w>> \o Rest
        /\ UNCHANGED <<element_underneath, mouse_in_overlay, strayed, button, focus, state, history>>
    BY <1>4 DEF ExitBody, Forget
  <2>2. Top.e \in Elem /\ Up(Top.e) \in Elem \cup {None}
    BY <1>2, <1>4, UpFacts
  <2>3. w \in Call /\ w.op = Top.op /\ w.e = Up(Top.e) /\ w.f = Top.f
    BY <1>1, <1>2, <2>2, DoFacts
  <2>. HIDE DEF w
  <2>4. WalkOK(w, mouse_in_overlay)
    BY <1>1, <1>2, <2>3 DEF WalkOK
  <2>. QED  BY <1>1, <1>2, <2>1, <2>2, <2>3, <2>4, ForgetStep
<1>. QED  BY <1>3, <1>4

LEMMA RiseStep ==
  ASSUME MouseInv, Rise PROVE MouseInv'
<1>. DEFINE e == Top.e
<1>1. calls # <<>> /\ Top.op = "rise"
  BY DEF Rise, Running
<1>2. /\ Rank(Top) = 2 /\ Top \in Call /\ WalkOK(Top, mouse_in_overlay) /\ Rest \in Seq(Call)
      /\ e \in Elem /\ mouse_in_overlay \in BOOLEAN /\ Top.f = None
      /\ RootOf(e) = Overlay => mouse_in_overlay
      /\ mouse_in_overlay => e = Win \/ RootOf(e) = Overlay
  BY <1>1, WalkTop DEF WalkOK
<1>3. CASE e # Win /\ e \notin Cover[Top.arg]
  <2>. DEFINE w == [Top EXCEPT !.e = Up(e)]
  <2>1. /\ mouse_in' = mouse_in \ {e} /\ calls' = LeaveCalls(e) \o <<w>> \o Rest
        /\ UNCHANGED <<element_underneath, mouse_in_overlay, strayed, button, focus, state, history>>
    BY <1>3 DEF Rise, Forget
  <2>2. /\ Up(e) \in Elem /\ (e \notin Roots => RootOf(Up(e)) = RootOf(e))
        /\ (e \in Roots => Up(e) = Win)
    BY <1>2, <1>3, UpFacts, Ends DEF Roots
  <2>3. w \in Call /\ w.op = Top.op /\ w.e = Up(e) /\ w.f = Top.f
    BY <1>2, <2>2 DEF Call
  <2>. HIDE DEF w
  <2>4. WalkOK(w, mouse_in_overlay)
    <3>1. CASE e \in Roots
      BY <1>1, <1>2, <2>2, <2>3, <3>1, Ends DEF WalkOK
    <3>2. CASE e \notin Roots
      BY <1>1, <1>2, <2>2, <2>3, <3>2, Ends DEF WalkOK, Roots
    <3>. QED  BY <3>1, <3>2
  <2>5. w.e # None
    BY <2>2, <2>3, Ends
  <2>. QED  BY <1>1, <1>2, <2>1, <2>3, <2>4, <2>5, ForgetStep
<1>4. CASE ~(e # Win /\ e \notin Cover[Top.arg])
  <2>. DEFINE out == e = Overlay \/ (e = Win /\ mouse_in_overlay)
              ret == IF out THEN Win ELSE e
              x == At("descend", ret, Top.arg)
              y == Op("descend", Overlay, ret, Top.arg, 0)
  <2>1. /\ mouse_in_overlay' = (mouse_in_overlay /\ ~out)
        /\ calls' = <<IF mouse_in_overlay' THEN x ELSE y>> \o Rest
        /\ UNCHANGED <<mouse_in, element_underneath, strayed, button, focus, state, history>>
    BY <1>4 DEF Rise
  <2>2. ret \in Elem /\ \A n : n \in Line(ret) <=> n \in Line(e)
    BY <1>2, Ends
  <2>3. /\ x \in Call /\ x.op = "descend" /\ x.e = ret /\ x.f = None
        /\ y \in Call /\ y.op = "descend" /\ y.e = Overlay /\ y.f = ret
    <3>1. Top.arg \in EventType \cup Point \cup {"none"} /\ 0 \in Button
      BY <1>2, Types DEF Call
    <3>2. x \in Call /\ x.op = "descend" /\ x.e = ret /\ x.f = None
      BY <2>2, <3>1, AtFacts
    <3>3. y \in Call
      BY <2>2, <3>1, Ends DEF Op, Call, OpName
    <3>. QED  BY <3>2, <3>3 DEF Op
  <2>4. mouse_in_overlay' \in BOOLEAN /\ (mouse_in_overlay' => ret = e /\ ret # Overlay /\ RootOf(ret) = Overlay)
    BY <1>2, <2>1
  <2>5. ~mouse_in_overlay' => RootOf(ret) = Win /\ ret # None
    <3>1. RootOf(ret) \in {Win, Overlay} /\ RootOf(Win) = Win
      BY Ends DEF RootOf
    <3>. QED  BY <1>2, <2>1, <2>2, <3>1, Ends
  <2>. HIDE DEF x, y, ret, out
  <2>6. CASE mouse_in_overlay'
    <3>1. WalkOK(x, mouse_in_overlay')
      BY <2>3, <2>4, <2>6 DEF WalkOK
    <3>2. calls' = <<x>> \o Rest
      BY <2>1, <2>6
    <3>. QED  BY <1>1, <1>2, <2>1, <2>2, <2>3, <2>4, <3>1, <3>2, GoesOn
  <2>7. CASE ~mouse_in_overlay'
    <3>1. WalkOK(y, mouse_in_overlay')
      BY <2>3, <2>5, <2>7, Ends DEF WalkOK
    <3>2. calls' = <<y>> \o Rest
      BY <2>1, <2>7
    <3>3. \A n : n \in Line(e) \/ n \in Line(Top.f) <=> n \in Line(y.e) \/ n \in Line(y.f)
      BY <1>2, <2>2, <2>3, Ends
    <3>4. y.e \in Elem
      BY <2>3, Ends
    <3>. QED  BY <1>1, <1>2, <2>1, <2>3, <2>4, <3>1, <3>2, <3>3, <3>4, GoesOn
  <2>. QED  BY <2>6, <2>7
<1>. QED  BY <1>3, <1>4

LEMMA ClearStep ==
  ASSUME MouseInv, Clear PROVE MouseInv'
<1>. DEFINE e == Top.e
<1>1. calls # <<>> /\ Top.op = "clear"
  BY DEF Clear, Running
<1>2. /\ Rank(Top) = 2 /\ Top \in Call /\ WalkOK(Top, mouse_in_overlay) /\ Rest \in Seq(Call)
      /\ e \in Elem /\ Top.f \in Elem \cup {None} /\ ~mouse_in_overlay
      /\ RootOf(e) = Win /\ RootOf(Top.f) = Overlay /\ Top.f # None /\ Top.f # Overlay
  BY <1>1, WalkTop DEF WalkOK
<1>3. CASE e = Win
  <2>1. /\ mouse_in_overlay' = TRUE /\ element_underneath' = Top.f /\ calls' = Rest /\ mouse_in' = mouse_in
        /\ UNCHANGED <<strayed, button, focus, state, history>>
    BY <1>3 DEF Clear
  <2>2. Under(element_underneath', mouse_in_overlay')
    BY <1>2, <2>1 DEF Under
  <2>3. \A n : n \in Line(e) \/ n \in Line(Top.f) <=> n \in Line(element_underneath')
    BY <1>3, <2>1, Ends
  <2>. QED  BY <1>1, <1>2, <2>1, <2>2, <2>3, Arrives
<1>4. CASE e # Win
  <2>. DEFINE w == [Top EXCEPT !.e = Up(e)]
  <2>1. /\ mouse_in' = mouse_in \ {e} /\ calls' = LeaveCalls(e) \o <<w>> \o Rest
        /\ UNCHANGED <<element_underneath, mouse_in_overlay, strayed, button, focus, state, history>>
    BY <1>4 DEF Clear, Forget
  <2>2. e \notin Roots
    BY <1>2, <1>4, Ends DEF Roots
  <2>3. Up(e) \in Elem /\ RootOf(Up(e)) = RootOf(e) /\ Up(e) # None
    BY <1>2, <1>4, <2>2, UpFacts, Ends
  <2>4. w \in Call /\ w.op = Top.op /\ w.e = Up(e) /\ w.f = Top.f
    BY <1>2, <2>3 DEF Call
  <2>. HIDE DEF w
  <2>5. WalkOK(w, mouse_in_overlay)
    BY <1>1, <1>2, <2>3, <2>4 DEF WalkOK
  <2>. QED  BY <1>1, <1>2, <2>1, <2>3, <2>4, <2>5, ForgetStep
<1>. QED  BY <1>3, <1>4

\* The walk goes down into an element.
LEMMA EntersStep ==
  ASSUME MouseInv, calls # <<>>, Top.op = "descend",
         NEW c \in Elem \ Roots, Parent[c] = Top.e,
         NEW w \in Call, w.op = "descend", w.e = c, w.f = Top.f,
         mouse_in' = mouse_in \cup {c}, strayed' = strayed \ {c},
         calls' = EnterCalls(c) \o <<w>> \o Rest,
         UNCHANGED <<element_underneath, mouse_in_overlay, button, focus, state, history>>
  PROVE  MouseInv'
<1>. DEFINE e == Top.e
<1>1. /\ calls \in Seq(Call) /\ Ranked(calls) /\ Rank(w) = 2 /\ ~Hovers(w) /\ \A t : ~Dispatched(w, t)
      /\ Rank(Top) = 2
  BY Types DEF Rank, Hovers, Dispatched
<1>2. /\ element_underneath' = element_underneath /\ mouse_in_overlay' = mouse_in_overlay
      /\ balance' = balance /\ pressed' = pressed /\ button' = button
      /\ state' = state /\ focus' = focus
  BY DEF history
<1>3. /\ Rest \in Seq(Call) /\ Ranked(Rest) /\ Top \in ToSet(calls)
      /\ \A d : d \in ToSet(Rest) => Rank(d) = 0 \/ Rank(d) > 2
      /\ \A u, x : On(calls, u, x) <=> x \in Line(Top.e) \/ x \in Line(Top.f)
      /\ \A type, x : ~Pending(calls, type, x)
      /\ \A d : d \in ToSet(calls) <=> d = Top \/ d \in ToSet(Rest)
  BY <1>1, Walking
<1>4. /\ Top.f \in Elem \cup {None} /\ mouse_in_overlay \in BOOLEAN
      /\ Top.f = None => e # Overlay /\ (mouse_in_overlay <=> RootOf(e) = Overlay)
      /\ Top.f # None => ~mouse_in_overlay /\ RootOf(e) = Overlay /\ RootOf(Top.f) = Win
  BY <1>1, WalkTop DEF WalkOK
<1>5. /\ c \in Elem /\ c \in Line(c) /\ c \notin Line(e) /\ RootOf(c) = RootOf(e) /\ c # Overlay /\ c # Win
      /\ \A x : x \in Line(c) <=> x = c \/ x \in Line(e)
  BY Around DEF Roots
<1>6. c \notin Line(Top.f)
  <2>1. CASE Top.f = None
    BY <2>1, Ends
  <2>2. CASE Top.f # None
    BY <1>4, <1>5, <2>2, Ends, OnLine
  <2>. QED  BY <2>1, <2>2
<1>7. WalkOK(w, mouse_in_overlay)
  BY <1>4, <1>5 DEF WalkOK
<1>8. PICK h \in Call, k \in Call :
        /\ EnterCalls(c) = <<h, k>> /\ Hovers(h) /\ h.op = "dispatch" /\ h.arg = "ENTER" /\ h.e = c
        /\ Rank(h) = 1 /\ Rank(k) = 0 /\ k.op = "cross" /\ k.arg = "DRAG_ENTER" /\ k.e = c
  BY <1>5, EnterType
<1>9. Sent(h, k, w)
  <2>. DEFINE r == Rest
              t == calls'
  <2>1. /\ r \in Seq(Call) /\ Ranked(r) /\ \A d : d \in ToSet(r) => Rank(d) = 0 \/ Rank(d) > 2
        /\ Ahead(h, k, w, r, t) /\ Rank(h) = 1 /\ Rank(k) = 0 /\ Rank(w) = 2
    BY <1>1, <1>3, <1>8 DEF Ahead
  <2>2. SUFFICES /\ t \in Seq(Call) /\ t # <<>> /\ Head(t) = h /\ Ranked(t)
                 /\ \A d : d \in ToSet(t) <=> d = h \/ d = k \/ d = w \/ d \in ToSet(r)
                 /\ \A d : d \in ToSet(t) /\ Rank(d) = 2 <=> d = w
                 /\ \A d : d \in ToSet(t) /\ Rank(d) = 1 <=> d = h
    BY DEF Sent
  <2>. HIDE DEF r, t
  <2>. QED  BY <2>1, InFront
<1>10. /\ \A u, x : On(calls', u, x) <=> x \in Line(c) \/ x \in Line(Top.f)
       /\ \A type, x : Pending(calls', type, x) <=> type = "ENTER" /\ x = c
  <2>. DEFINE t == calls'
  <2>1. /\ \A d : d \in ToSet(t) /\ Rank(d) = 2 <=> d = w
        /\ \A d : d \in ToSet(t) /\ Rank(d) = 1 <=> d = h
    BY <1>9 DEF Sent
  <2>. HIDE DEF t
  <2>2. \A u, x : On(t, u, x) <=> x \in Line(w.e) \/ x \in Line(w.f)
    BY <1>1, <2>1, OnWalk
  <2>3. \A type, x : Pending(t, type, x) <=> h.arg = type /\ h.e = x
    BY <2>1, Told
  <2>. QED  BY <1>8, <2>2, <2>3 DEF t
<1>11. Among({h, k, w})
  BY <1>9 DEF Sent, Among
<1>12. \A d \in {h, k, w} : /\ CallOK(d) /\ ~Dispatched(d, "DOWN") /\ ~Dispatched(d, "DRAG_START")
                            /\ d.op \notin {"release", "drag"}
                            /\ d.op \in {"rise", "descend", "clear", "exit"} => d = w
  <2>1. CallOK(h) /\ CallOK(k) /\ CallOK(w)
    BY <1>5, <1>8 DEF CallOK
  <2>. QED  BY <1>1, <1>8, <2>1 DEF Dispatched
<1>13. TypeOK'
  <2>1. mouse_in' \in SUBSET Elem /\ strayed' \subseteq Elem \ Roots
    BY <1>5 DEF MouseInv, TypeOK
  <2>. QED  BY <1>2, <1>11, <2>1 DEF MouseInv, TypeOK, Call, Among
<1>14. CallInv'
  BY <1>1, <1>11, <1>12, CallFrame DEF MouseInv
<1>15. DownInv'
  BY <1>1, <1>11, <1>12, DownFrame DEF MouseInv
<1>16. WalkInv'
  <2>1. Ranked(calls') /\ \A d \in ToSet(calls') : Rank(d) = 2 => WalkOK(d, mouse_in_overlay')
    BY <1>2, <1>7, <1>9 DEF Sent
  <2>2. w \in ToSet(calls') /\ w.op \in {"rise", "descend", "clear"}
    BY <1>9 DEF Sent
  <2>3. ASSUME NEW d \in ToSet(calls'), Hovers(d), d.e \notin Roots PROVE Leads(calls', d)
    <3>1. d = h
      BY <1>9, <2>3, RankType DEF Sent
    <3>. QED  BY <1>1, <1>8, <2>2, <3>1 DEF Leads
  <2>. QED  BY <2>1, <2>2, <2>3 DEF WalkInv
<1>17. FlagInv'
  <2>. SUFFICES ASSUME NEW x \in Elem \ Roots
                PROVE  /\ x \in mouse_in' <=> On(calls', element_underneath', x) \/ x \in strayed'
                       /\ On(calls', element_underneath', x) => x \notin strayed'
                       /\ balance'[x] = IF \/ Pending(calls', "LEAVE", x)
                                            \/ /\ On(calls', element_underneath', x)
                                               /\ ~Pending(calls', "ENTER", x)
                                         THEN 1 ELSE 0
    BY DEF FlagInv
  <2>1. /\ On(calls, element_underneath, x) <=> x \in Line(e) \/ x \in Line(Top.f)
        /\ On(calls', element_underneath', x) <=> x \in Line(c) \/ x \in Line(Top.f)
        /\ Pending(calls', "ENTER", x) <=> x = c
        /\ ~Pending(calls', "LEAVE", x) /\ ~Pending(calls, "ENTER", x) /\ ~Pending(calls, "LEAVE", x)
    BY <1>3, <1>10
  <2>2. /\ x \in mouse_in <=> On(calls, element_underneath, x) \/ x \in strayed
        /\ On(calls, element_underneath, x) => x \notin strayed
        /\ balance[x] = IF On(calls, element_underneath, x) THEN 1 ELSE 0
    BY <2>1 DEF MouseInv, FlagInv
  <2>3. /\ x \in mouse_in' <=> x \in mouse_in \/ x = c
        /\ x \in strayed' <=> x \in strayed /\ x # c
    OBVIOUS
  <2>. QED  BY <1>2, <1>5, <1>6, <2>1, <2>2, <2>3
<1>18. LookInv'
  <2>1. \A d \in ToSet(calls') : d.op # "exit"
    <3>1. \A d : d.op = "exit" => Rank(d) = 2
      BY DEF Rank, Hovers
    <3>2. \A d \in ToSet(calls') : Rank(d) = 2 => d = w
      BY <1>9 DEF Sent
    <3>. QED  BY <3>1, <3>2
  <2>2. ~Pending(calls', "ENTER", Win)
    BY <1>5, <1>10
  <2>. QED  BY <1>2, <1>3, <2>1, <2>2 DEF MouseInv, LookInv
<1>19. ClickInv'
  <2>1. \A d \in {h, k, w} : /\ d.op \in {"rise", "descend", "clear"} =>
                                  calls # <<>> /\ Top.op \in {"rise", "descend", "clear"}
                             /\ d.op # "release" /\ ~Dispatched(d, "DRAG_START")
    BY <1>12
  <2>. QED  BY <1>1, <1>2, <1>11, <2>1, ClickFrame DEF MouseInv
<1>. QED  BY <1>13, <1>14, <1>15, <1>16, <1>17, <1>18, <1>19 DEF MouseInv

LEMMA DescendStep ==
  ASSUME MouseInv, Descend PROVE MouseInv'
<1>. DEFINE e == Top.e
            hit == {c \in Elem \ Roots : Parent[c] = e /\ c \in Cover[Top.arg]}
<1>1. calls # <<>> /\ Top.op = "descend"
  BY DEF Descend, Running
<1>2. /\ Rank(Top) = 2 /\ Top \in Call /\ Rest \in Seq(Call)
      /\ e \in Elem /\ Top.f \in Elem \cup {None} /\ mouse_in_overlay \in BOOLEAN
      /\ Top.f = None => e # Overlay /\ (mouse_in_overlay <=> RootOf(e) = Overlay)
      /\ Top.f # None => ~mouse_in_overlay /\ RootOf(e) = Overlay /\ RootOf(Top.f) = Win
  BY <1>1, WalkTop DEF WalkOK
<1>3. UNCHANGED <<button, focus, state, history>>
  BY DEF Descend
<1>4. ASSUME NEW c \in hit,
             mouse_in' = mouse_in \cup {c} /\ strayed' = strayed \ {c},
             calls' = EnterCalls(c) \o <<[Top EXCEPT !.e = c]>> \o Rest,
             UNCHANGED <<element_underneath, mouse_in_overlay>>
      PROVE  MouseInv'
  <2>. DEFINE w == [Top EXCEPT !.e = c]
  <2>1. c \in Elem \ Roots /\ Parent[c] = e /\ calls' = EnterCalls(c) \o <<w>> \o Rest
    BY <1>4
  <2>2. w \in Call /\ w.op = "descend" /\ w.e = c /\ w.f = Top.f
    BY <1>1, <1>2, <2>1 DEF Call
  <2>. HIDE DEF w
  <2>. QED  BY <1>1, <1>3, <1>4, <2>1, <2>2, EntersStep
<1>5. ASSUME Top.f = None, element_underneath' = e, calls' = Rest,
             UNCHANGED <<mouse_in, mouse_in_overlay, strayed>>
      PROVE  MouseInv'
  <2>1. Under(element_underneath', mouse_in_overlay')
    BY <1>2, <1>5 DEF Under
  <2>2. \A n : n \in Line(e) \/ n \in Line(Top.f) <=> n \in Line(element_underneath')
    BY <1>5, Ends
  <2>. QED  BY <1>1, <1>2, <1>3, <1>5, <2>1, <2>2, Arrives
<1>6. ASSUME Top.f # None, UNCHANGED pointer,
             calls' = <<IF e = Overlay THEN At("descend", Top.f, Top.arg)
                                       ELSE Op("clear", Top.f, e, "none", 0)>> \o Rest
      PROVE  MouseInv'
  <2>. DEFINE x == At("descend", Top.f, Top.arg)
              y == Op("clear", Top.f, e, "none", 0)
  <2>1. /\ UNCHANGED <<mouse_in, element_underneath, strayed, button, focus, state, history>>
        /\ mouse_in_overlay' = mouse_in_overlay /\ Top.f \in Elem
    BY <1>2, <1>3, <1>6 DEF pointer
  <2>2. /\ x \in Call /\ x.op = "descend" /\ x.e = Top.f /\ x.f = None
        /\ y \in Call /\ y.op = "clear" /\ y.e = Top.f /\ y.f = e
    <3>1. Top.arg \in EventType \cup Point \cup {"none"} /\ 0 \in Button
      BY <1>2, Types DEF Call
    <3>2. x \in Call /\ x.op = "descend" /\ x.e = Top.f /\ x.f = None
      BY <2>1, <3>1, AtFacts
    <3>3. y \in Call
      BY <1>2, <2>1, <3>1 DEF Op, Call, OpName
    <3>. QED  BY <3>2, <3>3 DEF Op
  <2>3. calls' = <<IF e = Overlay THEN x ELSE y>> \o Rest
    BY <1>6
  <2>4. Top.f # Overlay /\ RootOf(Top.f) # Overlay
    BY <1>2, <1>6, Ends
  <2>. HIDE DEF x, y
  <2>5. CASE e = Overlay
    <3>1. WalkOK(x, mouse_in_overlay')
      BY <1>2, <1>6, <2>1, <2>2, <2>4 DEF WalkOK
    <3>2. calls' = <<x>> \o Rest /\ x.e \in Elem
      BY <2>1, <2>2, <2>3, <2>5
    <3>3. \A n : n \in Line(e) \/ n \in Line(Top.f) <=> n \in Line(x.e) \/ n \in Line(x.f)
      BY <2>2, <2>5, Ends
    <3>4. mouse_in_overlay' \in BOOLEAN
      BY <1>2, <2>1
    <3>. QED  BY <1>1, <1>2, <2>1, <2>2, <3>1, <3>2, <3>3, <3>4, GoesOn
  <2>6. CASE e # Overlay
    <3>1. WalkOK(y, mouse_in_overlay')
      BY <1>2, <1>6, <2>1, <2>2, <2>6, Ends DEF WalkOK
    <3>2. calls' = <<y>> \o Rest /\ y.e \in Elem
      BY <2>1, <2>2, <2>3, <2>6
    <3>3. \A n : n \in Line(e) \/ n \in Line(Top.f) <=> n \in Line(y.e) \/ n \in Line(y.f)
      BY <2>2
    <3>4. mouse_in_overlay' \in BOOLEAN
      BY <1>2, <2>1
    <3>. QED  BY <1>1, <1>2, <2>1, <2>2, <3>1, <3>2, <3>3, <3>4, GoesOn
  <2>. QED  BY <2>5, <2>6
<1>. QED
  <2>1. \/ \E c \in hit :
             /\ mouse_in' = mouse_in \cup {c} /\ strayed' = strayed \ {c}
             /\ calls' = EnterCalls(c) \o <<[Top EXCEPT !.e = c]>> \o Rest
             /\ UNCHANGED <<element_underneath, mouse_in_overlay>>
        \/ /\ Top.f = None /\ element_underneath' = e /\ calls' = Rest
           /\ UNCHANGED <<mouse_in, mouse_in_overlay, strayed>>
        \/ /\ Top.f # None /\ UNCHANGED pointer
           /\ calls' = <<IF e = Overlay THEN At("descend", Top.f, Top.arg)
                                        ELSE Op("clear", Top.f, e, "none", 0)>> \o Rest
    BY DEF Descend
  <2>. QED  BY <1>4, <1>5, <1>6, <2>1

\* The pointer has come into the window, or a drag that has gone out of it back.
LEMMA EnterBodyStep ==
  ASSUME MouseInv, EnterBody PROVE MouseInv'
<1>. DEFINE x == Dispatch(Win, "ENTER", 0)
<1>1. /\ calls # <<>> /\ Top.op = "enter" /\ Rank(Top) = 3 /\ Top.op # "drag"
      /\ mouse_in' = mouse_in \cup {Win} /\ element_underneath' = Win /\ calls' = <<x>> \o Rest
      /\ strayed' = strayed \cup (mouse_in \ Roots)
      /\ balance' = [e \in Elem \ Roots |-> IF e \in mouse_in THEN 0 ELSE balance[e]]
      /\ mouse_in_overlay' = mouse_in_overlay /\ button' = button /\ focus' = focus
      /\ state' = state /\ pressed' = pressed
  BY DEF EnterBody, Running, Rank, Hovers
<1>2. /\ calls \in Seq(Call) /\ Ranked(calls) /\ mouse_in \subseteq Elem
  BY Types
<1>3. /\ x \in Call /\ x.op = "dispatch" /\ x.e = Win /\ x.arg = "ENTER" /\ CallOK(x) /\ Rank(x) = 1
      /\ ~Dispatched(x, "DOWN") /\ ~Dispatched(x, "DRAG_START")
  BY Types, Ends, DispatchFacts DEF EventType
<1>. HIDE DEF x
<1>4. Among({x})
  BY <1>1, <1>2, <1>3, MakesOne DEF Goes
<1>5. /\ \A c : c \in ToSet(calls) => Rank(c) # 1 /\ Rank(c) # 2
      /\ \A u, n : On(calls, u, n) <=> n \in Line(u)
      /\ \A type, n : ~Pending(calls, type, n)
  BY <1>1, <1>2, Calm
<1>6. /\ \A c : c \in ToSet(calls) <=> c = Top \/ c \in ToSet(Rest)
      /\ \A c : c \in ToSet(calls') <=> c = x \/ c \in ToSet(Rest)
  BY <1>1, <1>2, <1>4, Has DEF Among
<1>7. /\ \A c : c \in ToSet(calls') => Rank(c) # 2
      /\ \A c : c \in ToSet(calls') /\ Rank(c) = 1 <=> c = x
  <2>1. \A c : c \in ToSet(Rest) => Rank(c) # 1 /\ Rank(c) # 2
    BY <1>5, <1>6
  <2>2. \A c : c \in ToSet(calls') => Rank(c) # 2
    BY <1>3, <1>6, <2>1
  <2>3. \A c : c \in ToSet(calls') /\ Rank(c) = 1 <=> c = x
    BY <1>3, <1>6, <2>1
  <2>. QED  BY <2>2, <2>3
<1>8. /\ \A u, n : On(calls', u, n) <=> n \in Line(u)
      /\ \A type, n : Pending(calls', type, n) <=> type = "ENTER" /\ n = Win
  <2>. DEFINE t == calls'
  <2>1. /\ \A c : c \in ToSet(t) => Rank(c) # 2
        /\ \A c : c \in ToSet(t) /\ Rank(c) = 1 <=> c = x
    BY <1>7
  <2>. HIDE DEF t
  <2>2. \A u, n : On(t, u, n) <=> n \in Line(u)
    BY <2>1, OffWalk
  <2>3. \A type, n : Pending(t, type, n) <=> x.arg = type /\ x.e = n
    BY <2>1, Told
  <2>. QED  BY <1>3, <2>2, <2>3 DEF t
<1>9. TypeOK'
  <2>1. mouse_in' \in SUBSET Elem /\ strayed' \subseteq Elem \ Roots /\ element_underneath' \in Elem
    BY <1>1, <1>2, Ends DEF MouseInv, TypeOK
  <2>2. balance' \in [Elem \ Roots -> Int]
    BY <1>1 DEF MouseInv, TypeOK
  <2>. QED  BY <1>1, <1>4, <2>1, <2>2 DEF MouseInv, TypeOK, Call, Among
<1>10. CallInv'
  BY <1>2, <1>3, <1>4, CallFrame DEF MouseInv
<1>11. DownInv'
  BY <1>1, <1>2, <1>3, <1>4, DownFrame DEF MouseInv
<1>12. WalkInv'
  <2>1. Under(element_underneath', mouse_in_overlay')
    BY <1>1 DEF Under
  <2>2. \A c \in ToSet(calls') : Hovers(c) => c.e \in Roots
    BY <1>3, <1>7, RankType DEF Roots
  <2>. QED  BY <1>4, <1>7, <2>1, <2>2 DEF WalkInv, Among
<1>13. FlagInv'
  <2>. SUFFICES ASSUME NEW n \in Elem \ Roots
                PROVE  /\ n \in mouse_in' <=> On(calls', element_underneath', n) \/ n \in strayed'
                       /\ On(calls', element_underneath', n) => n \notin strayed'
                       /\ balance'[n] = IF \/ Pending(calls', "LEAVE", n)
                                            \/ /\ On(calls', element_underneath', n)
                                               /\ ~Pending(calls', "ENTER", n)
                                         THEN 1 ELSE 0
    BY DEF FlagInv
  <2>1. ~On(calls', element_underneath', n) /\ ~Pending(calls', "LEAVE", n)
    BY <1>1, <1>8, Ends
  <2>2. /\ n \in mouse_in <=> n \in Line(element_underneath) \/ n \in strayed
        /\ balance[n] = IF n \in Line(element_underneath) THEN 1 ELSE 0
    BY <1>5 DEF MouseInv, FlagInv
  <2>3. n # Win /\ (n \in mouse_in' <=> n \in mouse_in) /\ (n \in strayed' <=> n \in strayed \/ n \in mouse_in)
    BY <1>1 DEF Roots
  <2>4. balance'[n] = 0
    BY <1>1, <2>2
  <2>. QED  BY <2>1, <2>2, <2>3, <2>4
<1>14. LookInv'
  <2>1. \A c \in ToSet(calls') : c.op = "exit" => FALSE
    <3>1. \A c : c.op = "exit" => Rank(c) = 2
      BY DEF Rank, Hovers
    <3>. QED  BY <1>7, <3>1
  <2>. QED  BY <1>1, <1>5, <2>1 DEF MouseInv, LookInv
<1>15. ClickInv'
  <2>1. Underneath' = Win
    BY <1>1, Ends DEF Underneath
  <2>2. ASSUME NEW c \in ToSet(calls')
        PROVE  /\ c.op \notin {"rise", "descend", "clear"}
               /\ c.op = "release" => button[c.b].state = "UP"
               /\ Dispatched(c, "DRAG_START") => button[c.b].state # "DOWN"
    <3>1. c.op \in {"rise", "descend", "clear"} => Rank(c) = 2
      BY DEF Rank, Hovers
    <3>2. c = x \/ c \in ToSet(calls)
      BY <1>6
    <3>. QED  BY <1>3, <1>7, <3>1, <3>2 DEF MouseInv, ClickInv
  <2>. QED  BY <1>1, <2>1, <2>2 DEF MouseInv, ClickInv
<1>. QED  BY <1>9, <1>10, <1>11, <1>12, <1>13, <1>14, <1>15 DEF MouseInv

-------------------------------------------------------------------------------
(***************************************************************************)
(* The invariant                                                           *)
(***************************************************************************)
LEMMA InitInv == Init => MouseInv
<1>. SUFFICES ASSUME Init PROVE MouseInv
  OBVIOUS
<1>. USE DEF Init
<1>1. calls \in Seq(Call) /\ calls = <<>> /\ \A c : c \notin ToSet(calls)
  <2>1. calls \in Seq(Call) /\ calls = <<>>
    OBVIOUS
  <2>. QED  BY <2>1, Members
<1>2. Ranked(calls)
  <2>1. Len(calls) = 0
    BY <1>1
  <2>. QED  BY <2>1 DEF Ranked
<1>3. /\ \A u, x : On(calls, u, x) <=> x \in Line(u)
      /\ \A type, e : ~Pending(calls, type, e)
  BY <1>1, <1>2, Calm
<1>4. TypeOK
  <2>1. button \in [Button -> [state : {"UP", "DOWN", "DRAG"}, target : Elem \cup {None}]]
    OBVIOUS
  <2>2. state \in [Elem -> Shown] /\ balance \in [Elem \ Roots -> Int] /\ pressed \in [Button -> Elem \cup {None}]
    BY DEF Shown
  <2>. QED  BY <1>1, <2>1, <2>2 DEF TypeOK, Call
<1>5. WalkInv
  BY <1>1, <1>2 DEF WalkInv, Under
<1>6. FlagInv
  BY <1>3, Ends DEF FlagInv
<1>7. CallInv /\ DownInv
  BY <1>1 DEF CallInv, DownInv
<1>8. LookInv
  BY <1>1, <1>3 DEF LookInv
<1>9. ClickInv
  BY <1>1 DEF ClickInv
<1>. QED  BY <1>4, <1>5, <1>6, <1>7, <1>8, <1>9 DEF MouseInv

LEMMA NextInv == MouseInv /\ [Next]_vars => MouseInv'
<1>. SUFFICES ASSUME MouseInv, [Next]_vars PROVE MouseInv'
  OBVIOUS
<1>1. CASE Event
  <2>1. ASSUME NEW b \in Button, Press(b) \/ Release(b) PROVE MouseInv'
    BY <2>1, PressStep, ReleaseStep
  <2>2. ASSUME NEW p \in Point, Motion(p) \/ EnterWindow(p) PROVE MouseInv'
    BY <2>2, MotionStep, EnterWindowStep
  <2>3. ASSUME NEW e \in Focusable, AppFocus(e) PROVE MouseInv'
    BY <2>3, AppFocusStep, PointerAssumption
  <2>. QED  BY <1>1, <2>1, <2>2, <2>3, LeaveWindowStep, WheelStep, KeyStep DEF Event
<1>2. CASE Step
  <2>1. CASE MotionBody \/ EnterBody \/ ExitBody
    BY <2>1, MotionBodyStep, EnterBodyStep, ExitBodyStep
  <2>2. CASE Rise \/ Descend \/ Clear
    BY <2>2, RiseStep, DescendStep, ClearStep
  <2>3. CASE Cross \/ Drag \/ ReleaseBody
    BY <2>3, CrossStep, DragStep, ReleaseBodyStep
  <2>4. CASE Conclude
    BY <2>4, ConcludeStep
  <2>5. ASSUME NEW g \in Elem, HandlerFocus(g) PROVE MouseInv'
    BY <2>5, HandlerFocusStep
  <2>6. CASE FocusElement \/ Unfocus \/ SetFocus
    BY <2>6, FocusElementStep, UnfocusStep, SetFocusStep
  <2>. QED  BY <1>2, <2>1, <2>2, <2>3, <2>4, <2>5, <2>6 DEF Step
<1>3. CASE UNCHANGED vars
  <2>1. /\ mouse_in' = mouse_in /\ element_underneath' = element_underneath
        /\ mouse_in_overlay' = mouse_in_overlay /\ strayed' = strayed /\ balance' = balance
        /\ pressed' = pressed /\ button' = button /\ state' = state /\ focus' = focus /\ calls' = calls
    BY <1>3 DEF vars, pointer, history
  <2>2. TypeOK'
    BY <2>1 DEF MouseInv, TypeOK
  <2>3. WalkInv' /\ FlagInv' /\ CallInv' /\ DownInv' /\ LookInv'
    BY <2>1 DEF MouseInv, WalkInv, FlagInv, CallInv, DownInv, LookInv
  <2>4. ClickInv'
    BY <2>1 DEF MouseInv, ClickInv, Underneath
  <2>. QED  BY <2>2, <2>3, <2>4 DEF MouseInv
<1>. QED  BY <1>1, <1>2, <1>3 DEF Next

\* Of any element: is it what is underneath, or around that?
LEMMA Inner ==
  ASSUME NEW e \in Elem \ Roots, NEW u
  PROVE  u # None /\ InTree(e, u) <=> e \in Line(u)
BY DEF InTree, Line, Roots

LEMMA InvSound == MouseInv => PointerSound
<1>. SUFFICES ASSUME MouseInv PROVE PointerSound
  OBVIOUS
<1>1. TypeOK
  BY DEF MouseInv
<1>2. ASSUME calls = <<>> PROVE HoverAgrees /\ LooksAgree
  <2>1. /\ \A u, x : On(calls, u, x) <=> x \in Line(u)
        /\ \A type, e : ~Pending(calls, type, e)
    BY <1>2, Types, Calm
  <2>2. HoverAgrees
    <3>. SUFFICES ASSUME NEW e \in Elem \ Roots
                  PROVE  LET in == element_underneath # None /\ InTree(e, element_underneath)
                         IN  /\ e \in mouse_in <=> in \/ e \in strayed
                             /\ in => e \notin strayed
                             /\ balance[e] = IF in THEN 1 ELSE 0
      BY DEF HoverAgrees
    <3>1. /\ e \in mouse_in <=> e \in Line(element_underneath) \/ e \in strayed
          /\ e \in Line(element_underneath) => e \notin strayed
          /\ balance[e] = IF e \in Line(element_underneath) THEN 1 ELSE 0
      BY <2>1 DEF MouseInv, FlagInv
    <3>. QED  BY <3>1, Inner
  <2>3. LooksAgree
    BY <2>1 DEF MouseInv, LookInv, LooksAgree
  <2>. QED  BY <2>2, <2>3
<1>. QED  BY <1>1, <1>2 DEF PointerSound, HoverAgrees, LooksAgree, Idle

\* For every tree, whatever covers what and whatever handlers do with the focus:
\* between events the elements flagged mouse_in are the one underneath the
\* pointer, those around it and those that strayed, each was told so once, and
\* no other looks hovered or active.
THEOREM PointerIsSound == Spec => []PointerSound
BY InitInv, NextInv, InvSound, PTL DEF Spec

-------------------------------------------------------------------------------
(***************************************************************************)
(* What an element may rely on                                             *)
(***************************************************************************)
\* The events are those that HoverService allows.
LEMMA ConcludeHovers ==
  ASSUME MouseInv, Conclude PROVE [Hover!Next]_balance
<1>. DEFINE e == Top.e
<1>1. calls # <<>> /\ Top.op \in {"deliver", "delivered", "dispatch", "dispatched"} /\ Counted
  BY DEF Conclude, Counted
<1>2. CASE e \in Roots \/ Top.arg \notin {"ENTER", "LEAVE"}
  BY <1>1, <1>2 DEF Counted
<1>3. CASE e \notin Roots /\ Top.arg \in {"ENTER", "LEAVE"}
  <2>1. CallOK(Top) /\ Top \in ToSet(calls)
    BY <1>1, Types
  <2>2. e \in Elem \ Roots /\ Top.op \in {"dispatch", "dispatched"}
    BY <1>1, <1>3, <2>1 DEF CallOK
  <2>3. Rank(Top) = 1
    BY <1>3, <2>2 DEF Rank, Hovers
  <2>4. \A type, x : Pending(calls, type, x) <=> Top.arg = type /\ e = x
    BY <1>1, <2>3, Telling
  <2>5. /\ Top.arg = "ENTER" => /\ On(calls, element_underneath, e)
                                /\ Parent[e] \notin Roots => On(calls, element_underneath, Parent[e])
        /\ Top.arg = "LEAVE" => /\ ~On(calls, element_underneath, e)
                                /\ \A c \in Elem \ Roots :
                                     Parent[c] = e => ~On(calls, element_underneath, c)
    BY <1>1, <2>2, <2>3, TellingOf
  <2>6. \A x \in Elem \ Roots :
          balance[x] = IF \/ Pending(calls, "LEAVE", x)
                          \/ On(calls, element_underneath, x) /\ ~Pending(calls, "ENTER", x)
                       THEN 1 ELSE 0
    BY DEF MouseInv, FlagInv
  <2>7. balance \in [Elem \ Roots -> Int]
    BY DEF MouseInv, TypeOK
  <2>8. Parent[e] # e /\ \A c \in Elem \ Roots : Parent[c] = e => c # e
    <3>1. \A c \in Elem \ Roots : Parent[c] # c
      BY TreeAssumption
    <3>. QED  BY <2>2, <3>1
  <2>9. CASE Top.arg = "ENTER"
    <3>1. balance[e] = 0
      BY <2>2, <2>4, <2>6, <2>9
    <3>2. Parent[e] \in Elem \ Roots => balance[Parent[e]] = 1
      BY <2>4, <2>5, <2>6, <2>8, <2>9
    <3>3. balance' = [balance EXCEPT ![e] = 1]
      BY <1>1, <1>3, <2>2, <2>7, <2>9, <3>1 DEF Counted
    <3>4. Hover!Enter(e)
      BY <3>1, <3>2, <3>3 DEF Hover!Enter
    <3>. QED  BY <2>2, <3>4 DEF Hover!Next
  <2>10. CASE Top.arg = "LEAVE"
    <3>1. balance[e] = 1
      BY <2>2, <2>4, <2>6, <2>10
    <3>2. \A c \in Elem \ Roots : Parent[c] = e => balance[c] = 0
      BY <2>4, <2>5, <2>6, <2>8, <2>10
    <3>3. balance' = [balance EXCEPT ![e] = 0]
      BY <1>1, <1>3, <2>2, <2>7, <2>10, <3>1 DEF Counted
    <3>4. Hover!Leave(e)
      BY <3>1, <3>2, <3>3 DEF Hover!Leave
    <3>. QED  BY <2>2, <3>4 DEF Hover!Next
  <2>. QED  BY <1>3, <2>9, <2>10
<1>. QED  BY <1>2, <1>3

LEMMA EnterStrays ==
  ASSUME MouseInv, EnterBody PROVE Strays
<1>. DEFINE S == (mouse_in \ Roots) \ strayed
<1>1. /\ Running("enter")
      /\ strayed' = strayed \cup (mouse_in \ Roots)
      /\ balance' = [e \in Elem \ Roots |-> IF e \in mouse_in THEN 0 ELSE balance[e]]
  BY DEF EnterBody
<1>2. mouse_in \subseteq Elem /\ calls \in Seq(Call) /\ Ranked(calls)
  BY Types
<1>3. S \in SUBSET (Elem \ (Roots \cup strayed))
  BY <1>2
<1>4. strayed' = strayed \cup S
  BY <1>1
<1>5. calls # <<>> /\ Rank(Top) = 3
  BY <1>1 DEF Running, Rank, Hovers
<1>6. /\ \A u, x : On(calls, u, x) <=> x \in Line(u)
      /\ \A type, e : ~Pending(calls, type, e)
  BY <1>2, <1>5, Calm
<1>7. \A e \in Elem \ Roots : e \in strayed => balance[e] = 0
  BY <1>6 DEF MouseInv, FlagInv
<1>8. \A e \in Elem \ Roots : (IF e \in mouse_in THEN 0 ELSE balance[e]) = (IF e \in S THEN 0 ELSE balance[e])
  BY <1>7
<1>9. balance' = [e \in Elem \ Roots |-> IF e \in S THEN 0 ELSE balance[e]]
  BY <1>1, <1>8
<1>. QED  BY <1>1, <1>3, <1>4, <1>9 DEF Strays

LEMMA NextHovers == MouseInv /\ [Next]_vars => [Hover!Next \/ Strays]_balance
<1>. SUFFICES ASSUME MouseInv, [Next]_vars PROVE [Hover!Next \/ Strays]_balance
  OBVIOUS
<1>1. CASE Conclude
  BY <1>1, ConcludeHovers
<1>2. CASE EnterBody
  BY <1>2, EnterStrays
<1>3. CASE Event
  BY <1>3 DEF Event, Press, Release, Motion, EnterWindow, LeaveWindow, Wheel, Key, AppFocus, history
<1>4. CASE \/ MotionBody \/ ExitBody \/ Rise \/ Descend \/ Clear \/ Cross \/ Drag \/ ReleaseBody
           \/ (\E g \in Elem : HandlerFocus(g)) \/ FocusElement \/ Unfocus \/ SetFocus
  BY <1>4 DEF MotionBody, ExitBody, Rise, Descend, Clear, Cross, Drag, ReleaseBody, HandlerFocus,
              FocusElement, Unfocus, SetFocus, history
<1>5. CASE UNCHANGED vars
  BY <1>5 DEF vars, history
<1>. QED  BY <1>1, <1>2, <1>3, <1>4, <1>5 DEF Next, Step

\* For every tree the events the elements get are those HoverService promises:
\* ENTER and LEAVE alternate and come from outside in and from inside out, but to
\* what a drag has entered from outside of the window.
THEOREM HoverImplemented == Spec => ImplementsHover
<1>1. Init => Hover!Init
  BY DEF Init, Hover!Init
<1>. QED  BY <1>1, InitInv, NextInv, NextHovers, PTL DEF Spec, ImplementsHover

-------------------------------------------------------------------------------
(***************************************************************************)
(* Clicks                                                                  *)
(***************************************************************************)
LEMMA PlainRelease ==
  ASSUME MouseInv, NEW b \in Button, Release(b), button[b].state = "DOWN", Head(calls').arg = "CLICK"
  PROVE  Head(calls').e = pressed[b]
<1>. DEFINE target == button[b].target
            c == Dispatch(Underneath, "CLICK", b)
            x == Op("release", None, None, "none", b)
            y == Dispatch(Underneath, "UP", b)
<1>1. /\ calls = <<>>
      /\ calls' = (IF InTree(target, Underneath) THEN <<c>> ELSE <<>>) \o <<x, y>>
  BY DEF Release, Idle
<1>2. c.e = Underneath /\ x.arg = "none"
  BY DEF Dispatch, Op
<1>3. /\ Underneath \in {target, Win} /\ pressed[b] = target
  <2>1. \A d : d \notin ToSet(calls)
    BY <1>1, Types, Members
  <2>. QED  BY <2>1 DEF MouseInv, ClickInv, DragsAt
<1>. HIDE DEF c, x, y
<1>4. CASE InTree(target, Underneath)
  <2>1. Head(calls') = c
    BY <1>1, <1>4
  <2>2. Underneath = target
    <3>1. \A r : InTree(r, Win) => r = Win
      BY TreeAssumption DEF InTree, RootOf, Roots
    <3>. QED  BY <1>3, <1>4, <3>1
  <2>. QED  BY <1>2, <1>3, <2>1, <2>2
<1>5. CASE ~InTree(target, Underneath)
  <2>1. Head(calls') = x
    BY <1>1, <1>5
  <2>. QED  BY <1>2, <2>1
<1>. QED  BY <1>4, <1>5

LEMMA NextPlain ==
  MouseInv /\ [Next]_vars =>
    [\A b \in Button : Clicks(b) /\ button[b].state = "DOWN" => Head(calls').e = pressed[b]]_vars
<1>. SUFFICES ASSUME MouseInv, Next, NEW b \in Button, Clicks(b), button[b].state = "DOWN"
              PROVE  Head(calls').e = pressed[b]
  OBVIOUS
<1>1. button[b].state = "DOWN" /\ button'[b].state = "UP" /\ Head(calls').arg = "CLICK"
  BY DEF Clicks
<1>2. button \in [Button -> [state : {"UP", "DOWN", "DRAG"}, target : Elem \cup {None}]]
  BY DEF MouseInv, TypeOK
<1>3. CASE Event
  <2>1. ASSUME NEW n \in Button, Press(n) PROVE FALSE
    BY <1>1, <1>2, <2>1 DEF Press
  <2>2. ASSUME NEW n \in Button, Release(n) PROVE n = b
    BY <1>1, <1>2, <2>2 DEF Release
  <2>3. Release(b)
    BY <1>1, <1>3, <2>1, <2>2 DEF Event, Motion, EnterWindow, LeaveWindow, Wheel, Key, AppFocus
  <2>. QED  BY <1>1, <2>3, PlainRelease
<1>4. CASE Step
  <2>1. calls # <<>> => Top.b \in Button
    BY Types DEF Call
  <2>2. CASE Drag
    BY <1>1, <1>2, <2>1, <2>2 DEF Drag, Running
  <2>3. CASE ReleaseBody
    BY <1>1, <1>2, <2>1, <2>3 DEF ReleaseBody, Running
  <2>4. CASE Conclude
    BY <1>1, <1>2, <2>1, <2>4 DEF Conclude, Returned
  <2>5. CASE \/ MotionBody \/ EnterBody \/ ExitBody \/ Rise \/ Descend \/ Clear \/ Cross
             \/ (\E g \in Elem : HandlerFocus(g)) \/ FocusElement \/ Unfocus \/ SetFocus
    BY <1>1, <2>5 DEF MotionBody, EnterBody, ExitBody, Rise, Descend, Clear, Cross, HandlerFocus,
                      FocusElement, Unfocus, SetFocus
  <2>. QED  BY <1>4, <2>2, <2>3, <2>4, <2>5 DEF Step
<1>. QED  BY <1>3, <1>4 DEF Next

\* For any number of buttons, of which any may be down at once: a click that was
\* not a drag goes to the very element that was pressed.
THEOREM ClicksArePlain == Spec => PlainClickOnPressed
BY InitInv, NextInv, NextPlain, PTL DEF Spec, PlainClickOnPressed

-------------------------------------------------------------------------------
(***************************************************************************)
(* The focus                                                               *)
(***************************************************************************)
Focuses(c)   == c.op \in {"deliver", "delivered"} /\ c.arg = "FOCUS"
Unfocuses(c) == c.op = "deliver" /\ c.arg = "UNFOCUS"

\* The calls that a change of the focus is not made of.
Mild(c) == /\ c.op \notin {"unfocus", "setfocus"}
           /\ c.op \in {"deliver", "delivered", "dispatch", "dispatched"} => c.arg \notin {"FOCUS", "UNFOCUS"}

NoCall   == Op("none", None, None, "none", 0)
First(s) == IF s = <<>> THEN NoCall ELSE Head(s)

\* The calls of a change of the focus come one after the other. One that a handler
\* of FOCUS asks for is about another element.
Link(c, d) ==
  CASE Focuses(c)   -> d.op = "unfocus" /\ d.e = c.e
    [] Unfocuses(c) -> d.op = "setfocus" /\ d.e # c.e
    [] c.op \in {"focus", "unfocus", "setfocus"} ->
         Mild(d) \/ (d.op = "delivered" /\ d.arg = "FOCUS" /\ d.e # c.e)
    [] OTHER        -> Mild(c) /\ Mild(d)

Chained(s) == \A i \in 1 .. Len(s) : Link(s[i], IF i = Len(s) THEN NoCall ELSE s[i + 1])

\* The elements that look focused, in the midst of a change of the focus.
Shows == {e \in Elem : state[e].focus}

Showing ==
  LET c == First(calls)
  IN  CASE c.op = "unfocus"  -> focus # c.e /\ Shows = {focus, c.e} \ {None}
        [] c.op = "setfocus" -> Shows = {c.e}
        [] Unfocuses(c)      -> focus = c.e /\ Shows = {focus, First(Rest).e}
        [] OTHER             -> Shows = {focus} \ {None} /\ (Focuses(c) => focus # c.e)

FocusInv == Chained(calls) /\ Showing

MildCalls == {c \in Call : Mild(c)}

LEMMA NoCallMild == Mild(NoCall) /\ NoCall.op = "none"
BY DEF NoCall, Mild, Op

LEMMA FirstType == ASSUME NEW s \in Seq(Call) PROVE First(s) \in Call \/ First(s) = NoCall
BY HeadTailProperties DEF First

LEMMA Linked ==
  ASSUME NEW x \in Call, NEW r \in Seq(Call), NEW t, t = <<x>> \o r
  PROVE  Chained(t) <=> Link(x, First(r)) /\ Chained(r)
<1>. DEFINE n == Len(r)
<1>1. n \in Nat /\ Len(t) = n + 1 /\ t[1] = x /\ (\A k \in 1 .. n : t[k + 1] = r[k]) /\ (n = 0 <=> r = <<>>)
  <2>1. <<x>> \in Seq(Call) /\ Len(<<x>>) = 1 /\ <<x>>[1] = x
    OBVIOUS
  <2>2. n \in Nat /\ (n = 0 <=> r = <<>>)
    BY LenProperties, EmptySeq
  <2>3. Len(t) = 1 + n /\ \A k \in 1 .. 1 + n : t[k] = IF k <= 1 THEN <<x>>[k] ELSE r[k - 1]
    BY <2>1, ConcatProperties
  <2>. HIDE DEF n
  <2>4. \A k \in 1 .. n : k + 1 \in 1 .. 1 + n /\ ~(k + 1 <= 1) /\ k + 1 - 1 = k
    BY <2>2
  <2>. QED  BY <2>1, <2>2, <2>3, <2>4
<1>2. n # 0 => First(r) = r[1]
  BY <1>1, HeadTailProperties DEF First
<1>3. n = 0 => First(r) = NoCall
  BY <1>1 DEF First
<1>. HIDE DEF n
<1>. DEFINE After(i) == IF i = Len(t) THEN NoCall ELSE t[i + 1]
            then(k)  == IF k = n THEN NoCall ELSE r[k + 1]
<1>4. After(1) = First(r)
  BY <1>1, <1>2, <1>3
<1>5. \A k \in 1 .. n : After(k + 1) = then(k)
  <2>1. SUFFICES ASSUME NEW k \in 1 .. n PROVE After(k + 1) = then(k)
    OBVIOUS
  <2>2. k + 1 = Len(t) <=> k = n
    BY <1>1
  <2>3. k # n => k + 1 \in 1 .. n
    BY <1>1
  <2>. QED  BY <1>1, <2>2, <2>3
<1>6. \A i : i \in 1 .. Len(t) <=> i = 1 \/ \E k \in 1 .. n : i = k + 1
  <2>1. \A i \in 1 .. Len(t) : i # 1 => i - 1 \in 1 .. n /\ i = (i - 1) + 1
    BY <1>1
  <2>2. 1 \in 1 .. Len(t) /\ \A k \in 1 .. n : k + 1 \in 1 .. Len(t)
    BY <1>1
  <2>. QED  BY <2>1, <2>2
<1>7. Chained(t) <=> \A i \in 1 .. Len(t) : Link(t[i], After(i))
  BY DEF Chained
<1>8. Chained(r) <=> \A k \in 1 .. n : Link(r[k], then(k))
  BY DEF Chained, n
<1>. HIDE DEF After, then
<1>9. Chained(t) <=> Link(t[1], After(1)) /\ \A k \in 1 .. n : Link(t[k + 1], After(k + 1))
  BY <1>6, <1>7
<1>10. \A k \in 1 .. n : Link(t[k + 1], After(k + 1)) <=> Link(r[k], then(k))
  BY <1>1, <1>5
<1>. QED  BY <1>1, <1>4, <1>8, <1>9, <1>10

LEMMA Exposes ==
  ASSUME NEW s \in Seq(Call), s # <<>>
  PROVE  /\ Tail(s) \in Seq(Call) /\ First(s) = Head(s) /\ First(s) \in Call
         /\ Chained(s) <=> Link(Head(s), First(Tail(s))) /\ Chained(Tail(s))
<1>. DEFINE x == Head(s)
            r == Tail(s)
<1>1. x \in Call /\ r \in Seq(Call) /\ s = <<x>> \o r
  <2>1. x \in Call /\ r \in Seq(Call)
    BY HeadTailProperties
  <2>2. <<x>> \o r = s
    BY HeadTailProperties, <2>1
  <2>. QED  BY <2>1, <2>2
<1>. HIDE DEF x, r
<1>2. Chained(s) <=> Link(x, First(r)) /\ Chained(r)
  BY <1>1, Linked
<1>. QED  BY <1>1, <1>2 DEF x, r, First

\* Mild calls in front of mild ones.
LEMMA InMildFront ==
  ASSUME NEW a \in Seq(MildCalls), NEW r \in Seq(Call), Chained(r), Mild(First(r)), NEW t, t = a \o r
  PROVE  Chained(t) /\ Mild(First(t)) /\ t \in Seq(Call)
<1>. DEFINE m == Len(a)
            n == Len(r)
<1>1. /\ m \in Nat /\ n \in Nat /\ Len(t) = m + n
      /\ \A k \in 1 .. m + n : t[k] = IF k <= m THEN a[k] ELSE r[k - m]
      /\ \A k \in 1 .. m : a[k] \in MildCalls
      /\ t \in Seq(Call)
  <2>1. MildCalls \subseteq Call
    BY DEF MildCalls
  <2>2. a \in Seq(Call)
    BY <2>1
  <2>. QED  BY <2>2, ConcatProperties, LenProperties, ElementOfSeq
<1>2. First(r) = IF n = 0 THEN NoCall ELSE r[1]
  BY <1>1, HeadTailProperties, EmptySeq DEF First
<1>3. First(t) = IF m + n = 0 THEN NoCall ELSE t[1]
  BY <1>1, HeadTailProperties, EmptySeq DEF First
<1>4. \A k \in 1 .. n : Link(r[k], IF k = n THEN NoCall ELSE r[k + 1])
  BY DEF Chained
<1>. HIDE DEF m, n
<1>5. \A i \in 1 .. m : Mild(a[i]) /\ t[i] = a[i]
  BY <1>1 DEF MildCalls
<1>6. Mild(NoCall)
  BY NoCallMild
<1>. DEFINE After(i) == IF i = Len(t) THEN NoCall ELSE t[i + 1]
<1>7. ASSUME NEW i \in 1 .. m PROVE Mild(After(i))
  <2>1. CASE i < m
    <3>1. i + 1 \in 1 .. m /\ i # m + n
      BY <1>1, <2>1
    <3>. QED  BY <1>1, <1>5, <3>1
  <2>2. CASE i = m /\ n # 0
    <3>1. i + 1 \in 1 .. m + n /\ ~(i + 1 <= m) /\ i + 1 - m = 1 /\ i # m + n
      BY <1>1, <2>2
    <3>2. Len(t) = m + n /\ t[i + 1] = r[1] /\ First(r) = r[1]
      BY <1>1, <1>2, <2>2, <3>1
    <3>3. After(i) = First(r)
      BY <3>1, <3>2
    <3>. QED  BY <3>3
  <2>3. CASE i = m /\ n = 0
    <3>1. i = Len(t)
      BY <1>1, <2>3
    <3>. QED  BY <1>6, <3>1
  <2>. QED  BY <1>1, <2>1, <2>2, <2>3
<1>8. ASSUME NEW i \in 1 .. m PROVE Link(t[i], After(i))
  <2>1. Mild(t[i]) /\ Mild(After(i))
    BY <1>5, <1>7
  <2>. HIDE DEF After
  <2>. QED  BY <2>1 DEF Link, Mild, Focuses, Unfocuses
<1>9. ASSUME NEW i \in 1 .. m + n, ~(i <= m) PROVE Link(t[i], After(i))
  <2>. DEFINE k == i - m
  <2>1. /\ k \in 1 .. n /\ t[i] = r[k] /\ (i = m + n <=> k = n)
        /\ k # n => i + 1 \in 1 .. m + n /\ ~(i + 1 <= m) /\ i + 1 - m = k + 1
    BY <1>1, <1>9
  <2>2. After(i) = IF k = n THEN NoCall ELSE r[k + 1]
    BY <1>1, <2>1
  <2>. HIDE DEF After, k
  <2>. QED  BY <1>4, <2>1, <2>2
<1>10. Chained(t)
  BY <1>1, <1>8, <1>9 DEF Chained
<1>11. Mild(First(t))
  <2>1. CASE m = 0
    <3>1. \A k \in 1 .. m + n : ~(k <= m) /\ k - m = k
      BY <1>1, <2>1
    <3>2. n = 0 \/ 1 \in 1 .. m + n
      BY <1>1, <2>1
    <3>. QED  BY <1>1, <1>2, <1>3, <2>1, <3>1, <3>2
  <2>2. CASE m # 0
    <3>1. 1 \in 1 .. m /\ m + n # 0
      BY <1>1, <2>2
    <3>. QED  BY <1>3, <1>5, <3>1
  <2>. QED  BY <2>1, <2>2
<1>. QED  BY <1>1, <1>10, <1>11

-------------------------------------------------------------------------------
(***************************************************************************)
(* The steps that do not go on with a change of the focus                  *)
(***************************************************************************)
\* The step makes mild calls in the place of the one on top.
Makes == \E a \in Seq(MildCalls) : Goes(a)

LEMMA MakesSome == ASSUME NEW a, a \in Seq(MildCalls), Goes(a) PROVE Makes
BY DEF Makes

LEMMA MildOp ==
  ASSUME NEW op \in OpName \ {"unfocus", "setfocus"}, NEW e \in Elem \cup {None},
         NEW f \in Elem \cup {None}, NEW arg \in EventType \cup Point \cup {"none"}, NEW b \in Button,
         op \in {"deliver", "delivered", "dispatch", "dispatched"} => arg \notin {"FOCUS", "UNFOCUS"}
  PROVE  Op(op, e, f, arg, b) \in MildCalls
<1>1. Op(op, e, f, arg, b) \in Call
  BY OpType
<1>. QED  BY <1>1 DEF Op, MildCalls, Mild

LEMMA MildDispatch ==
  ASSUME NEW e \in Elem, NEW type \in EventType \ {"FOCUS", "UNFOCUS"}, NEW b \in Button
  PROVE  Dispatch(e, type, b) \in MildCalls
BY MildOp DEF Dispatch, OpName

LEMMA MildDo ==
  ASSUME NEW e \in Elem \cup {None}, NEW op \in {"focus", "enter", "exit", "drag"}
  PROVE  Do(op, e) \in MildCalls
<1>1. 0 \in Button
  BY PointerAssumption DEF Button
<1>. QED  BY <1>1, MildOp DEF Do, OpName

LEMMA MildAt ==
  ASSUME NEW e \in Elem, NEW op \in {"motion", "rise", "descend"}, NEW p \in EventType \cup Point \cup {"none"}
  PROVE  At(op, e, p) \in MildCalls
<1>1. 0 \in Button
  BY PointerAssumption DEF Button
<1>. QED  BY <1>1, MildOp DEF At, OpName

LEMMA MildSeq ==
  /\ <<>> \in Seq(MildCalls)
  /\ \A c \in MildCalls : <<c>> \in Seq(MildCalls)
  /\ \A c, d \in MildCalls : <<c, d>> \in Seq(MildCalls)
  /\ \A a, b \in Seq(MildCalls) : a \o b \in Seq(MildCalls)
BY ConcatProperties

LEMMA QuietStep ==
  ASSUME MouseInv, FocusInv, calls # <<>> => Mild(Top) /\ Top.op # "focus", Makes, focus' = focus,
         \A e \in Elem : state'[e].focus = state[e].focus
  PROVE  FocusInv'
<1>1. PICK a \in Seq(MildCalls) : Goes(a)
  BY DEF Makes
<1>2. calls \in Seq(Call)
  BY Types
<1>3. Shows = {focus} \ {None}
  <2>1. CASE calls = <<>>
    BY <2>1, NoCallMild DEF FocusInv, Showing, First, Mild, Unfocuses, Focuses
  <2>2. CASE calls # <<>>
    <3>1. First(calls) = Top
      BY <2>2 DEF First, Top
    <3>. QED  BY <2>2, <3>1 DEF FocusInv, Showing, Mild, Unfocuses, Focuses
  <2>. QED  BY <2>1, <2>2
<1>4. PICK r \in Seq(Call) : Chained(r) /\ Mild(First(r)) /\ calls' = a \o r
  <2>1. CASE calls = <<>>
    <3>1. <<>> \in Seq(Call) /\ Chained(<<>>) /\ First(<<>>) = NoCall
      BY DEF Chained, First
    <3>2. calls' = a \o <<>>
      BY <1>1, <2>1, ConcatEmptySeq DEF Goes
    <3>. QED  BY <3>1, <3>2, NoCallMild
  <2>2. CASE calls # <<>>
    <3>1. Rest \in Seq(Call) /\ Link(Top, First(Rest)) /\ Chained(Rest) /\ calls' = a \o Rest
      BY <1>1, <1>2, <2>2, Exposes DEF FocusInv, Rest, Top, Goes
    <3>2. Mild(First(Rest))
      BY <2>2, <3>1 DEF Link, Mild, Focuses, Unfocuses
    <3>. QED  BY <3>1, <3>2
  <2>. QED  BY <2>1, <2>2
<1>5. Chained(calls') /\ Mild(First(calls'))
  <2>. DEFINE t == calls'
  <2>1. t = a \o r
    BY <1>4
  <2>2. Chained(t) /\ Mild(First(t))
    <3>. HIDE DEF t
    <3>. QED  BY <1>4, <2>1, InMildFront
  <2>. QED  BY <2>2
<1>6. Shows' = Shows
  BY DEF Shows
<1>. QED  BY <1>3, <1>5, <1>6 DEF FocusInv, Showing, Mild, Unfocuses, Focuses

LEMMA EventsMild ==
  ASSUME MouseInv, Event PROVE calls = <<>> /\ Makes /\ focus' = focus /\ state' = state
<1>1. /\ calls = <<>> /\ focus' = focus /\ state' = state
  BY DEF Event, Press, Release, Motion, EnterWindow, LeaveWindow, Wheel, Key, AppFocus, Idle
<1>2. Underneath \in Elem /\ Win \in Elem /\ 0 \in Button /\ None \in Elem \cup {None}
  BY Types, TreeAssumption DEF Roots
<1>3. calls' \in Seq(MildCalls)
  <2>1. ASSUME NEW b \in Button, Press(b) PROVE calls' \in Seq(MildCalls)
    <3>1. Dispatch(Underneath, "DOWN", b) \in MildCalls
      BY <1>2, MildDispatch DEF EventType
    <3>. QED  BY <2>1, <3>1, MildSeq DEF Press
  <2>2. ASSUME NEW b \in Button, Release(b) PROVE calls' \in Seq(MildCalls)
    <3>. DEFINE target == IF button[b].state = "UP" THEN Underneath ELSE button[b].target
                x == Dispatch(Underneath, "CLICK", b)
                y == Dispatch(Underneath, "DRAG_DROP", b)
                z == Dispatch(target, "DRAG_DROP", b)
                v == Op("release", None, None, "none", b)
                w == Dispatch(Underneath, "UP", b)
    <3>1. calls' \in {<<x>> \o <<v, w>>, <<y, z>> \o <<v, w>>, <<>> \o <<v, w>>}
      BY <2>2 DEF Release
    <3>2. target \in Elem
      BY <1>2 DEF MouseInv, ClickInv
    <3>3. x \in MildCalls /\ y \in MildCalls /\ z \in MildCalls /\ v \in MildCalls /\ w \in MildCalls
      BY <1>2, <3>2, MildDispatch, MildOp DEF EventType, OpName
    <3>. HIDE DEF x, y, z, v, w
    <3>4. /\ <<x>> \in Seq(MildCalls) /\ <<y, z>> \in Seq(MildCalls) /\ <<v, w>> \in Seq(MildCalls)
          /\ <<>> \in Seq(MildCalls)
      BY <3>3, MildSeq
    <3>. QED  BY <3>1, <3>4, MildSeq
  <2>3. ASSUME NEW p \in Point, Motion(p) PROVE calls' \in Seq(MildCalls)
    BY <1>2, <2>3, MildAt, MildSeq DEF Motion
  <2>4. ASSUME NEW p \in Point, EnterWindow(p) PROVE calls' \in Seq(MildCalls)
    <3>. DEFINE x == Do("exit", Underneath)
                y == Do("enter", Win)
                z == At("motion", Win, p)
    <3>1. calls' = <<x>> \o <<y, z>> \/ calls' = <<>> \o <<y, z>>
      BY <2>4 DEF EnterWindow
    <3>2. x \in MildCalls /\ y \in MildCalls /\ z \in MildCalls
      BY <1>2, MildDo, MildAt
    <3>. HIDE DEF x, y, z
    <3>3. <<x>> \in Seq(MildCalls) /\ <<y, z>> \in Seq(MildCalls) /\ <<>> \in Seq(MildCalls)
      BY <3>2, MildSeq
    <3>. QED  BY <3>1, <3>3, MildSeq
  <2>5. CASE LeaveWindow
    BY <1>2, <2>5, MildDo, MildSeq DEF LeaveWindow
  <2>6. CASE Wheel
    <3>1. Dispatch(Underneath, "WHEEL", 0) \in MildCalls
      BY <1>2, MildDispatch DEF EventType
    <3>. QED  BY <2>6, <3>1, MildSeq DEF Wheel
  <2>7. CASE Key
    <3>. DEFINE x == Deliver(Win, "KEY")
                y == Deliver(focus, "KEY")
    <3>1. x \in MildCalls
      BY <1>2, MildOp DEF Deliver, EventType, OpName
    <3>2. CASE focus \in {None, Win}
      <4>1. calls' = <<x, x>>
        BY <2>7, <3>2 DEF Key
      <4>. HIDE DEF x
      <4>. QED  BY <3>1, <4>1, MildSeq
    <3>3. CASE focus \notin {None, Win}
      <4>1. calls' = <<y, x>> \/ calls' = <<y, x, x>>
        BY <2>7, <3>3 DEF Key
      <4>2. focus \in Elem
        BY <3>3 DEF MouseInv, TypeOK
      <4>3. y \in MildCalls
        BY <1>2, <4>2, MildOp DEF Deliver, EventType, OpName
      <4>. HIDE DEF x, y
      <4>4. <<y, x>> \in Seq(MildCalls) /\ <<y, x, x>> \in Seq(MildCalls)
        BY <3>1, <4>3
      <4>. QED  BY <4>1, <4>4
    <3>. QED  BY <3>2, <3>3
  <2>8. ASSUME NEW e \in Focusable, AppFocus(e) PROVE calls' \in Seq(MildCalls)
    <3>1. e \in Elem
      BY PointerAssumption
    <3>2. Do("focus", e) \in MildCalls
      BY <3>1, MildDo
    <3>. QED  BY <2>8, <3>2, MildSeq DEF AppFocus
  <2>. QED  BY <2>1, <2>2, <2>3, <2>4, <2>5, <2>6, <2>7, <2>8 DEF Event
<1>4. Goes(calls')
  BY <1>1 DEF Goes
<1>. QED  BY <1>1, <1>3, <1>4, MakesSome

LEMMA MildTop ==
  ASSUME MouseInv, calls # <<>>, Top.op \notin {"drag", "release", "exit"}
  PROVE  Top \in Call /\ Top.e \in Elem /\ (Mild(Top) => Top \in MildCalls)
BY Types DEF CallOK, MildCalls

LEMMA MildMoved ==
  ASSUME NEW c \in MildCalls
  PROVE  /\ \A e \in Elem \cup {None} : [c EXCEPT !.e = e] \in MildCalls
         /\ \A b \in Button : [c EXCEPT !.b = b] \in MildCalls
<1>1. c \in Call /\ Mild(c)
  BY DEF MildCalls
<1>2. ASSUME NEW e \in Elem \cup {None} PROVE [c EXCEPT !.e = e] \in MildCalls
  <2>. DEFINE d == [c EXCEPT !.e = e]
  <2>1. d \in Call /\ d.op = c.op /\ d.arg = c.arg
    BY <1>1 DEF Call
  <2>. QED  BY <1>1, <2>1 DEF MildCalls, Mild
<1>3. ASSUME NEW b \in Button PROVE [c EXCEPT !.b = b] \in MildCalls
  <2>. DEFINE d == [c EXCEPT !.b = b]
  <2>1. d \in Call /\ d.op = c.op /\ d.arg = c.arg
    BY <1>1 DEF Call
  <2>. QED  BY <1>1, <2>1 DEF MildCalls, Mild
<1>. QED  BY <1>2, <1>3

LEMMA MildLeave == ASSUME NEW e \in Elem PROVE LeaveCalls(e) \in Seq(MildCalls) /\ EnterCalls(e) \in Seq(MildCalls)
<1>1. 0 \in Button
  BY PointerAssumption DEF Button
<1>2. /\ Dispatch(e, "LEAVE", 0) \in MildCalls /\ Op("cross", e, None, "DRAG_LEAVE", 0) \in MildCalls
      /\ Dispatch(e, "ENTER", 0) \in MildCalls /\ Op("cross", e, None, "DRAG_ENTER", 0) \in MildCalls
  BY <1>1, MildDispatch, MildOp DEF EventType, OpName
<1>. QED  BY <1>2, MildSeq DEF LeaveCalls, EnterCalls

\* A call goes on as another one, after those of the sequence a.
LEMMA GoesOnMild ==
  ASSUME calls # <<>>, NEW a \in Seq(MildCalls), NEW c \in MildCalls, calls' = a \o <<c>> \o Rest
  PROVE  Makes
<1>1. a \o <<c>> \in Seq(MildCalls)
  BY MildSeq
<1>2. Goes(a \o <<c>>)
  BY DEF Goes
<1>. QED  BY <1>1, <1>2, MakesSome

LEMMA EndsMild == ASSUME calls # <<>>, calls \in Seq(Call), calls' = Rest PROVE Makes
<1>1. calls' = <<>> \o Rest
  BY Taken, ConcatEmptySeq DEF Rest
<1>2. Goes(<<>>)
  BY <1>1 DEF Goes
<1>. QED  BY <1>2, MildSeq, MakesSome

LEMMA OneMild == ASSUME calls # <<>>, NEW c \in MildCalls, calls' = <<c>> \o Rest PROVE Makes
<1>1. Goes(<<c>>)
  BY DEF Goes
<1>. QED  BY <1>1, MildSeq, MakesSome

LEMMA WalksMild ==
  ASSUME MouseInv, MotionBody \/ EnterBody \/ ExitBody \/ Rise \/ Descend \/ Clear
  PROVE  calls # <<>> /\ Mild(Top) /\ Top.op # "focus" /\ Makes /\ focus' = focus /\ state' = state
<1>1. /\ calls # <<>> /\ Top.op \in {"motion", "enter", "exit", "rise", "descend", "clear"}
      /\ focus' = focus /\ state' = state
  BY DEF MotionBody, EnterBody, ExitBody, Rise, Descend, Clear, Running
<1>2. Mild(Top) /\ calls \in Seq(Call) /\ Top \in MildCalls /\ Top \in Call
  BY <1>1, Types DEF Mild, MildCalls
<1>3. Win \in Elem /\ Overlay \in Elem /\ 0 \in Button /\ Underneath \in Elem
  BY Types, TreeAssumption DEF Roots
<1>4. Top.arg \in EventType \cup Point \cup {"none"} /\ Top.f \in Elem \cup {None} /\ Top.e \in Elem \cup {None}
  BY <1>2 DEF Call
<1>5. Top.op # "exit" => Top.e \in Elem
  BY <1>1, Types DEF CallOK
<1>6. CASE MotionBody
  <2>. DEFINE x == At("rise", Underneath, Top.arg)
              y == Do("drag", None)
              z == Do("enter", Win)
  <2>1. x \in MildCalls /\ y \in MildCalls /\ z \in MildCalls
    BY <1>3, <1>4, MildAt, MildDo
  <2>2. calls' \in {<<x, y>> \o Rest, <<z, Top>> \o Rest, Rest}
    BY <1>6 DEF MotionBody
  <2>. HIDE DEF x, y, z
  <2>3. <<x, y>> \in Seq(MildCalls) /\ <<z, Top>> \in Seq(MildCalls)
    BY <1>2, <2>1, MildSeq
  <2>4. Makes
    BY <1>1, <1>2, <2>2, <2>3, EndsMild, MakesSome DEF Goes
  <2>. QED  BY <1>1, <1>2, <2>4
<1>7. CASE EnterBody
  <2>1. Dispatch(Win, "ENTER", 0) \in MildCalls
    BY <1>3, MildDispatch DEF EventType
  <2>2. Makes
    BY <1>1, <1>7, <2>1, OneMild DEF EnterBody
  <2>. QED  BY <1>1, <1>2, <2>2
<1>8. CASE ExitBody
  <2>1. CASE Top.e = None
    <3>1. Makes
      BY <1>1, <1>2, <1>8, <2>1, EndsMild DEF ExitBody
    <3>. QED  BY <1>1, <1>2, <3>1
  <2>2. CASE Top.e # None
    <3>1. Top.e \in Elem /\ Up(Top.e) \in Elem \cup {None}
      BY <1>4, <2>2, UpFacts
    <3>2. LeaveCalls(Top.e) \in Seq(MildCalls) /\ Do("exit", Up(Top.e)) \in MildCalls
      BY <3>1, MildLeave, MildDo
    <3>3. calls' = LeaveCalls(Top.e) \o <<Do("exit", Up(Top.e))>> \o Rest
      BY <1>8, <2>2 DEF ExitBody
    <3>4. Makes
      BY <1>1, <3>2, <3>3, GoesOnMild
    <3>. QED  BY <1>1, <1>2, <3>4
  <2>. QED  BY <2>1, <2>2
<1>9. ASSUME Top.op # "exit", calls' = LeaveCalls(Top.e) \o <<[Top EXCEPT !.e = Up(Top.e)]>> \o Rest
      PROVE  Makes
  <2>1. Top.e \in Elem /\ Up(Top.e) \in Elem \cup {None}
    BY <1>5, <1>9, UpFacts
  <2>2. LeaveCalls(Top.e) \in Seq(MildCalls) /\ [Top EXCEPT !.e = Up(Top.e)] \in MildCalls
    BY <1>2, <2>1, MildLeave, MildMoved
  <2>. QED  BY <1>1, <1>9, <2>2, GoesOnMild
<1>10. CASE Rise
  <2>0. Top.op = "rise" /\ Top.e \in Elem
    BY <1>5, <1>10 DEF Rise, Running
  <2>1. \/ calls' = LeaveCalls(Top.e) \o <<[Top EXCEPT !.e = Up(Top.e)]>> \o Rest
        \/ \E ret \in {Win, Top.e} : \/ calls' = <<At("descend", ret, Top.arg)>> \o Rest
                                     \/ calls' = <<Op("descend", Overlay, ret, Top.arg, 0)>> \o Rest
    BY <1>10 DEF Rise
  <2>2. ASSUME NEW ret \in {Win, Top.e}
        PROVE  At("descend", ret, Top.arg) \in MildCalls /\ Op("descend", Overlay, ret, Top.arg, 0) \in MildCalls
    BY <1>3, <1>4, <2>0, MildAt, MildOp DEF OpName
  <2>3. Makes
    BY <1>1, <1>9, <2>0, <2>1, <2>2, OneMild
  <2>. QED  BY <1>1, <1>2, <2>3
<1>11. CASE Descend
  <2>0. Top.op = "descend" /\ Top.e \in Elem
    BY <1>5, <1>11 DEF Descend, Running
  <2>1. \/ \E c \in Elem : calls' = EnterCalls(c) \o <<[Top EXCEPT !.e = c]>> \o Rest
        \/ calls' = Rest
        \/ Top.f # None /\ calls' = <<At("descend", Top.f, Top.arg)>> \o Rest
        \/ calls' = <<Op("clear", Top.f, Top.e, "none", 0)>> \o Rest
    BY <1>11 DEF Descend
  <2>2. ASSUME NEW c \in Elem PROVE EnterCalls(c) \in Seq(MildCalls) /\ [Top EXCEPT !.e = c] \in MildCalls
    BY <1>2, MildLeave, MildMoved
  <2>3. /\ Top.f # None => At("descend", Top.f, Top.arg) \in MildCalls
        /\ Op("clear", Top.f, Top.e, "none", 0) \in MildCalls
    BY <1>3, <1>4, MildAt, MildOp DEF OpName
  <2>4. Makes
    BY <1>1, <1>2, <2>1, <2>2, <2>3, EndsMild, OneMild, GoesOnMild
  <2>. QED  BY <1>1, <1>2, <2>4
<1>12. CASE Clear
  <2>0. Top.op = "clear"
    BY <1>12 DEF Clear, Running
  <2>1. \/ calls' = Rest
        \/ calls' = LeaveCalls(Top.e) \o <<[Top EXCEPT !.e = Up(Top.e)]>> \o Rest
    BY <1>12 DEF Clear
  <2>2. Makes
    BY <1>1, <1>2, <1>9, <2>0, <2>1, EndsMild
  <2>. QED  BY <1>1, <1>2, <2>2
<1>. QED  BY <1>6, <1>7, <1>8, <1>10, <1>11, <1>12

\* The buttons of a drag, one after the other.
LEMMA DragsListed == SetToSeq({b \in Button : button[b].state = "DRAG"}) \in Seq(Button)
<1>. DEFINE S == {b \in Button : button[b].state = "DRAG"}
            n == Cardinality(S)
            d == SetToSeq(S)
<1>1. IsFiniteSet(S)
  <2>1. IsFiniteSet(Button)
    BY PointerAssumption, FS_Interval DEF Button
  <2>. QED  BY <2>1, FS_Subset
<1>2. PICK m \in Nat : ExistsBijection(1 .. m, S)
  BY <1>1, FS_NatBijection
<1>3. m = n
  BY <1>1, <1>2, FS_CountingElements
<1>4. \E f \in [1 .. n -> S] : IsInjective(f)
  <2>1. PICK f \in Bijection(1 .. m, S) : TRUE
    BY <1>2 DEF ExistsBijection
  <2>. QED  BY <1>3, <2>1 DEF Bijection, Injection, IsInjective
<1>5. d \in [1 .. n -> S]
  BY <1>4 DEF SetToSeq
<1>6. d \in Seq(S)
  BY <1>2, <1>3, <1>5
<1>7. S \subseteq Button
  OBVIOUS
<1>. HIDE DEF S, d
<1>8. d \in Seq(Button)
  BY <1>6, <1>7
<1>. QED  BY <1>8 DEF S, d

LEMMA ButtonsMild ==
  ASSUME MouseInv, Cross \/ Drag \/ ReleaseBody
  PROVE  calls # <<>> /\ Mild(Top) /\ Top.op # "focus" /\ Makes /\ focus' = focus /\ state' = state
<1>1. /\ calls # <<>> /\ Top.op \in {"cross", "drag", "release"} /\ focus' = focus /\ state' = state
  BY DEF Cross, Drag, ReleaseBody, Running
<1>2. Mild(Top) /\ calls \in Seq(Call) /\ Top \in MildCalls /\ Top \in Call
  BY <1>1, Types DEF Mild, MildCalls
<1>3. CASE Cross
  <2>. DEFINE S == {b \in Button : button[b].state = "DRAG"}
              d == SetToSeq(S)
              a == [i \in DOMAIN d |-> Dispatch(Top.e, Top.arg, d[i])]
  <2>1. d \in Seq(Button)
    BY DragsListed
  <2>2. DOMAIN d = 1 .. Len(d) /\ Len(d) \in Nat /\ \A i \in DOMAIN d : d[i] \in Button
    BY <2>1, LenProperties, ElementOfSeq
  <2>3. calls' = a \o Rest
    BY <1>3 DEF Cross
  <2>4. Top.e \in Elem /\ Top.arg \in {"DRAG_ENTER", "DRAG_LEAVE"}
    BY <1>1, <1>3, Types DEF CallOK, Cross, Running
  <2>. HIDE DEF d
  <2>5. \A i \in DOMAIN d : Dispatch(Top.e, Top.arg, d[i]) \in MildCalls
    BY <2>2, <2>4, MildDispatch DEF EventType
  <2>6. a \in Seq(MildCalls)
    BY <2>2, <2>5
  <2>7. Makes
    BY <1>1, <2>3, <2>6, MakesSome DEF Goes
  <2>. QED  BY <1>1, <1>2, <2>7
<1>4. CASE Drag
  <2>. DEFINE b == Top.b
              x == Dispatch(button[b].target, "DRAG_START", b)
              y == Dispatch(button[b].target, "DRAG_MOTION", b)
              z == [Top EXCEPT !.b = b + 1]
              next == IF b < LastButton THEN <<z>> ELSE <<>>
  <2>1. b \in Button /\ button[b].state \in {"UP", "DOWN", "DRAG"}
    BY <1>2 DEF MouseInv, TypeOK, Call
  <2>2. \/ button[b].state = "UP" /\ calls' = <<>> \o next \o Rest
        \/ button[b].state = "DOWN" /\ calls' = <<x>> \o next \o Rest
        \/ button[b].state = "DRAG" /\ calls' = <<y>> \o next \o Rest
    BY <1>4, <2>1 DEF Drag
  <2>3. button[b].state # "UP" => x \in MildCalls /\ y \in MildCalls
    <3>1. button[b].state # "UP" => button[b].target \in Elem
      BY <2>1 DEF MouseInv, ClickInv
    <3>. QED  BY <2>1, <3>1, MildDispatch DEF EventType
  <2>4. next \in Seq(MildCalls)
    <3>1. b < LastButton => b + 1 \in Button
      BY <2>1, PointerAssumption DEF LastButton, Button
    <3>2. b < LastButton => z \in MildCalls
      BY <1>2, <3>1, MildMoved
    <3>. HIDE DEF z
    <3>. QED  BY <3>2, MildSeq
  <2>. HIDE DEF x, y, next
  <2>5. \E h \in Seq(MildCalls) : calls' = h \o next \o Rest
    <3>1. /\ <<>> \in Seq(MildCalls)
          /\ button[b].state # "UP" => <<x>> \in Seq(MildCalls) /\ <<y>> \in Seq(MildCalls)
      BY <2>3, MildSeq
    <3>. QED  BY <2>2, <3>1
  <2>6. Makes
    BY <1>1, <2>4, <2>5, MildSeq, MakesSome DEF Goes
  <2>. QED  BY <1>1, <1>2, <2>6
<1>5. CASE ReleaseBody
  <2>1. Makes
    BY <1>1, <1>2, <1>5, EndsMild DEF ReleaseBody
  <2>. QED  BY <1>1, <1>2, <2>1
<1>. QED  BY <1>3, <1>4, <1>5

\* Outside of a change of the focus an event leaves an element focused or not.
LEMMA MildConclude ==
  ASSUME MouseInv, FocusInv, Conclude, Mild(Top)
  PROVE  FocusInv'
<1>1. /\ calls # <<>> /\ Top.op \in {"deliver", "delivered", "dispatch", "dispatched"} /\ focus' = focus
      /\ state' = [state EXCEPT ![Top.e] = Transition(Top.e, Top.arg, Top.b)]
  BY DEF Conclude
<1>2. calls \in Seq(Call) /\ Top \in Call /\ Top.e \in Elem
  BY <1>1, Types DEF CallOK
<1>3. Top.arg \notin {"FOCUS", "UNFOCUS"}
  BY <1>1 DEF Mild
<1>4. Makes
  <2>. DEFINE x == Do("focus", Top.e)
              y == Dispatch(Up(Top.e), Top.arg, Top.b)
  <2>1. <<>> \o Rest = Rest
    BY <1>1, <1>2, Taken DEF Rest
  <2>2. \/ calls' = Rest
        \/ calls' = <<x>> \o Rest
        \/ Top.op \in {"dispatch", "dispatched"} /\ Up(Top.e) # None /\ calls' = <<y>> \o Rest
    BY <2>1 DEF Conclude, Returned
  <2>3. x \in MildCalls
    BY <1>2, MildDo
  <2>4. Top.op \in {"dispatch", "dispatched"} /\ Up(Top.e) # None => y \in MildCalls
    <3>1. Up(Top.e) \in Elem \cup {None} /\ Top.arg \in EventType \cup Point \cup {"none"} /\ Top.b \in Button
      BY <1>2, UpFacts DEF Call
    <3>. QED  BY <1>3, <3>1, MildOp DEF Dispatch, OpName
  <2>. QED  BY <1>1, <1>2, <2>2, <2>3, <2>4, EndsMild, OneMild
<1>5. ASSUME NEW e \in Elem PROVE state'[e].focus = state[e].focus
  <2>1. Shows = {focus} \ {None}
    BY <1>1 DEF FocusInv, Showing, First, Top, Mild, Focuses, Unfocuses
  <2>2. state[e].focus <=> focus = e
    BY <2>1, PointerAssumption DEF Shows
  <2>3. state \in [Elem -> Shown]
    BY DEF MouseInv, TypeOK
  <2>4. state[e].focus \in BOOLEAN /\ state[Top.e].focus \in BOOLEAN
    BY <1>2, <2>3 DEF Shown
  <2>5. CASE e # Top.e
    BY <1>1, <2>3, <2>5
  <2>6. CASE e = Top.e
    <3>1. \A look : Look(e, look).focus = (focus = e)
      BY DEF Look
    <3>2. TransitionEnter(e).focus = (focus = e)
      BY <2>2, <2>4, <3>1 DEF TransitionEnter
    <3>3. TransitionUp(e).focus = (focus = e)
      BY <3>1, <3>2 DEF TransitionUp
    <3>4. Transition(e, Top.arg, Top.b).focus = (focus = e)
      BY <1>3, <2>2, <2>4, <3>1, <3>2, <3>3 DEF Transition
    <3>5. state'[e] = Transition(e, Top.arg, Top.b)
      BY <1>1, <2>3, <2>6
    <3>. QED  BY <2>2, <2>4, <3>4, <3>5
  <2>. QED  BY <2>5, <2>6
<1>6. Top.op # "focus"
  BY <1>1
<1>. QED  BY <1>1, <1>4, <1>5, <1>6, QuietStep

\* What shows in the midst of a change of the focus, after a step that is made
\* with calls' given by its first call and the rest.
LEMMA Heads ==
  ASSUME NEW x \in Call, NEW r \in Seq(Call), calls' = <<x>> \o r, Link(x, First(r)), Chained(r)
  PROVE  Chained(calls') /\ First(calls') = x /\ Rest' = r
<1>. DEFINE t == calls'
<1>1. t = <<x>> \o r
  OBVIOUS
<1>2. t # <<>> /\ Head(t) = x /\ Tail(t) = r
  <2>. HIDE DEF t
  <2>. QED  BY <1>1, Put
<1>3. Chained(t)
  <2>. HIDE DEF t
  <2>. QED  BY <1>1, Linked
<1>. QED  BY <1>2, <1>3 DEF First, Rest

LEMMA PairInFront ==
  ASSUME NEW x \in Call, NEW y \in Call, NEW r \in Seq(Call)
  PROVE  <<x, y>> \o r = <<x>> \o (<<y>> \o r)
<1>. DEFINE a == <<x>>
            b == <<y>>
            c == <<x, y>>
            d == a \o b
<1>1. /\ a \in Seq(Call) /\ Len(a) = 1 /\ a[1] = x
      /\ b \in Seq(Call) /\ Len(b) = 1 /\ b[1] = y
      /\ c \in Seq(Call) /\ Len(c) = 2 /\ c[1] = x /\ c[2] = y
  OBVIOUS
<1>. HIDE DEF a, b, c
<1>2. d \in Seq(Call) /\ Len(d) = 2 /\ d[1] = x /\ d[2] = y
  BY <1>1, ConcatProperties DEF a, b
<1>. HIDE DEF d
<1>3. \A i \in 1 .. 2 : c[i] = d[i]
  BY <1>1, <1>2
<1>4. c = d
  BY <1>1, <1>2, <1>3, SeqEqual
<1>5. d \o r = a \o (b \o r)
  BY <1>1, ConcatAssociative DEF d
<1>. QED  BY <1>4, <1>5 DEF a, b, c

\* FOCUS has been handled: the element shows it; UNFOCUS: no more.
LEMMA FocusConclude ==
  ASSUME MouseInv, FocusInv, Conclude, ~Mild(Top)
  PROVE  FocusInv'
<1>1. /\ calls # <<>> /\ Top.op \in {"deliver", "delivered", "dispatch", "dispatched"} /\ focus' = focus
      /\ state' = [state EXCEPT ![Top.e] = Transition(Top.e, Top.arg, Top.b)]
  BY DEF Conclude
<1>2. calls \in Seq(Call) /\ Top \in Call /\ Top.e \in Elem /\ state \in [Elem -> Shown]
  BY <1>1, Types DEF CallOK, MouseInv, TypeOK
<1>3. Rest \in Seq(Call) /\ Chained(Rest) /\ Link(Top, First(Rest)) /\ First(calls) = Top
  BY <1>1, <1>2, Exposes DEF FocusInv, Rest, Top
<1>4. Focuses(Top) \/ Unfocuses(Top)
  BY <1>1, <1>3 DEF Link
<1>5. calls' = Rest
  BY <1>4 DEF Conclude, Focuses, Unfocuses
<1>. DEFINE e == Top.e
            d == First(Rest)
<1>6. Shows' = IF Focuses(Top) THEN Shows \cup {e} ELSE Shows \ {e}
  <2>1. state'[e].focus = Focuses(Top)
    BY <1>1, <1>2, <1>4 DEF Transition, Focuses, Unfocuses
  <2>2. \A x \in Elem : x # e => state'[x] = state[x]
    BY <1>1, <1>2
  <2>. QED  BY <1>2, <2>1, <2>2 DEF Shows
<1>7. First(calls') = d
  BY <1>5
<1>8. CASE Focuses(Top)
  <2>1. d.op = "unfocus" /\ d.e = e
    BY <1>3, <1>8 DEF Link, Focuses, Unfocuses
  <2>2. Shows = {focus} \ {None} /\ focus # e
    BY <1>3, <1>8 DEF FocusInv, Showing, Focuses, Unfocuses
  <2>3. Shows' = {focus, e} \ {None}
    BY <1>2, <1>6, <1>8, <2>2, PointerAssumption
  <2>. HIDE DEF e, d
  <2>4. Showing'
    BY <1>1, <1>7, <2>1, <2>2, <2>3 DEF Showing, Focuses, Unfocuses
  <2>. QED  BY <1>3, <1>5, <2>4 DEF FocusInv
<1>9. CASE Unfocuses(Top)
  <2>0. ~Focuses(Top)
    BY <1>9 DEF Focuses, Unfocuses
  <2>1. d.op = "setfocus" /\ d.e # e
    BY <1>3, <1>9, <2>0 DEF Link, Unfocuses
  <2>2. focus = e /\ Shows = {focus, d.e}
    BY <1>3, <1>9 DEF FocusInv, Showing, Unfocuses
  <2>3. Shows' = {d.e}
    BY <1>6, <2>0, <2>1, <2>2
  <2>. HIDE DEF e, d
  <2>4. Showing'
    BY <1>7, <2>1, <2>3 DEF Showing, Focuses, Unfocuses
  <2>. QED  BY <1>3, <1>5, <2>4 DEF FocusInv
<1>. QED  BY <1>4, <1>8, <1>9

\* A handler that moves the focus: to another element than its own, if that is
\* the one about to have it.
LEMMA HandlerFocuses ==
  ASSUME OrderlyMoves, MouseInv, FocusInv, NEW g \in Elem, HandlerFocus(g)
  PROVE  FocusInv'
<1>. DEFINE x == Do("focus", g)
            y == [Top EXCEPT !.op = IF @ = "deliver" THEN "delivered" ELSE "dispatched"]
<1>1. /\ calls # <<>> /\ Top.op \in {"deliver", "dispatch"} /\ <<Top.arg, Top.e, g>> \in FocusMoves
      /\ calls' = <<x, y>> \o Rest /\ focus' = focus /\ state' = state
  BY DEF HandlerFocus
<1>2. calls \in Seq(Call) /\ Top \in Call
  BY <1>1, Types
<1>3. Rest \in Seq(Call) /\ Chained(Rest) /\ Link(Top, First(Rest)) /\ First(calls) = Top
  BY <1>1, <1>2, Exposes DEF FocusInv, Rest, Top
<1>4. x \in Call /\ x.op = "focus" /\ x.e = g
  BY DoFacts
<1>5. /\ y \in Call /\ y.e = Top.e /\ y.arg = Top.arg
      /\ \/ Top.op = "deliver" /\ y.op = "delivered"
         \/ Top.op = "dispatch" /\ y.op = "dispatched"
  BY <1>1, <1>2 DEF Call, OpName
<1>6. Top.arg # "UNFOCUS" /\ (Top.arg = "FOCUS" => Top.e # g)
  <2>. DEFINE m == <<Top.arg, Top.e, g>>
  <2>1. m[1] # "UNFOCUS" /\ (m[1] = "FOCUS" => m[2] # m[3])
    BY <1>1 DEF OrderlyMoves
  <2>. QED  BY <2>1
<1>. HIDE DEF x, y
<1>7. Link(y, First(Rest)) /\ Link(x, y)
  <2>. DEFINE d == First(Rest)
  <2>1. Link(Top, d)
    BY <1>3
  <2>. HIDE DEF d
  <2>2. CASE Focuses(Top)
    BY <1>1, <1>4, <1>5, <1>6, <2>1, <2>2 DEF Link, Focuses, Unfocuses, Mild, d
  <2>3. CASE ~Focuses(Top)
    BY <1>1, <1>4, <1>5, <1>6, <2>1, <2>3 DEF Link, Focuses, Unfocuses, Mild, d
  <2>. QED  BY <2>2, <2>3
<1>8. /\ <<y>> \o Rest \in Seq(Call) /\ First(<<y>> \o Rest) = y /\ Chained(<<y>> \o Rest)
      /\ calls' = <<x>> \o (<<y>> \o Rest)
  <2>. DEFINE r == <<y>> \o Rest
  <2>1. r \in Seq(Call) /\ r # <<>> /\ Head(r) = y
    BY <1>3, <1>5, Put
  <2>2. Chained(r)
    BY <1>3, <1>5, <1>7, Linked
  <2>3. calls' = <<x>> \o r
    <3>. QED  BY <1>1, <1>3, <1>4, <1>5, PairInFront
  <2>. QED  BY <2>1, <2>2, <2>3 DEF First
<1>9. Chained(calls') /\ First(calls') = x
  <2>. DEFINE r == <<y>> \o Rest
  <2>1. r \in Seq(Call) /\ Link(x, First(r)) /\ Chained(r) /\ calls' = <<x>> \o r
    BY <1>7, <1>8
  <2>. HIDE DEF r
  <2>. QED  BY <1>4, <2>1, Heads
<1>10. Shows = {focus} \ {None} /\ Shows' = Shows
  BY <1>1, <1>3, <1>6 DEF FocusInv, Showing, Unfocuses, Shows
<1>11. Showing'
  BY <1>1, <1>4, <1>9, <1>10 DEF Showing, Unfocuses, Focuses
<1>. QED  BY <1>9, <1>11 DEF FocusInv

\* rtb_window_focus_element begins: FOCUS is to be sent, but not to the element
\* that has the focus.
LEMMA FocusBegins ==
  ASSUME MouseInv, FocusInv, FocusElement PROVE FocusInv'
<1>. DEFINE x == Deliver(Top.e, "FOCUS")
            y == Do("unfocus", Top.e)
            d == First(Rest)
<1>1. /\ calls # <<>> /\ Top.op = "focus" /\ focus' = focus /\ state' = state
      /\ \/ focus = Top.e /\ calls' = <<>> \o Rest
         \/ focus # Top.e /\ calls' = <<x, y>> \o Rest
  BY DEF FocusElement, Running
<1>2. calls \in Seq(Call) /\ Top \in Call /\ Top.e \in Elem
  BY <1>1, Types DEF CallOK
<1>3. Rest \in Seq(Call) /\ Chained(Rest) /\ Link(Top, d) /\ First(calls) = Top
  BY <1>1, <1>2, Exposes DEF FocusInv, Rest, Top
<1>4. Mild(d) \/ (d.op = "delivered" /\ d.arg = "FOCUS" /\ d.e # Top.e)
  BY <1>1, <1>3 DEF Link, Focuses, Unfocuses
<1>5. Shows = {focus} \ {None} /\ Shows' = Shows
  BY <1>1, <1>3 DEF FocusInv, Showing, Unfocuses, Shows
<1>6. CASE focus = Top.e
  <2>1. calls' = Rest
    BY <1>1, <1>3, <1>6, ConcatEmptySeq
  <2>2. First(calls') = d
    BY <2>1
  <2>. HIDE DEF d
  <2>3. Showing'
    BY <1>1, <1>4, <1>5, <1>6, <2>2 DEF Showing, Mild, Focuses, Unfocuses
  <2>. QED  BY <1>3, <2>1, <2>3 DEF FocusInv
<1>7. CASE focus # Top.e
  <2>. DEFINE r == <<y>> \o Rest
  <2>1. /\ x \in Call /\ x.op = "deliver" /\ x.arg = "FOCUS" /\ x.e = Top.e
        /\ y \in Call /\ y.op = "unfocus" /\ y.e = Top.e
    BY <1>2, DeliverFacts, DoFacts
  <2>2. calls' = <<x, y>> \o Rest
    BY <1>1, <1>7
  <2>. HIDE DEF x, y, d
  <2>3. Link(x, y) /\ Link(y, d)
    BY <1>4, <2>1 DEF Link, Focuses, Unfocuses
  <2>4. r \in Seq(Call) /\ First(r) = y /\ Chained(r)
    BY <1>3, <2>1, <2>3, Put, Linked DEF First, d
  <2>5. calls' = <<x>> \o r
    BY <1>3, <2>1, <2>2, PairInFront
  <2>. HIDE DEF r
  <2>6. Chained(calls') /\ First(calls') = x
    BY <2>1, <2>3, <2>4, <2>5, Heads
  <2>7. Showing'
    BY <1>1, <1>5, <1>7, <2>1, <2>6 DEF Showing, Focuses, Unfocuses
  <2>. QED  BY <2>6, <2>7 DEF FocusInv
<1>. QED  BY <1>6, <1>7

\* UNFOCUS is to be sent to whatever has the focus by then.
LEMMA FocusGoesOn ==
  ASSUME MouseInv, FocusInv, Unfocus PROVE FocusInv'
<1>. DEFINE x == Deliver(focus, "UNFOCUS")
            y == [Top EXCEPT !.op = "setfocus"]
            d == First(Rest)
            r == <<y>> \o Rest
<1>1. /\ calls # <<>> /\ Top.op = "unfocus" /\ focus' = focus /\ state' = state
      /\ \/ focus = None /\ calls' = <<>> \o <<y>> \o Rest
         \/ focus # None /\ calls' = <<x>> \o <<y>> \o Rest
  BY DEF Unfocus, Running
<1>2. /\ calls \in Seq(Call) /\ Top \in Call /\ Top.e \in Elem /\ focus \in Elem \cup {None}
  BY <1>1, Types DEF CallOK, MouseInv, TypeOK
<1>3. Rest \in Seq(Call) /\ Chained(Rest) /\ Link(Top, d) /\ First(calls) = Top
  BY <1>1, <1>2, Exposes DEF FocusInv, Rest, Top
<1>4. Mild(d) \/ (d.op = "delivered" /\ d.arg = "FOCUS" /\ d.e # Top.e)
  BY <1>1, <1>3 DEF Link, Focuses, Unfocuses
<1>5. focus # Top.e /\ Shows = {focus, Top.e} \ {None} /\ Shows' = Shows
  BY <1>1, <1>3 DEF FocusInv, Showing, Unfocuses, Shows
<1>6. y \in Call /\ y.op = "setfocus" /\ y.e = Top.e
  BY <1>2 DEF Call, OpName
<1>7. focus # None => x \in Call /\ x.op = "deliver" /\ x.arg = "UNFOCUS" /\ x.e = focus
  BY <1>2, DeliverFacts
<1>. HIDE DEF x, y, d
<1>8. Link(y, d)
  BY <1>4, <1>6 DEF Link, Focuses, Unfocuses
<1>9. r \in Seq(Call) /\ First(r) = y /\ Chained(r)
  BY <1>3, <1>6, <1>8, Put, Linked DEF First, d
<1>10. CASE focus = None
  <2>1. <<>> \o <<y>> = <<y>>
    BY <1>6
  <2>2. calls' = r
    BY <1>1, <1>10, <2>1
  <2>3. Shows' = {y.e}
    BY <1>2, <1>5, <1>6, <1>10, PointerAssumption
  <2>. HIDE DEF r
  <2>4. Showing'
    BY <1>6, <1>9, <2>2, <2>3 DEF Showing, Unfocuses
  <2>. QED  BY <1>9, <2>2, <2>4 DEF FocusInv
<1>11. CASE focus # None
  <2>1. calls' = <<x>> \o r
    <3>1. <<x>> \in Seq(Call) /\ <<y>> \in Seq(Call)
      BY <1>6, <1>7, <1>11
    <3>2. (<<x>> \o <<y>>) \o Rest = <<x>> \o (<<y>> \o Rest)
      BY <1>3, <3>1, ConcatAssociative
    <3>. QED  BY <1>1, <1>11, <3>2
  <2>2. x \in Call /\ x.op = "deliver" /\ x.arg = "UNFOCUS" /\ x.e = focus
    BY <1>7, <1>11
  <2>3. Link(x, First(r))
    BY <1>5, <1>6, <1>9, <2>2 DEF Link, Focuses, Unfocuses
  <2>. HIDE DEF r
  <2>4. Chained(calls') /\ First(calls') = x /\ Rest' = r
    BY <1>9, <2>1, <2>2, <2>3, Heads
  <2>5. First(Rest') = y
    BY <1>9, <2>4
  <2>6. Shows' = {focus, y.e}
    BY <1>2, <1>5, <1>6, <1>11, PointerAssumption
  <2>7. Unfocuses(x)
    BY <2>2 DEF Unfocuses
  <2>8. Showing'
    BY <1>1, <2>2, <2>4, <2>5, <2>6, <2>7 DEF Showing
  <2>. QED  BY <2>4, <2>8 DEF FocusInv
<1>. QED  BY <1>10, <1>11

\* The focus changes at last: it is the one element that shows it.
LEMMA FocusArrives ==
  ASSUME MouseInv, FocusInv, SetFocus PROVE FocusInv'
<1>. DEFINE d == First(Rest)
<1>1. calls # <<>> /\ Top.op = "setfocus" /\ focus' = Top.e /\ calls' = Rest /\ state' = state
  BY DEF SetFocus, Running
<1>2. calls \in Seq(Call) /\ Top \in Call /\ Top.e \in Elem
  BY <1>1, Types DEF CallOK
<1>3. Rest \in Seq(Call) /\ Chained(Rest) /\ Link(Top, d) /\ First(calls) = Top
  BY <1>1, <1>2, Exposes DEF FocusInv, Rest, Top
<1>4. Mild(d) \/ (d.op = "delivered" /\ d.arg = "FOCUS" /\ d.e # Top.e)
  BY <1>1, <1>3 DEF Link, Focuses, Unfocuses
<1>5. Shows = {Top.e} /\ Shows' = Shows
  BY <1>1, <1>3 DEF FocusInv, Showing, Unfocuses, Shows
<1>6. Shows' = {focus'} \ {None}
  BY <1>1, <1>2, <1>5, PointerAssumption
<1>7. First(calls') = d
  BY <1>1
<1>. HIDE DEF d
<1>8. Showing'
  BY <1>1, <1>4, <1>6, <1>7 DEF Showing, Mild, Focuses, Unfocuses
<1>. QED  BY <1>1, <1>3, <1>8 DEF FocusInv

LEMMA InitFocuses == Init => FocusInv
<1>. SUFFICES ASSUME Init PROVE FocusInv
  OBVIOUS
<1>1. Len(calls) = 0 /\ First(calls) = NoCall
  BY DEF Init, First
<1>2. Chained(calls)
  BY <1>1 DEF Chained
<1>3. Shows = {focus} \ {None}
  BY DEF Init, Shows
<1>4. Showing
  BY <1>1, <1>3, NoCallMild DEF Showing, Focuses, Unfocuses
<1>. QED  BY <1>2, <1>4 DEF FocusInv

LEMMA NextFocuses ==
  ASSUME OrderlyMoves, MouseInv, FocusInv, [Next]_vars
  PROVE  FocusInv'
<1>1. CASE Event
  BY <1>1, EventsMild, QuietStep
<1>2. CASE Step
  <2>1. CASE MotionBody \/ EnterBody \/ ExitBody \/ Rise \/ Descend \/ Clear
    BY <2>1, WalksMild, QuietStep
  <2>2. CASE Cross \/ Drag \/ ReleaseBody
    BY <2>2, ButtonsMild, QuietStep
  <2>3. CASE Conclude
    BY <2>3, MildConclude, FocusConclude
  <2>4. ASSUME NEW g \in Elem, HandlerFocus(g) PROVE FocusInv'
    BY <2>4, HandlerFocuses
  <2>5. CASE FocusElement \/ Unfocus \/ SetFocus
    BY <2>5, FocusBegins, FocusGoesOn, FocusArrives
  <2>. QED  BY <1>2, <2>1, <2>2, <2>3, <2>4, <2>5 DEF Step
<1>3. CASE UNCHANGED vars
  <2>1. calls' = calls /\ focus' = focus /\ state' = state
    BY <1>3 DEF vars
  <2>. QED  BY <2>1 DEF FocusInv, Showing, Shows, Rest
<1>. QED  BY <1>1, <1>2, <1>3 DEF Next

\* For every tree and every depth of nesting: between events the element that
\* looks focused is win->focus, and it is the only one, if no handler of UNFOCUS
\* moves the focus and none of FOCUS gives it to its own element.
THEOREM FocusIsOne == OrderlyMoves => (Spec => []FocusAgrees)
<1>. SUFFICES ASSUME OrderlyMoves PROVE Spec => []FocusAgrees
  OBVIOUS
<1>1. MouseInv /\ FocusInv /\ [Next]_vars => FocusInv'
  BY NextFocuses
<1>2. FocusInv => FocusAgrees
  BY NoCallMild DEF FocusInv, Showing, FocusAgrees, Idle, First, Shows, Unfocuses
<1>. QED  BY <1>1, <1>2, InitInv, NextInv, InitFocuses, PTL DEF Spec
===============================================================================
